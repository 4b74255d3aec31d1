--------------------------- MODULE MCBulkRemoval ---------------------------
(* BulkRemoval for TLC. *)
EXTENDS BulkRemoval

CONSTANTS m1, m2, m3, p1, p2, l1, g1

Policy(kind, phone, lid, expires) ==
    [kind |-> kind, phone |-> phone, lid |-> lid, wa |-> None,
     group |-> Everywhere, expires |-> expires]

\* m1 and m3 come from p1; m2 from p2, whose digits contain those of p1, and
\* with a LID.
PhoneEach == [m \in Messages |-> IF m = m2 THEN p2 ELSE p1]
LidEach == [m \in Messages |-> IF m = m2 THEN l1 ELSE None]
OneGroup == [m \in Messages |-> g1]
AllAtOne == [o \in Operators |-> p1]
Contains == [p \in Phones |-> IF p = p1 THEN {p1, p2} ELSE {p}]

\* The LID is on the allowlist for good, p1 for a time; an administrator may
\* take p1 from the allowlist, or put p2 there.
ForATime == {Policy("bypass", p1, None, TRUE)}
Beginning == {Policy("bypass", None, l1, FALSE)} \cup ForATime
ForGood == {Policy("bypass", p2, None, FALSE)}

=============================================================================
