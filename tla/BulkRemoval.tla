---------------------------- MODULE BulkRemoval ----------------------------
(***************************************************************************)
(* The policies on senders (PhonePoliciesService) and those who use them:  *)
(* the enforcement, which judges each message that arrives, and the two    *)
(* bulk removals (GroupMessagesRemovalService), which an operator starts   *)
(* from a script while messages keep arriving.  remove-by-phone blacklists *)
(* a phone and removes what it has sent; remove-spam removes the messages  *)
(* that contain a text.                                                    *)
(*                                                                         *)
(* A phone, a LID and a group are names.  Removal jobs appear as what the  *)
(* pipeline promises: they are executed some time, once or more.  What the *)
(* enforcement does in Redis, and its kicks, are in module Moderation.     *)
(***************************************************************************)
EXTENDS Integers, FiniteSets

CONSTANTS
    Messages, Phones, Lids, Groups,
    PhoneOf, LidOf, GroupOf,    \* of each message; the first two may be None
    Untraceable,    \* messages whose provider instance is not known
    Spam,           \* messages whose text contains a filter of remove-spam
    Hits,           \* messages on which the content filter fires
    Operators,      \* runs of remove-by-phone
    Target,         \* the phone of each of them
    Similar,        \* the phones that contain the digits of a phone
    Sweeps,         \* runs of remove-spam
    AllDays,        \* runs with the option "all"
    Limited,        \* runs with a limit
    Initial,        \* the policies to begin with
    Addable,        \* policies an administrator may add
    Withdrawable,   \* policies an administrator may delete
    MaxEdits,       \* bound: what administrators do, policies that expire
    MaxMishaps,     \* bound: statements that throw
    None, Everywhere

Runs == Operators \cup Sweeps

PolicyRow ==
    [kind : {"blacklist", "bypass"}, phone : Phones \cup {None},
     lid : Lids \cup {None}, wa : Phones \cup {None},
     group : Groups \cup {Everywhere}, expires : BOOLEAN]

ASSUME BulkRemovalAssumption ==
    /\ None \notin Phones \cup Lids /\ Everywhere \notin Groups
    /\ Operators \cap Sweeps = {}
    /\ PhoneOf \in [Messages -> Phones \cup {None}]
    /\ LidOf \in [Messages -> Lids \cup {None}]
    /\ GroupOf \in [Messages -> Groups]
    /\ Target \in [Operators -> Phones]
    /\ Similar \in [Phones -> SUBSET Phones]
    /\ \A p \in Phones : p \in Similar[p]
    /\ Initial \cup Addable \subseteq PolicyRow
    /\ {MaxEdits, MaxMishaps} \subseteq Nat

VARIABLES
    rows,       \* phone_policies
    expired,    \* those of them whose expires_at has passed
    at,         \* group_messages: how far the enforcement of each has come
    old,        \* messages sent on a day that is over
    step,       \* what each run does next
    found,      \* what a run has fetched
    spared,     \* what of it an allowlist policy excludes
    recorded,   \* message_moderations of version manual-v1
    handed,     \* delete_message jobs that were handed over, and by whom
    kicked,     \* remove_participant jobs that a bulk removal handed over
    deleted,    \* messages the provider has deleted
    removed,    \* group_messages: removed_at is set
    edits, mishaps

policies == <<rows, expired, edits>>
runs == <<step, found, spared>>
effects == <<recorded, handed, kicked, deleted, removed>>
vars == <<policies, at, old, runs, effects, mishaps>>

-----------------------------------------------------------------------------

Judging == {"stored", "blacklist", "addPolicy", "enqueue"}
Judged == {"exempt", "passed", "unreachable", "enforced", "threw"}
Place == {"absent"} \cup Judging \cup Judged

Executing == {"allowlist", "add", "fetch", "record", "publish"}
Ended == {"refused", "nothing", "aborted", "threw", "done"}
Step == {"new", "count", "confirm"} \cup Executing \cup Ended

Origin == {"bulk", "enforcement"}

BulkTypeOK ==
    /\ rows \subseteq PolicyRow /\ expired \subseteq rows
    /\ at \in [Messages -> Place]
    /\ old \subseteq Messages
    /\ step \in [Runs -> Step]
    /\ found \in [Runs -> SUBSET Messages]
    /\ spared \in [Runs -> SUBSET Messages]
    /\ recorded \subseteq Messages
    /\ handed \subseteq Messages \X Origin
    /\ kicked \subseteq Groups \X Phones
    /\ deleted \subseteq Messages /\ removed \subseteq deleted
    /\ edits \in 0..MaxEdits /\ mishaps \in 0..MaxMishaps

Init ==
    /\ rows = Initial /\ expired = {}
    /\ at = [m \in Messages |-> "absent"]
    /\ old = {}
    /\ step = [r \in Runs |-> IF r \in Operators THEN "new" ELSE "count"]
    /\ found = [r \in Runs |-> {}] /\ spared = [r \in Runs |-> {}]
    /\ recorded = {} /\ handed = {} /\ kicked = {}
    /\ deleted = {} /\ removed = {}
    /\ edits = 0 /\ mishaps = 0

Mishap == mishaps < MaxMishaps /\ mishaps' = mishaps + 1
NoMishap == UNCHANGED mishaps

-----------------------------------------------------------------------------
(* PhonePoliciesService. *)

InForce == rows \ expired

\* The two unique indexes, which know nothing of expires_at.
Conflicts(new) ==
    \E r \in rows : /\ r.kind = new.kind /\ r.group = new.group
                    /\ \/ r.phone = new.phone /\ new.phone # None
                       \/ r.lid = new.lid /\ new.lid # None

\* add: a conflict leaves the table alone.
Added(new) == IF Conflicts(new) THEN rows ELSE rows \cup {new}

\* isBypassed, isBlacklisted: the more specific policy comes first, but a
\* policy of either scope answers the question.
FindMatch(kind, m) ==
    {r \in InForce : /\ r.kind = kind
                     /\ r.group \in {GroupOf[m], Everywhere}
                     /\ \/ PhoneOf[m] # None /\ PhoneOf[m] \in {r.phone, r.wa}
                        \/ LidOf[m] # None /\ LidOf[m] = r.lid}

Edit == edits < MaxEdits /\ edits' = edits + 1

\* The routes POST and DELETE of blacklist and bypass, and time.
Add(new) ==
    /\ ~Conflicts(new)
    /\ Edit
    /\ rows' = Added(new)
    /\ UNCHANGED <<expired, at, old, runs, effects, mishaps>>

Remove(r) ==
    /\ r \in rows
    /\ Edit
    /\ rows' = rows \ {r}
    /\ expired' = expired \ {r}
    /\ UNCHANGED <<at, old, runs, effects, mishaps>>

Expire(r) ==
    /\ r \in InForce /\ r.expires
    /\ Edit
    /\ expired' = expired \cup {r}
    /\ UNCHANGED <<rows, at, old, runs, effects, mishaps>>

-----------------------------------------------------------------------------
(* A message arrives and is judged: evaluateAndEnforce. *)

Goes(m, place) == at' = [at EXCEPT ![m] = place]

\* The row is inserted before anything else; a message may be reported late.
Store(m) ==
    /\ at[m] = "absent"
    /\ Goes(m, "stored")
    /\ old' \in {old, old \cup {m}}
    /\ UNCHANGED <<policies, runs, effects, mishaps>>

\* What throws here, or before, is logged, and nobody judges the message.
JudgeFails(m) ==
    /\ at[m] \in Judging
    /\ Goes(m, "threw") /\ Mishap
    /\ UNCHANGED <<policies, old, runs, effects>>

ReadBypass(m) ==
    /\ at[m] = "stored"
    /\ Goes(m, IF m \in Untraceable \/ FindMatch("bypass", m) # {}
               THEN "exempt" ELSE "blacklist")
    /\ UNCHANGED <<policies, old, runs, effects, mishaps>>

\* The next step for a message that has to go.
ToRemove(m) == IF PhoneOf[m] = None THEN "unreachable" ELSE "enqueue"

ReadBlacklist(m) ==
    /\ at[m] = "blacklist"
    /\ Goes(m, CASE FindMatch("blacklist", m) # {} -> ToRemove(m)
                 [] FindMatch("blacklist", m) = {} /\ m \in Hits -> "addPolicy"
                 [] OTHER -> "passed")
    /\ UNCHANGED <<policies, old, runs, effects, mishaps>>

AutoRow(m) == [kind |-> "blacklist", phone |-> PhoneOf[m], lid |-> LidOf[m],
               wa |-> None, group |-> Everywhere, expires |-> FALSE]

\* What add throws is swallowed.
AutoAdd(m) ==
    /\ at[m] = "addPolicy"
    /\ Goes(m, ToRemove(m))
    /\ \/ rows' = Added(AutoRow(m)) /\ NoMishap
       \/ UNCHANGED rows /\ Mishap
    /\ UNCHANGED <<expired, edits, old, runs, effects>>

EnqueueDelete(m) ==
    /\ at[m] = "enqueue"
    /\ Goes(m, "enforced")
    /\ handed' = handed \cup {<<m, "enforcement">>}
    /\ UNCHANGED <<policies, old, runs, recorded, kicked, deleted, removed, mishaps>>

\* Midnight: CURRENT_DATE moves on.
Midnight ==
    /\ old' = old \cup {m \in Messages : at[m] # "absent"}
    /\ UNCHANGED <<policies, at, runs, effects, mishaps>>

-----------------------------------------------------------------------------
(* GroupMessagesRemovalService and the scripts that call it. *)

Moves(r, next) == step' = [step EXCEPT ![r] = next]

\* findAllowlistForPhone: by phone, whatever the group, and not by wa_id.
Allowlist(p) == {r \in InForce : r.kind = "bypass" /\ r.phone = p}

\* The predicate of each removal.
Wanted(r, m) ==
    IF r \in Sweeps THEN m \in Spam
                    ELSE PhoneOf[m] \in Similar[Target[r]]

\* fetchRemovalRows, before LIMIT.
Rows(r) ==
    {m \in Messages : /\ at[m] # "absent"
                      /\ m \notin removed /\ m \notin Untraceable
                      /\ Wanted(r, m)
                      /\ r \in AllDays \/ m \notin old}

SparesByPhone(p, m) == PhoneOf[m] # None /\ p.phone = PhoneOf[m]    \* mutant

\* The LATERAL JOIN: by phone or by LID, and not by wa_id.
Spares(p, m) == \/ PhoneOf[m] # None /\ p.phone = PhoneOf[m]
                \/ LidOf[m] # None /\ p.lid = LidOf[m]

Spared(messages) ==
    {m \in messages : \E p \in InForce : /\ p.kind = "bypass"
                                         /\ Spares(p, m)
                                         /\ p.group \in {GroupOf[m], Everywhere}}

\* The script looks first, and asks only if there is something to remove.
PreviewAllowlist(o) ==
    /\ step[o] = "new"
    /\ Moves(o, IF Allowlist(Target[o]) # {} THEN "refused" ELSE "count")
    /\ UNCHANGED <<policies, at, old, found, spared, effects, mishaps>>

PreviewCount(r) ==
    /\ step[r] = "count"
    /\ Moves(r, IF Rows(r) \ Spared(Rows(r)) = {} THEN "nothing" ELSE "confirm")
    /\ UNCHANGED <<policies, at, old, found, spared, effects, mishaps>>

Begin(r) == IF r \in Operators THEN "allowlist" ELSE "fetch"

\* What promptYesNo may lead to.
Answers(r) == {Begin(r), "aborted"}

Confirm(r) ==
    /\ step[r] = "confirm"
    /\ \E next \in Answers(r) : Moves(r, next)
    /\ UNCHANGED <<policies, at, old, found, spared, effects, mishaps>>

FetchesFirst ==                                                     \* mutant
    [allowlist |-> "fetch", fetch |-> "add", add |-> "record",
     record |-> "publish", publish |-> "done"]

\* The order of the steps of executeByPhone and executeBySpam.
After == [allowlist |-> "add", add |-> "fetch", fetch |-> "record",
          record |-> "publish", publish |-> "done"]

RunFails(r) ==
    /\ step[r] \in Executing \ {"record"}
    /\ Moves(r, "threw") /\ Mishap
    /\ UNCHANGED <<policies, at, old, found, spared, effects>>

CheckAllowlist(o) ==
    /\ step[o] = "allowlist"
    /\ Moves(o, IF Allowlist(Target[o]) # {} THEN "refused" ELSE After.allowlist)
    /\ UNCHANGED <<policies, at, old, found, spared, effects, mishaps>>

ManualRow(p) == [kind |-> "blacklist", phone |-> p, lid |-> None, wa |-> None,
                 group |-> Everywhere, expires |-> FALSE]

\* ensureBlacklisted: a conflict counts as "already blacklisted" if the driver's
\* error is recognised as one, and what it throws may come after the commit.
EnsureBlacklisted(o) ==
    /\ step[o] = "add"
    /\ rows' = Added(ManualRow(Target[o]))
    /\ \/ Moves(o, After.add) /\ NoMishap
       \/ Moves(o, "threw") /\ IF Conflicts(ManualRow(Target[o])) THEN NoMishap
                                                                ELSE Mishap
    /\ UNCHANGED <<expired, edits, at, old, found, spared, effects>>

Fetch(r) ==
    /\ step[r] = "fetch"
    /\ \E some \in IF r \in Limited THEN SUBSET Rows(r) ELSE {Rows(r)} :
         /\ found' = [found EXCEPT ![r] = some]
         /\ spared' = [spared EXCEPT ![r] = Spared(some)]
    /\ Moves(r, After.fetch)
    /\ UNCHANGED <<policies, at, old, effects, mishaps>>

Usable(r) == found[r] \ spared[r]

\* INSERT ... ON CONFLICT DO NOTHING, for each; a failure is logged.
RecordAll(r) ==
    /\ step[r] = "record"
    /\ \/ recorded' = recorded \cup Usable(r) /\ NoMishap
       \/ \E m \in Usable(r) : recorded' = recorded \cup (Usable(r) \ {m}) /\ Mishap
    /\ Moves(r, After.record)
    /\ UNCHANGED <<policies, at, old, found, spared, handed, kicked, deleted, removed>>

Members(messages) ==
    {<<GroupOf[m], PhoneOf[m]>> : m \in {x \in messages : PhoneOf[x] # None}}

\* One job per message, one per member; an enqueue that fails may have handed
\* over some of them.
Publish(r) ==
    /\ step[r] = "publish"
    /\ \/ /\ handed' = handed \cup (Usable(r) \X {"bulk"})
          /\ kicked' = kicked \cup Members(Usable(r))
          /\ Moves(r, After.publish) /\ NoMishap
       \/ /\ \E m \in Usable(r) : handed' = handed \cup ((Usable(r) \ {m}) \X {"bulk"})
          /\ kicked' \in {kicked, kicked \cup Members(Usable(r))}
          /\ Moves(r, "threw") /\ Mishap
    /\ UNCHANGED <<policies, at, old, found, spared, recorded, deleted, removed>>

DeletesAtBest(m) == deleted' \in {deleted, deleted \cup {m}}          \* mutant

\* provider.deleteMessage; what it throws ends the execution.
Deletes(m) == deleted' = deleted \cup {m}

\* A delete_message job is executed.  markRemoved finds the row if the job
\* carries the group, as those of the bulk removal do, and is best effort.
DeleteMessage(m, origin) ==
    /\ <<m, origin>> \in handed
    /\ m \notin deleted
    /\ Deletes(m)
    /\ \/ removed' = (IF origin = "bulk" THEN removed \cup {m} ELSE removed) /\ NoMishap
       \/ origin = "bulk" /\ UNCHANGED removed /\ Mishap
    /\ UNCHANGED <<policies, at, old, runs, recorded, handed, kicked>>

-----------------------------------------------------------------------------

Judge(m) ==
    \/ ReadBypass(m) \/ ReadBlacklist(m) \/ AutoAdd(m) \/ EnqueueDelete(m)

ByPhone(o) == PreviewAllowlist(o) \/ CheckAllowlist(o) \/ EnsureBlacklisted(o)

Run(r) ==
    \/ PreviewCount(r) \/ Confirm(r) \/ Fetch(r) \/ RecordAll(r) \/ Publish(r)

Next ==
    \/ \E p \in Addable : Add(p)
    \/ \E p \in Withdrawable : Remove(p)
    \/ \E p \in rows : Expire(p)
    \/ \E m \in Messages : Store(m) \/ Judge(m) \/ JudgeFails(m)
    \/ Midnight
    \/ \E o \in Operators : ByPhone(o)
    \/ \E r \in Runs : Run(r) \/ RunFails(r)
    \/ \E m \in Messages, origin \in Origin : DeleteMessage(m, origin)

Spec == Init /\ [][Next]_vars

-----------------------------------------------------------------------------
(* Properties. *)

Lists(p, phone) == p.kind = "blacklist" /\ p.phone = phone /\ p.group = Everywhere

\* The phone is on the global blacklist for good.
Steady(phone) ==
    /\ \E p \in rows : Lists(p, phone) /\ ~p.expires
    /\ \A p \in Withdrawable : ~Lists(p, phone)

InReach(o, m) ==
    /\ PhoneOf[m] = Target[o] /\ m \notin Untraceable
    /\ o \in AllDays \/ m \notin old

\* When remove-by-phone is done, none of the phone's messages slips through
\* between the removal and the enforcement: one that the enforcement let pass
\* was there to be found, and is handed over unless an allowlist policy spares
\* it.  About blacklisting before fetching, and storing before judging.
NoneSlipsThrough ==
    \A o \in Operators \ Limited, m \in Messages :
        step[o] = "done" /\ Steady(Target[o]) /\ InReach(o, m) /\ at[m] = "passed"
            => m \in removed \cup spared[o] \/ <<m, "bulk">> \in handed

\* Bypass policies that nobody takes back.
Standing == {p \in Initial \ Withdrawable : p.kind = "bypass" /\ ~p.expires}

Covers(p, m) ==
    /\ p.group \in {GroupOf[m], Everywhere}
    /\ \/ PhoneOf[m] # None /\ PhoneOf[m] = p.phone
       \/ LidOf[m] # None /\ LidOf[m] = p.lid

\* A message that such a policy covers, by phone or by LID, is never removed by
\* anyone, and a phone it covers everywhere is not kicked.  About the tests of
\* the enforcement and of both bulk removals, which differ.
ProtectedStay ==
    /\ \A m \in Messages :
         (\E p \in Standing : Covers(p, m)) =>
             \A origin \in Origin : <<m, origin>> \notin handed
    /\ \A p \in Standing, g \in Groups :
         p.group = Everywhere => <<g, p.phone>> \notin kicked

=============================================================================
