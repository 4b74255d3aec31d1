----------------------- MODULE ProviderInstancesProofs -----------------------
(***************************************************************************)
(* Theorems about ProviderInstances, for every set of rows, requests,      *)
(* workers, credentials and pool keys, and every patch that clients send.  *)
(***************************************************************************)
EXTENDS ProviderInstances, TLAPS

-----------------------------------------------------------------------------
(***************************************************************************)
(* The inductive invariant.  A request that has read a row goes on with    *)
(* what it read: the row is still there, with the same instance of the     *)
(* provider, and with the same credentials unless another request has      *)
(* written new ones, which marks this one stale.                           *)
(***************************************************************************)

Asking == {"create", "update", "refresh"}
OnARow == {"update", "refresh", "patch", "status", "mark", "zrem", "set"}

RequestOK(o) ==
    /\ o.pc \in OnARow => o.id \in Rows
    /\ o.pc \in Asking => o.external \in Externals
    /\ o.pc \in {"update", "refresh", "patch", "status", "mark"}
         => o.external = rows[o.id].external
    /\ o.pc \in {"insert", "patch"} => <<o.external, o.with>> \in accepted
    /\ o.pc = "mark" => <<o.external, o.with>> \in refused
    /\ o.pc \in {"update", "patch"} /\ ~o.stale
         => o.with = Effective(o.patch, rows[o.id].credentials)
    /\ o.pc \in {"refresh", "mark"} /\ ~o.stale => o.with = rows[o.id].credentials

RequestsOK == \A r \in Requests : RequestOK(op[r])

\* What keeps an ejected instance out: it is in no pool, and no worker has a lease of it
\* whose renewal or release would put it back.
EjectedStaysOut == \A p \in out \ held : p \notin pool /\ p \notin Leased

RegistryInv ==
    /\ InstancesTypeOK
    /\ RequestsOK
    /\ CredentialsWereTried
    /\ EjectionIsDue
    /\ EjectedStaysOut

-----------------------------------------------------------------------------
(* Types. *)

LEMMA IdleTyped ==
    /\ Idle \in OpRecord
    /\ Idle.pc = "idle" /\ Idle.id = NoId
    /\ NoRow \in Row /\ NoRow.external = NoExternal
<1>1. (CHOOSE c \in Credentials : TRUE) \in Credentials
  <2>1. PICK t \in Tokens, u \in ClientTokens : TRUE
    BY InstancesAssumption
  <2>2. [token |-> t, client |-> u] \in Credentials
    BY DEF Credentials
  <2>3. QED
    BY <2>2
<1>2. (CHOOSE k \in Keys : TRUE) \in Keys
  BY InstancesAssumption
<1>3. KeepAll \in Patch
  BY DEF KeepAll, Patch
<1>4. QED
  BY <1>1, <1>2, <1>3 DEF Idle, NoRow, OpRecord, Row, Strategies

LEMMA EffectiveTyped ==
    ASSUME NEW p \in Patch, NEW c \in Credentials
    PROVE  /\ Effective(p, c) \in Credentials
           /\ ~ChangesCredentials(p) => Effective(p, c) = c
BY DEF Effective, OrElse, Patch, Credentials, ChangesCredentials

LEMMA FaultTyped ==
    ASSUME InstancesTypeOK, Fault
    PROVE  faults' \in 0..MaxFaults /\ requests' \in 0..MaxRequests /\ boots' \in 0..MaxBoots
BY InstancesAssumption DEF Fault, InstancesTypeOK

LEMMA RegistryInit == Init => RegistryInv
<1> SUFFICES ASSUME Init PROVE RegistryInv
  OBVIOUS
<1>1. InstancesTypeOK
  BY IdleTyped, InstancesAssumption DEF Init, InstancesTypeOK, Pairs
<1>2. RequestsOK
  BY IdleTyped DEF Init, RequestsOK, RequestOK, OnARow, Asking
<1>3. Rows = {}
  BY IdleTyped DEF Init, Rows, IsNoRow
<1>4. QED
  BY <1>1, <1>2, <1>3 DEF Init, RegistryInv, CredentialsWereTried, EjectionIsDue,
     EjectedStaysOut

-----------------------------------------------------------------------------
(* Requests. *)

\* A row that is there stays, and stays with its instance.
RowsStay == \A i \in Rows : i \in Rows' /\ rows'[i].external = rows[i].external

\* A request that somebody else's step leaves alone, or marks stale.
LEMMA RequestKept ==
    ASSUME InstancesTypeOK, RowsStay, accepted \subseteq accepted', refused \subseteq refused',
           NEW q \in Requests, RequestOK(op[q]),
           \/ /\ op'[q] = op[q]
              /\ op[q].id \in Rows =>
                    rows'[op[q].id].credentials = rows[op[q].id].credentials
           \/ op'[q] = [op[q] EXCEPT !.stale = TRUE]
    PROVE  RequestOK(op[q])'
<1>1. op[q] \in OpRecord
  BY DEF InstancesTypeOK
<1>2. CASE op'[q] = op[q]
  BY <1>1, <1>2 DEF RequestOK, RowsStay, OnARow, Asking, OpRecord
<1>3. CASE op'[q] = [op[q] EXCEPT !.stale = TRUE]
  BY <1>1, <1>3 DEF RequestOK, RowsStay, OnARow, Asking, OpRecord
<1>4. QED
  BY <1>2, <1>3

\* The other requests, when r's step writes its own record.
LEMMA OthersKept ==
    ASSUME RegistryInv, RowsStay, accepted \subseteq accepted', refused \subseteq refused',
           \A i \in Rows : rows'[i].credentials = rows[i].credentials,
           NEW r \in Requests, NEW o \in OpRecord, op' = [op EXCEPT ![r] = o],
           o.pc = "idle" \/ RequestOK(op[r])'
    PROVE  RequestsOK' /\ op' \in [Requests -> OpRecord]
<1>1. InstancesTypeOK /\ op \in [Requests -> OpRecord]
  BY DEF RegistryInv, InstancesTypeOK
<1>2. op'[r] = o /\ \A q \in Requests : q # r => op'[q] = op[q]
  BY <1>1
<1>3. ASSUME NEW q \in Requests, q # r PROVE RequestOK(op[q])'
  <2>1. op'[q] = op[q] /\ RequestOK(op[q])
    BY <1>2, <1>3 DEF RegistryInv, RequestsOK
  <2>2. QED
    BY <1>1, <2>1, RequestKept
<1>4. o.pc = "idle" => RequestOK(op[r])'
  BY <1>2 DEF RequestOK, OnARow, Asking
<1>5. QED
  BY <1>1, <1>3, <1>4 DEF RequestsOK

\* A request begins with what it reads, and nothing else changes.
LEMMA BeginKeeps ==
    ASSUME RegistryInv, NEW r \in Requests, NEW o \in OpRecord, Begins(r, o), RequestOK(o)
    PROVE  RegistryInv'
<1>1. InstancesTypeOK /\ UNCHANGED <<registry, working, history, boots, faults>>
  BY DEF RegistryInv, Begins
<1>2. op' = [op EXCEPT ![r] = o] /\ requests' \in 0..MaxRequests
  BY <1>1, InstancesAssumption DEF Begins, InstancesTypeOK
<1>3. op'[r] = o /\ rows' = rows /\ accepted' = accepted /\ refused' = refused
  BY <1>1, <1>2 DEF InstancesTypeOK, registry, history
<1>4. RequestOK(op[r])'
  BY <1>3 DEF RequestOK, Rows
<1>5. RequestsOK' /\ op' \in [Requests -> OpRecord]
  BY <1>2, <1>3, <1>4, OthersKept DEF RowsStay, Rows
<1>6. InstancesTypeOK'
  BY <1>1, <1>2, <1>5 DEF InstancesTypeOK, registry, working, history
<1>7. QED
  BY <1>1, <1>5, <1>6 DEF RegistryInv, CredentialsWereTried, EjectionIsDue,
     EjectedStaysOut, Leased, Rows, registry, working, history

LEMMA BeginningsKeep ==
    ASSUME RegistryInv, NEW r \in Requests,
           Create(r) \/ \E i \in Ids : Update(r, i) \/ Refresh(r, i) \/ Enable(r, i)
    PROVE  RegistryInv'
<1>1. Idle \in OpRecord /\ InstancesTypeOK
  BY IdleTyped DEF RegistryInv
<1>2. CASE Create(r)
  <2>1. PICK x \in Externals, new \in Creations :
          Begins(r, [Idle EXCEPT !.pc = "create", !.external = x, !.with = new.with,
                                 !.key = new.key, !.strategy = new.strategy])
    BY <1>2 DEF Create
  <2> DEFINE o == [Idle EXCEPT !.pc = "create", !.external = x, !.with = new.with,
                                 !.key = new.key, !.strategy = new.strategy]
  <2>2. new.with \in Credentials /\ new.key \in Keys /\ new.strategy \in Strategies
    BY InstancesAssumption
  <2>3. o \in OpRecord /\ o.pc = "create" /\ o.external = x
    BY <1>1, <2>2 DEF OpRecord
  <2> HIDE DEF o
  <2>4. RequestOK(o)
    BY <2>3 DEF RequestOK, OnARow, Asking
  <2>5. Begins(r, o)
    BY <2>1 DEF o
  <2>6. QED
    BY <2>3, <2>4, <2>5, BeginKeeps
<1>3. ASSUME NEW i \in Ids, Update(r, i) PROVE RegistryInv'
  <2>1. PICK p \in Patches :
          Begins(r, [Idle EXCEPT !.pc = "update", !.id = i, !.external = rows[i].external,
                                 !.patch = p, !.with = Effective(p, rows[i].credentials)])
    BY <1>3 DEF Update
  <2> DEFINE o == [Idle EXCEPT !.pc = "update", !.id = i, !.external = rows[i].external,
                                 !.patch = p, !.with = Effective(p, rows[i].credentials)]
  <2>2. p \in Patch /\ rows[i] \in Row /\ i \in Rows
    BY <1>1, <1>3, InstancesAssumption DEF InstancesTypeOK, Update
  <2>3. /\ rows[i].credentials \in Credentials /\ rows[i].external \in Externals
        /\ Effective(p, rows[i].credentials) \in Credentials
    BY <2>2, EffectiveTyped DEF Row, Rows, IsNoRow
  <2>4. /\ o \in OpRecord /\ o.pc = "update" /\ o.external = rows[i].external /\ o.id = i
        /\ o.with = Effective(p, rows[i].credentials) /\ o.patch = p
    BY <1>1, <2>2, <2>3 DEF OpRecord
  <2> HIDE DEF o
  <2>5. RequestOK(o)
    BY <2>2, <2>3, <2>4 DEF RequestOK, OnARow, Asking
  <2>6. Begins(r, o)
    BY <2>1 DEF o
  <2>7. QED
    BY <2>4, <2>5, <2>6, BeginKeeps
<1>4. ASSUME NEW i \in Ids, Refresh(r, i) PROVE RegistryInv'
  <2> DEFINE o == [Idle EXCEPT !.pc = "refresh", !.id = i, !.external = rows[i].external,
                              !.with = rows[i].credentials, !.key = rows[i].key]
  <2>1. Begins(r, o) /\ rows[i] \in Row /\ i \in Rows
    BY <1>1, <1>4 DEF InstancesTypeOK, Refresh
  <2>2. /\ rows[i].credentials \in Credentials /\ rows[i].external \in Externals
        /\ rows[i].key \in Keys
    BY <2>1 DEF Row, Rows, IsNoRow
  <2>3. /\ o \in OpRecord /\ o.pc = "refresh" /\ o.external = rows[i].external /\ o.id = i
        /\ o.with = rows[i].credentials
    BY <1>1, <2>2 DEF OpRecord
  <2> HIDE DEF o
  <2>4. RequestOK(o)
    BY <2>1, <2>2, <2>3 DEF RequestOK, OnARow, Asking
  <2>5. QED
    BY <2>1, <2>3, <2>4, BeginKeeps
<1>5. ASSUME NEW i \in Ids, Enable(r, i) PROVE RegistryInv'
  <2> DEFINE o == [Idle EXCEPT !.pc = "set", !.id = i, !.desired = ~rows[i].enabled]
  <2>1. Begins(r, o) /\ i \in Rows
    BY <1>5 DEF Enable
  <2>2. o \in OpRecord /\ o.pc = "set" /\ o.id = i
    BY <1>1 DEF OpRecord
  <2> HIDE DEF o
  <2>3. RequestOK(o)
    BY <2>1, <2>2 DEF RequestOK, OnARow, Asking
  <2>4. QED
    BY <2>1, <2>2, <2>3, BeginKeeps
<1>6. QED
  BY <1>2, <1>3, <1>4, <1>5

\* The provider answers with credentials of the request's own.
LEMMA AnswersKeep ==
    ASSUME RegistryInv, NEW r \in Requests, Answers(r)
    PROVE  RegistryInv'
<1>1. /\ InstancesTypeOK /\ op[r] \in OpRecord /\ RequestOK(op[r])
      /\ op[r].pc \in Asking
      /\ UNCHANGED <<registry, working, out, held, mixed, bounds>>
  BY DEF RegistryInv, InstancesTypeOK, RequestsOK, Answers, Asking
<1>2. rows' = rows /\ RowsStay
  BY <1>1 DEF registry, RowsStay, Rows
<1>3. PICK s \in {"connected", "down"} :
        \/ /\ op' = [op EXCEPT ![r].pc = After(op[r].pc), ![r].seen = s]
           /\ accepted' = accepted \cup {<<op[r].external, op[r].with>>}
           /\ UNCHANGED refused
        \/ /\ IF op[r].pc = "refresh" THEN Goes(r, "mark") ELSE Ends(r)
           /\ refused' = refused \cup {<<op[r].external, op[r].with>>}
           /\ UNCHANGED accepted
  BY DEF Answers
<1>4. op[r].external \in Externals /\ op[r].with \in Credentials
  BY <1>1 DEF RequestOK, OpRecord
<1>5. /\ accepted \subseteq accepted' /\ accepted' \subseteq Externals \X Credentials
      /\ refused \subseteq refused' /\ refused' \subseteq Externals \X Credentials
  BY <1>1, <1>3, <1>4 DEF InstancesTypeOK
<1>6. \E o \in OpRecord :
        /\ op' = [op EXCEPT ![r] = o]
        /\ o.pc = "idle" \/ RequestOK(op[r])'
  <2>1. CASE /\ op' = [op EXCEPT ![r].pc = After(op[r].pc), ![r].seen = s]
             /\ accepted' = accepted \cup {<<op[r].external, op[r].with>>}
    <3> DEFINE o == [op[r] EXCEPT !.pc = After(op[r].pc), !.seen = s]
    <3>1. op' = [op EXCEPT ![r] = o]
      BY <2>1
    <3>2. /\ o \in OpRecord /\ o.pc = After(op[r].pc) /\ o.id = op[r].id
          /\ o.external = op[r].external /\ o.with = op[r].with
          /\ o.patch = op[r].patch /\ o.stale = op[r].stale
      BY <1>1 DEF OpRecord, After, Asking
    <3> HIDE DEF o
    <3>3. op'[r] = o
      BY <1>1, <3>1 DEF InstancesTypeOK
    <3>4. /\ op[r].pc = "create" => o.pc = "insert"
          /\ op[r].pc = "update" => o.pc = "patch"
          /\ op[r].pc = "refresh" => o.pc = "status"
      BY <3>2 DEF After
    <3>5. RequestOK(op[r])'
      BY <1>1, <1>2, <2>1, <3>2, <3>3, <3>4 DEF RequestOK, OnARow, Asking, Rows
    <3>6. QED
      BY <3>1, <3>2, <3>5
  <2>2. CASE /\ op[r].pc = "refresh" /\ Goes(r, "mark")
             /\ refused' = refused \cup {<<op[r].external, op[r].with>>}
    <3> DEFINE o == [op[r] EXCEPT !.pc = "mark"]
    <3>1. op' = [op EXCEPT ![r] = o]
      BY <2>2 DEF Goes
    <3>2. /\ o \in OpRecord /\ o.pc = "mark" /\ o.id = op[r].id
          /\ o.external = op[r].external /\ o.with = op[r].with
          /\ o.patch = op[r].patch /\ o.stale = op[r].stale
      BY <1>1 DEF OpRecord
    <3> HIDE DEF o
    <3>3. op'[r] = o
      BY <1>1, <3>1 DEF InstancesTypeOK
    <3>4. RequestOK(op[r])'
      BY <1>1, <1>2, <2>2, <3>2, <3>3 DEF RequestOK, OnARow, Asking, Rows
    <3>5. QED
      BY <3>1, <3>2, <3>4
  <2>3. CASE Ends(r)
    BY <2>3, IdleTyped DEF Ends
  <2>4. QED
    BY <1>3, <2>1, <2>2, <2>3
<1>7. RequestsOK' /\ op' \in [Requests -> OpRecord]
  BY <1>2, <1>5, <1>6, OthersKept
<1>8. InstancesTypeOK'
  BY <1>1, <1>5, <1>7 DEF InstancesTypeOK, registry, working, bounds
<1>9. CredentialsWereTried' /\ EjectionIsDue'
  BY <1>1, <1>2, <1>5 DEF RegistryInv, CredentialsWereTried, EjectionIsDue, Rows
<1>10. EjectedStaysOut'
  BY <1>1 DEF RegistryInv, EjectedStaysOut, Leased, registry, working
<1>11. QED
  BY <1>7, <1>8, <1>9, <1>10 DEF RegistryInv

-----------------------------------------------------------------------------
(* Writes of the row. *)

\* What a write may do to a row that is there.
LEMMA RowWritten ==
    ASSUME InstancesTypeOK, NEW i \in Rows, NEW row \in Row,
           rows' = [rows EXCEPT ![i] = row], row.external = rows[i].external
    PROVE  /\ rows' \in [Ids -> Row] /\ rows'[i] = row
           /\ \A k \in Ids : k # i => rows'[k] = rows[k]
           /\ RowsStay /\ Rows' = Rows
<1>1. i \in Ids /\ rows \in [Ids -> Row]
  BY DEF Rows, InstancesTypeOK
<1>2. QED
  BY <1>1 DEF RowsStay, Rows, IsNoRow

\* The pool and the workers do not see a write of the registry.
LEMMA WorkerUnmoved ==
    ASSUME EjectedStaysOut, UNCHANGED <<pool, working, out, held>>
    PROVE  EjectedStaysOut'
BY DEF EjectedStaysOut, Leased, working

LEMMA InsertKeeps ==
    ASSUME RegistryInv, NEW r \in Requests, Insert(r)
    PROVE  RegistryInv'
<1>1. /\ InstancesTypeOK /\ op[r] \in OpRecord /\ RequestOK(op[r]) /\ op[r].pc = "insert"
      /\ UNCHANGED <<pool, working, history, bounds>>
  BY DEF RegistryInv, InstancesTypeOK, RequestsOK, Insert
<1>2. op' = [op EXCEPT ![r] = Idle] /\ Idle \in OpRecord /\ Idle.pc = "idle"
  BY IdleTyped DEF Insert, Ends
<1>3. CASE rows' = rows
  <2>1. RequestsOK' /\ op' \in [Requests -> OpRecord]
    BY <1>1, <1>2, <1>3, OthersKept DEF RowsStay, Rows, history
  <2>2. InstancesTypeOK'
    BY <1>1, <1>3, <2>1 DEF InstancesTypeOK, working, history, bounds
  <2>3. CredentialsWereTried' /\ EjectionIsDue'
    BY <1>1, <1>3 DEF RegistryInv, CredentialsWereTried, EjectionIsDue, Rows, history
  <2>4. QED
    BY <1>1, <2>1, <2>2, <2>3, WorkerUnmoved DEF RegistryInv, history
<1>4. ASSUME NEW i \in Ids \ Rows,
             rows' = [rows EXCEPT ![i] =
                        [external |-> op[r].external, credentials |-> op[r].with,
                         enabled |-> TRUE, key |-> op[r].key,
                         strategy |-> op[r].strategy, state |-> op[r].seen]]
      PROVE  RegistryInv'
  <2> DEFINE row == [external |-> op[r].external, credentials |-> op[r].with,
                     enabled |-> TRUE, key |-> op[r].key,
                     strategy |-> op[r].strategy, state |-> op[r].seen]
  <2>1. /\ row \in Row /\ row.state # "unreachable"
        /\ row.external = op[r].external /\ row.credentials = op[r].with
    BY <1>1 DEF OpRecord, Row
  <2>2. rows' = [rows EXCEPT ![i] = row]
    BY <1>4
  <2> HIDE DEF row
  <2>3. /\ rows' \in [Ids -> Row] /\ rows'[i] = row
        /\ \A k \in Ids : k # i => rows'[k] = rows[k]
    BY <1>1, <2>1, <2>2 DEF InstancesTypeOK
  <2>4. /\ RowsStay
        /\ \A k \in Rows : rows'[k].credentials = rows[k].credentials
        /\ \A k \in Rows' : k = i \/ (k \in Rows /\ rows'[k] = rows[k])
    BY <1>4, <2>3 DEF RowsStay, Rows
  <2>5. RequestsOK' /\ op' \in [Requests -> OpRecord]
    BY <1>1, <1>2, <2>4, OthersKept DEF history
  <2>6. InstancesTypeOK'
    BY <1>1, <2>3, <2>5 DEF InstancesTypeOK, working, history, bounds
  <2>7. <<rows'[i].external, rows'[i].credentials>> \in accepted
    BY <1>1, <2>1, <2>3 DEF RequestOK
  <2>8. CredentialsWereTried' /\ EjectionIsDue'
    BY <1>1, <2>1, <2>3, <2>4, <2>7
    DEF RegistryInv, CredentialsWereTried, EjectionIsDue, history
  <2>9. QED
    BY <1>1, <2>5, <2>6, <2>8, WorkerUnmoved DEF RegistryInv, history
<1>5. QED
  BY <1>3, <1>4 DEF Insert

\* A write that leaves the credentials, and tells nobody that it is unreachable.
LEMMA HarmlessWrite ==
    ASSUME RegistryInv, NEW r \in Requests, NEW i \in Rows, NEW row \in Row,
           rows' = [rows EXCEPT ![i] = row], row.external = rows[i].external,
           row.credentials = rows[i].credentials,
           row.state = "unreachable" => rows[i].state = "unreachable",
           Ends(r), UNCHANGED <<pool, working, history, bounds>>
    PROVE  RegistryInv'
<1>1. InstancesTypeOK
  BY DEF RegistryInv
<1>2. op' = [op EXCEPT ![r] = Idle] /\ Idle \in OpRecord /\ Idle.pc = "idle"
  BY IdleTyped DEF Ends
<1>3. /\ rows' \in [Ids -> Row] /\ rows'[i] = row
      /\ \A k \in Ids : k # i => rows'[k] = rows[k]
      /\ RowsStay /\ Rows' = Rows
  BY <1>1, RowWritten
<1>4. \A k \in Rows : rows'[k].credentials = rows[k].credentials
  BY <1>3 DEF Rows
<1>5. RequestsOK' /\ op' \in [Requests -> OpRecord]
  BY <1>2, <1>3, <1>4, OthersKept DEF history
<1>6. InstancesTypeOK'
  BY <1>1, <1>3, <1>5 DEF InstancesTypeOK, working, history, bounds
<1>7. \A k \in Rows : /\ rows'[k].external = rows[k].external
                      /\ rows'[k].state = "unreachable" => rows[k].state = "unreachable"
  BY <1>3 DEF Rows
<1>8. CredentialsWereTried' /\ EjectionIsDue'
  BY <1>3, <1>4, <1>7 DEF RegistryInv, CredentialsWereTried, EjectionIsDue, history
<1>9. QED
  BY <1>5, <1>6, <1>8, WorkerUnmoved DEF RegistryInv, history

LEMMA StatusKeeps ==
    ASSUME RegistryInv, NEW r \in Requests, StoreStatus(r) \/ SetEnabled(r)
    PROVE  RegistryInv'
<1>1. /\ InstancesTypeOK /\ op[r] \in OpRecord /\ RequestOK(op[r])
      /\ op[r].pc \in {"status", "set"}
  BY DEF RegistryInv, InstancesTypeOK, RequestsOK, StoreStatus, SetEnabled
<1>2. op[r].id \in Rows /\ rows[op[r].id] \in Row
  BY <1>1 DEF RequestOK, OnARow, Rows, InstancesTypeOK
<1>3. CASE StoreStatus(r)
  <2> DEFINE row == [rows[op[r].id] EXCEPT !.state = op[r].seen]
  <2>1. rows' = [rows EXCEPT ![op[r].id] = row]
    BY <1>3 DEF StoreStatus
  <2>2. /\ row \in Row /\ row.external = rows[op[r].id].external
        /\ row.credentials = rows[op[r].id].credentials /\ row.state # "unreachable"
    BY <1>1, <1>2 DEF Row, OpRecord
  <2> HIDE DEF row
  <2>3. QED
    BY <1>2, <1>3, <2>1, <2>2, HarmlessWrite DEF StoreStatus
<1>4. CASE SetEnabled(r)
  <2> DEFINE row == [rows[op[r].id] EXCEPT !.enabled = op[r].desired]
  <2>1. rows' = [rows EXCEPT ![op[r].id] = row]
    BY <1>4 DEF SetEnabled
  <2>2. /\ row \in Row /\ row.external = rows[op[r].id].external
        /\ row.credentials = rows[op[r].id].credentials
        /\ row.state = rows[op[r].id].state
    BY <1>1, <1>2 DEF Row, OpRecord
  <2> HIDE DEF row
  <2>3. QED
    BY <1>2, <1>4, <2>1, <2>2, HarmlessWrite DEF SetEnabled
<1>5. QED
  BY <1>3, <1>4

\* A patch writes the credentials that the provider accepted, unless it is stale;
\* and the requests that have read the row become stale with it.
LEMMA PatchKeeps ==
    ASSUME RegistryInv, NEW r \in Requests, StorePatch(r)
    PROVE  RegistryInv'
<1> DEFINE i == op[r].id
           row == PatchRow(r)
<1>1. /\ InstancesTypeOK /\ op[r] \in OpRecord /\ RequestOK(op[r]) /\ op[r].pc = "patch"
      /\ rows' = [rows EXCEPT ![i] = row]
      /\ UNCHANGED <<pool, working, out, held, accepted, refused, bounds>>
  BY DEF RegistryInv, InstancesTypeOK, RequestsOK, StorePatch
<1>2. i \in Rows /\ rows[i] \in Row /\ i \in Ids
  BY <1>1 DEF RequestOK, OnARow, Rows, InstancesTypeOK
<1>3. /\ row \in Row /\ row.external = rows[i].external
      /\ row.credentials = Effective(op[r].patch, rows[i].credentials)
      /\ row.state # "unreachable"
  <2>1. /\ op[r].patch \in Patch /\ rows[i].credentials \in Credentials
        /\ op[r].seen \in {"connected", "down"}
    BY <1>1, <1>2 DEF OpRecord, Row
  <2>2. Effective(op[r].patch, rows[i].credentials) \in Credentials
    BY <2>1, EffectiveTyped
  <2>3. /\ OrElse(op[r].patch.key, rows[i].key) \in Keys
        /\ OrElse(op[r].patch.strategy, rows[i].strategy) \in Strategies
    BY <1>2, <2>1 DEF OrElse, Patch, Row
  <2>4. QED
    BY <1>2, <2>1, <2>2, <2>3 DEF PatchRow, Row
<1> HIDE DEF row
<1>4. CASE ~ChangesCredentials(op[r].patch)
  <2>1. Ends(r) /\ UNCHANGED mixed
    BY <1>4 DEF StorePatch
  <2>2. row.credentials = rows[i].credentials
    BY <1>1, <1>2, <1>3, <1>4, EffectiveTyped DEF OpRecord, Row
  <2>3. QED
    BY <1>1, <1>2, <1>3, <2>1, <2>2, HarmlessWrite DEF history
<1>5. CASE ChangesCredentials(op[r].patch)
  <2>1. Outdates(r, i) /\ Mixes(r)
    BY <1>5 DEF StorePatch
  <2>2. /\ rows' \in [Ids -> Row] /\ rows'[i] = row
        /\ \A k \in Ids : k # i => rows'[k] = rows[k]
        /\ RowsStay /\ Rows' = Rows
    BY <1>1, <1>2, <1>3, RowWritten
  <2>3. ASSUME NEW q \in Requests PROVE RequestOK(op[q])' /\ op'[q] \in OpRecord
    <3>1. op[q] \in OpRecord /\ RequestOK(op[q])
      BY <1>1 DEF RegistryInv, RequestsOK, InstancesTypeOK
    <3>2. CASE q = r
      BY <2>1, <3>2, IdleTyped DEF Outdates, RequestOK, OnARow, Asking
    <3>3. CASE q # r /\ op[q].id = i
      <4>1. op'[q] = [op[q] EXCEPT !.stale = TRUE]
        BY <2>1, <3>3 DEF Outdates
      <4>2. op'[q] \in OpRecord
        BY <3>1, <4>1 DEF OpRecord
      <4>3. QED
        BY <1>1, <2>2, <3>1, <4>1, <4>2, RequestKept
    <3>4. CASE q # r /\ op[q].id # i
      <4>1. op'[q] = op[q]
        BY <2>1, <3>4 DEF Outdates
      <4>2. op[q].id \in Rows => rows'[op[q].id].credentials = rows[op[q].id].credentials
        BY <2>2, <3>4 DEF Rows
      <4>3. QED
        BY <1>1, <2>2, <3>1, <4>1, <4>2, RequestKept
    <3>5. QED
      BY <3>2, <3>3, <3>4
  <2>4. RequestsOK' /\ op' \in [Requests -> OpRecord]
    BY <2>1, <2>3 DEF RequestsOK, Outdates
  <2>5. mixed' \subseteq Ids /\ mixed \subseteq mixed' /\ (op[r].stale => i \in mixed')
    BY <1>1, <1>2, <2>1 DEF Mixes, InstancesTypeOK
  <2>6. InstancesTypeOK'
    BY <1>1, <2>2, <2>4, <2>5 DEF InstancesTypeOK, working, bounds
  <2>7. i \notin mixed' => <<rows'[i].external, rows'[i].credentials>> \in accepted
    BY <1>1, <1>3, <2>2, <2>5 DEF RequestOK
  <2>8. CredentialsWereTried' /\ EjectionIsDue'
    BY <1>1, <1>3, <2>2, <2>5, <2>7 DEF RegistryInv, CredentialsWereTried, EjectionIsDue,
       Rows
  <2>9. QED
    BY <1>1, <2>4, <2>6, <2>8, WorkerUnmoved DEF RegistryInv
<1>6. QED
  BY <1>4, <1>5

\* A refresh marks the row for the credentials it tried, which are the row's own
\* unless the refresh is stale.
LEMMA MarkKeeps ==
    ASSUME RegistryInv, NEW r \in Requests, Mark(r)
    PROVE  RegistryInv'
<1> DEFINE i == op[r].id
           row == [rows[i] EXCEPT !.state = "unreachable", !.enabled = FALSE]
           o == [op[r] EXCEPT !.pc = "zrem"]
<1>1. /\ InstancesTypeOK /\ op[r] \in OpRecord /\ RequestOK(op[r]) /\ op[r].pc = "mark"
      /\ UNCHANGED <<pool, working, out, held, accepted, refused, bounds>>
  BY DEF RegistryInv, InstancesTypeOK, RequestsOK, Mark
<1>2. i \in Rows /\ rows[i] \in Row /\ i \in Ids
  BY <1>1 DEF RequestOK, OnARow, Rows, InstancesTypeOK
<1>3. /\ row \in Row /\ row.external = rows[i].external
      /\ row.credentials = rows[i].credentials
      /\ rows' = [rows EXCEPT ![i] = row]
  BY <1>1, <1>2 DEF Row, Mark, InstancesTypeOK
<1>4. o \in OpRecord /\ o.pc = "zrem" /\ o.id = i /\ op' = [op EXCEPT ![r] = o]
  BY <1>1 DEF OpRecord, Mark, Goes
<1> HIDE DEF row, o
<1>5. /\ rows' \in [Ids -> Row] /\ rows'[i] = row
      /\ \A k \in Ids : k # i => rows'[k] = rows[k]
      /\ RowsStay /\ Rows' = Rows
  BY <1>1, <1>2, <1>3, RowWritten
<1>6. op'[r] = o /\ \A k \in Rows : rows'[k].credentials = rows[k].credentials
  BY <1>1, <1>3, <1>4, <1>5 DEF InstancesTypeOK, Rows
<1>7. RequestOK(op[r])'
  BY <1>2, <1>4, <1>5, <1>6 DEF RequestOK, OnARow, Asking
<1>8. RequestsOK' /\ op' \in [Requests -> OpRecord]
  BY <1>1, <1>4, <1>5, <1>6, <1>7, OthersKept
<1>9. mixed' \subseteq Ids /\ mixed \subseteq mixed' /\ (op[r].stale => i \in mixed')
  BY <1>1, <1>2 DEF Mark, Mixes, InstancesTypeOK
<1>10. InstancesTypeOK'
  BY <1>1, <1>5, <1>8, <1>9 DEF InstancesTypeOK, working, bounds
<1>11. i \notin mixed' => <<rows'[i].external, rows'[i].credentials>> \in refused
  BY <1>1, <1>3, <1>5, <1>9 DEF RequestOK
<1>12. CredentialsWereTried' /\ EjectionIsDue'
  BY <1>1, <1>3, <1>5, <1>9, <1>11 DEF RegistryInv, CredentialsWereTried, EjectionIsDue,
     Rows
<1>13. QED
  BY <1>1, <1>8, <1>10, <1>12, WorkerUnmoved DEF RegistryInv

\* The registry does not see what happens to the pool and the workers.
LEMMA RowsUnmoved ==
    ASSUME CredentialsWereTried, EjectionIsDue, UNCHANGED <<rows, accepted, refused, mixed>>
    PROVE  CredentialsWereTried' /\ EjectionIsDue'
BY DEF CredentialsWereTried, EjectionIsDue, Rows

LEMMA EndKeeps ==
    ASSUME RegistryInv, NEW r \in Requests, Zrem(r) \/ Dies(r)
    PROVE  RegistryInv'
<1>1. /\ InstancesTypeOK /\ op[r] \in OpRecord /\ RequestOK(op[r])
      /\ UNCHANGED <<rows, working, accepted, refused, mixed>>
  BY DEF RegistryInv, InstancesTypeOK, RequestsOK, Zrem, Dies, registry, history
<1>2. op' = [op EXCEPT ![r] = Idle] /\ Idle \in OpRecord /\ Idle.pc = "idle"
  BY IdleTyped DEF Zrem, Dies, Ends
<1>3. RequestsOK' /\ op' \in [Requests -> OpRecord]
  BY <1>1, <1>2, OthersKept DEF RowsStay, Rows
<1> DEFINE gone == {<<op[r].id, op[r].key>>}
<1>4. CASE /\ op[r].pc = "zrem" /\ UNCHANGED bounds
           /\ pool' = pool \ gone /\ out' = out \cup gone
           /\ held' = (held \ gone) \cup (gone \cap Leased)
  <2>1. gone \subseteq Pairs
    BY <1>1, <1>4 DEF RequestOK, OnARow, Rows, OpRecord, Pairs
  <2> HIDE DEF gone
  <2>2. InstancesTypeOK'
    BY <1>1, <1>3, <1>4, <2>1 DEF InstancesTypeOK, working, bounds
  <2>3. Leased' = Leased
    BY <1>1 DEF Leased, working
  <2>4. EjectedStaysOut'
    BY <1>4, <2>3 DEF RegistryInv, EjectedStaysOut
  <2>5. QED
    BY <1>1, <1>3, <2>2, <2>4, RowsUnmoved DEF RegistryInv
<1>5. CASE UNCHANGED <<pool, out, held>> /\ Fault
  <2>1. InstancesTypeOK'
    BY <1>1, <1>3, <1>5, FaultTyped DEF InstancesTypeOK, working
  <2>2. QED
    BY <1>1, <1>3, <1>5, <2>1, RowsUnmoved, WorkerUnmoved DEF RegistryInv
<1>6. QED
  BY <1>4, <1>5 DEF Zrem, Dies, registry, history

-----------------------------------------------------------------------------
(* The workers. *)

\* What a registration does to the pool and to the ejections.
LEMMA AddsKeep ==
    ASSUME EjectedStaysOut, NEW pairs, Adds(pairs), Leased' \subseteq Leased
    PROVE  EjectedStaysOut'
BY DEF Adds, EjectedStaysOut

LEMMA AddsTyped ==
    ASSUME InstancesTypeOK, NEW pairs \in SUBSET Pairs, Adds(pairs)
    PROVE  pool' \subseteq Pairs /\ out' \subseteq Pairs /\ held' \subseteq Pairs
BY DEF Adds, InstancesTypeOK

LEMMA WorkerKeeps ==
    ASSUME RegistryInv, NEW w \in Workers, Loads(w) \/ Registers(w) \/ WorkerDies(w)
    PROVE  RegistryInv'
<1>1. /\ InstancesTypeOK /\ loaded[w] \in SUBSET Pairs
      /\ UNCHANGED <<rows, op, accepted, refused, mixed>>
  BY DEF RegistryInv, InstancesTypeOK, Loads, Registers, WorkerDies, registry, history
<1>2. RequestsOK'
  BY <1>1 DEF RegistryInv, RequestsOK, RequestOK, Rows
<1>3. CASE Loads(w)
  <2> DEFINE pairs == {<<i, rows[i].key>> : i \in {j \in Rows : rows[j].strategy = "leased"}}
  <2>1. pairs \in SUBSET Pairs
    BY <1>1 DEF InstancesTypeOK, Rows, Row, Pairs
  <2>2. /\ boots' \in 0..MaxBoots /\ loaded' = [loaded EXCEPT ![w] = pairs]
        /\ worker' = [worker EXCEPT ![w] = "booting"]
        /\ UNCHANGED <<registry, op, leases, history, requests, faults>>
    BY <1>1, <1>3, InstancesAssumption DEF Loads, InstancesTypeOK
  <2> HIDE DEF pairs
  <2>3. InstancesTypeOK'
    BY <1>1, <2>1, <2>2 DEF InstancesTypeOK, registry, history
  <2>4. EjectedStaysOut'
    BY <2>2 DEF RegistryInv, EjectedStaysOut, Leased, registry, history
  <2>5. QED
    BY <1>1, <1>2, <2>3, <2>4, RowsUnmoved DEF RegistryInv
<1>4. CASE Registers(w)
  <2>1. InstancesTypeOK'
    BY <1>1, <1>4, AddsTyped DEF Registers, InstancesTypeOK, bounds
  <2>2. Adds(loaded[w]) /\ Leased' = Leased
    BY <1>4 DEF Registers, Leased
  <2>3. EjectedStaysOut'
    BY <2>2, AddsKeep DEF RegistryInv
  <2>4. QED
    BY <1>1, <1>2, <2>1, <2>3, RowsUnmoved DEF RegistryInv
<1>5. CASE WorkerDies(w)
  <2>1. PICK some \in SUBSET loaded[w] : Adds(some)
    BY <1>5 DEF WorkerDies
  <2>2. some \in SUBSET Pairs
    BY <1>1
  <2>3. pool' \subseteq Pairs /\ out' \subseteq Pairs /\ held' \subseteq Pairs
    BY <1>1, <2>1, <2>2, AddsTyped
  <2>4. InstancesTypeOK'
    BY <1>1, <1>5, <2>3 DEF WorkerDies, InstancesTypeOK, bounds
  <2>5. Leased' \subseteq Leased
    BY <1>1, <1>5 DEF WorkerDies, Leased, InstancesTypeOK
  <2>6. EjectedStaysOut'
    BY <2>1, <2>5, AddsKeep DEF RegistryInv
  <2>7. QED
    BY <1>1, <1>2, <2>4, <2>6, RowsUnmoved DEF RegistryInv
<1>6. QED
  BY <1>3, <1>4, <1>5

\* A lease takes only what is in the pool, and what a renewal or a release gives back is
\* what somebody had a lease of.
LEMMA LeaseKeeps ==
    ASSUME RegistryInv, NEW w \in Workers, NEW p \in Pairs,
           Acquire(w, p) \/ Renew(w, p) \/ Release(w, p)
    PROVE  RegistryInv'
<1>1. /\ InstancesTypeOK /\ leases \in [Workers -> SUBSET Pairs]
      /\ UNCHANGED <<rows, op, worker, loaded, accepted, refused, mixed, out, held, bounds>>
  BY DEF RegistryInv, InstancesTypeOK, Acquire, Renew, Release, registry, working, history
<1>2. RequestsOK'
  BY <1>1 DEF RegistryInv, RequestsOK, RequestOK, Rows
<1>3. /\ pool' \subseteq Pairs /\ leases' \in [Workers -> SUBSET Pairs]
  BY <1>1 DEF Acquire, Renew, Release, InstancesTypeOK, registry, working
<1>4. InstancesTypeOK'
  BY <1>1, <1>3 DEF InstancesTypeOK, bounds
<1>5. EjectedStaysOut'
  <2>1. CASE Acquire(w, p)
    <3>1. p \in pool /\ pool' = pool
      BY <2>1 DEF Acquire, Offered, registry
    <3>2. Leased' \subseteq Leased \cup {p}
      BY <1>1, <2>1 DEF Acquire, Leased
    <3>3. QED
      BY <1>1, <3>1, <3>2 DEF RegistryInv, EjectedStaysOut
  <2>2. CASE Renew(w, p) \/ Release(w, p)
    <3>1. p \in Leased /\ pool' \subseteq pool \cup {p}
      BY <2>2 DEF Renew, Release, Leased
    <3>2. Leased' \subseteq Leased
      BY <1>1, <2>2 DEF Renew, Release, Leased, working
    <3>3. QED
      BY <1>1, <3>1, <3>2 DEF RegistryInv, EjectedStaysOut
  <2>3. QED
    BY <2>1, <2>2
<1>6. QED
  BY <1>1, <1>2, <1>4, <1>5, RowsUnmoved DEF RegistryInv

-----------------------------------------------------------------------------

LEMMA RegistryStep == RegistryInv /\ [Next]_vars => RegistryInv'
<1> SUFFICES ASSUME RegistryInv, [Next]_vars PROVE RegistryInv'
  OBVIOUS
<1>1. CASE UNCHANGED vars
  BY <1>1 DEF vars, registry, working, history, bounds, RegistryInv, InstancesTypeOK,
     RequestsOK, RequestOK, CredentialsWereTried, EjectionIsDue, EjectedStaysOut, Leased, Rows
<1>2. CASE Next
  BY <1>2, BeginningsKeep, AnswersKeep, InsertKeeps, PatchKeeps, StatusKeeps, MarkKeeps,
     EndKeeps, WorkerKeeps, LeaseKeeps DEF Next
<1>3. QED
  BY <1>1, <1>2

LEMMA RegistryInvariant == Spec => []RegistryInv
BY RegistryInit, RegistryStep, PTL DEF Spec

\* Every variable of the registry, the requests and the workers keeps its type.
THEOREM InstancesTypeCorrect == Spec => []InstancesTypeOK
<1>1. RegistryInv => InstancesTypeOK
  BY DEF RegistryInv
<1>2. QED
  BY <1>1, RegistryInvariant, PTL

\* However requests overlap, the credentials in a row are a pair that the provider
\* accepted for its instance, unless a patch was stored over what it had not read.
THEOREM StoredCredentialsWork == Spec => []CredentialsWereTried
<1>1. RegistryInv => CredentialsWereTried
  BY DEF RegistryInv
<1>2. QED
  BY <1>1, RegistryInvariant, PTL

\* However requests overlap, a row that says unreachable has credentials for which the
\* provider refused, or left unanswered, a request, unless they were patched meanwhile.
THEOREM UnreachableIsDue == Spec => []EjectionIsDue
<1>1. RegistryInv => EjectionIsDue
  BY DEF RegistryInv
<1>2. QED
  BY <1>1, RegistryInvariant, PTL

\* An instance that no worker had a lease of when it was ejected from a pool is neither
\* offered nor leased from that pool, whatever the workers do, until one of them registers
\* it again; a worker that renews or releases a lease it got before puts no other back.
THEOREM EjectionsHold == Spec => []EjectionHolds
<1>1. RegistryInv => EjectionHolds
  BY DEF RegistryInv, EjectedStaysOut, EjectionHolds, Offered, Leased
<1>2. QED
  BY <1>1, RegistryInvariant, PTL
=============================================================================
