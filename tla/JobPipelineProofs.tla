--------------------------- MODULE JobPipelineProofs ---------------------------
(***************************************************************************)
(* Proofs about TaskQueue, and about OutboundMessages on top of it.  The   *)
(* first part is about the pipeline alone and uses nothing that is assumed *)
(* of the messages.  In the second part every step is a step of the        *)
(* pipeline, or leaves the pipeline alone; so what the first part proves   *)
(* holds there too, and is used.                                           *)
(***************************************************************************)
EXTENDS OutboundMessages, FiniteSetTheorems, TLAPS

-----------------------------------------------------------------------------
(* Type correctness. *)

\* The places a copy can be in are told apart by their names alone.
LEMMA RowsTyped ==
    ASSUME NEW row \in [status : Status, attempt : Nat],
           NEW s \in TerminalStatus
    PROVE  /\ Queued(row) \in [status : Status, attempt : Nat]
           /\ Claimed(row) \in [status : Status, attempt : Nat]
           /\ Retrying(row) \in [status : Status, attempt : Nat]
           /\ Finished(row, s) \in [status : Status, attempt : Nat]
BY DEF Queued, Claimed, Retrying, Finished, Status, Claimable, TerminalStatus

LEMMA MessageTyped ==
    ASSUME NEW place \in InQueue, NEW j \in Jobs, NEW a \in Nat \cup {NoAttempt}
    PROVE  /\ Message(place, j, a) \in Copy
           /\ Message(place, j, a).job \in Jobs
BY DEF Message, Copy, InQueue

LEMMA FreeTyped == Free \in Copy /\ Free.at = "free"
BY DEF Free, Copy

LEMMA GivenBackTyped ==
    ASSUME NEW m \in Copy, m.job \in Jobs
    PROVE  /\ GivenBack(m) \in Copy
           /\ GivenBack(m).at # "free" => GivenBack(m).job \in Jobs
<1>1. "main" \in InQueue
  BY DEF InQueue
<1>2. m.attempt \in Nat \cup {NoAttempt}
  BY DEF Copy
<1>3. QED
  BY <1>1, <1>2, MessageTyped, FreeTyped DEF GivenBack

\* A handler's own step rewrites one field or two of its slot.
LEMMA MovedTyped ==
    ASSUME NEW m \in Copy, NEW place \in InHandler, NEW n \in Nat, m.job \in Jobs
    PROVE  /\ [m EXCEPT !.at = place] \in Copy
           /\ [m EXCEPT !.at = place].job \in Jobs
           /\ [m EXCEPT !.at = place, !.n = n] \in Copy
           /\ [m EXCEPT !.at = place, !.n = n].job \in Jobs
           /\ [m EXCEPT !.owned = FALSE] \in Copy
           /\ [m EXCEPT !.owned = FALSE].job \in Jobs
BY DEF Copy, InHandler

LEMMA FaultTyped ==
    ASSUME NEW kind, faults \in 0..MaxFaults, Fault(kind)
    PROVE  faults' \in 0..MaxFaults
BY ConstantsAssumption DEF Fault

LEMMA SendTyped ==
    ASSUME NEW ok, NEW k, faults \in 0..MaxFaults, Send(ok, k)
    PROVE  /\ faults' \in 0..MaxFaults
           /\ k \in 0..2
BY FaultTyped DEF Send, NoFault

LEMMA BestEffortTyped ==
    ASSUME TypeOK, NEW j \in Jobs, NEW row \in [status : Status, attempt : Nat],
           BestEffort(j, row)
    PROVE  /\ task' \in [Jobs -> [status : Status, attempt : Nat]]
           /\ faults' \in 0..MaxFaults
BY FaultTyped DEF BestEffort, NoFault, TypeOK

LEMMA InitTyped == Init => TypeOK
BY ConstantsAssumption, FreeTyped DEF Init, TypeOK, Status

LEMMA ApiTyped ==
    ASSUME TypeOK, NEW j \in Jobs, Api(j)
    PROVE  TypeOK'
<1>1. CASE Enqueue(j)
  BY <1>1, ConstantsAssumption DEF Enqueue, TypeOK, Status, Claimable, NoAttempt
<1>2. CASE ApiPublish(j)
  <2>1. PICK ok \in BOOLEAN, S \in SUBSET FreeSlots :
          /\ Send(ok, Cardinality(S))
          /\ copy' = [c \in Slots |->
                       IF c \in S THEN Message("main", j, ClientAttempt[j])
                       ELSE copy[c]]
          /\ api' = [api EXCEPT ![j] = IF ok THEN "markQueued" ELSE "idle"]
    BY <1>2 DEF ApiPublish
  <2>2. /\ Message("main", j, ClientAttempt[j]) \in Copy
        /\ Message("main", j, ClientAttempt[j]).job \in Jobs
    BY ConstantsAssumption, MessageTyped DEF InQueue
  <2>3. faults' \in 0..MaxFaults
    BY <2>1, SendTyped DEF TypeOK
  <2>4. /\ copy' \in [Slots -> Copy]
        /\ \A c \in Slots : copy'[c].at # "free" => copy'[c].job \in Jobs
    BY <2>1, <2>2 DEF TypeOK
  <2>5. QED
    BY <1>2, <2>1, <2>3, <2>4 DEF ApiPublish, TypeOK
<1>3. CASE ApiMarkQueued(j)
  <2>1. Queued(task[j]) \in [status : Status, attempt : Nat]
    BY RowsTyped DEF TypeOK, TerminalStatus
  <2>2. /\ task' \in [Jobs -> [status : Status, attempt : Nat]]
        /\ faults' \in 0..MaxFaults
    BY <1>3, <2>1, BestEffortTyped DEF ApiMarkQueued
  <2>3. QED
    BY <1>3, <2>2 DEF ApiMarkQueued, TypeOK
<1>4. CASE ApiCrash(j)
  BY <1>4, FaultTyped DEF ApiCrash, TypeOK
<1>5. QED
  BY <1>1, <1>2, <1>3, <1>4 DEF Api

\* Most steps replace what one slot holds.
LEMMA SlotTyped ==
    ASSUME TypeOK, NEW c \in Slots, NEW m \in Copy,
           m.at # "free" => m.job \in Jobs,
           copy' = [copy EXCEPT ![c] = m]
    PROVE  /\ copy' \in [Slots -> Copy]
           /\ \A d \in Slots : copy'[d].at # "free" => copy'[d].job \in Jobs
BY DEF TypeOK

LEMMA MoveTyped ==
    ASSUME TypeOK, NEW c \in Slots, copy[c].at # "free",
           NEW place \in InHandler \cup InQueue,
           copy' = [copy EXCEPT ![c].at = place]
    PROVE  /\ copy' \in [Slots -> Copy]
           /\ \A d \in Slots : copy'[d].at # "free" => copy'[d].job \in Jobs
BY DEF TypeOK, Copy

LEMMA BrokerTyped ==
    ASSUME TypeOK, NEW c \in Slots, Broker(c)
    PROVE  TypeOK'
BY MoveTyped DEF Broker, RetryExpire, Deliver, TypeOK, InHandler, InQueue

LEMMA CrashTyped ==
    ASSUME TypeOK, NEW c \in Slots, Crash(c) \/ Disconnect(c)
    PROVE  TypeOK'
<1>1. /\ copy[c] \in Copy
      /\ copy[c].job \in Jobs
      /\ copy[c].at # "free"
      /\ copy[c].attempt \in Nat \cup {NoAttempt}
  BY DEF Crash, Disconnect, TypeOK, InHandler, Copy
<1>2. CASE Crash(c)
  <2>1. /\ copy' \in [Slots -> Copy]
        /\ \A d \in Slots : copy'[d].at # "free" => copy'[d].job \in Jobs
    BY <1>1, <1>2, GivenBackTyped, SlotTyped DEF Crash
  <2>2. QED
    BY <1>2, <2>1, FaultTyped DEF Crash, TypeOK
<1>3. CASE Disconnect(c)
  <2>1. PICK d \in FreeSlots :
          copy' = [copy EXCEPT ![c].owned = FALSE,
                               ![d] = Message("main", copy[c].job, copy[c].attempt)]
    BY <1>3 DEF Disconnect
  <2>2. /\ Message("main", copy[c].job, copy[c].attempt) \in Copy
        /\ Message("main", copy[c].job, copy[c].attempt).job \in Jobs
    BY <1>1, MessageTyped DEF InQueue
  <2>3. /\ [copy[c] EXCEPT !.owned = FALSE] \in Copy
        /\ [copy[c] EXCEPT !.owned = FALSE].job \in Jobs
    BY <1>1 DEF Copy
  <2>4. d \in Slots /\ d # c
    BY <1>1 DEF FreeSlots
  <2>5. copy' = [e \in Slots |->
                   IF e = d THEN Message("main", copy[c].job, copy[c].attempt)
                   ELSE IF e = c THEN [copy[c] EXCEPT !.owned = FALSE]
                   ELSE copy[e]]
    BY <2>1, <2>4 DEF TypeOK
  <2>6. /\ copy' \in [Slots -> Copy]
        /\ \A e \in Slots : copy'[e].at # "free" => copy'[e].job \in Jobs
    BY <2>2, <2>3, <2>5 DEF TypeOK
  <2>7. QED
    BY <1>3, <2>6, FaultTyped DEF Disconnect, TypeOK
<1>4. QED
  BY <1>2, <1>3

LEMMA HandleTyped ==
    ASSUME TypeOK, NEW c \in Slots, Handle(c)
    PROVE  TypeOK'
<1> DEFINE j == copy[c].job
           row == task[j]
<1>1. /\ copy[c] \in Copy
      /\ copy[c].at # "free"
      /\ j \in Jobs
      /\ copy[c].attempt \in Nat \cup {NoAttempt}
      /\ copy[c].n \in Nat
  BY DEF Handle, DropMalformed, Claim, ExecuteOk, ExecuteFail, Throw, MarkSucceeded,
         PublishRetry, MarkRetrying, PublishDlq, MarkFailed, Requeue, Ack,
         TypeOK, Copy
<1>2. row \in [status : Status, attempt : Nat]
  BY <1>1 DEF TypeOK
<1>3. /\ Retrying(row) \in [status : Status, attempt : Nat]
      /\ Claimed(row) \in [status : Status, attempt : Nat]
      /\ \A s \in TerminalStatus :
           Finished(row, s) \in [status : Status, attempt : Nat]
  BY <1>2, RowsTyped DEF TerminalStatus
<1> HIDE DEF row
<1>4. ASSUME copy' = [copy EXCEPT ![c].at = "ack"],
             UNCHANGED <<api, dlq, execs, oks>>,
             \/ \E s \in TerminalStatus : BestEffort(j, Finished(row, s))
             \/ BestEffort(j, Retrying(row))
      PROVE  TypeOK'
  <2>1. /\ task' \in [Jobs -> [status : Status, attempt : Nat]]
        /\ faults' \in 0..MaxFaults
    BY <1>1, <1>3, <1>4, BestEffortTyped
  <2>2. QED
    BY <1>1, <1>4, <2>1, MoveTyped DEF TypeOK, InHandler
<1>5. CASE DropMalformed(c)
  BY <1>4, <1>5 DEF DropMalformed, TerminalStatus, row
<1>6. CASE MarkSucceeded(c)
  BY <1>4, <1>6 DEF MarkSucceeded, TerminalStatus, row
<1>7. CASE MarkRetrying(c)
  BY <1>4, <1>7 DEF MarkRetrying, row
<1>8. CASE MarkFailed(c)
  BY <1>4, <1>8 DEF MarkFailed, TerminalStatus, row
<1>9. CASE Claim(c)
  <2>1. ASSUME NEW n \in Nat, Start(c, n)
        PROVE  /\ copy' \in [Slots -> Copy]
               /\ \A d \in Slots : copy'[d].at # "free" => copy'[d].job \in Jobs
               /\ execs' \in [Jobs -> Nat]
    <3>1. copy' = [copy EXCEPT ![c] = [copy[c] EXCEPT !.at = "execute", !.n = n]]
      BY <2>1 DEF Start, TypeOK
    <3>2. /\ [copy[c] EXCEPT !.at = "execute", !.n = n] \in Copy
          /\ [copy[c] EXCEPT !.at = "execute", !.n = n].job \in Jobs
      BY <1>1, MovedTyped DEF InHandler
    <3>3. execs' \in [Jobs -> Nat]
      BY <1>1, <2>1 DEF Start, TypeOK
    <3>4. QED
      BY <3>1, <3>2, <3>3, SlotTyped
  <2>2. CASE /\ row.status \in Claimable
             /\ task' = [task EXCEPT ![j] = Claimed(row)]
             /\ Start(c, row.attempt + 1)
             /\ NoFault
    BY <1>1, <1>2, <1>3, <1>9, <2>1, <2>2 DEF Claim, TypeOK, NoFault
  <2>3. CASE /\ copy' = [copy EXCEPT ![c].at = "ack"]
             /\ NoFault
             /\ UNCHANGED <<task, execs>>
    BY <1>1, <1>9, <2>3, MoveTyped DEF Claim, TypeOK, NoFault, InHandler
  <2>4. CASE /\ Fault("db")
             /\ Start(c, FallbackAttempt(copy[c]))
             /\ \/ task' = task
                \/ task' = [task EXCEPT ![j] = Claimed(row)]
    <3>1. FallbackAttempt(copy[c]) \in Nat
      BY <1>1 DEF FallbackAttempt
    <3>2. task' \in [Jobs -> [status : Status, attempt : Nat]]
      BY <1>3, <2>4 DEF TypeOK
    <3>3. QED
      BY <1>9, <2>1, <2>4, <3>1, <3>2, FaultTyped DEF Claim, TypeOK
  <2>5. QED
    BY <1>9, <2>2, <2>3, <2>4 DEF Claim, row
<1>10. CASE ExecuteOk(c)
  <2>1. oks' \in [Jobs -> Nat]
    BY <1>1, <1>10 DEF ExecuteOk, TypeOK
  <2>2. /\ copy' \in [Slots -> Copy]
        /\ \A d \in Slots : copy'[d].at # "free" => copy'[d].job \in Jobs
    BY <1>1, <1>10, MoveTyped DEF ExecuteOk, InHandler
  <2>3. QED
    BY <1>10, <2>1, <2>2 DEF ExecuteOk, TypeOK
<1>11. CASE ExecuteFail(c)
  BY <1>1, <1>11, MoveTyped DEF ExecuteFail, Throw, TypeOK, InHandler
<1>12. CASE PublishRetry(c)
  <2>1. PICK ok \in BOOLEAN, S \in SUBSET FreeSlots :
          /\ Send(ok, Cardinality(S))
          /\ copy' = [d \in Slots |->
                       IF d \in S THEN Message("retry", copy[c].job, copy[c].n)
                         ELSE IF d = c THEN [copy[c] EXCEPT
                                        !.at = AfterPublish(ok, "markRetrying")]
                         ELSE copy[d]]
    BY <1>12 DEF PublishRetry
  <2>2. faults' \in 0..MaxFaults
    BY <2>1, SendTyped DEF TypeOK
  <2>3. /\ Message("retry", copy[c].job, copy[c].n) \in Copy
        /\ Message("retry", copy[c].job, copy[c].n).job \in Jobs
    BY <1>1, MessageTyped DEF InQueue
  <2>4. /\ [copy[c] EXCEPT !.at = AfterPublish(ok, "markRetrying")] \in Copy
        /\ [copy[c] EXCEPT !.at = AfterPublish(ok, "markRetrying")].job \in Jobs
    BY <1>1, MovedTyped DEF AfterPublish, InHandler
  <2>5. /\ copy' \in [Slots -> Copy]
        /\ \A d \in Slots : copy'[d].at # "free" => copy'[d].job \in Jobs
    BY <2>1, <2>3, <2>4 DEF TypeOK
  <2>6. QED
    BY <1>12, <2>2, <2>5 DEF PublishRetry, TypeOK
<1>13. CASE PublishDlq(c)
  <2>1. PICK ok \in BOOLEAN, k \in 0..2 :
          /\ Send(ok, k)
          /\ dlq' = [dlq EXCEPT ![copy[c].job] = @ + k]
          /\ copy' = [copy EXCEPT ![c].at = AfterPublish(ok, "markFailed")]
    BY <1>13 DEF PublishDlq
  <2>2. AfterPublish(ok, "markFailed") \in InHandler
    BY DEF AfterPublish, InHandler
  <2>3. faults' \in 0..MaxFaults
    BY <2>1, SendTyped DEF TypeOK
  <2>4. dlq' \in [Jobs -> Nat]
    BY <1>1, <2>1 DEF TypeOK
  <2>5. /\ copy' \in [Slots -> Copy]
        /\ \A d \in Slots : copy'[d].at # "free" => copy'[d].job \in Jobs
    BY <1>1, <2>1, <2>2, MoveTyped
  <2>6. QED
    BY <1>13, <2>3, <2>4, <2>5 DEF PublishDlq, TypeOK
<1>14. CASE Requeue(c)
  <2>1. /\ task' \in [Jobs -> [status : Status, attempt : Nat]]
        /\ faults' \in 0..MaxFaults
    BY <1>1, <1>3, <1>14, BestEffortTyped DEF Requeue, row
  <2>2. /\ copy' \in [Slots -> Copy]
        /\ \A d \in Slots : copy'[d].at # "free" => copy'[d].job \in Jobs
    BY <1>1, <1>14, GivenBackTyped, SlotTyped DEF Requeue
  <2>3. QED
    BY <1>14, <2>1, <2>2 DEF Requeue, TypeOK
<1>15. CASE Ack(c)
  BY <1>15, FreeTyped, SlotTyped DEF Ack, TypeOK
<1>16. QED
  BY <1>5, <1>6, <1>7, <1>8, <1>9, <1>10, <1>11, <1>12, <1>13, <1>14, <1>15
  DEF Handle

LEMMA NextTyped == TypeOK /\ [Next]_vars => TypeOK'
<1> SUFFICES ASSUME TypeOK, [Next]_vars PROVE TypeOK'
  OBVIOUS
<1>1. CASE UNCHANGED vars
  BY <1>1 DEF vars, TypeOK
<1>2. CASE Next
  BY <1>2, ApiTyped, BrokerTyped, HandleTyped, CrashTyped DEF Next
<1>3. QED
  BY <1>1, <1>2

\* The tables, the queues and the handlers hold what their types say.
THEOREM TypeCorrect == Spec => []TypeOK
BY InitTyped, NextTyped, PTL DEF Spec

-----------------------------------------------------------------------------
(***************************************************************************)
(* Nothing is lost in silence.  The statuses alone are not inductive: a    *)
(* task turns queued because of a publish that happened before, and failed *)
(* because of another.  What is kept by every step is that a job which has *)
(* left the producer in any way that shows (a copy, a pending markQueued,  *)
(* a status past pending) is secure.                                       *)
(***************************************************************************)

Secure(j) == Settled(j) \/ Held(j)

HasCopy(j) == \E c \in Slots : copy[c].at # "free" /\ copy[c].job = j

HandedOver(j) ==
    \/ HasCopy(j)
    \/ api[j] = "markQueued"
    \/ task[j].status \notin {"absent", "pending"}

RowExists ==
    \A j \in Jobs : HasCopy(j) \/ api[j] # "idle" => task[j].status # "absent"

MarksAreJustified ==
    \A c \in Slots :
        /\ copy[c].at = "markSucceeded" => oks[copy[c].job] > 0
        /\ copy[c].at = "markFailed" => dlq[copy[c].job] > 0

HandedOverIsSecure == \A j \in WellFormed : HandedOver(j) => Secure(j)

SafetyInv ==
    /\ TypeOK
    /\ RowExists
    /\ MarksAreJustified
    /\ TerminalIsJustified
    /\ HandedOverIsSecure

LEMMA SafetyInit == Init => SafetyInv
<1> SUFFICES ASSUME Init PROVE SafetyInv
  OBVIOUS
<1>1. TypeOK
  BY InitTyped
<1>2. \A c \in Slots : copy[c].at = "free"
  BY DEF Init, Free
<1>3. QED
  BY <1>1, <1>2 DEF Init, SafetyInv, RowExists, HasCopy, MarksAreJustified,
     TerminalIsJustified, HandedOverIsSecure, HandedOver, WellFormed

\* What has happened is never forgotten.
LEMMA SettledKept ==
    ASSUME TypeOK, [Next]_vars, NEW j \in Jobs
    PROVE  /\ oks[j] > 0 => oks'[j] > 0
           /\ dlq[j] > 0 => dlq'[j] > 0
<1>1. CASE \/ UNCHANGED vars
           \/ \E i \in Jobs : Api(i)
           \/ \E c \in Slots : Broker(c) \/ Crash(c) \/ Disconnect(c)
  BY <1>1 DEF vars, Api, Enqueue, ApiPublish, ApiMarkQueued, ApiCrash, Broker,
     RetryExpire, Deliver, Crash, Disconnect
<1>2. ASSUME NEW c \in Slots, Handle(c)
      PROVE  /\ oks[j] > 0 => oks'[j] > 0
             /\ dlq[j] > 0 => dlq'[j] > 0
  <2>1. CASE UNCHANGED <<dlq, oks>>
    BY <2>1
  <2>2. CASE ExecuteOk(c)
    <3>1. oks'[j] \in {oks[j], oks[j] + 1}
      BY <2>2 DEF ExecuteOk, TypeOK
    <3>2. QED
      BY <2>2, <3>1 DEF ExecuteOk, TypeOK
  <2>3. CASE PublishDlq(c)
    <3>1. \E k \in 0..2 : dlq'[j] \in {dlq[j], dlq[j] + k}
      BY <2>3 DEF PublishDlq, TypeOK
    <3>2. QED
      BY <2>3, <3>1 DEF PublishDlq, TypeOK
  <2>4. QED
    BY <1>2, <2>1, <2>2, <2>3 DEF Handle, DropMalformed, Claim, ExecuteFail, Throw,
       MarkSucceeded, PublishRetry, MarkRetrying, MarkFailed, Requeue, Ack
<1>3. QED
  BY <1>1, <1>2 DEF Next

\* A step of one slot's handler leaves the other copies where they are.
LEMMA OthersKept ==
    ASSUME TypeOK, NEW c \in Slots, Broker(c) \/ Handle(c) \/ Crash(c) \/ Disconnect(c),
           NEW w \in Slots, w # c, copy[w].at # "free"
    PROVE  copy'[w] = copy[w]
<1>1. CASE PublishRetry(c)
  BY <1>1 DEF PublishRetry, FreeSlots
<1>2. CASE Disconnect(c)
  BY <1>2 DEF Disconnect, FreeSlots, TypeOK
<1>3. CASE \/ Broker(c) \/ Crash(c) \/ DropMalformed(c) \/ MarkSucceeded(c)
           \/ MarkRetrying(c) \/ MarkFailed(c) \/ Requeue(c) \/ Ack(c)
  BY <1>3 DEF Broker, RetryExpire, Deliver, Crash, DropMalformed, MarkSucceeded,
     MarkRetrying, MarkFailed, Requeue, Ack, TypeOK
<1>4. CASE Claim(c) \/ ExecuteOk(c) \/ ExecuteFail(c) \/ PublishDlq(c)
  BY <1>4 DEF Claim, Start, ExecuteOk, ExecuteFail, Throw, PublishDlq, TypeOK
<1>5. QED
  BY <1>1, <1>2, <1>3, <1>4 DEF Handle

\* A publish that did not throw stored something.
LEMMA SendStores ==
    ASSUME NEW k, Send(TRUE, k)
    PROVE  k \in {1, 2}
BY DEF Send

LEMMA SendStoresCopies ==
    ASSUME NEW S, Send(TRUE, Cardinality(S))
    PROVE  S # {}
<1>1. Cardinality(S) \in {1, 2}
  BY SendStores
<1>2. Cardinality({}) = 0
  BY FS_EmptySet
<1>3. QED
  BY <1>1, <1>2

\* A job that is secure stays secure, whatever happens next.
LEMMA SecureKept ==
    ASSUME SafetyInv, [Next]_vars, NEW j \in WellFormed, Secure(j)
    PROVE  Secure(j)'
<1> USE DEF Secure
<1>1. TypeOK /\ j \in Jobs /\ j \notin Malformed
  BY DEF SafetyInv, WellFormed
<1>2. CASE Settled(j)
  BY <1>1, <1>2, SettledKept DEF Settled
<1>3. CASE Held(j)
  <2>1. PICK w \in Slots : /\ copy[w].job = j
                           /\ copy[w].owned
                           /\ copy[w].at \in Unresolved
    BY <1>3 DEF Held
  <2>2. copy[w].at # "free"
    BY <2>1 DEF Unresolved, InQueue
  <2>3. ASSUME copy'[w] = copy[w] PROVE Held(j)'
    BY <2>1, <2>3 DEF Held
  <2>4. CASE UNCHANGED vars
    BY <2>3, <2>4 DEF vars
  <2>5. ASSUME NEW i \in Jobs, Api(i) PROVE Held(j)'
    BY <1>1, <2>2, <2>3, <2>5
    DEF Api, Enqueue, ApiPublish, ApiMarkQueued, ApiCrash, FreeSlots
  <2>6. ASSUME NEW c \in Slots, c # w,
               Broker(c) \/ Handle(c) \/ Crash(c) \/ Disconnect(c)
        PROVE  Held(j)'
    BY <1>1, <2>2, <2>3, <2>6, OthersKept
  <2>7. ASSUME copy' = [copy EXCEPT ![w] = GivenBack(copy[w])]
        PROVE  Held(j)'
    <3>1. copy'[w] = Message("main", j, copy[w].attempt)
      BY <1>1, <2>1, <2>7 DEF GivenBack, TypeOK
    <3>2. QED
      BY <3>1 DEF Message, Held, Unresolved, InQueue
  <2>8. ASSUME NEW place \in Unresolved, copy' = [copy EXCEPT ![w].at = place]
        PROVE  Held(j)'
    <3>1. /\ copy'[w].at = place
          /\ copy'[w].job = j
          /\ copy'[w].owned
      BY <1>1, <2>1, <2>8 DEF TypeOK, Copy
    <3>2. QED
      BY <3>1 DEF Held
  <2>9. CASE Broker(w)
    BY <2>8, <2>9 DEF Broker, RetryExpire, Deliver, Unresolved, InQueue
  <2>10. CASE Crash(w)
    BY <2>7, <2>10 DEF Crash
  <2>11. CASE Disconnect(w)
    <3>1. PICK d \in FreeSlots :
            copy' = [copy EXCEPT ![w].owned = FALSE,
                                 ![d] = Message("main", copy[w].job, copy[w].attempt)]
      BY <2>11 DEF Disconnect
    <3>2. d \in Slots /\ copy'[d] = Message("main", j, copy[w].attempt)
      BY <1>1, <2>1, <3>1 DEF FreeSlots, TypeOK
    <3>3. QED
      BY <3>2 DEF Message, Held, Unresolved, InQueue
  <2>12. CASE DropMalformed(w)
    BY <1>1, <2>1, <2>12 DEF DropMalformed
  <2>13. CASE Claim(w)
    <3>1. ASSUME NEW n, Start(w, n) PROVE Held(j)'
      <4>1. /\ copy'[w].at = "execute"
            /\ copy'[w].job = j
            /\ copy'[w].owned
        BY <1>1, <2>1, <3>1 DEF Start, TypeOK, Copy
      <4>2. QED
        BY <4>1 DEF Held, Unresolved
    <3>2. CASE task[j].status \notin Claimable
      <4>1. task[j].status \in Status /\ task[j].status # "absent"
        BY <1>1, <2>1, <2>2 DEF SafetyInv, TypeOK, RowExists, HasCopy
      <4>2. Settled(j)
        BY <1>1, <3>2, <4>1
        DEF SafetyInv, TerminalIsJustified, Status, TerminalStatus, Settled
      <4>3. QED
        BY <1>1, <4>2, SettledKept DEF Settled
    <3>3. QED
      BY <2>1, <2>13, <3>1, <3>2 DEF Claim
  <2>14. CASE ExecuteOk(w)
    BY <1>1, <2>1, <2>14 DEF ExecuteOk, Settled, TypeOK
  <2>15. CASE ExecuteFail(w)
    BY <2>8, <2>15 DEF ExecuteFail, Throw, Unresolved
  <2>16. CASE MarkSucceeded(w) \/ MarkRetrying(w) \/ MarkFailed(w) \/ Ack(w)
    BY <2>1, <2>16 DEF MarkSucceeded, MarkRetrying, MarkFailed, Ack, Unresolved, InQueue
  <2>17. CASE PublishRetry(w)
    <3>1. PICK ok \in BOOLEAN, S \in SUBSET FreeSlots :
            /\ Send(ok, Cardinality(S))
            /\ copy' = [d \in Slots |->
                         IF d \in S THEN Message("retry", copy[w].job, copy[w].n)
                           ELSE IF d = w THEN [copy[w] EXCEPT
                                          !.at = AfterPublish(ok, "markRetrying")]
                           ELSE copy[d]]
      BY <2>17 DEF PublishRetry
    <3>2. CASE ok
      <4>1. PICK d \in S : TRUE
        BY <3>1, <3>2, SendStoresCopies
      <4>2. d \in Slots /\ copy'[d] = Message("retry", j, copy[w].n)
        BY <2>1, <3>1, <4>1 DEF FreeSlots
      <4>3. QED
        BY <4>2 DEF Message, Held, Unresolved, InQueue
    <3>3. CASE ~ok
      <4>1. w \notin S
        BY <2>2 DEF FreeSlots
      <4>2. copy'[w] = [copy[w] EXCEPT !.at = "requeue"]
        BY <3>1, <3>3, <4>1 DEF AfterPublish
      <4>3. QED
        BY <1>1, <2>1, <4>2 DEF Held, Unresolved, TypeOK, Copy
    <3>4. QED
      BY <3>2, <3>3
  <2>18. CASE PublishDlq(w)
    <3>1. PICK ok \in BOOLEAN, k \in 0..2 :
            /\ Send(ok, k)
            /\ dlq' = [dlq EXCEPT ![copy[w].job] = @ + k]
            /\ copy' = [copy EXCEPT ![w].at = AfterPublish(ok, "markFailed")]
      BY <2>18 DEF PublishDlq
    <3>2. CASE ok
      <4>1. k \in {1, 2}
        BY <3>1, <3>2, SendStores
      <4>2. QED
        BY <1>1, <2>1, <3>1, <4>1 DEF Settled, TypeOK
    <3>3. CASE ~ok
      BY <2>8, <3>1, <3>3 DEF AfterPublish, Unresolved
    <3>4. QED
      BY <3>2, <3>3
  <2>19. CASE Requeue(w)
    BY <2>7, <2>19 DEF Requeue
  <2>20. ASSUME NEW c \in Slots, c = w, Broker(c) \/ Handle(c) \/ Crash(c) \/ Disconnect(c)
         PROVE  Secure(j)'
    BY <2>9, <2>10, <2>11, <2>12, <2>13, <2>14, <2>15, <2>16, <2>17, <2>18, <2>19,
       <2>20 DEF Handle
  <2>21. QED
    BY <2>4, <2>5, <2>6, <2>20 DEF Next
<1>4. QED
  BY <1>2, <1>3

\* Of other jobs than its own, a step of a slot makes no copy.
LEMMA SlotCopies ==
    ASSUME TypeOK, NEW c \in Slots,
           Broker(c) \/ Handle(c) \/ Crash(c) \/ Disconnect(c),
           NEW d \in Slots, copy'[d].at # "free"
    PROVE  copy'[d] = copy[d] \/ copy'[d].job = copy[c].job
<1> DEFINE m == copy[c]
<1>1. /\ m \in Copy /\ m.at # "free" /\ m.job \in Jobs
  BY DEF Broker, RetryExpire, Deliver, Crash, Disconnect, InHandler, Handle,
     DropMalformed, Claim, ExecuteOk, ExecuteFail, Throw, MarkSucceeded, PublishRetry,
     MarkRetrying, PublishDlq, MarkFailed, Requeue, Ack, TypeOK
<1>2. CASE d # c /\ copy[d].at # "free"
  BY <1>2, OthersKept
<1>3. CASE PublishRetry(c)
  BY <1>1, <1>3 DEF PublishRetry, Message, Copy
<1>4. CASE Disconnect(c)
  BY <1>1, <1>4 DEF Disconnect, Message, Copy, TypeOK, FreeSlots
<1>5. ASSUME NEW v \in Copy, v.at # "free" => v.job = m.job,
             copy' = [copy EXCEPT ![c] = v]
      PROVE  copy'[d] = copy[d] \/ copy'[d].job = m.job
  BY <1>1, <1>5 DEF TypeOK
<1>6. ASSUME NEW place, copy' = [copy EXCEPT ![c].at = place]
      PROVE  copy'[d] = copy[d] \/ copy'[d].job = m.job
  BY <1>1, <1>6 DEF TypeOK, Copy
<1>7. GivenBack(m) \in Copy /\ (GivenBack(m).at # "free" => GivenBack(m).job = m.job)
  BY <1>1, GivenBackTyped DEF GivenBack, Message, Free
<1>8. CASE Crash(c) \/ Requeue(c)
  BY <1>5, <1>7, <1>8 DEF Crash, Requeue
<1>9. CASE Ack(c)
  BY <1>5, <1>9, FreeTyped DEF Ack
<1>10. CASE Claim(c)
  <2>1. ASSUME NEW n, Start(c, n)
        PROVE  copy'[d] = copy[d] \/ copy'[d].job = m.job
    BY <1>1, <2>1 DEF Start, TypeOK, Copy
  <2>2. QED
    BY <1>6, <1>10, <2>1 DEF Claim
<1>11. QED
  BY <1>3, <1>4, <1>6, <1>8, <1>9, <1>10 DEF Broker, RetryExpire, Deliver,
     Handle, DropMalformed, ExecuteOk, ExecuteFail, Throw, MarkSucceeded,
     MarkRetrying, PublishDlq, MarkFailed

\* Broker, handlers and crashes make copies only of jobs that have a copy, and
\* write only the rows of such jobs.
LEMMA SlotStep ==
    ASSUME TypeOK, NEW c \in Slots,
           Broker(c) \/ Handle(c) \/ Crash(c) \/ Disconnect(c)
    PROVE  /\ api' = api
           /\ HasCopy(copy[c].job)
           /\ \A i \in Jobs : HasCopy(i)' => HasCopy(i)
           /\ \A i \in Jobs : i # copy[c].job => task'[i] = task[i]
<1> DEFINE m == copy[c]
<1>1. /\ m \in Copy /\ m.at # "free" /\ m.job \in Jobs
  BY DEF Broker, RetryExpire, Deliver, Crash, Disconnect, InHandler, Handle,
     DropMalformed, Claim, ExecuteOk, ExecuteFail, Throw, MarkSucceeded, PublishRetry,
     MarkRetrying, PublishDlq, MarkFailed, Requeue, Ack, TypeOK
<1>2. HasCopy(m.job)
  BY <1>1 DEF HasCopy
<1>3. api' = api
  BY DEF Broker, RetryExpire, Deliver, Crash, Disconnect, Handle, DropMalformed,
     Claim, ExecuteOk, ExecuteFail, Throw, MarkSucceeded, PublishRetry, MarkRetrying,
     PublishDlq, MarkFailed, Requeue, Ack
<1>4. \A i \in Jobs : i # m.job => task'[i] = task[i]
  <2>1. CASE UNCHANGED task
    BY <2>1
  <2>2. ASSUME NEW row, BestEffort(m.job, row)
        PROVE  \A i \in Jobs : i # m.job => task'[i] = task[i]
    BY <1>1, <2>2 DEF BestEffort, TypeOK
  <2>3. CASE Claim(c)
    BY <1>1, <2>3 DEF Claim, TypeOK
  <2>4. QED
    BY <2>1, <2>2, <2>3 DEF Broker, RetryExpire, Deliver, Crash, Disconnect,
       Handle, DropMalformed, ExecuteOk, ExecuteFail, Throw, MarkSucceeded,
       PublishRetry, MarkRetrying, PublishDlq, MarkFailed, Requeue, Ack
<1>5. ASSUME NEW d \in Slots, copy'[d].at # "free"
      PROVE  copy'[d] = copy[d] \/ copy'[d].job = m.job
  BY <1>5, SlotCopies
<1>6. ASSUME NEW i \in Jobs, HasCopy(i)' PROVE HasCopy(i)
  <2>1. PICK d \in Slots : copy'[d].at # "free" /\ copy'[d].job = i
    BY <1>6 DEF HasCopy
  <2>2. QED
    BY <1>2, <1>5, <2>1 DEF HasCopy
<1>7. QED
  BY <1>2, <1>3, <1>4, <1>6

\* A copy whose publish the producer has just made is held.
LEMMA ApiPublishHolds ==
    ASSUME TypeOK, NEW j \in Jobs, ApiPublish(j)
    PROVE  /\ HasCopy(j)' /\ ~HasCopy(j) => Held(j)'
           /\ api'[j] = "markQueued" => Held(j)'
           /\ \A i \in Jobs : i # j => (HasCopy(i)' => HasCopy(i)) /\ api'[i] = api[i]
<1>1. PICK ok \in BOOLEAN, S \in SUBSET FreeSlots :
        /\ Send(ok, Cardinality(S))
        /\ copy' = [c \in Slots |->
                     IF c \in S THEN Message("main", j, ClientAttempt[j])
                     ELSE copy[c]]
        /\ api' = [api EXCEPT ![j] = IF ok THEN "markQueued" ELSE "idle"]
  BY DEF ApiPublish
<1>2. ASSUME NEW d \in S PROVE Held(j)'
  <2>1. d \in Slots /\ copy'[d] = Message("main", j, ClientAttempt[j])
    BY <1>1, <1>2 DEF FreeSlots
  <2>2. QED
    BY <2>1 DEF Message, Held, Unresolved, InQueue
<1>3. HasCopy(j)' /\ ~HasCopy(j) => S # {}
  BY <1>1 DEF HasCopy
<1>4. api'[j] = "markQueued" => S # {}
  BY <1>1, SendStoresCopies DEF TypeOK
<1>5. ASSUME NEW i \in Jobs, i # j
      PROVE  (HasCopy(i)' => HasCopy(i)) /\ api'[i] = api[i]
  BY <1>1, <1>5 DEF HasCopy, Message, TypeOK
<1>6. QED
  BY <1>2, <1>3, <1>4, <1>5

\* What a step can do to a row: each new status, and who writes it.
LEMMA RowStep ==
    ASSUME SafetyInv, Next, NEW i \in Jobs, task'[i] # task[i]
    PROVE  /\ task'[i].status # "absent"
           /\ task'[i].status = "failed" /\ task[i].status # "failed" => dlq'[i] > 0
           /\ task'[i].status = "succeeded" /\ task[i].status # "succeeded" => oks'[i] > 0
           /\ task'[i].status = "dropped" /\ task[i].status # "dropped" => i \in Malformed
           /\ \/ HasCopy(i)
              \/ api[i] = "markQueued"
              \/ task'[i].status = "pending" /\ api'[i] = "publish" /\ UNCHANGED copy
<1>1. TypeOK
  BY DEF SafetyInv
<1>2. task[i] \in [status : Status, attempt : Nat]
  BY <1>1 DEF TypeOK
<1>3. CASE Enqueue(i)
  BY <1>1, <1>3 DEF Enqueue, TypeOK
<1>4. CASE ApiMarkQueued(i)
  <2>1. task'[i] = Queued(task[i]) /\ api[i] = "markQueued"
    BY <1>1, <1>4 DEF ApiMarkQueued, BestEffort, TypeOK
  <2>2. task[i].status # "absent"
    BY <2>1 DEF SafetyInv, RowExists
  <2>3. QED
    BY <1>2, <2>1, <2>2 DEF Queued
<1>5. ASSUME NEW c \in Slots, Broker(c) \/ Handle(c) \/ Crash(c) \/ Disconnect(c)
      PROVE  /\ task'[i].status # "absent"
             /\ task'[i].status = "failed" /\ task[i].status # "failed" => dlq'[i] > 0
             /\ task'[i].status = "succeeded" /\ task[i].status # "succeeded" => oks'[i] > 0
             /\ task'[i].status = "dropped" /\ task[i].status # "dropped" => i \in Malformed
             /\ HasCopy(i)
  <2>1. copy[c].job = i /\ HasCopy(i)
    BY <1>1, <1>5, SlotStep
  <2>2. task[i].status # "absent"
    BY <2>1 DEF SafetyInv, RowExists
  <2>3. ASSUME NEW row, BestEffort(i, row) PROVE task'[i] = row
    BY <1>1, <2>3 DEF BestEffort, TypeOK
  <2>4. CASE task'[i] = Retrying(task[i])
    BY <1>2, <2>1, <2>2, <2>4 DEF Retrying
  <2>5. CASE task'[i] = Claimed(task[i])
    BY <2>1, <2>5 DEF Claimed
  <2>6. ASSUME NEW s \in TerminalStatus, task'[i] = Finished(task[i], s)
        PROVE  task'[i].status = s
    BY <1>2, <2>6 DEF Finished
  <2>7. CASE DropMalformed(c)
    BY <2>1, <2>3, <2>6, <2>7 DEF DropMalformed, TerminalStatus
  <2>8. CASE MarkSucceeded(c)
    <3>1. oks'[i] > 0
      BY <2>1, <2>8 DEF MarkSucceeded, SafetyInv, MarksAreJustified
    <3>2. QED
      BY <2>1, <2>3, <2>6, <2>8, <3>1 DEF MarkSucceeded, TerminalStatus
  <2>9. CASE MarkFailed(c)
    <3>1. dlq'[i] > 0
      BY <2>1, <2>9 DEF MarkFailed, SafetyInv, MarksAreJustified
    <3>2. QED
      BY <2>1, <2>3, <2>6, <2>9, <3>1 DEF MarkFailed, TerminalStatus
  <2>10. CASE MarkRetrying(c) \/ Requeue(c)
    BY <2>1, <2>3, <2>4, <2>10 DEF MarkRetrying, Requeue
  <2>11. CASE Claim(c)
    BY <1>1, <2>1, <2>5, <2>11 DEF Claim, TypeOK
  <2>12. QED
    BY <1>5, <2>7, <2>8, <2>9, <2>10, <2>11 DEF Broker, RetryExpire, Deliver,
       Crash, Disconnect, Handle, ExecuteOk, ExecuteFail, Throw, PublishRetry,
       PublishDlq, Ack
<1>6. ASSUME NEW k \in Jobs, Api(k) PROVE Enqueue(i) \/ ApiMarkQueued(i)
  BY <1>1, <1>6 DEF Api, Enqueue, ApiPublish, ApiMarkQueued, ApiCrash,
     BestEffort, TypeOK
<1>7. QED
  BY <1>3, <1>4, <1>5, <1>6 DEF Next

LEMMA MarksStayJustified ==
    ASSUME SafetyInv, Next, TypeOK'
    PROVE  MarksAreJustified'
<1>1. TypeOK
  BY DEF SafetyInv
<1> SUFFICES ASSUME NEW d \in Slots
             PROVE  /\ copy'[d].at = "markSucceeded" => oks'[copy'[d].job] > 0
                    /\ copy'[d].at = "markFailed" => dlq'[copy'[d].job] > 0
  BY DEF MarksAreJustified
<1> DEFINE Same == copy'[d].at = copy[d].at /\ copy'[d].job = copy[d].job
<1>2. ASSUME Same
      PROVE  /\ copy'[d].at = "markSucceeded" => oks'[copy'[d].job] > 0
             /\ copy'[d].at = "markFailed" => dlq'[copy'[d].job] > 0
  <2>1. CASE copy[d].at = "free"
    BY <1>2, <2>1
  <2>2. CASE copy[d].at # "free"
    <3>1. copy[d].job \in Jobs
      BY <1>1, <2>2 DEF TypeOK
    <3>2. QED
      BY <1>1, <1>2, <3>1, SettledKept DEF SafetyInv, MarksAreJustified
  <2>3. QED
    BY <2>1, <2>2
<1>3. ASSUME copy'[d].at \notin {"markSucceeded", "markFailed"}
      PROVE  /\ copy'[d].at = "markSucceeded" => oks'[copy'[d].job] > 0
             /\ copy'[d].at = "markFailed" => dlq'[copy'[d].job] > 0
  BY <1>3
<1>4. ASSUME NEW i \in Jobs, Api(i)
      PROVE  Same \/ copy'[d].at \notin {"markSucceeded", "markFailed"}
  BY <1>1, <1>4 DEF Api, Enqueue, ApiPublish, ApiMarkQueued, ApiCrash, Message
<1>5. ASSUME NEW c \in Slots, Broker(c) \/ Handle(c) \/ Crash(c) \/ Disconnect(c)
      PROVE  \/ Same
             \/ copy'[d].at \notin {"markSucceeded", "markFailed"}
             \/ d = c /\ ExecuteOk(c)
             \/ d = c /\ PublishDlq(c)
  <2>1. ASSUME NEW place \in {"main", "claim", "ack", "publishRetry", "publishDlq"},
               copy' = [copy EXCEPT ![c].at = place]
        PROVE  Same \/ copy'[d].at \notin {"markSucceeded", "markFailed"}
    BY <1>1, <2>1 DEF TypeOK, Copy
  <2>2. ASSUME NEW v, v.at \notin {"markSucceeded", "markFailed"},
               copy' = [copy EXCEPT ![c] = v]
        PROVE  Same \/ copy'[d].at \notin {"markSucceeded", "markFailed"}
    BY <1>1, <2>2 DEF TypeOK
  <2>3. CASE Broker(c) \/ DropMalformed(c) \/ ExecuteFail(c) \/ MarkSucceeded(c)
             \/ MarkRetrying(c) \/ MarkFailed(c)
    BY <2>1, <2>3 DEF Broker, RetryExpire, Deliver, DropMalformed, ExecuteFail, Throw,
       MarkSucceeded, MarkRetrying, MarkFailed
  <2>4. CASE Crash(c) \/ Requeue(c) \/ Ack(c)
    BY <2>2, <2>4 DEF Crash, Requeue, Ack, GivenBack, Message, Free
  <2>5. CASE Claim(c)
    <3>1. ASSUME NEW n, Start(c, n)
          PROVE  Same \/ copy'[d].at \notin {"markSucceeded", "markFailed"}
      BY <1>1, <3>1 DEF Start, TypeOK, Copy
    <3>2. QED
      BY <2>1, <2>5, <3>1 DEF Claim
  <2>6. CASE PublishRetry(c)
    BY <1>1, <2>6 DEF PublishRetry, Message, AfterPublish, TypeOK, Copy
  <2>7. CASE Disconnect(c)
    BY <1>1, <2>7 DEF Disconnect, Message, TypeOK, Copy, FreeSlots
  <2>8. QED
    BY <1>1, <1>5, <2>3, <2>4, <2>5, <2>6, <2>7 DEF Handle, ExecuteOk, PublishDlq, TypeOK
<1>6. ASSUME ExecuteOk(d) PROVE copy'[d].at = "markSucceeded" /\ oks'[copy'[d].job] > 0
  BY <1>1, <1>6 DEF ExecuteOk, TypeOK, Copy
<1>7. ASSUME PublishDlq(d), copy'[d].at = "markFailed" PROVE dlq'[copy'[d].job] > 0
  <2>1. PICK ok \in BOOLEAN, k \in 0..2 :
          /\ Send(ok, k)
          /\ dlq' = [dlq EXCEPT ![copy[d].job] = @ + k]
          /\ copy' = [copy EXCEPT ![d].at = AfterPublish(ok, "markFailed")]
    BY <1>7 DEF PublishDlq
  <2>2. ok
    BY <1>1, <1>7, <2>1 DEF AfterPublish, TypeOK, Copy
  <2>3. k \in {1, 2}
    BY <2>1, <2>2, SendStores
  <2>4. copy[d].job \in Jobs /\ copy'[d].job = copy[d].job
    BY <1>1, <1>7, <2>1 DEF PublishDlq, TypeOK, Copy
  <2>5. QED
    BY <1>1, <2>1, <2>3, <2>4 DEF TypeOK
<1>8. ASSUME ExecuteOk(d) \/ PublishDlq(d)
      PROVE  /\ copy'[d].at = "markSucceeded" => oks'[copy'[d].job] > 0
             /\ copy'[d].at = "markFailed" => dlq'[copy'[d].job] > 0
  <2>1. ASSUME PublishDlq(d) PROVE copy'[d].at # "markSucceeded"
    BY <1>1, <2>1 DEF PublishDlq, AfterPublish, TypeOK, Copy
  <2>2. QED
    BY <1>6, <1>7, <1>8, <2>1
<1>9. QED
  BY <1>2, <1>3, <1>4, <1>5, <1>8 DEF Next

LEMMA SafetyStep == SafetyInv /\ [Next]_vars => SafetyInv'
<1> SUFFICES ASSUME SafetyInv, [Next]_vars PROVE SafetyInv'
  OBVIOUS
<1>1. CASE UNCHANGED vars
  BY <1>1 DEF vars, SafetyInv, TypeOK, RowExists, HasCopy, MarksAreJustified,
     TerminalIsJustified, HandedOverIsSecure, HandedOver, Secure, Settled, Held
<1>2. CASE Next
  <2>1. TypeOK /\ TypeOK'
    BY NextTyped DEF SafetyInv
  <2>2. ASSUME NEW i \in Jobs
        PROVE  /\ HasCopy(i)' \/ api'[i] # "idle" => task'[i].status # "absent"
               /\ task'[i].status = "failed" => dlq'[i] > 0
               /\ task'[i].status = "succeeded" => oks'[i] > 0
               /\ task'[i].status = "dropped" => i \in Malformed
    <3>1. CASE task'[i] = task[i]
      <4>1. HasCopy(i)' \/ api'[i] # "idle" => HasCopy(i) \/ api[i] # "idle"
        <5>1. CASE \E c \in Slots : Broker(c) \/ Handle(c) \/ Crash(c) \/ Disconnect(c)
          BY <2>1, <5>1, SlotStep
        <5>2. ASSUME NEW j \in Jobs, Api(j)
              PROVE  HasCopy(i)' \/ api'[i] # "idle" => HasCopy(i) \/ api[i] # "idle"
          <6>1. CASE ApiPublish(j)
            BY <2>1, <6>1, ApiPublishHolds DEF ApiPublish
          <6>2. CASE Enqueue(j)
            BY <2>1, <3>1, <6>2 DEF Enqueue, Inserts, HasCopy, TypeOK
          <6>3. CASE ApiMarkQueued(j) \/ ApiCrash(j)
            BY <2>1, <6>3 DEF ApiMarkQueued, ApiCrash, HasCopy, TypeOK
          <6>4. QED
            BY <5>2, <6>1, <6>2, <6>3 DEF Api
        <5>3. QED
          BY <1>2, <5>1, <5>2 DEF Next
      <4>2. QED
        BY <2>1, <3>1, <4>1, SettledKept DEF SafetyInv, RowExists, TerminalIsJustified
    <3>2. CASE task'[i] # task[i]
      BY <1>2, <2>1, <3>2, RowStep, SettledKept DEF SafetyInv, TerminalIsJustified
    <3>3. QED
      BY <3>1, <3>2
  <2>3. ASSUME NEW i \in WellFormed, HandedOver(i)'
        PROVE  HandedOver(i) \/ Secure(i)'
    <3>1. i \in Jobs
      BY DEF WellFormed
    <3>2. CASE HasCopy(i)' \/ api'[i] = "markQueued"
      <4>1. CASE \E c \in Slots : Broker(c) \/ Handle(c) \/ Crash(c) \/ Disconnect(c)
        BY <2>1, <3>1, <3>2, <4>1, SlotStep DEF HandedOver
      <4>2. ASSUME NEW j \in Jobs, Api(j) PROVE HandedOver(i) \/ Secure(i)'
        <5>1. CASE ApiPublish(j)
          BY <2>1, <3>1, <3>2, <5>1, ApiPublishHolds DEF HandedOver, Secure
        <5>2. CASE Enqueue(j) \/ ApiMarkQueued(j) \/ ApiCrash(j)
          BY <2>1, <3>1, <3>2, <5>2 DEF Enqueue, ApiMarkQueued, ApiCrash,
             HandedOver, HasCopy, TypeOK
        <5>3. QED
          BY <4>2, <5>1, <5>2 DEF Api
      <4>3. QED
        BY <1>2, <4>1, <4>2 DEF Next
    <3>3. CASE task'[i].status \notin {"absent", "pending"}
      BY <1>2, <3>1, <3>3, RowStep DEF HandedOver
    <3>4. QED
      BY <2>3, <3>2, <3>3 DEF HandedOver
  <2>4. ASSUME NEW i \in WellFormed, HandedOver(i)' PROVE Secure(i)'
    BY <2>3, <2>4, SecureKept DEF SafetyInv, HandedOverIsSecure
  <2>5. MarksAreJustified'
    BY <1>2, <2>1, MarksStayJustified
  <2>6. QED
    BY <2>1, <2>2, <2>4, <2>5 DEF SafetyInv, RowExists, TerminalIsJustified,
       HandedOverIsSecure
<1>3. QED
  BY <1>1, <1>2

LEMMA SafetyInvariant == Spec => []SafetyInv
BY SafetyInit, SafetyStep, PTL DEF Spec

\* A well-formed job whose task says queued or running was executed to the
\* end, or lies in the DLQ, or is held by the broker or a handler that has its
\* delivery: whatever fails, and in whatever order.
THEOREM NothingIsLost == Spec => []NoSilentLoss
<1>1. SafetyInv => NoSilentLoss
  BY DEF SafetyInv, HandedOverIsSecure, HandedOver, Secure, NoSilentLoss
<1>2. QED
  BY <1>1, SafetyInvariant, PTL

\* failed, succeeded and dropped say what happened.
THEOREM EndsAreJustified == Spec => []TerminalIsJustified
<1>1. SafetyInv => TerminalIsJustified
  BY DEF SafetyInv
<1>2. QED
  BY <1>1, SafetyInvariant, PTL

-----------------------------------------------------------------------------
(* The end of a task. *)

LEMMA TerminalStep ==
    ASSUME TypeOK, Next, NEW i \in Jobs, task[i].status \in TerminalStatus
    PROVE  task'[i].status \in TerminalStatus
<1>1. /\ task[i] \in [status : Status, attempt : Nat]
      /\ task[i].status \notin {"absent", "pending", "queued", "running"}
  BY DEF TypeOK, TerminalStatus
<1>2. /\ Queued(task[i]) = task[i]
      /\ Retrying(task[i]) = task[i]
      /\ \A s \in TerminalStatus : Finished(task[i], s).status = s
  BY <1>1 DEF Queued, Retrying, Finished
<1>3. ASSUME NEW j \in Jobs, NEW row, BestEffort(j, row), j = i => row.status \in TerminalStatus
      PROVE  task'[i].status \in TerminalStatus
  BY <1>3 DEF BestEffort, TypeOK
<1>4. ASSUME NEW j \in Jobs, Api(j)
      PROVE  task'[i].status \in TerminalStatus
  <2>1. CASE ApiMarkQueued(j)
    BY <1>2, <1>3, <2>1 DEF ApiMarkQueued
  <2>2. CASE Enqueue(j)
    BY <1>1, <2>2 DEF Enqueue, Inserts, TypeOK
  <2>3. QED
    BY <1>4, <2>1, <2>2 DEF Api, ApiPublish, ApiCrash
<1>5. ASSUME NEW c \in Slots, Broker(c) \/ Handle(c) \/ Crash(c) \/ Disconnect(c)
      PROVE  task'[i].status \in TerminalStatus
  <2>1. CASE copy[c].job # i
    BY <1>5, <2>1, SlotStep
  <2>2. CASE copy[c].job = i
    <3>1. CASE DropMalformed(c) \/ MarkSucceeded(c) \/ MarkFailed(c)
      BY <1>2, <1>3, <2>2, <3>1 DEF DropMalformed, MarkSucceeded, MarkFailed,
         TerminalStatus
    <3>2. CASE MarkRetrying(c) \/ Requeue(c)
      BY <1>2, <1>3, <2>2, <3>2 DEF MarkRetrying, Requeue
    <3>3. CASE Claim(c)
      BY <1>1, <2>2, <3>3 DEF Claim, Claimable
    <3>4. QED
      BY <1>5, <3>1, <3>2, <3>3 DEF Broker, RetryExpire, Deliver, Crash,
         Disconnect, Handle, ExecuteOk, ExecuteFail, Throw, PublishRetry, PublishDlq, Ack
  <2>3. QED
    BY <2>1, <2>2
<1>6. QED
  BY <1>4, <1>5 DEF Next

\* No late markQueued, markRetrying or claim takes an ended task back to work.
THEOREM EndsAreEnds == Spec => TerminalStaysTerminal
<1>1. TypeOK /\ Next => EndedStaysEnded
  BY TerminalStep DEF EndedStaysEnded
<1>2. QED
  BY <1>1, TypeCorrect, PTL DEF Spec, TerminalStaysTerminal

-----------------------------------------------------------------------------
(***************************************************************************)
(* Repetitions are paid by faults.  What is kept by every step is a sum:   *)
(* the effects a job has had, those that its producer and its copies may   *)
(* still bring, and for the executions also what is left of the budget     *)
(* that the attempt in the row counts.  A step without a fault moves parts *)
(* of the sum, and a fault adds one to it at most.                         *)
(***************************************************************************)

\* The producer may still store the first copy.
Starting(j) == IF task[j].status = "absent" \/ api[j] = "publish" THEN 1 ELSE 0

\* A copy that may end in an effect.
Effective(m) == m.at \in Unresolved

\* A copy that will be executed, or executed again.
Runnable(m) ==
    \/ m.at \in InQueue \cup {"claim", "publishRetry", "requeue"}
    \/ m.at = "execute" /\ CanRetry(m)

EffectiveCopies(j) == {c \in Slots : copy[c].job = j /\ Effective(copy[c])}
RunnableCopies(j) == {c \in Slots : copy[c].job = j /\ Runnable(copy[c])}

\* Executions that the attempt in the row leaves.
Left(j) == IF task[j].attempt < MaxRetries THEN MaxRetries - task[j].attempt ELSE 0

Effects(j) == oks[j] + Starting(j) + Cardinality(EffectiveCopies(j))
Executions(j) == execs[j] + Starting(j) + Cardinality(RunnableCopies(j)) + Left(j)

RepeatsInv ==
    \A j \in Jobs : /\ Effects(j) <= 1 + faults
                    /\ Executions(j) <= MaxRetries + 1 + faults

\* How a set of slots may change, counted.
LEMMA Counting ==
    ASSUME NEW A \in SUBSET Slots, NEW B \in SUBSET Slots, NEW S \in SUBSET Slots, NEW c \in Slots
    PROVE  /\ Cardinality(A) \in Nat /\ Cardinality(B) \in Nat /\ Cardinality(S) \in Nat
           /\ B \subseteq A => Cardinality(B) <= Cardinality(A)
           /\ B \subseteq A \ {c} /\ c \in A => Cardinality(B) + 1 <= Cardinality(A)
           /\ B \subseteq A \cup {c} => Cardinality(B) <= Cardinality(A) + 1
           /\ B \subseteq A \cup S => Cardinality(B) <= Cardinality(A) + Cardinality(S)
           /\ B \subseteq (A \ {c}) \cup S /\ c \in A
                => Cardinality(B) + 1 <= Cardinality(A) + Cardinality(S)
<1>1. IsFiniteSet(A) /\ IsFiniteSet(B) /\ IsFiniteSet(S)
  BY ConstantsAssumption, FS_Subset
<1>2. /\ Cardinality(A) \in Nat /\ Cardinality(B) \in Nat /\ Cardinality(S) \in Nat
  BY <1>1, FS_CardinalityType
<1>3. ASSUME NEW X, NEW Y, IsFiniteSet(Y), X \subseteq Y
      PROVE  Cardinality(X) <= Cardinality(Y)
  BY <1>3, FS_Subset
<1>4. ASSUME NEW X, IsFiniteSet(X)
      PROVE  /\ IsFiniteSet(X \cup S)
             /\ Cardinality(X \cup S) <= Cardinality(X) + Cardinality(S)
  <2>1. /\ IsFiniteSet(X \cup S) /\ IsFiniteSet(X \cap S)
        /\ Cardinality(X \cup S) = Cardinality(X) + Cardinality(S) - Cardinality(X \cap S)
    BY <1>1, <1>4, FS_Union, FS_Intersection
  <2>2. Cardinality(X \cap S) \in Nat /\ Cardinality(X) \in Nat
    BY <1>4, <2>1, FS_CardinalityType
  <2>3. QED
    BY <1>2, <2>1, <2>2
<1>5. /\ IsFiniteSet(A \ {c})
      /\ Cardinality(A \ {c}) \in Nat
      /\ c \in A => Cardinality(A \ {c}) = Cardinality(A) - 1
  BY <1>1, FS_RemoveElement, FS_CardinalityType
<1>6. /\ IsFiniteSet(A \cup {c})
      /\ Cardinality(A \cup {c}) <= Cardinality(A) + 1
  <2>1. /\ IsFiniteSet(A \cup {c})
        /\ Cardinality(A \cup {c}) \in {Cardinality(A), Cardinality(A) + 1}
    BY <1>1, FS_AddElement
  <2>2. QED
    BY <1>2, <2>1
<1>7. B \subseteq A => Cardinality(B) <= Cardinality(A)
  BY <1>1, <1>3
<1>8. B \subseteq A \ {c} /\ c \in A => Cardinality(B) + 1 <= Cardinality(A)
  <2>1. B \subseteq A \ {c} => Cardinality(B) <= Cardinality(A \ {c})
    BY <1>3, <1>5
  <2>2. QED
    BY <1>2, <1>5, <2>1
<1>9. B \subseteq A \cup {c} => Cardinality(B) <= Cardinality(A) + 1
  <2>1. B \subseteq A \cup {c} => Cardinality(B) <= Cardinality(A \cup {c})
    BY <1>3, <1>6
  <2>2. Cardinality(A \cup {c}) \in Nat
    BY <1>6, FS_CardinalityType
  <2>3. QED
    BY <1>2, <1>6, <2>1, <2>2
<1>10. B \subseteq A \cup S => Cardinality(B) <= Cardinality(A) + Cardinality(S)
  <2>1. B \subseteq A \cup S => Cardinality(B) <= Cardinality(A \cup S)
    BY <1>1, <1>3, <1>4
  <2>2. Cardinality(A \cup S) \in Nat
    BY <1>1, <1>4, FS_CardinalityType
  <2>3. QED
    BY <1>1, <1>2, <1>4, <2>1, <2>2
<1>11. B \subseteq (A \ {c}) \cup S /\ c \in A
         => Cardinality(B) + 1 <= Cardinality(A) + Cardinality(S)
  <2>1. B \subseteq (A \ {c}) \cup S => Cardinality(B) <= Cardinality((A \ {c}) \cup S)
    BY <1>3, <1>4, <1>5
  <2>2. Cardinality((A \ {c}) \cup S) <= Cardinality(A \ {c}) + Cardinality(S)
    BY <1>4, <1>5
  <2>3. Cardinality((A \ {c}) \cup S) \in Nat
    BY <1>4, <1>5, FS_CardinalityType
  <2>4. QED
    BY <1>2, <1>5, <2>1, <2>2, <2>3
<1>12. QED
  BY <1>2, <1>7, <1>8, <1>9, <1>10, <1>11

LEMMA Counted ==
    ASSUME NEW A \in SUBSET Slots
    PROVE  IsFiniteSet(A) /\ Cardinality(A) \in Nat
BY ConstantsAssumption, FS_Subset, FS_CardinalityType

LEMMA CountedUnion ==
    ASSUME NEW A \in SUBSET Slots, NEW B \in SUBSET Slots, NEW S \in SUBSET Slots,
           B \subseteq A \cup S
    PROVE  Cardinality(B) <= Cardinality(A) + Cardinality(S)
<1>1. CASE Slots = {}
  <2>1. A = {} /\ B = {} /\ S = {}
    BY <1>1
  <2>2. QED
    BY <2>1, FS_EmptySet
<1>2. ASSUME NEW c \in Slots
      PROVE  Cardinality(B) <= Cardinality(A) + Cardinality(S)
  BY Counting
<1>3. QED
  BY <1>1, <1>2

\* What a publish stores beyond the copy it replaces, or fails to replace, is paid.
LEMMA PublishCounts ==
    ASSUME NEW A \in SUBSET Slots, NEW B \in SUBSET Slots, NEW S \in SUBSET Slots,
           NEW c \in A, NEW ok \in BOOLEAN, faults \in Nat,
           Send(ok, Cardinality(S)), B \subseteq A \cup S,
           ok => B \subseteq (A \ {c}) \cup S
    PROVE  Cardinality(B) <= Cardinality(A) + (faults' - faults)
<1>1. Cardinality(A) \in Nat /\ Cardinality(B) \in Nat /\ Cardinality(S) \in Nat
  BY Counting
<1>2. CASE ok
  <2>1. Cardinality(B) + 1 <= Cardinality(A) + Cardinality(S)
    BY <1>2, Counting
  <2>2. \/ Cardinality(S) = 1 /\ faults' = faults
        \/ Cardinality(S) = 2 /\ faults' = faults + 1
    BY <1>2 DEF Send, Fault, NoFault
  <2>3. QED
    BY <1>1, <2>1, <2>2
<1>3. CASE ~ok
  <2>1. Cardinality(B) <= Cardinality(A) + Cardinality(S)
    BY Counting
  <2>2. Cardinality(S) \in 0..1 /\ faults' = faults + 1
    BY <1>3 DEF Send, Fault
  <2>3. QED
    BY <1>1, <2>1, <2>2
<1>4. QED
  BY <1>2, <1>3

\* Faults are counted, never taken back.
LEMMA FaultsGrow ==
    ASSUME faults \in Nat, [Next]_vars
    PROVE  faults' \in {faults, faults + 1}
<1>1. CASE UNCHANGED vars
  BY <1>1 DEF vars
<1>2. ASSUME NEW j \in Jobs, Api(j) PROVE faults' \in {faults, faults + 1}
  BY <1>2 DEF Api, Enqueue, ApiPublish, ApiMarkQueued, ApiCrash, Send, BestEffort,
     Fault, NoFault
<1>3. ASSUME NEW c \in Slots, Broker(c) \/ Crash(c) \/ Disconnect(c)
      PROVE  faults' \in {faults, faults + 1}
  BY <1>3 DEF Broker, RetryExpire, Deliver, Crash, Disconnect, Fault
<1>4. ASSUME NEW c \in Slots, Handle(c) PROVE faults' \in {faults, faults + 1}
  BY <1>4 DEF Handle, DropMalformed, Claim, ExecuteOk, ExecuteFail, Throw, MarkSucceeded,
     PublishRetry, MarkRetrying, PublishDlq, MarkFailed, Requeue, Ack, Send, BestEffort,
     Fault, NoFault
<1>5. QED
  BY <1>1, <1>2, <1>3, <1>4 DEF Next

\* The copies that count are copies.
LEMMA CountedCopies ==
    ASSUME TypeOK
    PROVE  /\ \A j \in Jobs : EffectiveCopies(j) \in SUBSET Slots /\ RunnableCopies(j) \in SUBSET Slots
           /\ \A c \in Slots : copy[c].at = "free" => ~Effective(copy[c]) /\ ~Runnable(copy[c])
           /\ \A c \in Slots : Runnable(copy[c]) => Effective(copy[c])
BY DEF EffectiveCopies, RunnableCopies, Effective, Runnable, Unresolved, InQueue

\* Copies that count in the next state, of a job the step is not about.
LEMMA OtherCopies ==
    ASSUME SafetyInv, TypeOK', NEW c \in Slots,
           Broker(c) \/ Handle(c) \/ Crash(c) \/ Disconnect(c),
           NEW j \in Jobs, j # copy[c].job
    PROVE  /\ EffectiveCopies(j)' \subseteq EffectiveCopies(j)
           /\ RunnableCopies(j)' \subseteq RunnableCopies(j)
<1>1. \A d \in Slots : copy'[d].job = j /\ copy'[d].at # "free" => copy'[d] = copy[d]
  BY SlotCopies DEF SafetyInv
<1>2. \A d \in Slots : copy'[d].at = "free" => ~Effective(copy'[d]) /\ ~Runnable(copy'[d])
  BY DEF Effective, Runnable, Unresolved, InQueue
<1>3. QED
  BY <1>1, <1>2 DEF EffectiveCopies, RunnableCopies, Effective, Runnable

\* A step that gives one slot another content: its copies count as before, or not.
LEMMA ReplacedCopy ==
    ASSUME TypeOK, NEW c \in Slots, NEW j \in Jobs, j = copy[c].job,
           NEW v, copy' = [copy EXCEPT ![c] = v]
    PROVE  /\ EffectiveCopies(j)' \subseteq EffectiveCopies(j) \cup {c}
           /\ RunnableCopies(j)' \subseteq RunnableCopies(j) \cup {c}
           /\ (Effective(v) => Effective(copy[c]))
                => EffectiveCopies(j)' \subseteq EffectiveCopies(j)
           /\ (Runnable(v) => Runnable(copy[c]))
                => RunnableCopies(j)' \subseteq RunnableCopies(j)
           /\ ~Effective(v) => EffectiveCopies(j)' \subseteq EffectiveCopies(j) \ {c}
           /\ ~Runnable(v) => RunnableCopies(j)' \subseteq RunnableCopies(j) \ {c}
<1>1. \A d \in Slots : copy'[d] = IF d = c THEN v ELSE copy[d]
  BY DEF TypeOK
<1>2. QED
  BY <1>1 DEF EffectiveCopies, RunnableCopies, Effective, Runnable, CanRetry

\* What a step writes to the row of its job, as far as the attempt goes.
LEMMA AttemptStep ==
    ASSUME TypeOK, TypeOK', NEW c \in Slots,
           Broker(c) \/ Handle(c) \/ Crash(c) \/ Disconnect(c),
           ~Claim(c), NEW j \in Jobs
    PROVE  task'[j].attempt = task[j].attempt
<1>1. task[j] \in [status : Status, attempt : Nat]
  BY DEF TypeOK
<1>2. /\ Retrying(task[j]).attempt = task[j].attempt
      /\ \A s : Finished(task[j], s).attempt = task[j].attempt
  BY <1>1 DEF Retrying, Finished
<1>3. ASSUME NEW i \in Jobs, NEW row, BestEffort(i, row), i = j => row.attempt = task[j].attempt
      PROVE  task'[j].attempt = task[j].attempt
  BY <1>3 DEF BestEffort, TypeOK
<1>4. ASSUME Handle(c) PROVE copy[c].job \in Jobs
  BY <1>4 DEF Handle, DropMalformed, ExecuteOk, ExecuteFail, Throw, MarkSucceeded,
     PublishRetry, MarkRetrying, PublishDlq, MarkFailed, Requeue, Ack, TypeOK
<1>5. CASE DropMalformed(c) \/ MarkSucceeded(c) \/ MarkFailed(c)
  BY <1>2, <1>3, <1>4, <1>5 DEF DropMalformed, MarkSucceeded, MarkFailed, Handle
<1>6. CASE MarkRetrying(c) \/ Requeue(c)
  BY <1>2, <1>3, <1>4, <1>6 DEF MarkRetrying, Requeue, Handle
<1>7. CASE UNCHANGED task
  BY <1>7
<1>8. QED
  BY <1>5, <1>6, <1>7 DEF Broker, RetryExpire, Deliver, Crash, Disconnect, Handle,
     ExecuteOk, ExecuteFail, Throw, PublishRetry, PublishDlq, Ack

\* A handler that was given a job moves the sum of its effects on, and pays for
\* what it adds.
LEMMA EffectsOfSlot ==
    ASSUME SafetyInv, TypeOK', NEW c \in Slots,
           Broker(c) \/ Handle(c) \/ Crash(c) \/ Disconnect(c),
           NEW j \in Jobs, j = copy[c].job, faults' \in {faults, faults + 1}
    PROVE  oks'[j] + Cardinality(EffectiveCopies(j)')
             <= oks[j] + Cardinality(EffectiveCopies(j)) + (faults' - faults)
<1> DEFINE A == EffectiveCopies(j)
           B == EffectiveCopies(j)'
<1>1. TypeOK /\ faults \in Nat /\ oks[j] \in Nat
  BY DEF SafetyInv, TypeOK
<1>2. A \in SUBSET Slots /\ B \in SUBSET Slots
  BY DEF EffectiveCopies
<1>3. Cardinality(A) \in Nat /\ Cardinality(B) \in Nat
  BY <1>2, Counting
<1>4. B \subseteq A => Cardinality(B) <= Cardinality(A)
  BY <1>2, Counting
<1>5. /\ B \subseteq A \cup {c} => Cardinality(B) <= Cardinality(A) + 1
      /\ c \in A /\ B \subseteq A \ {c} => Cardinality(B) + 1 <= Cardinality(A)
  BY <1>2, Counting
<1> HIDE DEF A, B
<1> SUFFICES oks'[j] + Cardinality(B) <= oks[j] + Cardinality(A) + (faults' - faults)
  BY DEF A, B
<1>6. ASSUME oks' = oks, B \subseteq A
      PROVE  oks'[j] + Cardinality(B) <= oks[j] + Cardinality(A) + (faults' - faults)
  BY <1>1, <1>3, <1>4, <1>6
<1>7. ASSUME oks' = oks, faults' = faults + 1, B \subseteq A \cup {c}
      PROVE  oks'[j] + Cardinality(B) <= oks[j] + Cardinality(A) + (faults' - faults)
  BY <1>1, <1>3, <1>5, <1>7
<1>8. ASSUME NEW v, copy' = [copy EXCEPT ![c] = v], Effective(v) => Effective(copy[c])
      PROVE  B \subseteq A
  BY <1>1, <1>8, ReplacedCopy DEF A, B
<1>9. ASSUME NEW place, copy' = [copy EXCEPT ![c].at = place],
             place \in Unresolved => copy[c].at \in Unresolved
      PROVE  B \subseteq A
  <2>1. copy' = [copy EXCEPT ![c] = [copy[c] EXCEPT !.at = place]]
    BY <1>9
  <2>2. [copy[c] EXCEPT !.at = place].at = place
    BY <1>1 DEF TypeOK, Copy
  <2>3. QED
    BY <1>8, <1>9, <2>1, <2>2 DEF Effective
<1>10. CASE Broker(c)
  BY <1>6, <1>9, <1>10 DEF Broker, RetryExpire, Deliver, Unresolved, InQueue
<1>11. CASE DropMalformed(c) \/ MarkSucceeded(c) \/ MarkRetrying(c) \/ MarkFailed(c)
  BY <1>6, <1>9, <1>11 DEF DropMalformed, MarkSucceeded, MarkRetrying, MarkFailed,
     Unresolved, InQueue
<1>12. CASE Claim(c)
  <2>1. ASSUME NEW n, Start(c, n) PROVE B \subseteq A
    <3>1. copy' = [copy EXCEPT ![c] = [copy[c] EXCEPT !.at = "execute", !.n = n]]
      BY <1>1, <2>1 DEF Start, TypeOK
    <3>2. Effective(copy[c])
      BY <1>12 DEF Claim, Effective, Unresolved
    <3>3. QED
      BY <1>8, <3>1, <3>2
  <2>2. ASSUME copy' = [copy EXCEPT ![c].at = "ack"] PROVE B \subseteq A
    BY <1>9, <2>2 DEF Unresolved, InQueue
  <2>3. (\E n : Start(c, n)) \/ copy' = [copy EXCEPT ![c].at = "ack"]
    BY <1>12 DEF Claim
  <2>4. B \subseteq A
    BY <2>1, <2>2, <2>3
  <2>5. QED
    BY <1>6, <1>12, <2>4 DEF Claim
<1>13. CASE ExecuteOk(c)
  <2>1. copy' = [copy EXCEPT ![c] = [copy[c] EXCEPT !.at = "markSucceeded"]]
    BY <1>13 DEF ExecuteOk
  <2>2. [copy[c] EXCEPT !.at = "markSucceeded"].at = "markSucceeded"
    BY <1>1 DEF TypeOK, Copy
  <2>3. ~Effective([copy[c] EXCEPT !.at = "markSucceeded"])
    BY <2>2 DEF Effective, Unresolved, InQueue
  <2>4. B \subseteq A \ {c}
    <3> DEFINE v == [copy[c] EXCEPT !.at = "markSucceeded"]
    <3>1. copy' = [copy EXCEPT ![c] = v] /\ ~Effective(v)
      BY <2>1, <2>3
    <3> HIDE DEF v
    <3>2. QED
      BY <1>1, <3>1, ReplacedCopy DEF A, B
  <2>5. c \in A
    BY <1>13 DEF A, EffectiveCopies, Effective, ExecuteOk, Unresolved
  <2>6. oks'[j] = oks[j] + 1 /\ faults' = faults
    BY <1>1, <1>13 DEF ExecuteOk, TypeOK
  <2>7. QED
    BY <1>1, <1>3, <1>5, <2>4, <2>5, <2>6
<1>14. CASE ExecuteFail(c)
  BY <1>6, <1>9, <1>14 DEF ExecuteFail, Throw, Unresolved
<1>15. CASE PublishRetry(c)
  <2>1. PICK ok \in BOOLEAN, S \in SUBSET FreeSlots :
          /\ Send(ok, Cardinality(S))
          /\ copy' = [d \in Slots |->
                       IF d \in S THEN Message("retry", copy[c].job, copy[c].n)
                         ELSE IF d = c THEN [copy[c] EXCEPT
                                        !.at = AfterPublish(ok, "markRetrying")]
                         ELSE copy[d]]
    BY <1>15 DEF PublishRetry
  <2>2. S \in SUBSET Slots /\ c \in A /\ c \notin S
    BY <1>15 DEF FreeSlots, PublishRetry, A, EffectiveCopies, Effective, Unresolved
  <2>3. \A d \in Slots : d \notin S /\ d # c => copy'[d] = copy[d]
    BY <2>1
  <2>4. B \subseteq A \cup S
    BY <2>2, <2>3 DEF A, B, EffectiveCopies, Effective
  <2>5. ok => B \subseteq (A \ {c}) \cup S
    <3>1. ok => copy'[c].at = "markRetrying"
      BY <1>1, <2>1, <2>2 DEF AfterPublish, TypeOK, Copy
    <3>2. ok => c \notin B
      BY <3>1 DEF B, EffectiveCopies, Effective, Unresolved, InQueue
    <3>3. QED
      BY <2>4, <3>2
  <2>6. Cardinality(B) <= Cardinality(A) + (faults' - faults)
    BY <1>1, <1>2, <2>1, <2>2, <2>4, <2>5, PublishCounts DEF A, B
  <2>7. QED
    BY <1>1, <1>3, <1>15, <2>6 DEF PublishRetry
<1>16. CASE PublishDlq(c)
  <2>1. \E ok \in BOOLEAN : copy' = [copy EXCEPT ![c].at = AfterPublish(ok, "markFailed")]
    BY <1>16 DEF PublishDlq
  <2>2. B \subseteq A
    BY <1>9, <1>16, <2>1 DEF PublishDlq, Unresolved
  <2>3. QED
    BY <1>6, <1>16, <2>2 DEF PublishDlq
<1>17. CASE Requeue(c)
  BY <1>6, <1>8, <1>17 DEF Requeue, Effective, Unresolved
<1>18. CASE Ack(c)
  BY <1>6, <1>8, <1>18 DEF Ack, Free, Effective, Unresolved, InQueue
<1>19. CASE Crash(c)
  BY <1>1, <1>7, <1>19, ReplacedCopy DEF Crash, Fault, A, B
<1>20. CASE Disconnect(c)
  <2>1. PICK d \in FreeSlots :
          copy' = [copy EXCEPT ![c].owned = FALSE,
                               ![d] = Message("main", copy[c].job, copy[c].attempt)]
    BY <1>20 DEF Disconnect
  <2>2. d \in Slots /\ d # c
    BY <1>20, <2>1 DEF FreeSlots, Disconnect, InHandler
  <2>3. B \subseteq A \cup {d}
    <3>1. \A e \in Slots : e # d => copy'[e].at = copy[e].at /\ copy'[e].job = copy[e].job
      BY <1>1, <2>1, <2>2 DEF TypeOK, Copy
    <3>2. QED
      BY <3>1 DEF A, B, EffectiveCopies, Effective
  <2>4. Cardinality(B) <= Cardinality(A) + 1
    BY <1>2, <2>2, <2>3, Counting DEF A, B
  <2>5. QED
    BY <1>1, <1>3, <1>20, <2>4 DEF Disconnect, Fault
<1>21. QED
  BY <1>10, <1>11, <1>12, <1>13, <1>14, <1>15, <1>16, <1>17, <1>18, <1>19, <1>20
  DEF Handle

\* The same for its executions.
LEMMA ExecutionsOfSlot ==
    ASSUME SafetyInv, TypeOK', NEW c \in Slots,
           Broker(c) \/ Handle(c) \/ Crash(c) \/ Disconnect(c),
           NEW j \in Jobs, j = copy[c].job, faults' \in {faults, faults + 1}
    PROVE  execs'[j] + Cardinality(RunnableCopies(j)') + Left(j)'
             <= execs[j] + Cardinality(RunnableCopies(j)) + Left(j) + (faults' - faults)
<1> DEFINE A == RunnableCopies(j)
           B == RunnableCopies(j)'
           sum == execs[j] + Cardinality(A) + Left(j)
           next == execs'[j] + Cardinality(B) + Left(j)'
<1>1. /\ TypeOK /\ faults \in Nat /\ execs[j] \in Nat /\ execs'[j] \in Nat
      /\ task[j].attempt \in Nat /\ task'[j].attempt \in Nat /\ MaxRetries \in Nat
  BY ConstantsAssumption DEF SafetyInv, TypeOK
<1>2. A \in SUBSET Slots /\ B \in SUBSET Slots
  BY DEF RunnableCopies
<1>3. /\ Cardinality(A) \in Nat /\ Cardinality(B) \in Nat
      /\ Left(j) \in Nat /\ Left(j)' \in Nat
  BY <1>1, <1>2, Counting DEF Left
<1>4. B \subseteq A => Cardinality(B) <= Cardinality(A)
  BY <1>2, Counting
<1>5. /\ B \subseteq A \cup {c} => Cardinality(B) <= Cardinality(A) + 1
      /\ c \in A /\ B \subseteq A \ {c} => Cardinality(B) + 1 <= Cardinality(A)
  BY <1>2, Counting
<1>6. ~Claim(c) => Left(j)' = Left(j) /\ execs'[j] = execs[j]
  <2>1. ASSUME ~Claim(c) PROVE execs' = execs
    BY <2>1 DEF Broker, RetryExpire, Deliver, Crash, Disconnect, Handle, DropMalformed,
       ExecuteOk, ExecuteFail, Throw, MarkSucceeded, PublishRetry, MarkRetrying,
       PublishDlq, MarkFailed, Requeue, Ack
  <2>2. QED
    BY <1>1, <2>1, AttemptStep DEF Left
<1> HIDE DEF A, B
<1> SUFFICES next <= sum + (faults' - faults)
  BY DEF A, B
<1>7. ASSUME ~Claim(c), Cardinality(B) <= Cardinality(A) + (faults' - faults)
      PROVE  next <= sum + (faults' - faults)
  BY <1>1, <1>3, <1>6, <1>7
<1>8. ASSUME ~Claim(c), B \subseteq A
      PROVE  next <= sum + (faults' - faults)
  BY <1>1, <1>3, <1>4, <1>7, <1>8
<1>9. ASSUME NEW v, copy' = [copy EXCEPT ![c] = v]
      PROVE  /\ (Runnable(v) => Runnable(copy[c])) => B \subseteq A
             /\ ~Runnable(v) => B \subseteq A \ {c}
             /\ B \subseteq A \cup {c}
  <2>1. TypeOK /\ copy' = [copy EXCEPT ![c] = v]
    BY <1>1, <1>9
  <2>2. /\ (Runnable(v) => Runnable(copy[c]))
             => RunnableCopies(j)' \subseteq RunnableCopies(j)
        /\ ~Runnable(v) => RunnableCopies(j)' \subseteq RunnableCopies(j) \ {c}
    BY <2>1, ReplacedCopy
  <2>3. RunnableCopies(j)' \subseteq RunnableCopies(j) \cup {c}
    BY <2>1, ReplacedCopy
  <2>4. QED
    BY <2>2, <2>3 DEF A, B
<1>10. ASSUME NEW place, copy' = [copy EXCEPT ![c].at = place],
              Runnable([copy[c] EXCEPT !.at = place]) => Runnable(copy[c])
       PROVE  B \subseteq A
  <2>1. copy' = [copy EXCEPT ![c] = [copy[c] EXCEPT !.at = place]]
    BY <1>10
  <2>2. QED
    BY <1>9, <1>10, <2>1
<1>11. \A place : [copy[c] EXCEPT !.at = place].at = place
  BY <1>1 DEF TypeOK, Copy
<1>12. \A place \in {"ack", "markSucceeded", "markFailed", "publishDlq"} :
          ~Runnable([copy[c] EXCEPT !.at = place])
  BY <1>11 DEF Runnable, InQueue
<1>13. CASE Broker(c)
  <2>1. Runnable(copy[c]) /\ ~Claim(c)
    BY <1>13 DEF Broker, RetryExpire, Deliver, Runnable, InQueue, Claim
  <2>2. QED
    BY <1>8, <1>10, <1>13, <2>1 DEF Broker, RetryExpire, Deliver
<1>14. CASE DropMalformed(c) \/ MarkSucceeded(c) \/ MarkRetrying(c) \/ MarkFailed(c)
  <2>1. copy' = [copy EXCEPT ![c].at = "ack"] /\ ~Claim(c)
    BY <1>14 DEF DropMalformed, MarkSucceeded, MarkRetrying, MarkFailed, Claim
  <2>2. QED
    BY <1>8, <1>10, <1>12, <2>1
<1>15. CASE ExecuteOk(c)
  <2>1. copy' = [copy EXCEPT ![c].at = "markSucceeded"] /\ ~Claim(c)
    BY <1>15 DEF ExecuteOk, Claim
  <2>2. QED
    BY <1>8, <1>10, <1>12, <2>1
<1>16. CASE ExecuteFail(c)
  <2>1. /\ ~Claim(c)
        /\ \/ copy' = [copy EXCEPT ![c].at = "publishDlq"]
           \/ copy' = [copy EXCEPT ![c].at = "publishRetry"] /\ Runnable(copy[c])
    BY <1>16 DEF ExecuteFail, Throw, Claim, Runnable
  <2>2. QED
    BY <1>8, <1>10, <1>12, <2>1
<1>17. CASE PublishRetry(c)
  <2>1. PICK ok \in BOOLEAN, S \in SUBSET FreeSlots :
          /\ Send(ok, Cardinality(S))
          /\ copy' = [d \in Slots |->
                       IF d \in S THEN Message("retry", copy[c].job, copy[c].n)
                         ELSE IF d = c THEN [copy[c] EXCEPT
                                        !.at = AfterPublish(ok, "markRetrying")]
                         ELSE copy[d]]
    BY <1>17 DEF PublishRetry
  <2>2. S \in SUBSET Slots /\ c \in A /\ c \notin S /\ ~Claim(c)
    BY <1>17 DEF FreeSlots, PublishRetry, A, RunnableCopies, Runnable, Claim
  <2>3. \A d \in Slots : d \notin S /\ d # c => copy'[d] = copy[d]
    BY <2>1
  <2>4. B \subseteq A \cup S
    BY <2>2, <2>3 DEF A, B, RunnableCopies, Runnable, CanRetry
  <2>5. ok => B \subseteq (A \ {c}) \cup S
    <3>1. ok => copy'[c].at = "markRetrying"
      BY <1>1, <2>1, <2>2 DEF AfterPublish, TypeOK, Copy
    <3>2. ok => c \notin B
      BY <3>1 DEF B, RunnableCopies, Runnable, InQueue
    <3>3. QED
      BY <2>4, <3>2
  <2>6. Cardinality(B) <= Cardinality(A) + (faults' - faults)
    BY <1>1, <1>2, <2>1, <2>2, <2>4, <2>5, PublishCounts DEF A, B
  <2>7. QED
    BY <1>7, <2>2, <2>6
<1>18. CASE PublishDlq(c)
  <2>1. PICK ok \in BOOLEAN, k \in 0..2 :
          Send(ok, k) /\ copy' = [copy EXCEPT ![c].at = AfterPublish(ok, "markFailed")]
    BY <1>18 DEF PublishDlq
  <2>2. ~Claim(c)
    BY <1>18 DEF PublishDlq, Claim
  <2>3. CASE ok
    BY <1>8, <1>10, <1>12, <2>1, <2>2, <2>3 DEF AfterPublish
  <2>4. CASE ~ok
    <3>1. faults' = faults + 1
      BY <2>1, <2>4 DEF Send, Fault
    <3>2. B \subseteq A \cup {c}
      BY <1>9, <2>1
    <3>3. QED
      BY <1>1, <1>3, <1>5, <1>7, <2>2, <3>1, <3>2
  <2>5. QED
    BY <2>3, <2>4
<1>19. CASE Requeue(c)
  <2>1. Runnable(copy[c]) /\ ~Claim(c)
    BY <1>19 DEF Requeue, Runnable, Claim
  <2>2. QED
    BY <1>8, <1>9, <1>19, <2>1 DEF Requeue
<1>20. CASE Ack(c)
  <2>1. ~Runnable(Free) /\ ~Claim(c)
    BY <1>20 DEF Ack, Runnable, InQueue, Claim, Free
  <2>2. QED
    BY <1>8, <1>9, <1>20, <2>1 DEF Ack
<1>21. CASE Crash(c)
  <2>1. faults' = faults + 1 /\ Cardinality(B) <= Cardinality(A) + 1
    BY <1>5, <1>9, <1>21 DEF Crash, Fault
  <2>2. ~Claim(c) => next <= sum + (faults' - faults)
    BY <1>1, <1>3, <1>7, <2>1
  <2>3. execs' = execs /\ task' = task
    BY <1>21 DEF Crash
  <2>4. QED
    BY <1>1, <1>3, <2>1, <2>3 DEF Left
<1>22. CASE Disconnect(c)
  <2>1. PICK d \in FreeSlots :
          copy' = [copy EXCEPT ![c].owned = FALSE,
                               ![d] = Message("main", copy[c].job, copy[c].attempt)]
    BY <1>22 DEF Disconnect
  <2>2. d \in Slots /\ d # c
    BY <1>22, <2>1 DEF FreeSlots, Disconnect, InHandler
  <2>3. B \subseteq A \cup {d}
    <3>1. \A e \in Slots : e # d => /\ copy'[e].at = copy[e].at /\ copy'[e].job = copy[e].job
                                    /\ copy'[e].n = copy[e].n
      BY <1>1, <2>1, <2>2 DEF TypeOK, Copy
    <3>2. QED
      BY <3>1 DEF A, B, RunnableCopies, Runnable, CanRetry
  <2>4. Cardinality(B) <= Cardinality(A) + 1
    BY <1>2, <2>2, <2>3, Counting DEF A, B
  <2>5. execs' = execs /\ task' = task /\ faults' = faults + 1
    BY <1>22 DEF Disconnect, Fault
  <2>6. QED
    BY <1>1, <1>3, <2>4, <2>5 DEF Left
<1>23. CASE Claim(c)
  <2>1. c \in A /\ Runnable(copy[c])
    BY <1>23 DEF A, RunnableCopies, Runnable, Claim
  <2>2. ASSUME NEW n \in Nat, Start(c, n)
        PROVE  /\ execs'[j] = execs[j] + 1
               /\ B \subseteq A
               /\ ~(n - 1 < MaxRetries) => B \subseteq A \ {c}
    <3> DEFINE v == [copy[c] EXCEPT !.at = "execute", !.n = n]
    <3>1. copy' = [copy EXCEPT ![c] = v]
      BY <1>1, <2>2 DEF Start, TypeOK
    <3>2. v.at = "execute" /\ v.n = n
      BY <1>1 DEF TypeOK, Copy
    <3> HIDE DEF v
    <3>3. ~(n - 1 < MaxRetries) => ~Runnable(v)
      BY <3>2 DEF Runnable, CanRetry, InQueue
    <3>4. execs'[j] = execs[j] + 1
      BY <1>1, <2>2 DEF Start, TypeOK
    <3>5. QED
      BY <1>9, <2>1, <3>1, <3>3, <3>4
  <2>3. CASE /\ task' = [task EXCEPT ![j] = Claimed(task[j])]
             /\ Start(c, task[j].attempt + 1)
             /\ NoFault
    <3>1. task'[j].attempt = task[j].attempt + 1 /\ faults' = faults
      BY <1>1, <2>3 DEF Claimed, TypeOK, NoFault
    <3>2. /\ execs'[j] = execs[j] + 1
          /\ Cardinality(B) <= Cardinality(A)
          /\ ~(task[j].attempt < MaxRetries) => Cardinality(B) + 1 <= Cardinality(A)
      BY <1>1, <1>4, <1>5, <2>1, <2>2, <2>3
    <3>3. QED
      BY <1>1, <1>3, <3>1, <3>2 DEF Left
  <2>4. CASE copy' = [copy EXCEPT ![c].at = "ack"] /\ UNCHANGED <<task, execs, faults>>
    <3>1. B \subseteq A
      BY <1>10, <2>1, <2>4
    <3>2. QED
      BY <1>1, <1>3, <1>4, <2>4, <3>1 DEF Left
  <2>5. CASE /\ faults' = faults + 1
             /\ Start(c, FallbackAttempt(copy[c]))
             /\ task' = task \/ task' = [task EXCEPT ![j] = Claimed(task[j])]
    <3>1. FallbackAttempt(copy[c]) \in Nat
      BY <1>1 DEF FallbackAttempt, TypeOK, Copy
    <3>2. execs'[j] = execs[j] + 1 /\ Cardinality(B) <= Cardinality(A)
      BY <1>4, <2>2, <2>5, <3>1
    <3>3. task'[j].attempt \in {task[j].attempt, task[j].attempt + 1}
      BY <1>1, <2>5 DEF Claimed, TypeOK
    <3>4. Left(j)' <= Left(j)
      BY <1>1, <3>3 DEF Left
    <3>5. QED
      BY <1>1, <1>3, <2>5, <3>2, <3>4
  <2>6. QED
    BY <1>23, <2>3, <2>4, <2>5 DEF Claim, Fault, NoFault
<1>24. QED
  BY <1>13, <1>14, <1>15, <1>16, <1>17, <1>18, <1>19, <1>20, <1>21, <1>22, <1>23
  DEF Handle

\* Whether the producer may still store the first copy, and what is left of the
\* budget, after a step of a slot.
LEMMA StartingOfSlot ==
    ASSUME SafetyInv, Next, TypeOK', NEW c \in Slots,
           Broker(c) \/ Handle(c) \/ Crash(c) \/ Disconnect(c), NEW j \in Jobs
    PROVE  /\ Starting(j)' = Starting(j)
           /\ j # copy[c].job =>
                /\ oks'[j] = oks[j] /\ execs'[j] = execs[j] /\ Left(j)' = Left(j)
<1>1. TypeOK
  BY DEF SafetyInv
<1>2. api' = api /\ (j # copy[c].job => task'[j] = task[j])
  BY <1>1, SlotStep
<1>3. task[j].status # "absent" => task'[j].status # "absent"
  BY RowStep
<1>4. task[j].status = "absent" => task'[j] = task[j]
  BY <1>1, <1>2, SlotStep DEF SafetyInv, RowExists
<1>5. j # copy[c].job => oks'[j] = oks[j] /\ execs'[j] = execs[j]
  BY <1>1 DEF Broker, RetryExpire, Deliver, Crash, Disconnect, Handle, DropMalformed,
     Claim, Start, ExecuteOk, ExecuteFail, Throw, MarkSucceeded, PublishRetry,
     MarkRetrying, PublishDlq, MarkFailed, Requeue, Ack, TypeOK
<1>6. QED
  BY <1>2, <1>3, <1>4, <1>5 DEF Starting, Left

LEMMA SumsTyped ==
    ASSUME TypeOK, NEW j \in Jobs
    PROVE  /\ oks[j] \in Nat /\ execs[j] \in Nat /\ faults \in Nat
           /\ Starting(j) \in 0..1 /\ Left(j) \in 0..MaxRetries
           /\ Cardinality(EffectiveCopies(j)) \in Nat
           /\ Cardinality(RunnableCopies(j)) \in Nat
<1>1. task[j].attempt \in Nat /\ MaxRetries \in Nat
  BY ConstantsAssumption DEF TypeOK
<1>2. EffectiveCopies(j) \in SUBSET Slots /\ RunnableCopies(j) \in SUBSET Slots
  BY DEF EffectiveCopies, RunnableCopies
<1>3. /\ Cardinality(EffectiveCopies(j)) \in Nat
      /\ Cardinality(RunnableCopies(j)) \in Nat
  BY <1>2, Counted
<1>4. QED
  BY <1>1, <1>3 DEF Starting, Left, TypeOK

LEMMA SlotKeepsSums ==
    ASSUME SafetyInv, Next, TypeOK', NEW c \in Slots,
           Broker(c) \/ Handle(c) \/ Crash(c) \/ Disconnect(c), NEW j \in Jobs
    PROVE  /\ Effects(j)' <= Effects(j) + (faults' - faults)
           /\ Executions(j)' <= Executions(j) + (faults' - faults)
<1>1. TypeOK
  BY DEF SafetyInv
<1>2. faults' \in {faults, faults + 1} /\ faults \in Nat
  BY <1>1, FaultsGrow DEF TypeOK
<1>3. /\ oks[j] \in Nat /\ execs[j] \in Nat
      /\ Starting(j) \in 0..1 /\ Left(j) \in 0..MaxRetries
      /\ Cardinality(EffectiveCopies(j)) \in Nat
      /\ Cardinality(RunnableCopies(j)) \in Nat
  BY <1>1, SumsTyped
<1>4. /\ oks'[j] \in Nat /\ execs'[j] \in Nat /\ Left(j)' \in 0..MaxRetries
      /\ Cardinality(EffectiveCopies(j)') \in Nat
      /\ Cardinality(RunnableCopies(j)') \in Nat
  <2>1. EffectiveCopies(j)' \in SUBSET Slots /\ RunnableCopies(j)' \in SUBSET Slots
    BY DEF EffectiveCopies, RunnableCopies
  <2>2. task'[j].attempt \in Nat /\ MaxRetries \in Nat
    BY ConstantsAssumption DEF TypeOK
  <2>3. QED
    BY <2>1, <2>2, Counted DEF TypeOK, Left
<1>5. MaxRetries \in Nat /\ Starting(j)' = Starting(j)
  BY ConstantsAssumption, StartingOfSlot
<1>6. CASE j = copy[c].job
  <2>1. oks'[j] + Cardinality(EffectiveCopies(j)')
          <= oks[j] + Cardinality(EffectiveCopies(j)) + (faults' - faults)
    BY <1>2, <1>6, EffectsOfSlot
  <2>2. execs'[j] + Cardinality(RunnableCopies(j)') + Left(j)'
          <= execs[j] + Cardinality(RunnableCopies(j)) + Left(j) + (faults' - faults)
    BY <1>2, <1>6, ExecutionsOfSlot
  <2>3. QED
    BY <1>2, <1>3, <1>4, <1>5, <2>1, <2>2 DEF Effects, Executions
<1>7. CASE j # copy[c].job
  <2>1. /\ Cardinality(EffectiveCopies(j)') <= Cardinality(EffectiveCopies(j))
        /\ Cardinality(RunnableCopies(j)') <= Cardinality(RunnableCopies(j))
    <3>1. /\ EffectiveCopies(j)' \subseteq EffectiveCopies(j)
          /\ RunnableCopies(j)' \subseteq RunnableCopies(j)
      BY <1>7, OtherCopies
    <3>2. EffectiveCopies(j) \in SUBSET Slots /\ RunnableCopies(j) \in SUBSET Slots
      BY DEF EffectiveCopies, RunnableCopies
    <3>3. EffectiveCopies(j)' \in SUBSET Slots /\ RunnableCopies(j)' \in SUBSET Slots
      BY <3>1, <3>2
    <3>4. QED
      BY <3>1, <3>2, <3>3, Counting
  <2>2. oks'[j] = oks[j] /\ execs'[j] = execs[j] /\ Left(j)' = Left(j)
    BY <1>7, StartingOfSlot
  <2>3. QED
    BY <1>2, <1>3, <1>4, <1>5, <2>1, <2>2 DEF Effects, Executions
<1>8. QED
  BY <1>6, <1>7

LEMMA ApiKeepsSums ==
    ASSUME SafetyInv, SafetyInv', NEW i \in Jobs, Api(i), NEW j \in Jobs,
           task[j].status = "absent" => task[j].attempt = 0,
           faults' \in {faults, faults + 1}
    PROVE  /\ Effects(j)' <= Effects(j) + (faults' - faults)
           /\ Executions(j)' <= Executions(j) + (faults' - faults)
<1>1. TypeOK /\ TypeOK' /\ faults \in Nat /\ MaxRetries \in Nat
  BY ConstantsAssumption DEF SafetyInv, TypeOK
<1>2. /\ oks[j] \in Nat /\ execs[j] \in Nat
      /\ Starting(j) \in 0..1 /\ Left(j) \in 0..MaxRetries
      /\ Cardinality(EffectiveCopies(j)) \in Nat
      /\ Cardinality(RunnableCopies(j)) \in Nat
  BY <1>1, SumsTyped
<1>3. /\ EffectiveCopies(j) \in SUBSET Slots /\ RunnableCopies(j) \in SUBSET Slots
      /\ EffectiveCopies(j)' \in SUBSET Slots /\ RunnableCopies(j)' \in SUBSET Slots
  BY DEF EffectiveCopies, RunnableCopies
<1>4. /\ Cardinality(EffectiveCopies(j)') \in Nat
      /\ Cardinality(RunnableCopies(j)') \in Nat
  BY <1>3, Counted
<1>5. Left(j)' \in 0..MaxRetries /\ Starting(j)' \in 0..1
  BY <1>1 DEF Left, Starting, TypeOK
<1>6. oks' = oks /\ execs' = execs
  BY DEF Api, Enqueue, ApiPublish, ApiMarkQueued, ApiCrash
<1>7. Left(j)' <= Left(j)
  <2>1. CASE Enqueue(i)
    <3>1. task'[j].attempt \in Nat /\ (i # j => task'[j] = task[j])
      BY <1>1, <2>1 DEF Enqueue, TypeOK
    <3>2. i = j => Left(j) = MaxRetries
      BY <1>1, <2>1 DEF Enqueue, Inserts, Left
    <3>3. QED
      BY <1>1, <1>2, <1>5, <3>1, <3>2 DEF Left
  <2>2. CASE ApiMarkQueued(i)
    <3>1. task'[j].attempt = task[j].attempt
      BY <1>1, <2>2 DEF ApiMarkQueued, BestEffort, Queued, TypeOK
    <3>2. QED
      BY <1>2, <3>1 DEF Left
  <2>3. CASE UNCHANGED task
    BY <1>2, <2>3 DEF Left
  <2>4. QED
    BY <2>1, <2>2, <2>3 DEF Api, ApiPublish, ApiCrash
<1>8. Starting(j)' <= Starting(j)
  <2>1. task'[j].status = "absent" => task[j].status = "absent"
    BY <1>1 DEF Api, Enqueue, ApiPublish, ApiMarkQueued, ApiCrash, BestEffort, Queued,
       TypeOK
  <2>2. api'[j] = "publish" => api[j] = "publish" \/ task[j].status = "absent"
    BY <1>1 DEF Api, Enqueue, ApiPublish, ApiMarkQueued, ApiCrash, Inserts, TypeOK
  <2>3. QED
    BY <2>1, <2>2 DEF Starting
<1>9. ASSUME EffectiveCopies(j)' \subseteq EffectiveCopies(j),
             RunnableCopies(j)' \subseteq RunnableCopies(j)
      PROVE  /\ Effects(j)' <= Effects(j) + (faults' - faults)
             /\ Executions(j)' <= Executions(j) + (faults' - faults)
  <2>1. /\ Cardinality(EffectiveCopies(j)') <= Cardinality(EffectiveCopies(j))
        /\ Cardinality(RunnableCopies(j)') <= Cardinality(RunnableCopies(j))
    BY <1>3, <1>9, Counted, FS_Subset
  <2>2. QED
    BY <1>1, <1>2, <1>4, <1>5, <1>6, <1>7, <1>8, <2>1 DEF Effects, Executions
<1>10. CASE Enqueue(i) \/ ApiMarkQueued(i) \/ ApiCrash(i)
  BY <1>9, <1>10 DEF Enqueue, ApiMarkQueued, ApiCrash, EffectiveCopies, RunnableCopies,
     Effective, Runnable, CanRetry
<1>11. CASE ApiPublish(i)
  <2>1. PICK ok \in BOOLEAN, S \in SUBSET FreeSlots :
          /\ Send(ok, Cardinality(S))
          /\ copy' = [c \in Slots |->
                       IF c \in S THEN Message("main", i, ClientAttempt[i])
                       ELSE copy[c]]
          /\ api' = [api EXCEPT ![i] = IF ok THEN "markQueued" ELSE "idle"]
    BY <1>11 DEF ApiPublish
  <2>2. /\ \A c \in Slots : c \notin S => copy'[c] = copy[c]
        /\ \A c \in S : copy'[c].job = i
        /\ S \in SUBSET Slots
    BY <2>1 DEF Message, FreeSlots
  <2>3. CASE i # j
    BY <1>9, <2>2, <2>3 DEF EffectiveCopies, RunnableCopies, Effective, Runnable, CanRetry
  <2>4. CASE i = j
    <3>1. /\ EffectiveCopies(j)' \subseteq EffectiveCopies(j) \cup S
          /\ RunnableCopies(j)' \subseteq RunnableCopies(j) \cup S
      BY <2>2 DEF EffectiveCopies, RunnableCopies, Effective, Runnable, CanRetry
    <3>2. /\ Cardinality(EffectiveCopies(j)') <= Cardinality(EffectiveCopies(j)) + Cardinality(S)
          /\ Cardinality(RunnableCopies(j)') <= Cardinality(RunnableCopies(j)) + Cardinality(S)
      BY <1>3, <2>2, <3>1, CountedUnion
    <3>3. task[j].status # "absent" /\ task' = task
      BY <1>11, <2>4 DEF ApiPublish, SafetyInv, RowExists
    <3>4. Starting(j) = 1 /\ Starting(j)' = 0
      BY <1>1, <1>11, <2>1, <2>4, <3>3 DEF Starting, ApiPublish, TypeOK
    <3>5. Cardinality(S) <= 1 + (faults' - faults) /\ Cardinality(S) \in Nat
      BY <1>1, <2>1 DEF Send, Fault, NoFault
    <3>6. QED
      BY <1>1, <1>2, <1>4, <1>5, <1>6, <1>7, <3>2, <3>4, <3>5 DEF Effects, Executions
  <2>5. QED
    BY <2>3, <2>4
<1>12. QED
  BY <1>10, <1>11 DEF Api

AbsentRowsAreBlank == \A j \in Jobs : task[j].status = "absent" => task[j].attempt = 0

LEMMA RepeatsInit == Init => RepeatsInv /\ AbsentRowsAreBlank
<1> SUFFICES ASSUME Init, NEW j \in Jobs
             PROVE  /\ Effects(j) <= 1 + faults
                    /\ Executions(j) <= MaxRetries + 1 + faults
                    /\ task[j].attempt = 0
  BY DEF RepeatsInv, AbsentRowsAreBlank
<1>1. MaxRetries \in Nat
  BY ConstantsAssumption
<1>2. task[j].status = "absent" /\ task[j].attempt = 0
      /\ oks[j] = 0 /\ execs[j] = 0 /\ faults = 0
  BY DEF Init
<1>3. EffectiveCopies(j) = {} /\ RunnableCopies(j) = {}
  BY DEF Init, Free, EffectiveCopies, RunnableCopies, Effective, Runnable, Unresolved,
     InQueue
<1>4. Cardinality(EffectiveCopies(j)) = 0 /\ Cardinality(RunnableCopies(j)) = 0
  BY <1>3, FS_EmptySet
<1>5. Starting(j) = 1 /\ Left(j) <= MaxRetries /\ Left(j) \in Nat
  BY <1>1, <1>2 DEF Starting, Left
<1>6. QED
  BY <1>1, <1>2, <1>4, <1>5 DEF Effects, Executions

\* No step takes more out of the sums, or adds more to them, than it pays for.
LEMMA SumsKept ==
    ASSUME SafetyInv, SafetyInv', AbsentRowsAreBlank, [Next]_vars, NEW j \in Jobs
    PROVE  /\ Effects(j)' <= Effects(j) + (faults' - faults)
           /\ Executions(j)' <= Executions(j) + (faults' - faults)
           /\ Effects(j) \in Int /\ Effects(j)' \in Int
           /\ Executions(j) \in Int /\ Executions(j)' \in Int
<1>1. TypeOK /\ TypeOK' /\ faults \in Nat /\ MaxRetries \in Nat
  BY ConstantsAssumption DEF SafetyInv, TypeOK
<1>2. faults' \in {faults, faults + 1}
  BY <1>1, FaultsGrow
<1>3. /\ Effects(j) \in Int /\ Executions(j) \in Int
      /\ Effects(j)' \in Int /\ Executions(j)' \in Int
  <2>1. /\ oks[j] \in Nat /\ execs[j] \in Nat
        /\ Starting(j) \in 0..1 /\ Left(j) \in 0..MaxRetries
        /\ Cardinality(EffectiveCopies(j)) \in Nat
        /\ Cardinality(RunnableCopies(j)) \in Nat
    BY <1>1, SumsTyped
  <2>2. /\ EffectiveCopies(j)' \in SUBSET Slots /\ RunnableCopies(j)' \in SUBSET Slots
        /\ Starting(j)' \in 0..1
    BY DEF EffectiveCopies, RunnableCopies, Starting
  <2>3. /\ Cardinality(EffectiveCopies(j)') \in Nat
        /\ Cardinality(RunnableCopies(j)') \in Nat
    BY <2>2, Counted
  <2>4. oks'[j] \in Nat /\ execs'[j] \in Nat /\ Left(j)' \in Int
    BY <1>1 DEF TypeOK, Left
  <2>5. QED
    BY <1>1, <2>1, <2>2, <2>3, <2>4 DEF Effects, Executions
<1>4. ASSUME UNCHANGED vars
      PROVE  Effects(j)' = Effects(j) /\ Executions(j)' = Executions(j) /\ faults' = faults
  BY <1>4 DEF vars, Effects, Executions, Starting, Left, EffectiveCopies, RunnableCopies,
     Effective, Runnable, CanRetry
<1>5. ASSUME Next
      PROVE  /\ Effects(j)' <= Effects(j) + (faults' - faults)
             /\ Executions(j)' <= Executions(j) + (faults' - faults)
  BY <1>1, <1>2, <1>5, SlotKeepsSums, ApiKeepsSums DEF Next, AbsentRowsAreBlank
<1>6. QED
  BY <1>1, <1>3, <1>4, <1>5

LEMMA BlankKept ==
    ASSUME SafetyInv, AbsentRowsAreBlank, [Next]_vars
    PROVE  AbsentRowsAreBlank'
<1>1. ASSUME NEW j \in Jobs, task'[j].status = "absent" PROVE task'[j] = task[j]
  BY <1>1, RowStep DEF vars
<1>2. QED
  BY <1>1 DEF AbsentRowsAreBlank

LEMMA RepeatsStep ==
    ASSUME SafetyInv, SafetyInv', RepeatsInv, AbsentRowsAreBlank, [Next]_vars
    PROVE  RepeatsInv' /\ AbsentRowsAreBlank'
<1>1. faults \in Nat /\ MaxRetries \in Nat
  BY ConstantsAssumption DEF SafetyInv, TypeOK
<1>2. faults' \in {faults, faults + 1}
  BY <1>1, FaultsGrow
<1>3. ASSUME NEW j \in Jobs
      PROVE  /\ Effects(j)' <= 1 + faults'
             /\ Executions(j)' <= MaxRetries + 1 + faults'
  <2>1. Effects(j) <= 1 + faults /\ Executions(j) <= MaxRetries + 1 + faults
    BY DEF RepeatsInv
  <2>2. QED
    BY <1>1, <1>2, <2>1, SumsKept
<1>4. QED
  BY <1>3, BlankKept DEF RepeatsInv

LEMMA RepeatsInvariant == Spec => [](RepeatsInv /\ AbsentRowsAreBlank)
<1>1. Init => RepeatsInv /\ AbsentRowsAreBlank
  BY RepeatsInit
<1>2. /\ SafetyInv /\ SafetyInv' /\ RepeatsInv /\ AbsentRowsAreBlank /\ [Next]_vars
      => RepeatsInv' /\ AbsentRowsAreBlank'
  BY RepeatsStep
<1>3. QED
  BY <1>1, <1>2, SafetyInvariant, PTL DEF Spec

\* Whatever fails and in whatever order: each effect past the first, and each
\* execution past the retry budget, has a fault of its own.
THEOREM RepeatsArePaid == Spec => []RepeatsPaidByFaults
<1>1. SafetyInv /\ RepeatsInv => RepeatsPaidByFaults
  <2> SUFFICES ASSUME SafetyInv, RepeatsInv, NEW j \in Jobs
               PROVE  oks[j] <= 1 + faults /\ execs[j] <= MaxRetries + 1 + faults
    BY DEF RepeatsPaidByFaults
  <2>1. MaxRetries \in Nat
    BY ConstantsAssumption
  <2>2. /\ oks[j] \in Nat /\ execs[j] \in Nat /\ faults \in Nat
        /\ Starting(j) \in 0..1 /\ Left(j) \in 0..MaxRetries
        /\ Cardinality(EffectiveCopies(j)) \in Nat
        /\ Cardinality(RunnableCopies(j)) \in Nat
    BY SumsTyped DEF SafetyInv
  <2>3. Effects(j) <= 1 + faults /\ Executions(j) <= MaxRetries + 1 + faults
    BY DEF RepeatsInv
  <2>4. QED
    BY <2>1, <2>2, <2>3 DEF Effects, Executions
<1>2. QED
  BY <1>1, RepeatsInvariant, SafetyInvariant, PTL

-----------------------------------------------------------------------------
(***************************************************************************)
(* The promise is kept.  A step is about one job; the others keep their    *)
(* phase.  Of the job itself, only Enqueue accepts it, only ApiPublish     *)
(* hands it over, and only ExecuteOk and PublishDlq settle it: an accepted *)
(* job has no copy, because a copy would make it secure.                   *)
(***************************************************************************)

Absent(j) == task[j].status = "absent"

LEMMA PhaseOf ==
    ASSUME NEW j \in WellFormed
    PROVE  /\ Settled(j) => phase[j] = "settled"
           /\ ~Settled(j) /\ Held(j) => phase[j] = "live"
           /\ ~Settled(j) /\ ~Held(j) /\ ~Absent(j) => phase[j] = "accepted"
           /\ ~Settled(j) /\ ~Held(j) /\ Absent(j) => phase[j] = "new"
           /\ Settled(j)' => phase'[j] = "settled"
           /\ ~Settled(j)' /\ Held(j)' => phase'[j] = "live"
           /\ ~Settled(j)' /\ ~Held(j)' /\ ~Absent(j)' => phase'[j] = "accepted"
           /\ ~Settled(j)' /\ ~Held(j)' /\ Absent(j)' => phase'[j] = "new"
<1> DEFINE Of(s, h, a) == CASE s -> "settled"
                            [] ~s /\ h -> "live"
                            [] ~s /\ ~h /\ ~a -> "accepted"
                            [] OTHER -> "new"
<1>1. /\ \A h, a \in BOOLEAN : Of(TRUE, h, a) = "settled"
      /\ \A a \in BOOLEAN : Of(FALSE, TRUE, a) = "live"
      /\ Of(FALSE, FALSE, FALSE) = "accepted"
      /\ Of(FALSE, FALSE, TRUE) = "new"
  OBVIOUS
<1>2. phase[j] = Of(Settled(j), Held(j), Absent(j))
  BY DEF phase, Absent
<1>3. phase'[j] = Of(Settled(j)', Held(j)', Absent(j)')
  BY DEF phase, Absent
<1>4. /\ Settled(j) \in BOOLEAN /\ Held(j) \in BOOLEAN /\ Absent(j) \in BOOLEAN
      /\ Settled(j)' \in BOOLEAN /\ Held(j)' \in BOOLEAN /\ Absent(j)' \in BOOLEAN
  BY DEF Settled, Held, Absent
<1> HIDE DEF Of
<1>5. QED
  BY <1>1, <1>2, <1>3, <1>4

\* What a step leaves of the jobs it is not about.
LEMMA OtherJobs ==
    ASSUME TypeOK, NEW i \in Jobs, NEW k \in Jobs, i # k,
           \/ Api(k)
           \/ \E c \in Slots : /\ copy[c].job = k
                               /\ Broker(c) \/ Handle(c) \/ Crash(c) \/ Disconnect(c)
    PROVE  /\ Settled(i)' <=> Settled(i)
           /\ Held(i)' <=> Held(i)
           /\ Absent(i)' <=> Absent(i)
<1>1. CASE Api(k)
  <2>1. \A c \in Slots : copy[c].at # "free" => copy'[c] = copy[c]
    BY <1>1 DEF Api, Enqueue, ApiPublish, ApiMarkQueued, ApiCrash, FreeSlots
  <2>2. \A c \in Slots : copy'[c].job = i => copy'[c] = copy[c]
    BY <1>1 DEF Api, Enqueue, ApiPublish, ApiMarkQueued, ApiCrash, Message
  <2>3. \A c \in Slots : copy[c].at \in Unresolved => copy[c].at # "free"
    BY DEF Unresolved, InQueue
  <2>4. Held(i)' <=> Held(i)
    BY <2>1, <2>2, <2>3 DEF Held
  <2>5. oks' = oks /\ dlq' = dlq /\ task'[i] = task[i]
    BY <1>1 DEF Api, Enqueue, ApiPublish, ApiMarkQueued, ApiCrash, BestEffort, TypeOK
  <2>6. QED
    BY <2>4, <2>5 DEF Settled, Absent
<1>2. ASSUME NEW c \in Slots, copy[c].job = k,
             Broker(c) \/ Handle(c) \/ Crash(c) \/ Disconnect(c)
      PROVE  /\ Settled(i)' <=> Settled(i)
             /\ Held(i)' <=> Held(i)
             /\ Absent(i)' <=> Absent(i)
  <2>1. \A d \in Slots : copy[d].job = i /\ copy[d].at # "free" => copy'[d] = copy[d]
    BY <1>2, OthersKept
  <2>2. \A d \in Slots : copy'[d].job = i /\ copy'[d].at # "free" => copy'[d] = copy[d]
    BY <1>2, SlotCopies
  <2>3. "free" \notin Unresolved
    BY DEF Unresolved, InQueue
  <2>4. Held(i)' <=> Held(i)
    BY <2>1, <2>2, <2>3 DEF Held
  <2>5. oks'[i] = oks[i] /\ dlq'[i] = dlq[i]
    BY <1>2 DEF Broker, RetryExpire, Deliver, Crash, Disconnect, Handle, DropMalformed,
       Claim, Start, ExecuteOk, ExecuteFail, Throw, MarkSucceeded, PublishRetry,
       MarkRetrying, PublishDlq, MarkFailed, Requeue, Ack, TypeOK
  <2>6. task'[i] = task[i]
    BY <1>2, SlotStep
  <2>7. QED
    BY <2>4, <2>5, <2>6 DEF Settled, Absent
<1>3. QED
  BY <1>1, <1>2

\* How far the job of a step goes.
LEMMA OwnJob ==
    ASSUME SafetyInv, Next, NEW k \in WellFormed,
           \/ Api(k)
           \/ \E c \in Slots : /\ copy[c].job = k
                               /\ Broker(c) \/ Handle(c) \/ Crash(c) \/ Disconnect(c)
    PROVE  \/ phase'[k] = phase[k]
           \/ phase[k] = "new" /\ phase'[k] = "accepted"
           \/ phase[k] = "accepted" /\ phase'[k] = "live"
           \/ phase[k] = "live" /\ phase'[k] = "settled"
<1>1. TypeOK /\ k \in Jobs
  BY DEF SafetyInv, WellFormed
<1>2. CASE Settled(k)
  BY <1>1, <1>2, SettledKept, PhaseOf DEF Settled
<1>3. CASE ~Settled(k) /\ Held(k)
  BY <1>3, SecureKept, PhaseOf DEF Secure
<1>4. CASE ~Settled(k) /\ ~Held(k)
  <2>1. ~HandedOver(k)
    BY <1>4 DEF SafetyInv, HandedOverIsSecure, Secure
  <2>2. Api(k)
    BY <1>1, <2>1, SlotStep DEF HandedOver
  <2>3. ~Settled(k)'
    BY <1>4, <2>2 DEF Settled, Api, Enqueue, ApiPublish, ApiMarkQueued, ApiCrash
  <2>4. ~Absent(k) => ~Absent(k)'
    BY RowStep, <1>1 DEF Absent
  <2>5. ASSUME Absent(k) PROVE ~Held(k)'
    <3>1. Enqueue(k)
      BY <1>1, <2>2, <2>5 DEF Absent, Api, ApiPublish, ApiMarkQueued, ApiCrash, SafetyInv,
         RowExists
    <3>2. QED
      BY <1>4, <3>1 DEF Enqueue, Held
  <2>6. QED
    BY <1>4, <2>3, <2>4, <2>5, PhaseOf
<1>5. QED
  BY <1>2, <1>3, <1>4

LEMMA PromiseInit == Init => Promise!Init
<1> SUFFICES ASSUME Init PROVE phase = [j \in WellFormed |-> "new"]
  BY DEF Promise!Init
<1>1. \A c \in Slots : copy[c].at = "free"
  BY DEF Init, Free
<1>2. ASSUME NEW j \in WellFormed
      PROVE  ~Settled(j) /\ ~Held(j) /\ Absent(j)
  BY <1>1 DEF Init, Settled, Held, Absent, Unresolved, InQueue, WellFormed
<1>3. ASSUME NEW j \in WellFormed PROVE phase[j] = "new"
  BY <1>2, PhaseOf
<1>4. QED
  BY <1>3 DEF phase

LEMMA PromiseStep == SafetyInv /\ [Next]_vars => [Promise!Next]_phase
<1> SUFFICES ASSUME SafetyInv, [Next]_vars PROVE [Promise!Next]_phase
  OBVIOUS
<1>1. TypeOK
  BY DEF SafetyInv
<1>2. phase = [j \in WellFormed |-> phase[j]] /\ phase' = [j \in WellFormed |-> phase'[j]]
  BY DEF phase
<1>3. CASE UNCHANGED vars
  BY <1>3 DEF vars, phase, Settled, Held
<1>4. CASE Next
  <2>1. PICK k \in Jobs :
          \/ Api(k)
          \/ \E c \in Slots : /\ copy[c].job = k
                              /\ Broker(c) \/ Handle(c) \/ Crash(c) \/ Disconnect(c)
    <3>1. ASSUME NEW c \in Slots, Broker(c) \/ Handle(c) \/ Crash(c) \/ Disconnect(c)
          PROVE  copy[c].job \in Jobs
      BY <1>1, <3>1 DEF Broker, RetryExpire, Deliver, Crash, Disconnect, InHandler, Handle,
         DropMalformed, Claim, ExecuteOk, ExecuteFail, Throw, MarkSucceeded, PublishRetry,
         MarkRetrying, PublishDlq, MarkFailed, Requeue, Ack, TypeOK
    <3>2. QED
      BY <1>4, <3>1 DEF Next
  <2>2. ASSUME NEW i \in WellFormed, i # k PROVE phase'[i] = phase[i]
    <3>1. /\ Settled(i)' <=> Settled(i)
          /\ Held(i)' <=> Held(i)
          /\ Absent(i)' <=> Absent(i)
      BY <1>1, <2>1, <2>2, OtherJobs DEF WellFormed
    <3>2. QED
      BY <3>1, PhaseOf
  <2>3. CASE k \notin WellFormed
    <3>1. \A i \in WellFormed : phase'[i] = phase[i]
      BY <2>2, <2>3
    <3>2. QED
      BY <1>2, <3>1
  <2>4. CASE k \in WellFormed
    <3>1. \/ phase'[k] = phase[k]
          \/ phase[k] = "new" /\ phase'[k] = "accepted"
          \/ phase[k] = "accepted" /\ phase'[k] = "live"
          \/ phase[k] = "live" /\ phase'[k] = "settled"
      BY <1>4, <2>1, <2>4, OwnJob
    <3>2. phase' = [phase EXCEPT ![k] = phase'[k]]
      <4>1. \A i \in WellFormed : phase'[i] = [phase EXCEPT ![k] = phase'[k]][i]
        BY <1>2, <2>2, <2>4
      <4>2. QED
        BY <1>2, <4>1
    <3>3. ASSUME phase'[k] = phase[k] PROVE phase' = phase
      BY <1>2, <2>2, <3>3
    <3>4. QED
      BY <2>4, <3>1, <3>2, <3>3
      DEF Promise!Next, Promise!Accept, Promise!HandOver, Promise!Settle, Promise!Move
  <2>5. QED
    BY <2>3, <2>4
<1>5. QED
  BY <1>3, <1>4

\* Every behaviour of the pipeline is one of AtLeastOnce for the well-formed jobs:
\* a job that was handed over is held until it is settled, and settled for ever.
THEOREM ThePromiseIsKept == Spec => Promise!Spec
<1>1. Init => Promise!Init
  BY PromiseInit
<1>2. SafetyInv /\ [Next]_vars => [Promise!Next]_phase
  BY PromiseStep
<1>3. QED
  BY <1>1, <1>2, SafetyInvariant, PTL DEF Spec, Promise!Spec

-----------------------------------------------------------------------------
(***************************************************************************)
(* OutboundMessages.                                                       *)
(***************************************************************************)
-----------------------------------------------------------------------------
(* The pipeline underneath. *)

LEMMA CallIsPipelineStep ==
    ASSUME NEW j \in Jobs, Call(j) \/ CallerDies(j)
    PROVE  Api(j) \/ UNCHANGED vars
BY DEF Call, CallerDies, Find, Create, EnqueueJob, PublishJob, SetTaskId, Api

LEMMA SlotIsPipelineStep ==
    ASSUME NEW c \in Slots, SendMessage(c) \/ WorkerDies(c) \/ Underneath(c)
    PROVE  Broker(c) \/ Handle(c) \/ Crash(c) \/ Disconnect(c) \/ UNCHANGED vars
<1>1. CASE Fail(c)
  BY <1>1 DEF Fail, Handle, ExecuteFail
<1>2. CASE ClaimJob(c) \/ Return(c) \/ Settle(c)
  BY <1>2 DEF ClaimJob, Return, Settle, Handle
<1>3. CASE WorkerDies(c) \/ Underneath(c)
  BY <1>3 DEF WorkerDies, Underneath
<1>4. CASE \/ UnknownInstance(c) \/ MarkSending(c) \/ Dispatch(c) \/ MarkSent(c)
           \/ MarkRefused(c) \/ Hook(c)
  BY <1>4 DEF UnknownInstance, MarkSending, Dispatch, MarkSent, MarkRefused, Hook
<1>5. QED
  BY <1>1, <1>2, <1>3, <1>4 DEF SendMessage

LEMMA PipelineStep == [OutboundNext]_outboundVars => [Next]_vars
<1> SUFFICES ASSUME [OutboundNext]_outboundVars PROVE [Next]_vars
  OBVIOUS
<1>1. CASE UNCHANGED outboundVars
  BY <1>1 DEF outboundVars
<1>2. CASE OutboundNext
  BY <1>2, CallIsPipelineStep, SlotIsPipelineStep DEF OutboundNext, Next
<1>3. QED
  BY <1>1, <1>2

\* Sending messages runs on the job pipeline as it is.
THEOREM RunsOnThePipeline == OutboundSpec => Spec
<1>1. OutboundInit => Init
  BY DEF OutboundInit
<1>2. QED
  BY <1>1, PipelineStep, PTL DEF OutboundSpec, Spec

LEMMA PipelineInvariant == OutboundSpec => []SafetyInv
BY RunsOnThePipeline, SafetyInvariant, PTL

\* No job that carries a message is lost in silence.
THEOREM NoMessageIsLost == OutboundSpec => []NoSilentLoss
BY RunsOnThePipeline, NothingIsLost, PTL

-----------------------------------------------------------------------------
(***************************************************************************)
(* The inductive invariant.  A handler that is busy with a message has the *)
(* copy of a job that exists; a job exists only after its row; a call that *)
(* has not inserted its row has neither; and no two rows have one key.     *)
(***************************************************************************)

MsgRow == [status : MsgStatus, linked : BOOLEAN]

Present(j) == msg[j].status # "absent"

StepFollowsCopy ==
    \A c \in Slots : step[c] # "none" => copy[c].at \in {"execute", "publishDlq"}

RowComesFirst ==
    \A j \in Jobs :
        /\ caller[j] \in {"new", "create"} => ~Present(j)
        /\ caller[j] \in {"enqueue", "publish"} => Present(j)
        /\ task[j].status # "absent" => Present(j)

OneRowPerKey ==
    \A i, j \in Jobs : i # j /\ SameKey(i, j) => ~Present(i) \/ ~Present(j)

OutboundInv ==
    /\ OutboundTypeOK
    /\ StepFollowsCopy
    /\ RowComesFirst
    /\ OneRowPerKey

LEMMA OutboundInitInv == OutboundInit => OutboundInv
<1> SUFFICES ASSUME OutboundInit PROVE OutboundInv
  OBVIOUS
<1>1. /\ \A j \in Jobs : caller[j] = "new" /\ ~Present(j) /\ task[j].status = "absent"
      /\ \A c \in Slots : step[c] = "none"
  BY DEF OutboundInit, Init, Present
<1>2. OutboundTypeOK
  BY OutboundAssumption DEF OutboundInit, OutboundTypeOK, MsgStatus
<1>3. QED
  BY <1>1, <1>2 DEF OutboundInv, StepFollowsCopy, RowComesFirst, OneRowPerKey

\* A row that is there and, if it says sent, goes on saying so.
Follows(r, m) ==
    /\ r \in MsgRow
    /\ m.status # "absent" => r.status # "absent"
    /\ m.status = "sent" => r.status = "sent"

\* What a statement makes of a row.
LEMMA RowWrites ==
    ASSUME NEW m \in MsgRow
    PROVE  /\ Follows(Linked(m), m)
           /\ Follows(MarkedSending(m), m)
           /\ Follows(MarkedSent(m), m)
           /\ Follows(MarkedFailed(m), m)
<1>1. Follows(Linked(m), m)
  BY DEF MsgRow, MsgStatus, Linked, Follows
<1>2. ASSUME NEW s \in {"sending", "sent", "failed"},
             m.status = "sent" => s = "sent"
      PROVE  Follows([m EXCEPT !.status = s], m)
  BY <1>2 DEF MsgRow, MsgStatus, Follows
<1>3. Follows(m, m)
  BY DEF Follows
<1>4. Follows(MarkedSending(m), m)
  BY <1>2, <1>3 DEF MarkedSending
<1>5. Follows(MarkedSent(m), m)
  BY <1>2 DEF MarkedSent
<1>6. Follows(MarkedFailed(m), m)
  BY <1>2, <1>3 DEF MarkedFailed
<1>7. QED
  BY <1>1, <1>4, <1>5, <1>6

\* A statement on a row that is there.
Touches(j) ==
    /\ msg' \in [Jobs -> MsgRow]
    /\ \A i \in Jobs : i # j => msg'[i] = msg[i]
    /\ msg'[j].status # "absent"
    /\ msg[j].status = "sent" => msg'[j].status = "sent"

LEMMA Touching ==
    ASSUME msg \in [Jobs -> MsgRow], NEW j \in Jobs, Present(j),
           NEW r, Follows(r, msg[j]),
           msg' = msg \/ msg' = [msg EXCEPT ![j] = r]
    PROVE  Touches(j)
<1>1. CASE msg' = msg
  BY <1>1 DEF Touches, Present
<1>2. CASE msg' = [msg EXCEPT ![j] = r]
  <2>1. r \in MsgRow
    BY DEF Follows
  <2>2. msg' \in [Jobs -> MsgRow]
    BY <1>2, <2>1
  <2>3. QED
    BY <1>2, <2>2 DEF Touches, Present, Follows
<1>3. QED
  BY <1>1, <1>2

LEMMA MishapTyped ==
    ASSUME mishaps \in 0..MaxMishaps, Mishap \/ NoMishap
    PROVE  mishaps' \in 0..MaxMishaps
BY OutboundAssumption DEF Mishap, NoMishap

-----------------------------------------------------------------------------
(* The worker. *)

\* The job of a copy has a row, whose call of send is past its INSERT.
LEMMA CarriedJob ==
    ASSUME SafetyInv, OutboundInv, NEW c \in Slots, copy[c].at # "free"
    PROVE  /\ copy[c].job \in Jobs
           /\ Present(copy[c].job)
           /\ caller[copy[c].job] \notin {"new", "create"}
<1>1. copy[c].job \in Jobs /\ HasCopy(copy[c].job)
  BY DEF SafetyInv, TypeOK, HasCopy
<1>2. QED
  BY <1>1 DEF SafetyInv, RowExists, OutboundInv, RowComesFirst

Steps == {"none", "hook"} \cup Sending \cup Ended

LEMMA StepTyped ==
    ASSUME OutboundTypeOK, NEW c \in Slots, NEW s \in Steps, Goes(c, s)
    PROVE  /\ step' \in [Slots -> Steps]
           /\ step'[c] = s
           /\ \A d \in Slots : d # c => step'[d] = step[d]
BY DEF OutboundTypeOK, Steps, Goes

LEMMA AttemptsTouch ==
    ASSUME OutboundTypeOK, NEW j \in Jobs, Present(j), NEW r, Follows(r, msg[j]),
           Attempts(j, r)
    PROVE  /\ Touches(j)
           /\ mishaps' \in 0..MaxMishaps
<1>1. /\ msg \in [Jobs -> MsgRow]
      /\ msg' = msg \/ msg' = [msg EXCEPT ![j] = r]
      /\ Mishap \/ NoMishap
  BY DEF Attempts, OutboundTypeOK, MsgRow
<1>2. QED
  BY <1>1, Touching, MishapTyped DEF OutboundTypeOK

\* What a step of a slot leaves alone, and what it does to the rest.
SlotFrame(c) ==
    /\ caller' = caller
    /\ \/ msg' = msg
       \/ copy[c].job \in Jobs /\ Touches(copy[c].job)
    /\ step' \in [Slots -> Steps]
    /\ \A d \in Slots : d # c => step'[d] = step[d]
    /\ step'[c] # "none" => copy'[c].at \in {"execute", "publishDlq"}
    /\ sends' \in [Jobs -> Nat]
    /\ unsure' \in [Jobs -> Nat]
    /\ mishaps' \in 0..MaxMishaps

LEMMA WritesFrame ==
    ASSUME SafetyInv, OutboundInv, NEW c \in Slots,
           MarkSending(c) \/ MarkSent(c) \/ MarkRefused(c) \/ Hook(c)
    PROVE  SlotFrame(c)
<1> DEFINE j == copy[c].job
<1>1. OutboundTypeOK /\ msg \in [Jobs -> MsgRow]
  BY DEF OutboundInv, OutboundTypeOK, MsgRow
<1>2. step[c] # "none" /\ UNCHANGED <<vars, caller, sends, unsure>>
  BY DEF MarkSending, MarkSent, MarkRefused, Hook
<1>3. copy[c].at \in {"execute", "publishDlq"}
  BY <1>2 DEF OutboundInv, StepFollowsCopy
<1>4. j \in Jobs /\ Present(j)
  BY <1>3, CarriedJob
<1>5. /\ Follows(MarkedSending(msg[j]), msg[j])
      /\ Follows(MarkedSent(msg[j]), msg[j])
      /\ Follows(MarkedFailed(msg[j]), msg[j])
  BY <1>1, <1>4, RowWrites
<1>6. Touches(j) /\ mishaps' \in 0..MaxMishaps
  <2>1. \E r : Follows(r, msg[j]) /\ Attempts(j, r)
    BY <1>5 DEF MarkSending, MarkSent, MarkRefused, Hook
  <2>2. QED
    BY <1>1, <1>4, <2>1, AttemptsTouch
<1>7. \E s \in Steps : Goes(c, s)
  BY DEF MarkSending, MarkSent, MarkRefused, Hook, AfterMarkSent, Steps, Sending, Ended
<1>8. /\ step' \in [Slots -> Steps]
      /\ \A d \in Slots : d # c => step'[d] = step[d]
  BY <1>1, <1>7, StepTyped
<1>9. copy'[c].at \in {"execute", "publishDlq"}
  BY <1>2, <1>3 DEF vars
<1>10. QED
  BY <1>1, <1>2, <1>4, <1>6, <1>8, <1>9 DEF SlotFrame, OutboundTypeOK

LEMMA DispatchFrame ==
    ASSUME SafetyInv, OutboundInv, NEW c \in Slots, Dispatch(c)
    PROVE  SlotFrame(c)
<1>1. OutboundTypeOK /\ UNCHANGED <<vars, caller, msg, mishaps>> /\ step[c] # "none"
  BY DEF OutboundInv, Dispatch
<1>2. copy[c].at \in {"execute", "publishDlq"} /\ copy' = copy
  BY <1>1 DEF OutboundInv, StepFollowsCopy, vars
<1>3. sends' \in [Jobs -> Nat] /\ unsure' \in [Jobs -> Nat]
  <2>1. sends \in [Jobs -> Nat] /\ unsure \in [Jobs -> Nat]
    BY <1>1 DEF OutboundTypeOK
  <2>2. \/ sends' = sends
        \/ sends' = [sends EXCEPT ![copy[c].job] = @ + 1]
    BY DEF Dispatch
  <2>3. \/ unsure' = unsure
        \/ unsure' = [unsure EXCEPT ![copy[c].job] = @ + 1]
    BY DEF Dispatch
  <2>4. QED
    BY <2>1, <2>2, <2>3
<1>4. \E s \in Steps : Goes(c, s)
  <2>1. \A reply \in Replies : Classified(reply) \in Steps
    BY DEF Replies, Classified, Steps, Sending, Ended
  <2>2. QED
    BY <2>1 DEF Dispatch
<1>5. /\ step' \in [Slots -> Steps]
      /\ \A d \in Slots : d # c => step'[d] = step[d]
  BY <1>1, <1>4, StepTyped
<1>6. QED
  BY <1>1, <1>2, <1>3, <1>5 DEF SlotFrame, OutboundTypeOK

\* The steps that only move the handler on.
LEMMA MovesFrame ==
    ASSUME SafetyInv, OutboundInv, NEW c \in Slots,
           \/ ClaimJob(c) \/ UnknownInstance(c) \/ Return(c) \/ Fail(c)
           \/ WorkerDies(c)
    PROVE  SlotFrame(c)
<1>1. OutboundTypeOK /\ UNCHANGED <<caller, msg, sends, unsure, mishaps>>
  BY DEF OutboundInv, ClaimJob, UnknownInstance, Return, Fail, WorkerDies
<1>2. \E s \in Steps : Goes(c, s) /\ (s # "none" => copy'[c].at \in {"execute", "publishDlq"})
  <2>1. CASE UnknownInstance(c)
    <3>1. copy' = copy /\ step[c] # "none"
      BY <2>1 DEF UnknownInstance, vars
    <3>2. copy'[c].at \in {"execute", "publishDlq"}
      BY <3>1 DEF OutboundInv, StepFollowsCopy
    <3>3. QED
      BY <2>1, <3>2 DEF UnknownInstance, Steps, Ended
  <2>2. QED
    BY <2>1 DEF ClaimJob, Return, Fail, WorkerDies, Terminal, Steps, Sending
<1>3. PICK s \in Steps : Goes(c, s) /\ (s # "none" => copy'[c].at \in {"execute", "publishDlq"})
  BY <1>2
<1>4. /\ step' \in [Slots -> Steps]
      /\ step'[c] = s
      /\ \A d \in Slots : d # c => step'[d] = step[d]
  BY <1>1, <1>3, StepTyped
<1>5. QED
  BY <1>1, <1>3, <1>4 DEF SlotFrame, OutboundTypeOK

LEMMA RestFrame ==
    ASSUME SafetyInv, OutboundInv, NEW c \in Slots, Settle(c) \/ Underneath(c)
    PROVE  SlotFrame(c)
<1>1. OutboundTypeOK /\ TypeOK /\ UNCHANGED outbound
  BY DEF OutboundInv, SafetyInv, Settle, Underneath
<1>2. step[c] # "none" => copy'[c].at \in {"execute", "publishDlq"}
  <2>1. CASE Disconnect(c)
    <3>1. copy'[c].at = copy[c].at
      BY <1>1, <2>1 DEF Disconnect, TypeOK, Copy, FreeSlots, InHandler
    <3>2. QED
      BY <3>1 DEF OutboundInv, StepFollowsCopy
  <2>2. CASE Broker(c)
    <3>1. copy[c].at \in {"main", "retry"}
      BY <2>2 DEF Broker, RetryExpire, Deliver
    <3>2. QED
      BY <3>1 DEF OutboundInv, StepFollowsCopy
  <2>3. QED
    BY <2>1, <2>2 DEF Settle, Underneath
<1>3. QED
  BY <1>1, <1>2 DEF SlotFrame, OutboundTypeOK, outbound, Steps

LEMMA SlotFrames ==
    ASSUME SafetyInv, OutboundInv, NEW c \in Slots,
           SendMessage(c) \/ WorkerDies(c) \/ Underneath(c)
    PROVE  SlotFrame(c)
BY WritesFrame, DispatchFrame, MovesFrame, RestFrame DEF SendMessage

\* Rows of the tasks table that change are those of jobs with a copy.
LEMMA NoNewTask ==
    ASSUME SafetyInv, NEW c \in Slots,
           Broker(c) \/ Handle(c) \/ Crash(c) \/ Disconnect(c) \/ UNCHANGED vars,
           NEW i \in Jobs, task'[i].status # "absent"
    PROVE  task[i].status # "absent"
<1>1. CASE UNCHANGED vars
  BY <1>1 DEF vars
<1>2. CASE Broker(c) \/ Handle(c) \/ Crash(c) \/ Disconnect(c)
  BY <1>2, SlotStep DEF SafetyInv, RowExists
<1>3. QED
  BY <1>1, <1>2

\* Rows appear in neither table.
LEMMA RowsKept ==
    ASSUME RowComesFirst, OneRowPerKey, caller' = caller,
           \A i \in Jobs : Present(i)' <=> Present(i),
           \A i \in Jobs : task'[i].status # "absent" => task[i].status # "absent"
    PROVE  RowComesFirst' /\ OneRowPerKey'
BY DEF RowComesFirst, OneRowPerKey, SameKey

LEMMA SlotKeepsInv ==
    ASSUME SafetyInv, OutboundInv, NEW c \in Slots,
           SendMessage(c) \/ WorkerDies(c) \/ Underneath(c)
    PROVE  OutboundInv'
<1>1. SlotFrame(c) /\ TypeOK
  BY SlotFrames DEF SafetyInv
<1>2. Broker(c) \/ Handle(c) \/ Crash(c) \/ Disconnect(c) \/ UNCHANGED vars
  BY SlotIsPipelineStep
<1>3. OutboundTypeOK'
  BY <1>1 DEF SlotFrame, Touches, OutboundInv, OutboundTypeOK, Steps, MsgRow
<1>4. StepFollowsCopy'
  <2> SUFFICES ASSUME NEW d \in Slots, step'[d] # "none"
               PROVE  copy'[d].at \in {"execute", "publishDlq"}
    BY DEF StepFollowsCopy
  <2>1. CASE d = c
    BY <1>1, <2>1 DEF SlotFrame
  <2>2. CASE d # c
    <3>1. copy[d].at \in {"execute", "publishDlq"}
      BY <1>1, <2>2 DEF SlotFrame, OutboundInv, StepFollowsCopy
    <3>2. copy'[d] = copy[d]
      BY <1>1, <1>2, <2>2, <3>1, OthersKept DEF vars
    <3>3. QED
      BY <3>1, <3>2
  <2>3. QED
    BY <2>1, <2>2
<1>5. ASSUME NEW i \in Jobs PROVE Present(i)' <=> Present(i)
  <2>1. CASE msg' = msg
    BY <2>1 DEF Present
  <2>2. CASE copy[c].job \in Jobs /\ Touches(copy[c].job) /\ msg' # msg
    <3>1. copy[c].at # "free"
      <4>1. step[c] # "none"
        BY <2>2 DEF SendMessage, WorkerDies, Underneath, ClaimJob, UnknownInstance,
           MarkSending, Dispatch, MarkSent, MarkRefused, Return, Fail, Hook, Settle,
           outbound
      <4>2. QED
        BY <4>1 DEF OutboundInv, StepFollowsCopy
    <3>2. Present(copy[c].job)
      BY <3>1, CarriedJob
    <3>3. QED
      BY <2>2, <3>2 DEF Touches, Present
  <2>3. QED
    BY <1>1, <2>1, <2>2 DEF SlotFrame
<1>6. RowComesFirst' /\ OneRowPerKey'
  BY <1>1, <1>2, <1>5, NoNewTask, RowsKept DEF SlotFrame, OutboundInv
<1>7. QED
  BY <1>3, <1>4, <1>6 DEF OutboundInv

-----------------------------------------------------------------------------
(* The callers of send. *)

\* What a call does to its own row: nothing, a statement, or the INSERT.
Inserted(j) ==
    /\ caller[j] = "create"
    /\ ~Taken(j)
    /\ msg' = [msg EXCEPT ![j].status = "pending"]

LEMMA CallRow ==
    ASSUME SafetyInv, OutboundInv, NEW j \in Jobs, Call(j) \/ CallerDies(j)
    PROVE  msg' = msg \/ (Present(j) /\ Touches(j)) \/ Inserted(j)
<1>1. CASE Find(j) \/ EnqueueJob(j) \/ PublishJob(j) \/ CallerDies(j)
  BY <1>1 DEF Find, EnqueueJob, PublishJob, CallerDies, outbound
<1>2. CASE Create(j)
  BY <1>2 DEF Create, Inserted
<1>3. CASE SetTaskId(j)
  <2>1. msg \in [Jobs -> MsgRow] /\ Present(j)
    BY <1>3 DEF SetTaskId, OutboundInv, OutboundTypeOK, RowComesFirst, MsgRow
  <2>2. msg' = msg \/ msg' = [msg EXCEPT ![j] = Linked(msg[j])]
    BY <1>3, <2>1 DEF SetTaskId
  <2>3. Follows(Linked(msg[j]), msg[j])
    BY <2>1, RowWrites
  <2>4. QED
    BY <2>1, <2>2, <2>3, Touching
<1>4. QED
  BY <1>1, <1>2, <1>3 DEF Call

LEMMA InsertedTyped ==
    ASSUME msg \in [Jobs -> MsgRow], NEW j \in Jobs, Inserted(j)
    PROVE  /\ msg' \in [Jobs -> MsgRow]
           /\ msg'[j].status = "pending"
           /\ \A i \in Jobs : i # j => msg'[i] = msg[i]
<1>1. msg[j] \in MsgRow
  OBVIOUS
<1>2. [msg[j] EXCEPT !.status = "pending"] \in MsgRow
  BY <1>1 DEF MsgRow, MsgStatus
<1>3. msg' = [msg EXCEPT ![j] = [msg[j] EXCEPT !.status = "pending"]]
  BY DEF Inserted
<1>4. msg'[j] = [msg[j] EXCEPT !.status = "pending"]
  BY <1>3
<1>5. msg'[j].status = "pending"
  BY <1>1, <1>4 DEF MsgRow
<1>6. QED
  BY <1>2, <1>3, <1>5

\* Where a call goes, and what it must have seen to get there.
LEMMA CallMoves ==
    ASSUME SafetyInv, OutboundInv, NEW j \in Jobs, Call(j) \/ CallerDies(j)
    PROVE  /\ caller' \in [Jobs -> {"new"} \cup Calling \cup Answer]
           /\ \A i \in Jobs : i # j => caller'[i] = caller[i] /\ task'[i] = task[i]
           /\ caller'[j] # "new"
           /\ caller'[j] = "create" => ~Present(j)'
           /\ caller'[j] = "enqueue" => Present(j)'
           /\ caller'[j] = "publish" => Present(j)
           /\ task'[j].status # "absent" => Present(j)
<1>1. OutboundTypeOK /\ TypeOK
  BY DEF OutboundInv, SafetyInv
<1>2. /\ caller[j] \in {"new", "create"} => ~Present(j)
      /\ caller[j] \in {"enqueue", "publish"} => Present(j)
      /\ task[j].status # "absent" => Present(j)
  BY DEF OutboundInv, RowComesFirst
<1>3. CASE Find(j)
  BY <1>1, <1>2, <1>3 DEF Find, Answers, OutboundTypeOK, Calling, Answer, Present, vars
<1>4. CASE Create(j)
  <2>1. /\ \E a \in Answer \cup {"enqueue"} :
             /\ Answers(j, a)
             /\ a = "enqueue" => Inserted(j)
        /\ task' = task
    BY <1>4 DEF Create, Inserted, Answer, vars
  <2>2. Inserted(j) => Present(j)'
    BY <1>1, InsertedTyped DEF OutboundTypeOK, MsgRow, Present
  <2>3. QED
    BY <1>1, <1>2, <2>1, <2>2 DEF Answers, OutboundTypeOK, Calling, Answer
<1>5. CASE EnqueueJob(j)
  <2>1. /\ Present(j) /\ Present(j)'
        /\ \E a \in {"publish", "threw"} : Answers(j, a)
        /\ Enqueue(j) \/ task' = task
    BY <1>2, <1>5 DEF EnqueueJob, Present, vars
  <2>2. \A i \in Jobs : i # j => task'[i] = task[i]
    BY <1>1, <2>1 DEF Enqueue, TypeOK
  <2>3. QED
    BY <1>1, <2>1, <2>2 DEF Answers, OutboundTypeOK, Calling, Answer
<1>6. CASE PublishJob(j)
  <2>1. /\ Present(j) /\ Present(j)' /\ caller' = caller
        /\ caller[j] = "publish"
    BY <1>2, <1>6 DEF PublishJob, outbound, Present
  <2>2. \A i \in Jobs : i # j => task'[i] = task[i]
    BY <1>1, <1>6 DEF PublishJob, ApiPublish, ApiMarkQueued, BestEffort, TypeOK
  <2>3. QED
    BY <1>1, <2>1, <2>2 DEF OutboundTypeOK
<1>7. CASE SetTaskId(j) \/ CallerDies(j)
  <2>1. /\ \E a \in Answer : Answers(j, a)
        /\ task' = task
    BY <1>7 DEF SetTaskId, CallerDies, Answer, vars
  <2>2. QED
    BY <1>1, <1>2, <2>1 DEF Answers, OutboundTypeOK, Calling, Answer
<1>8. QED
  BY <1>3, <1>4, <1>5, <1>6, <1>7 DEF Call

LEMMA CallKeepsInv ==
    ASSUME SafetyInv, OutboundInv, NEW j \in Jobs, Call(j) \/ CallerDies(j)
    PROVE  OutboundInv'
<1>1. OutboundTypeOK /\ TypeOK /\ msg \in [Jobs -> MsgRow]
  BY DEF OutboundInv, SafetyInv, OutboundTypeOK, MsgRow
<1>2. \/ msg' = msg
      \/ Present(j) /\ Touches(j)
      \/ Inserted(j)
  BY CallRow
<1>3. /\ msg' \in [Jobs -> MsgRow]
      /\ \A i \in Jobs : i # j => msg'[i] = msg[i]
      /\ Present(j) => Present(j)'
  BY <1>1, <1>2, InsertedTyped DEF Touches, Present
<1>4. mishaps' \in 0..MaxMishaps
  BY <1>1, MishapTyped DEF OutboundTypeOK, Call, Find, Create, EnqueueJob, PublishJob,
     SetTaskId, CallerDies, outbound, NoMishap
<1>5. UNCHANGED <<step, sends, unsure>>
  BY DEF Call, Find, Create, EnqueueJob, PublishJob, SetTaskId, CallerDies, outbound
<1>6. OutboundTypeOK'
  BY <1>1, <1>3, <1>4, <1>5, CallMoves DEF OutboundTypeOK, MsgRow
<1>7. StepFollowsCopy'
  <2>1. ASSUME NEW d \in Slots, copy[d].at \in {"execute", "publishDlq"}
        PROVE  copy'[d] = copy[d]
    <3>1. Api(j) \/ UNCHANGED vars
      BY CallIsPipelineStep
    <3>2. CASE ApiPublish(j)
      BY <2>1, <3>2 DEF ApiPublish, FreeSlots
    <3>3. QED
      BY <3>1, <3>2 DEF Api, Enqueue, ApiMarkQueued, ApiCrash, vars
  <2>2. QED
    BY <1>5, <2>1 DEF OutboundInv, StepFollowsCopy
<1>8. RowComesFirst'
  <2> SUFFICES ASSUME NEW i \in Jobs
               PROVE  /\ caller'[i] \in {"new", "create"} => ~Present(i)'
                      /\ caller'[i] \in {"enqueue", "publish"} => Present(i)'
                      /\ task'[i].status # "absent" => Present(i)'
    BY DEF RowComesFirst
  <2>1. CASE i = j
    BY <1>3, <2>1, CallMoves
  <2>2. CASE i # j
    <3>1. caller'[i] = caller[i] /\ task'[i] = task[i] /\ (Present(i)' <=> Present(i))
      BY <1>3, <2>2, CallMoves DEF Present
    <3>2. QED
      BY <3>1 DEF OutboundInv, RowComesFirst
  <2>3. QED
    BY <2>1, <2>2
<1>9. OneRowPerKey'
  <2>1. CASE Inserted(j)
    <3>1. \A i \in Jobs : SameKey(i, j) \/ SameKey(j, i) => ~Present(i)
      BY <2>1 DEF Inserted, Taken, SameKey, Present
    <3>2. \A i \in Jobs : i # j => (Present(i)' <=> Present(i))
      BY <1>3 DEF Present
    <3>3. QED
      BY <3>1, <3>2 DEF OutboundInv, OneRowPerKey, SameKey
  <2>2. CASE \/ msg' = msg
             \/ Present(j) /\ Touches(j)
    <3>1. \A i \in Jobs : Present(i)' <=> Present(i)
      BY <2>2 DEF Touches, Present
    <3>2. QED
      BY <3>1 DEF OutboundInv, OneRowPerKey, SameKey
  <2>3. QED
    BY <1>2, <2>1, <2>2
<1>10. QED
  BY <1>6, <1>7, <1>8, <1>9 DEF OutboundInv

-----------------------------------------------------------------------------

LEMMA OutboundStep == SafetyInv /\ OutboundInv /\ [OutboundNext]_outboundVars => OutboundInv'
<1> SUFFICES ASSUME SafetyInv, OutboundInv, [OutboundNext]_outboundVars
             PROVE  OutboundInv'
  OBVIOUS
<1>1. CASE UNCHANGED outboundVars
  BY <1>1 DEF outboundVars, outbound, vars, OutboundInv, OutboundTypeOK,
     StepFollowsCopy, RowComesFirst, OneRowPerKey, SameKey, Present
<1>2. CASE OutboundNext
  BY <1>2, CallKeepsInv, SlotKeepsInv DEF OutboundNext
<1>3. QED
  BY <1>1, <1>2

LEMMA OutboundInvariant == OutboundSpec => []OutboundInv
BY OutboundInitInv, OutboundStep, PipelineInvariant, PTL DEF OutboundSpec

\* Every variable of OutboundMessages keeps its type.
THEOREM OutboundTypeCorrect == OutboundSpec => []OutboundTypeOK
<1>1. OutboundInv => OutboundTypeOK
  BY DEF OutboundInv
<1>2. QED
  BY <1>1, OutboundInvariant, PTL

\* Calls with one key never create two jobs, however many race.
THEOREM KeysAreUsedOnce == OutboundSpec => []OneJobPerKey
<1>1. OutboundInv => OneJobPerKey
  BY DEF OutboundInv, RowComesFirst, OneRowPerKey, OneJobPerKey
<1>2. QED
  BY <1>1, OutboundInvariant, PTL

LEMMA SentStep ==
    ASSUME SafetyInv, OutboundInv, OutboundNext
    PROVE  SentStaysSent
<1>1. ASSUME NEW j \in Jobs, Call(j) \/ CallerDies(j) PROVE SentStaysSent
  <2>1. CASE msg' = msg
    BY <2>1 DEF SentStaysSent
  <2>2. CASE Touches(j)
    BY <2>2 DEF Touches, SentStaysSent
  <2>3. CASE Inserted(j)
    <3>1. ~Present(j) /\ msg \in [Jobs -> MsgRow]
      BY <2>3 DEF Inserted, OutboundInv, RowComesFirst, OutboundTypeOK, MsgRow
    <3>2. QED
      BY <2>3, <3>1, InsertedTyped DEF Present, SentStaysSent
  <2>4. QED
    BY <1>1, <2>1, <2>2, <2>3, CallRow
<1>2. ASSUME NEW c \in Slots, SendMessage(c) \/ WorkerDies(c) \/ Underneath(c)
      PROVE  SentStaysSent
  BY <1>2, SlotFrames DEF SlotFrame, Touches, SentStaysSent
<1>3. QED
  BY <1>1, <1>2 DEF OutboundNext

\* A message that was sent says so for ever.
THEOREM SentForEver == OutboundSpec => SentIsFinal
<1>1. SafetyInv /\ OutboundInv /\ OutboundNext => SentStaysSent
  BY SentStep
<1>2. QED
  BY <1>1, PipelineInvariant, OutboundInvariant, PTL DEF OutboundSpec, SentIsFinal

-----------------------------------------------------------------------------
(***************************************************************************)
(* Resends are paid for.  The effects that a job has had, or may still     *)
(* have, are those of the pipeline; for the messages, an effect counts     *)
(* when the provider's answer has come, which is before executeJob         *)
(* returns.  So the sum is that of the pipeline, corrected by the answers  *)
(* that came and by the handlers that have one and have not returned.      *)
(***************************************************************************)

Answered(j) == {c \in Slots : copy[c].job = j /\ step[c] \in {"markSent", "returned"}}

Resends(j) == Effects(j) + (sends[j] - unsure[j]) - oks[j] - Cardinality(Answered(j))

ResendsInv == \A j \in Jobs : Resends(j) <= 1 + faults

LEMMA AnsweredCounted ==
    ASSUME NEW j \in Jobs, OutboundInv, TypeOK
    PROVE  /\ Answered(j) \in SUBSET Slots /\ Answered(j)' \in SUBSET Slots
           /\ Cardinality(Answered(j)) \in Nat /\ Cardinality(Answered(j)') \in Nat
           /\ Answered(j) \subseteq EffectiveCopies(j)
<1>1. Answered(j) \in SUBSET Slots /\ Answered(j)' \in SUBSET Slots
  BY DEF Answered
<1>2. Answered(j) \subseteq EffectiveCopies(j)
  BY DEF Answered, EffectiveCopies, Effective, OutboundInv, StepFollowsCopy, Unresolved
<1>3. QED
  BY <1>1, <1>2, Counted

LEMMA ResendsInit == OutboundInit => ResendsInv
<1> SUFFICES ASSUME OutboundInit, NEW j \in Jobs PROVE Resends(j) <= 1 + faults
  BY DEF ResendsInv
<1>1. Init /\ Answered(j) = {} /\ sends[j] = 0 /\ unsure[j] = 0
  BY DEF OutboundInit, Answered
<1>2. Effects(j) <= 1 + faults /\ oks[j] = 0 /\ faults = 0
  BY <1>1, RepeatsInit DEF RepeatsInv, Init
<1>3. Effects(j) \in Int
  BY <1>1, SumsTyped, InitTyped DEF Effects
<1>4. QED
  BY <1>1, <1>2, <1>3, FS_EmptySet DEF Resends

\* The handler of a slot that has an answer leaves it to its own steps.
LEMMA AnsweredKept ==
    ASSUME SafetyInv, OutboundInv, NEW j \in Jobs, OutboundNext, NEW c \in Slots,
           SendMessage(c) \/ WorkerDies(c) \/ Underneath(c)
    PROVE  /\ Answered(j) \ {c} \subseteq Answered(j)'
           /\ c \notin Answered(j) => Answered(j) \subseteq Answered(j)'
<1>1. SlotFrame(c) /\ TypeOK
  BY SlotFrames DEF SafetyInv
<1>2. Broker(c) \/ Handle(c) \/ Crash(c) \/ Disconnect(c) \/ UNCHANGED vars
  BY SlotIsPipelineStep
<1>3. ASSUME NEW d \in Answered(j), d # c PROVE d \in Answered(j)'
  <2>1. d \in Slots /\ copy[d].job = j /\ step[d] \in {"markSent", "returned"}
    BY DEF Answered
  <2>2. copy[d].at # "free"
    BY <2>1 DEF OutboundInv, StepFollowsCopy
  <2>3. copy'[d] = copy[d]
    BY <1>1, <1>2, <1>3, <2>1, <2>2, OthersKept DEF vars
  <2>4. step'[d] = step[d]
    BY <1>1, <1>3, <2>1 DEF SlotFrame
  <2>5. QED
    BY <2>1, <2>3, <2>4 DEF Answered
<1>4. QED
  BY <1>3

\* What a step does to the sum, beyond what the pipeline does.
Corrections(j) == (sends[j] - unsure[j]) - oks[j] - Cardinality(Answered(j))

LEMMA CorrectionsKept ==
    ASSUME SafetyInv, SafetyInv', OutboundInv, OutboundInv', NEW j \in Jobs, OutboundNext,
           \A c \in Slots : WorkerDies(c) => c \notin Answered(j)
    PROVE  Corrections(j)' <= Corrections(j)
<1>1. TypeOK /\ TypeOK' /\ OutboundTypeOK /\ OutboundTypeOK'
  BY DEF SafetyInv, OutboundInv
<1>2. /\ sends[j] \in Nat /\ unsure[j] \in Nat /\ oks[j] \in Nat
      /\ sends'[j] \in Nat /\ unsure'[j] \in Nat /\ oks'[j] \in Nat
  BY <1>1 DEF OutboundTypeOK, TypeOK
<1>3. /\ Answered(j) \in SUBSET Slots /\ Answered(j)' \in SUBSET Slots
      /\ Cardinality(Answered(j)) \in Nat /\ Cardinality(Answered(j)') \in Nat
  BY <1>1, AnsweredCounted
<1> DEFINE A == Answered(j)
           B == Answered(j)'
<1> HIDE DEF A, B
<1>4. ASSUME A \subseteq B, oks'[j] = oks[j],
             sends'[j] - unsure'[j] = sends[j] - unsure[j]
      PROVE  Corrections(j)' <= Corrections(j)
  <2>1. Cardinality(A) <= Cardinality(B)
    BY <1>3, <1>4, Counted, FS_Subset DEF A, B
  <2>2. QED
    BY <1>2, <1>3, <1>4, <2>1 DEF Corrections, A, B
<1>5. ASSUME NEW i \in Jobs, Call(i) \/ CallerDies(i)
      PROVE  Corrections(j)' <= Corrections(j)
  <2>1. UNCHANGED <<step, sends, unsure>>
    BY <1>5 DEF Call, Find, Create, EnqueueJob, PublishJob, SetTaskId, CallerDies, outbound
  <2>2. Api(i) \/ UNCHANGED vars
    BY <1>5, CallIsPipelineStep
  <2>3. oks' = oks /\ \A d \in Slots : copy[d].at # "free" => copy'[d] = copy[d]
    BY <2>2 DEF Api, Enqueue, ApiPublish, ApiMarkQueued, ApiCrash, FreeSlots, vars
  <2>4. \A d \in Slots : step[d] # "none" => copy[d].at # "free"
    BY DEF OutboundInv, StepFollowsCopy
  <2>5. A \subseteq B
    BY <2>1, <2>3, <2>4 DEF A, B, Answered
  <2>6. QED
    BY <1>4, <2>1, <2>3, <2>5
<1>6. ASSUME NEW c \in Slots, SendMessage(c) \/ WorkerDies(c) \/ Underneath(c)
      PROVE  Corrections(j)' <= Corrections(j)
  <2>1. A \ {c} \subseteq B /\ (c \notin A => A \subseteq B)
    BY <1>6, AnsweredKept DEF A, B
  <2>2. c \in A => copy[c].job = j /\ step[c] \in {"markSent", "returned"}
    BY DEF A, Answered
  <2>3. CASE Dispatch(c)
    <3>1. PICK reply \in Replies, sent \in BOOLEAN :
            LET i == copy[c].job IN
            /\ reply = "ok" => sent
            /\ sends' = IF sent THEN [sends EXCEPT ![i] = @ + 1] ELSE sends
            /\ unsure' = IF sent /\ reply # "ok" THEN [unsure EXCEPT ![i] = @ + 1] ELSE unsure
            /\ Goes(c, Classified(reply))
      BY <2>3 DEF Dispatch, MaySend, Replies
    <3>2. c \notin A /\ oks' = oks /\ copy' = copy
      BY <2>2, <2>3 DEF Dispatch, vars
    <3>3. CASE reply # "ok" \/ copy[c].job # j
      <4>1. sends'[j] - unsure'[j] = sends[j] - unsure[j]
        BY <1>1, <1>2, <3>1, <3>3 DEF OutboundTypeOK
      <4>2. QED
        BY <1>4, <2>1, <3>2, <4>1
    <3>4. CASE reply = "ok" /\ copy[c].job = j
      <4>1. sends'[j] = sends[j] + 1 /\ unsure'[j] = unsure[j]
        BY <1>1, <1>2, <3>1, <3>4 DEF OutboundTypeOK
      <4>2. step'[c] = "markSent"
        BY <1>1, <3>1, <3>4 DEF Goes, Classified, OutboundTypeOK
      <4>3. c \in B
        BY <3>2, <3>4, <4>2 DEF B, Answered
      <4>4. A \subseteq B \ {c}
        BY <2>1, <3>2
      <4>5. Cardinality(A) + 1 <= Cardinality(B)
        BY <1>3, <4>3, <4>4, Counting DEF A, B
      <4>6. QED
        BY <1>2, <1>3, <3>2, <4>1, <4>5 DEF Corrections, A, B
    <3>5. QED
      BY <3>3, <3>4
  <2>4. CASE Return(c)
    <3>1. sends' = sends /\ unsure' = unsure /\ step[c] = "returned" /\ ExecuteOk(c)
      BY <2>4 DEF Return
    <3>2. CASE copy[c].job # j
      <4>1. oks'[j] = oks[j] /\ c \notin A
        BY <1>1, <2>2, <3>1, <3>2 DEF ExecuteOk, TypeOK
      <4>2. QED
        BY <1>4, <2>1, <3>1, <4>1
    <3>3. CASE copy[c].job = j
      <4>1. oks'[j] = oks[j] + 1
        BY <1>1, <3>1, <3>3 DEF ExecuteOk, TypeOK
      <4>2. A \subseteq B \cup {c}
        BY <2>1
      <4>3. Cardinality(A) <= Cardinality(B) + 1
        BY <1>3, <4>2, Counting DEF A, B
      <4>4. QED
        BY <1>2, <1>3, <3>1, <4>1, <4>3 DEF Corrections, A, B
    <3>4. QED
      BY <3>2, <3>3
  <2>5. CASE MarkSent(c)
    <3>1. UNCHANGED <<vars, sends, unsure>>
      BY <2>5 DEF MarkSent
    <3>2. step'[c] = "returned"
      BY <1>1, <2>5 DEF MarkSent, Goes, AfterMarkSent, OutboundTypeOK
    <3>3. A \subseteq B
      BY <2>1, <2>2, <3>1, <3>2 DEF B, Answered, vars
    <3>4. QED
      BY <1>4, <3>1, <3>3 DEF vars
  <2>6. CASE Underneath(c)
    <3>1. UNCHANGED <<step, sends, unsure, oks>>
      BY <2>6 DEF Underneath, Broker, RetryExpire, Deliver, Disconnect, outbound
    <3>2. copy'[c].job = copy[c].job
      BY <1>1, <2>6 DEF Underneath, Broker, RetryExpire, Deliver, Disconnect, TypeOK, Copy,
         FreeSlots, InHandler
    <3>3. A \subseteq B
      BY <2>1, <2>2, <3>1, <3>2 DEF B, Answered
    <3>4. QED
      BY <1>4, <3>1, <3>3
  <2>7. CASE \/ ClaimJob(c) \/ UnknownInstance(c) \/ MarkSending(c) \/ MarkRefused(c)
             \/ Fail(c) \/ Hook(c) \/ Settle(c) \/ WorkerDies(c)
    <3>1. UNCHANGED <<sends, unsure, oks>>
      BY <2>7 DEF ClaimJob, Claim, UnknownInstance, MarkSending, MarkRefused, Fail, Throw,
         Hook, Settle, MarkSucceeded, PublishRetry, MarkRetrying, PublishDlq, MarkFailed,
         Requeue, Ack, WorkerDies, Crash, outbound, vars
    <3>2. c \notin A
      <4>1. ClaimJob(c) => step[c] = "none"
        BY DEF ClaimJob, Claim, OutboundInv, StepFollowsCopy
      <4>2. WorkerDies(c) => c \notin A
        BY DEF A
      <4>3. QED
        BY <2>2, <2>7, <4>1, <4>2 DEF UnknownInstance, MarkSending, MarkRefused, Fail, Hook,
           Settle
    <3>3. QED
      BY <1>4, <2>1, <3>1, <3>2
  <2>8. QED
    BY <1>6, <2>3, <2>4, <2>5, <2>6, <2>7 DEF SendMessage
<1>7. QED
  BY <1>5, <1>6 DEF OutboundNext

\* A worker that dies with an answer it has not returned may send again: that is the
\* fault the resend is paid with.
LEMMA DeathPays ==
    ASSUME SafetyInv, SafetyInv', OutboundInv, OutboundInv', NEW j \in Jobs, OutboundNext,
           NEW c \in Slots, WorkerDies(c), c \in Answered(j)
    PROVE  Resends(j)' <= Resends(j) + (faults' - faults)
<1>1. TypeOK /\ TypeOK' /\ OutboundTypeOK /\ faults \in Nat
  BY DEF SafetyInv, OutboundInv, TypeOK
<1>2. /\ copy[c].job = j /\ copy[c].at \in {"execute", "publishDlq"}
      /\ copy' = [copy EXCEPT ![c] = GivenBack(copy[c])]
      /\ faults' = faults + 1
      /\ UNCHANGED <<task, api, oks, sends, unsure>>
  BY DEF Answered, OutboundInv, StepFollowsCopy, WorkerDies, Crash, Fault
<1>3. EffectiveCopies(j)' \subseteq EffectiveCopies(j)
  <2> DEFINE v == GivenBack(copy[c])
  <2>1. Effective(copy[c]) /\ copy' = [copy EXCEPT ![c] = v] /\ j = copy[c].job
    BY <1>2 DEF Effective, Unresolved
  <2> HIDE DEF v
  <2>2. QED
    BY <1>1, <2>1, ReplacedCopy
<1>4. /\ EffectiveCopies(j) \in SUBSET Slots /\ EffectiveCopies(j)' \in SUBSET Slots
      /\ Answered(j) \in SUBSET Slots /\ Answered(j)' \in SUBSET Slots
  BY DEF EffectiveCopies, Answered
<1>5. /\ Cardinality(EffectiveCopies(j)') <= Cardinality(EffectiveCopies(j))
      /\ Cardinality(EffectiveCopies(j)') \in Nat /\ Cardinality(EffectiveCopies(j)) \in Nat
      /\ Cardinality(Answered(j)') \in Nat /\ Cardinality(Answered(j)) \in Nat
  BY <1>3, <1>4, Counted, FS_Subset
<1>6. Cardinality(Answered(j)) <= Cardinality(Answered(j)') + 1
  <2>1. Answered(j) \subseteq Answered(j)' \cup {c}
    BY AnsweredKept
  <2>2. QED
    BY <1>4, <2>1, Counting
<1>7. Starting(j)' = Starting(j) /\ Starting(j) \in 0..1
  BY <1>2 DEF Starting
<1>8. sends[j] \in Nat /\ unsure[j] \in Nat /\ oks[j] \in Nat
  BY <1>1 DEF OutboundTypeOK, TypeOK
<1>9. QED
  BY <1>1, <1>2, <1>5, <1>6, <1>7, <1>8 DEF Resends, Effects

LEMMA ResendsStep ==
    ASSUME SafetyInv, SafetyInv', OutboundInv, OutboundInv', AbsentRowsAreBlank,
           ResendsInv, [OutboundNext]_outboundVars
    PROVE  ResendsInv'
<1> SUFFICES ASSUME NEW j \in Jobs PROVE Resends(j)' <= 1 + faults'
  BY DEF ResendsInv
<1>1. /\ TypeOK /\ TypeOK' /\ OutboundTypeOK /\ OutboundTypeOK'
      /\ faults \in Nat /\ faults' \in Nat
  BY DEF SafetyInv, OutboundInv, TypeOK
<1>2. /\ sends[j] \in Nat /\ unsure[j] \in Nat /\ oks[j] \in Nat
      /\ sends'[j] \in Nat /\ unsure'[j] \in Nat /\ oks'[j] \in Nat
      /\ Cardinality(Answered(j)) \in Nat /\ Cardinality(Answered(j)') \in Nat
  BY <1>1, AnsweredCounted DEF OutboundTypeOK, TypeOK
<1>3. /\ Effects(j)' <= Effects(j) + (faults' - faults)
      /\ Effects(j) \in Int /\ Effects(j)' \in Int
  BY PipelineStep, SumsKept
<1>4. Resends(j) <= 1 + faults
  BY DEF ResendsInv
<1>5. CASE UNCHANGED outboundVars
  <2>1. UNCHANGED <<oks, sends, unsure>> /\ Answered(j)' = Answered(j)
    BY <1>5 DEF outboundVars, vars, outbound, Answered
  <2>2. QED
    BY <1>1, <1>2, <1>3, <1>4, <2>1 DEF Resends
<1>6. CASE OutboundNext /\ \A c \in Slots : WorkerDies(c) => c \notin Answered(j)
  <2>1. Corrections(j)' <= Corrections(j)
    BY <1>6, CorrectionsKept
  <2>2. QED
    BY <1>1, <1>2, <1>3, <1>4, <2>1 DEF Resends, Corrections
<1>7. CASE OutboundNext /\ \E c \in Slots : WorkerDies(c) /\ c \in Answered(j)
  <2>1. Resends(j)' <= Resends(j) + (faults' - faults)
    BY <1>7, DeathPays
  <2>2. Resends(j) \in Int /\ Resends(j)' \in Int
    BY <1>2, <1>3 DEF Resends
  <2>3. QED
    BY <1>1, <1>4, <2>1, <2>2
<1>8. QED
  BY <1>5, <1>6, <1>7

LEMMA ResendsInvariant == OutboundSpec => []ResendsInv
<1>1. SafetyInv /\ SafetyInv' /\ OutboundInv /\ OutboundInv' /\ AbsentRowsAreBlank
      /\ ResendsInv /\ [OutboundNext]_outboundVars => ResendsInv'
  BY ResendsStep
<1>2. OutboundSpec => []AbsentRowsAreBlank
  BY RunsOnThePipeline, RepeatsInvariant, PTL
<1>3. QED
  BY <1>1, <1>2, ResendsInit, PipelineInvariant, OutboundInvariant, PTL DEF OutboundSpec

\* However handlers, deaths and redeliveries interleave, a message is sent again only
\* for a lost answer of the provider or a fault of the pipeline, one for each.
THEOREM ResendsArePaid == OutboundSpec => []ResendsPaidFor
<1>1. ASSUME SafetyInv, OutboundInv, ResendsInv, NEW j \in Jobs
      PROVE  sends[j] <= 1 + unsure[j] + faults
  <2>1. TypeOK /\ OutboundTypeOK
    BY <1>1 DEF SafetyInv, OutboundInv
  <2>2. /\ sends[j] \in Nat /\ unsure[j] \in Nat /\ oks[j] \in Nat /\ faults \in Nat
        /\ Starting(j) \in 0..1
    BY <2>1 DEF OutboundTypeOK, TypeOK, Starting
  <2>3. EffectiveCopies(j) \in SUBSET Slots /\ Answered(j) \subseteq EffectiveCopies(j)
    BY <1>1, <2>1, AnsweredCounted DEF EffectiveCopies
  <2>4. /\ Cardinality(Answered(j)) <= Cardinality(EffectiveCopies(j))
        /\ Cardinality(Answered(j)) \in Nat /\ Cardinality(EffectiveCopies(j)) \in Nat
    BY <2>3, Counted, FS_Subset
  <2>5. Resends(j) <= 1 + faults
    BY <1>1 DEF ResendsInv
  <2>6. QED
    BY <2>2, <2>4, <2>5 DEF Resends, Effects
<1>2. SafetyInv /\ OutboundInv /\ ResendsInv => ResendsPaidFor
  BY <1>1 DEF ResendsPaidFor
<1>3. QED
  BY <1>2, ResendsInvariant, PipelineInvariant, OutboundInvariant, PTL

-----------------------------------------------------------------------------
(***************************************************************************)
(* The mirror agrees, while nothing goes wrong.  An answer of the provider *)
(* is counted before the row says sent; so, by the sum above, a job that   *)
(* fails has had no answer and has no second handler that could still get  *)
(* one, and the row that its hook marks failed stays so.                   *)
(***************************************************************************)

StepsFit ==
    \A c \in Slots :
        /\ copy[c].at = "publishDlq" => step[c] \in {"none", "hook"}
        /\ copy[c].at = "execute" => step[c] \notin {"none", "hook"}

SentIsCounted ==
    /\ \A j \in Jobs : /\ unsure[j] <= sends[j]
                       /\ msg[j].status = "sent" => unsure[j] < sends[j]
    /\ \A c \in Slots : step[c] \in {"markSent", "returned"}
                           => unsure[copy[c].job] < sends[copy[c].job]

\* A slot that another step fills.
NewMail(d) == copy[d].at = "free" /\ copy'[d].at \in InQueue

LEMMA OthersOrNew ==
    ASSUME TypeOK, NEW c \in Slots, Broker(c) \/ Handle(c) \/ Crash(c) \/ Disconnect(c),
           NEW d \in Slots, d # c
    PROVE  \/ copy'[d] = copy[d]
           \/ /\ NewMail(d) /\ copy'[d].job = copy[c].job
              /\ PublishRetry(c) \/ Disconnect(c)
<1>1. CASE copy[d].at # "free"
  BY <1>1, OthersKept
<1>2. CASE copy[d].at = "free"
  <2>1. CASE PublishRetry(c)
    BY <1>2, <2>1 DEF PublishRetry, Message, NewMail, InQueue
  <2>2. CASE Disconnect(c)
    BY <1>2, <2>2 DEF Disconnect, Message, NewMail, InQueue, TypeOK, FreeSlots
  <2>3. CASE \/ Broker(c) \/ Crash(c) \/ DropMalformed(c) \/ MarkSucceeded(c)
             \/ MarkRetrying(c) \/ MarkFailed(c) \/ Requeue(c) \/ Ack(c)
    BY <2>3 DEF Broker, RetryExpire, Deliver, Crash, DropMalformed, MarkSucceeded,
       MarkRetrying, MarkFailed, Requeue, Ack, TypeOK
  <2>4. CASE Claim(c) \/ ExecuteOk(c) \/ ExecuteFail(c) \/ PublishDlq(c)
    BY <2>4 DEF Claim, Start, ExecuteOk, ExecuteFail, Throw, PublishDlq, TypeOK
  <2>5. QED
    BY <2>1, <2>2, <2>3, <2>4 DEF Handle
<1>3. QED
  BY <1>1, <1>2

LEMMA CallsOrNew ==
    ASSUME TypeOK, NEW j \in Jobs, Api(j), NEW d \in Slots
    PROVE  copy'[d] = copy[d] \/ (NewMail(d) /\ ApiPublish(j) /\ copy'[d].job = j)
BY DEF Api, Enqueue, ApiPublish, ApiMarkQueued, ApiCrash, Message, NewMail, InQueue, FreeSlots

\* Who may fill a slot, and with which job.
Fills(c, d) ==
    \/ /\ c \in Slots /\ copy'[d].job = copy[c].job
       /\ PublishRetry(c) \/ Disconnect(c)
    \/ c \in Jobs /\ copy'[d].job = c /\ ApiPublish(c)

\* What a step of the system does to the slots of others: nothing, or it fills one.
LEMMA SlotsOfOthers ==
    ASSUME SafetyInv, OutboundInv, NEW d \in Slots, NEW c,
           \/ c \in Slots /\ d # c /\ (SendMessage(c) \/ WorkerDies(c) \/ Underneath(c))
           \/ c \in Jobs /\ (Call(c) \/ CallerDies(c))
    PROVE  /\ step'[d] = step[d]
           /\ copy'[d] = copy[d] \/ (NewMail(d) /\ step[d] = "none" /\ Fills(c, d))
<1>1. TypeOK
  BY DEF SafetyInv
<1>2. NewMail(d) => step[d] = "none"
  BY DEF NewMail, OutboundInv, StepFollowsCopy
<1>3. CASE c \in Slots /\ d # c /\ (SendMessage(c) \/ WorkerDies(c) \/ Underneath(c))
  <2>1. step'[d] = step[d]
    BY <1>3, SlotFrames DEF SlotFrame
  <2>2. CASE UNCHANGED vars
    BY <2>1, <2>2 DEF vars
  <2>3. CASE Broker(c) \/ Handle(c) \/ Crash(c) \/ Disconnect(c)
    <3>1. \/ copy'[d] = copy[d]
          \/ /\ NewMail(d) /\ copy'[d].job = copy[c].job
             /\ PublishRetry(c) \/ Disconnect(c)
      BY <1>1, <1>3, <2>3, OthersOrNew
    <3>2. QED
      BY <1>2, <1>3, <2>1, <3>1 DEF Fills
  <2>4. QED
    BY <1>3, <2>2, <2>3, SlotIsPipelineStep
<1>4. CASE c \in Jobs /\ (Call(c) \/ CallerDies(c))
  <2>1. step' = step
    BY <1>4 DEF Call, Find, Create, EnqueueJob, PublishJob, SetTaskId, CallerDies, outbound
  <2>2. copy'[d] = copy[d] \/ (NewMail(d) /\ ApiPublish(c) /\ copy'[d].job = c)
    BY <1>1, <1>4, CallIsPipelineStep, CallsOrNew DEF vars
  <2>3. QED
    BY <1>2, <1>4, <2>1, <2>2 DEF Fills
<1>5. QED
  BY <1>3, <1>4

\* Where a handler's own step takes it.
LEMMA OwnSlot ==
    ASSUME SafetyInv, OutboundInv, StepsFit, NEW c \in Slots,
           SendMessage(c) \/ WorkerDies(c) \/ Underneath(c)
    PROVE  \/ UnknownInstance(c) /\ step'[c] = "nonRetryable" /\ copy' = copy
           \/ MarkSending(c) /\ step'[c] = "dispatch" /\ copy' = copy
           \/ Dispatch(c) /\ step'[c] \in {"markSent", "markRefused", "retryable"} /\ copy' = copy
           \/ MarkSent(c) /\ step'[c] = "returned" /\ copy' = copy
           \/ MarkRefused(c) /\ step'[c] = "nonRetryable" /\ copy' = copy
           \/ /\ Hook(c) /\ step'[c] = "none" /\ copy' = copy
              /\ copy[c].at = "publishDlq"
           \/ Return(c) /\ step'[c] = "none" /\ copy'[c].at = "markSucceeded"
           \/ /\ Fail(c)
              /\ \/ copy'[c].at = "publishDlq" /\ step'[c] = "hook"
                 \/ /\ copy'[c].at = "publishRetry" /\ step'[c] = "none"
                    /\ step[c] = "retryable"
           \/ /\ ClaimJob(c)
              /\ \/ copy'[c].at = "execute" /\ step'[c] = "markSending"
                 \/ copy'[c].at = "ack" /\ step'[c] = "none"
           \/ Settle(c) /\ step[c] = "none" /\ step' = step
           \/ WorkerDies(c) /\ step'[c] = "none" /\ copy'[c].at \in {"free", "main"}
           \/ Broker(c) /\ step[c] = "none" /\ step' = step
           \/ /\ Disconnect(c) /\ step' = step
              /\ copy'[c].at = copy[c].at /\ copy'[c].job = copy[c].job
<1>1. TypeOK /\ OutboundTypeOK
  BY DEF SafetyInv, OutboundInv
<1>2. \A s : Goes(c, s) => step'[c] = s
  BY <1>1 DEF Goes, OutboundTypeOK
<1>3. CASE UnknownInstance(c) \/ MarkSending(c) \/ MarkSent(c) \/ MarkRefused(c)
  BY <1>2, <1>3 DEF UnknownInstance, MarkSending, MarkSent, AfterMarkSent, MarkRefused, vars
<1>4. CASE Dispatch(c)
  <2>1. \A reply \in Replies : Classified(reply) \in {"markSent", "markRefused", "retryable"}
    BY DEF Replies, Classified
  <2>2. QED
    BY <1>2, <1>4, <2>1 DEF Dispatch, vars
<1>5. CASE Hook(c)
  <2>1. copy[c].at = "publishDlq"
    BY <1>5 DEF Hook, OutboundInv, StepFollowsCopy, StepsFit
  <2>2. QED
    BY <1>2, <1>5, <2>1 DEF Hook, vars
<1>6. CASE Return(c)
  BY <1>1, <1>2, <1>6 DEF Return, ExecuteOk, TypeOK, Copy
<1>7. CASE Fail(c)
  <2>1. \/ copy'[c].at = "publishDlq"
        \/ copy'[c].at = "publishRetry" /\ step[c] = "retryable"
    BY <1>1, <1>7 DEF Fail, Throw, TypeOK, Copy
  <2>2. QED
    BY <1>2, <1>7, <2>1 DEF Fail, Terminal
<1>8. CASE ClaimJob(c)
  <2>1. copy'[c].at \in {"execute", "ack"}
    BY <1>1, <1>8 DEF ClaimJob, Claim, Start, TypeOK, Copy
  <2>2. QED
    BY <1>2, <1>8, <2>1 DEF ClaimJob
<1>9. CASE Settle(c)
  BY <1>9 DEF Settle, outbound
<1>10. CASE WorkerDies(c)
  BY <1>1, <1>2, <1>10 DEF WorkerDies, Crash, GivenBack, Message, Free, TypeOK
<1>11. CASE Underneath(c)
  <2>1. step' = step
    BY <1>11 DEF Underneath, outbound
  <2>2. CASE Broker(c)
    BY <2>1, <2>2 DEF Broker, RetryExpire, Deliver, OutboundInv, StepFollowsCopy
  <2>3. CASE Disconnect(c)
    BY <1>1, <2>1, <2>3 DEF Disconnect, TypeOK, Copy, FreeSlots, InHandler
  <2>4. QED
    BY <1>11, <2>2, <2>3 DEF Underneath
<1>12. QED
  BY <1>3, <1>4, <1>5, <1>6, <1>7, <1>8, <1>9, <1>10, <1>11 DEF SendMessage

\* Where a slot is that the rest of the handler moves.
LEMMA SettleMoves ==
    ASSUME TypeOK, NEW c \in Slots, Settle(c) \/ Broker(c)
    PROVE  /\ copy'[c].at \notin {"execute", "publishDlq", "markSucceeded"}
           /\ copy'[c].at = "markFailed" => copy[c].at = "publishDlq" /\ copy'[c].job = copy[c].job
<1>1. CASE MarkSucceeded(c) \/ MarkRetrying(c) \/ MarkFailed(c) \/ Broker(c)
  BY <1>1 DEF MarkSucceeded, MarkRetrying, MarkFailed, Broker, RetryExpire, Deliver, TypeOK, Copy
<1>2. CASE PublishRetry(c) \/ PublishDlq(c)
  BY <1>2 DEF PublishRetry, PublishDlq, AfterPublish, TypeOK, Copy, FreeSlots
<1>3. CASE Requeue(c) \/ Ack(c)
  BY <1>3 DEF Requeue, Ack, GivenBack, Message, Free, TypeOK
<1>4. QED
  BY <1>1, <1>2, <1>3 DEF Settle

LEMMA StepsFitStep ==
    ASSUME SafetyInv, OutboundInv, StepsFit, [OutboundNext]_outboundVars
    PROVE  StepsFit'
<1> SUFFICES ASSUME NEW d \in Slots
             PROVE  /\ copy'[d].at = "publishDlq" => step'[d] \in {"none", "hook"}
                    /\ copy'[d].at = "execute" => step'[d] \notin {"none", "hook"}
  BY DEF StepsFit
<1>1. TypeOK
  BY DEF SafetyInv
<1>2. ASSUME step'[d] = step[d],
             copy'[d].at = copy[d].at \/ copy'[d].at \notin {"execute", "publishDlq"}
      PROVE  /\ copy'[d].at = "publishDlq" => step'[d] \in {"none", "hook"}
             /\ copy'[d].at = "execute" => step'[d] \notin {"none", "hook"}
  BY <1>2 DEF StepsFit
<1>3. CASE UNCHANGED outboundVars
  BY <1>2, <1>3 DEF outboundVars, vars, outbound
<1>4. ASSUME NEW c,
             \/ c \in Slots /\ d # c /\ (SendMessage(c) \/ WorkerDies(c) \/ Underneath(c))
             \/ c \in Jobs /\ (Call(c) \/ CallerDies(c))
      PROVE  /\ copy'[d].at = "publishDlq" => step'[d] \in {"none", "hook"}
             /\ copy'[d].at = "execute" => step'[d] \notin {"none", "hook"}
  BY <1>2, <1>4, SlotsOfOthers DEF NewMail, InQueue
<1>5. CASE SendMessage(d) \/ WorkerDies(d) \/ Underneath(d)
  <2>1. step[d] \notin {"none", "hook"} => copy[d].at = "execute"
    BY DEF OutboundInv, StepFollowsCopy, StepsFit
  <2>2. QED
    BY <1>1, <1>2, <1>5, <2>1, OwnSlot, SettleMoves
    DEF UnknownInstance, MarkSending, Dispatch, MarkSent, MarkRefused
<1>6. QED
  BY <1>3, <1>4, <1>5 DEF OutboundNext

-----------------------------------------------------------------------------
(* Answers are counted. *)

LEMMA CountsGrow ==
    ASSUME OutboundInv, OutboundInv', [OutboundNext]_outboundVars, NEW j \in Jobs,
           unsure[j] <= sends[j]
    PROVE  /\ unsure'[j] <= sends'[j]
           /\ unsure[j] < sends[j] => unsure'[j] < sends'[j]
<1>1. /\ OutboundTypeOK
      /\ sends[j] \in Nat /\ unsure[j] \in Nat /\ sends'[j] \in Nat /\ unsure'[j] \in Nat
  BY DEF OutboundInv, OutboundTypeOK
<1>2. CASE UNCHANGED <<sends, unsure>>
  BY <1>2
<1>3. ASSUME NEW c \in Slots, Dispatch(c)
      PROVE  \/ sends'[j] = sends[j] /\ unsure'[j] = unsure[j]
             \/ sends'[j] = sends[j] + 1 /\ unsure'[j] \in {unsure[j], unsure[j] + 1}
  <2>1. PICK reply \in Replies, sent \in BOOLEAN :
          LET i == copy[c].job IN
          /\ sends' = IF sent THEN [sends EXCEPT ![i] = @ + 1] ELSE sends
          /\ unsure' = IF sent /\ reply # "ok" THEN [unsure EXCEPT ![i] = @ + 1] ELSE unsure
    BY <1>3 DEF Dispatch, MaySend, Replies
  <2>2. QED
    BY <1>1, <2>1 DEF OutboundTypeOK
<1>4. ASSUME NEW c \in Slots, SendMessage(c), ~Dispatch(c) PROVE UNCHANGED <<sends, unsure>>
  BY <1>4 DEF SendMessage, ClaimJob, UnknownInstance, MarkSending, MarkSent, MarkRefused,
     Return, Fail, Hook, Settle, outbound
<1>5. ASSUME NEW c \in Slots, WorkerDies(c) \/ Underneath(c) PROVE UNCHANGED <<sends, unsure>>
  BY <1>5 DEF WorkerDies, Underneath, outbound
<1>6. ASSUME NEW i \in Jobs, Call(i) \/ CallerDies(i) PROVE UNCHANGED <<sends, unsure>>
  BY <1>6 DEF Call, CallerDies, Find, Create, EnqueueJob, PublishJob, SetTaskId, outbound
<1>7. CASE UNCHANGED outboundVars
  BY <1>2, <1>7 DEF outboundVars, outbound
<1>8. ASSUME NEW c \in Slots, Dispatch(c)
      PROVE  /\ unsure'[j] <= sends'[j]
             /\ unsure[j] < sends[j] => unsure'[j] < sends'[j]
  BY <1>1, <1>3, <1>8
<1>9. QED
  BY <1>2, <1>4, <1>5, <1>6, <1>7, <1>8 DEF OutboundNext

\* The provider's answer, when it comes, is counted with it.
LEMMA AnswerCounted ==
    ASSUME SafetyInv, OutboundInv, SentIsCounted, NEW c \in Slots, Dispatch(c),
           step'[c] = "markSent"
    PROVE  unsure'[copy[c].job] < sends'[copy[c].job]
<1>1. OutboundTypeOK /\ copy[c].job \in Jobs
  BY CarriedJob DEF OutboundInv, Dispatch, StepFollowsCopy
<1>2. PICK reply \in Replies, sent \in BOOLEAN :
        LET j == copy[c].job IN
        /\ sent \in MaySend(reply)
        /\ sends' = IF sent THEN [sends EXCEPT ![j] = @ + 1] ELSE sends
        /\ unsure' = IF sent /\ reply # "ok" THEN [unsure EXCEPT ![j] = @ + 1] ELSE unsure
        /\ Goes(c, Classified(reply))
  BY DEF Dispatch, MaySend, Replies
<1>3. reply = "ok"
  BY <1>1, <1>2 DEF Goes, Classified, OutboundTypeOK, Replies
<1>4. sent
  BY <1>2, <1>3 DEF MaySend
<1>5. /\ sends'[copy[c].job] = sends[copy[c].job] + 1
      /\ unsure'[copy[c].job] = unsure[copy[c].job]
  BY <1>1, <1>2, <1>3, <1>4 DEF OutboundTypeOK
<1>6. unsure[copy[c].job] <= sends[copy[c].job]
  BY <1>1 DEF SentIsCounted
<1>7. QED
  BY <1>1, <1>5, <1>6 DEF OutboundTypeOK

\* Who changes what a row says.
LEMMA WhoWrites ==
    ASSUME SafetyInv, OutboundInv, OutboundNext, NEW j \in Jobs,
           msg'[j].status # msg[j].status
    PROVE  \/ msg[j].status \in {"absent", "pending"} /\ msg'[j].status \in {"pending", "queued"}
           \/ \E c \in Slots :
                /\ copy[c].job = j
                /\ \/ MarkSent(c) /\ msg'[j].status = "sent"
                   \/ /\ MarkSending(c) /\ msg'[j].status = "sending"
                      /\ msg[j].status \notin {"failed", "sent"}
                   \/ (MarkRefused(c) \/ Hook(c)) /\ msg'[j].status = "failed"
<1>1. msg \in [Jobs -> MsgRow]
  BY DEF OutboundInv, OutboundTypeOK, MsgRow
<1>2. \A m \in MsgRow :
        /\ \/ Linked(m).status = m.status
           \/ m.status = "pending" /\ Linked(m).status = "queued"
        /\ \/ MarkedSending(m).status = m.status
           \/ m.status \notin {"failed", "sent"} /\ MarkedSending(m).status = "sending"
        /\ MarkedFailed(m).status \in {m.status, "failed"}
        /\ MarkedSent(m).status = "sent"
  BY DEF MsgRow, MsgStatus, Linked, MarkedSending, MarkedFailed, MarkedSent
<1>3. ASSUME NEW i \in Jobs, Call(i) \/ CallerDies(i)
      PROVE  msg[j].status \in {"absent", "pending"} /\ msg'[j].status \in {"pending", "queued"}
  <2>1. CASE UNCHANGED msg
    BY <2>1
  <2>2. CASE Create(i)
    <3>1. caller[i] = "create" /\ msg' = [msg EXCEPT ![i].status = "pending"]
      BY <2>2 DEF Create
    <3>2. i = j /\ msg'[j].status = "pending" /\ ~Present(j)
      BY <1>1, <3>1 DEF MsgRow, OutboundInv, RowComesFirst
    <3>3. QED
      BY <3>2 DEF Present
  <2>3. CASE msg' = [msg EXCEPT ![i] = Linked(@)]
    <3>1. i = j /\ msg'[j] = Linked(msg[j])
      BY <1>1, <2>3
    <3>2. QED
      BY <1>1, <1>2, <3>1
  <2>4. QED
    BY <1>3, <2>1, <2>2, <2>3 DEF Call, CallerDies, Find, EnqueueJob, PublishJob,
       SetTaskId, outbound
<1>4. ASSUME NEW c \in Slots, SendMessage(c) \/ WorkerDies(c) \/ Underneath(c)
      PROVE  /\ copy[c].job = j
             /\ \/ MarkSent(c) /\ msg'[j].status = "sent"
                \/ /\ MarkSending(c) /\ msg'[j].status = "sending"
                   /\ msg[j].status \notin {"failed", "sent"}
                \/ (MarkRefused(c) \/ Hook(c)) /\ msg'[j].status = "failed"
  <2>1. CASE UNCHANGED msg
    BY <2>1
  <2>2. CASE MarkSending(c)
    <3>1. copy[c].job = j /\ msg'[j] = MarkedSending(msg[j])
      BY <1>1, <2>2 DEF MarkSending, Attempts
    <3>2. QED
      BY <1>1, <1>2, <2>2, <3>1
  <2>3. CASE MarkRefused(c) \/ Hook(c)
    <3>1. copy[c].job = j /\ msg'[j] = MarkedFailed(msg[j])
      BY <1>1, <2>3 DEF MarkRefused, Hook, Attempts
    <3>2. QED
      BY <1>1, <1>2, <2>3, <3>1
  <2>4. CASE MarkSent(c)
    <3>1. copy[c].job = j /\ msg'[j] = MarkedSent(msg[j])
      BY <1>1, <2>4 DEF MarkSent, Attempts
    <3>2. QED
      BY <1>1, <1>2, <2>4, <3>1
  <2>5. QED
    BY <1>4, <2>1, <2>2, <2>3, <2>4 DEF SendMessage, WorkerDies, Underneath, ClaimJob,
       UnknownInstance, Dispatch, Return, Fail, Settle, outbound
<1>5. QED
  BY <1>3, <1>4 DEF OutboundNext

LEMMA SentIsCountedStep ==
    ASSUME SafetyInv, SafetyInv', OutboundInv, OutboundInv', StepsFit, SentIsCounted,
           [OutboundNext]_outboundVars
    PROVE  SentIsCounted'
<1>1. ASSUME NEW j \in Jobs
      PROVE  /\ unsure'[j] <= sends'[j]
             /\ unsure[j] < sends[j] => unsure'[j] < sends'[j]
  BY CountsGrow DEF SentIsCounted
<1>2. CASE UNCHANGED outboundVars
  BY <1>2 DEF outboundVars, vars, outbound, SentIsCounted
<1>3. CASE OutboundNext
  <2>1. ASSUME NEW j \in Jobs, msg'[j].status = "sent" PROVE unsure'[j] < sends'[j]
    <3>1. CASE msg[j].status = "sent"
      BY <1>1, <3>1 DEF SentIsCounted
    <3>2. CASE msg[j].status # "sent"
      <4>1. PICK c \in Slots : MarkSent(c) /\ copy[c].job = j
        BY <1>3, <2>1, <3>2, WhoWrites
      <4>2. unsure[j] < sends[j]
        BY <4>1 DEF MarkSent, SentIsCounted
      <4>3. QED
        BY <1>1, <4>2
    <3>3. QED
      BY <3>1, <3>2
  <2>2. ASSUME NEW d \in Slots, step'[d] \in {"markSent", "returned"}
        PROVE  unsure'[copy'[d].job] < sends'[copy'[d].job]
    <3>1. ASSUME step[d] \in {"markSent", "returned"}, copy'[d].job = copy[d].job
          PROVE  unsure'[copy'[d].job] < sends'[copy'[d].job]
      <4>1. copy[d].job \in Jobs
        BY <3>1, CarriedJob DEF OutboundInv, StepFollowsCopy
      <4>2. QED
        BY <1>1, <3>1, <4>1 DEF SentIsCounted
    <3>2. ASSUME NEW c,
                 \/ c \in Slots /\ d # c /\ (SendMessage(c) \/ WorkerDies(c) \/ Underneath(c))
                 \/ c \in Jobs /\ (Call(c) \/ CallerDies(c))
          PROVE  unsure'[copy'[d].job] < sends'[copy'[d].job]
      <4>1. step'[d] = step[d] /\ copy'[d] = copy[d]
        BY <2>2, <3>2, SlotsOfOthers
      <4>2. QED
        BY <2>2, <3>1, <4>1
    <3>3. CASE SendMessage(d) \/ WorkerDies(d) \/ Underneath(d)
      <4>1. \/ Dispatch(d) /\ step'[d] = "markSent" /\ copy' = copy
            \/ MarkSent(d) /\ copy' = copy
            \/ step[d] \in {"markSent", "returned"} /\ copy'[d].job = copy[d].job
        BY <2>2, <3>3, OwnSlot
      <4>2. QED
        BY <3>1, <4>1, AnswerCounted DEF MarkSent
    <3>4. QED
      BY <1>3, <3>2, <3>3 DEF OutboundNext
  <2>3. QED
    BY <1>1, <2>1, <2>2 DEF SentIsCounted
<1>4. QED
  BY <1>2, <1>3

-----------------------------------------------------------------------------
(***************************************************************************)
(* While nothing goes wrong: what a handler that is through stands for,    *)
(* and that somebody is still at work on a job that has not ended.         *)
(***************************************************************************)

Calm == faults = 0 /\ mishaps = 0

SuccessChain ==
    /\ \A c \in Slots : step[c] = "returned" \/ copy[c].at = "markSucceeded"
                           => msg[copy[c].job].status = "sent"
    /\ \A j \in Jobs : task[j].status = "succeeded" => msg[j].status = "sent"

FailureChain ==
    /\ \A c \in Slots : (copy[c].at = "publishDlq" /\ step[c] = "none") \/ copy[c].at = "markFailed"
                           => msg[copy[c].job].status = "failed"
    /\ \A j \in Jobs : task[j].status = "failed" => msg[j].status = "failed"

\* The handler is on its way to the dead-letter queue.
Doomed(c) == step[c] = "nonRetryable" \/ copy[c].at = "publishDlq"

FailedIsOver ==
    \A j \in Jobs : msg[j].status = "failed" =>
        Starting(j) = 0 /\ \A c \in EffectiveCopies(j) : Doomed(c)

\* Somebody still has something to do for the job.
Working(c) == copy[c].at \notin {"free", "ack", "markRetrying"}
Live(j) == \E c \in Slots : copy[c].job = j /\ Working(c)

WorkGoesOn ==
    \A j \in Jobs : HasCopy(j) \/ msg[j].status \in {"sending", "sent", "failed"}
                       => task[j].status \in TerminalStatus \/ Live(j)

NoRequeue == \A c \in Slots : copy[c].at # "requeue"

CalmInv == SuccessChain /\ FailureChain /\ FailedIsOver /\ WorkGoesOn /\ NoRequeue

Sound == SafetyInv /\ OutboundInv /\ StepsFit /\ SentIsCounted /\ ResendsInv

LEMMA NothingGoesWrong ==
    ASSUME Calm, Calm'
    PROVE  /\ \A kind : ~Fault(kind)
           /\ ~Mishap
           /\ \A c : ~Crash(c) /\ ~Disconnect(c) /\ ~WorkerDies(c)
<1>1. (\A kind : ~Fault(kind)) /\ ~Mishap
  BY DEF Calm, Fault, Mishap
<1>2. QED
  BY <1>1 DEF Crash, Disconnect, WorkerDies

\* An effective copy without an answer is the only one, and nothing was sent.
LEMMA OnlyOne ==
    ASSUME Sound, Calm, NEW j \in Jobs, NEW c \in EffectiveCopies(j), c \notin Answered(j)
    PROVE  /\ EffectiveCopies(j) = {c}
           /\ Starting(j) = 0
           /\ msg[j].status # "sent"
<1> DEFINE E == EffectiveCopies(j)
           A == Answered(j)
<1>1. TypeOK /\ OutboundTypeOK /\ c \in Slots
  BY DEF Sound, SafetyInv, OutboundInv, EffectiveCopies
<1>2. E \in SUBSET Slots /\ A \in SUBSET Slots /\ A \subseteq E
  BY <1>1, AnsweredCounted DEF Sound, EffectiveCopies
<1>3. Effects(j) + (sends[j] - unsure[j]) - oks[j] - Cardinality(A) <= 1
  BY DEF Sound, ResendsInv, Resends, Calm
<1>4. oks[j] + Starting(j) + Cardinality(E) + (sends[j] - unsure[j]) - oks[j] - Cardinality(A) <= 1
  BY <1>3 DEF Effects
<1>5. /\ oks[j] \in Nat /\ sends[j] \in Nat /\ unsure[j] \in Nat /\ Starting(j) \in 0..1
      /\ Cardinality(E) \in Nat /\ Cardinality(A) \in Nat
  BY <1>1, <1>2, SumsTyped, Counted DEF OutboundTypeOK
<1>6. unsure[j] <= sends[j]
  BY DEF Sound, SentIsCounted
<1>7. Cardinality(A) + 1 <= Cardinality(E)
  <2> HIDE DEF E, A
  <2>1. A \subseteq E \ {c} /\ c \in E
    BY <1>2 DEF E, A
  <2>2. QED
    BY <1>1, <1>2, <2>1, Counting
<1>8. /\ Starting(j) = 0
      /\ sends[j] = unsure[j]
      /\ Cardinality(E) = Cardinality(A) + 1
  <2> DEFINE n == Cardinality(E)
             m == Cardinality(A)
             s == sends[j]
             u == unsure[j]
             o == oks[j]
             b == Starting(j)
  <2>1. /\ o + b + n + (s - u) - o - m <= 1
        /\ o \in Nat /\ s \in Nat /\ u \in Nat /\ b \in 0..1 /\ n \in Nat /\ m \in Nat
        /\ u <= s /\ m + 1 <= n
    BY <1>4, <1>5, <1>6, <1>7
  <2> HIDE DEF n, m, s, u, o, b
  <2>2. b = 0 /\ s = u /\ n = m + 1
    BY <2>1
  <2>3. QED
    BY <2>2 DEF n, m, s, u, o, b
<1>9. A = {}
  <2>1. ASSUME NEW d \in A PROVE FALSE
    <3>1. unsure[j] < sends[j]
      BY <2>1 DEF Answered, Sound, SentIsCounted
    <3>2. QED
      BY <1>5, <1>8, <3>1
  <2>2. QED
    BY <2>1
<1>10. E = {c}
  <2>1. Cardinality(E) = 1
    BY <1>8, <1>9, FS_EmptySet
  <2>2. ASSUME NEW d \in E, d # c PROVE FALSE
    <3>1. {d} \subseteq E \ {c} /\ {d} \in SUBSET Slots /\ c \in E
      BY <1>2, <2>2
    <3>2. Cardinality({d}) + 1 <= Cardinality(E)
      <4> HIDE DEF E, A
      <4>1. QED
        BY <1>1, <1>2, <3>1, Counting
    <3>3. Cardinality({d}) = 1
      BY FS_Singleton
    <3>4. QED
      BY <2>1, <3>2, <3>3
  <2>3. QED
    BY <2>2
<1>11. msg[j].status # "sent"
  BY <1>5, <1>8 DEF Sound, SentIsCounted
<1>12. QED
  BY <1>8, <1>10, <1>11

-----------------------------------------------------------------------------
(* What steps do in calm. *)

LEMMA CalmSettle ==
    ASSUME Sound, Calm, Calm', NoRequeue, NEW c \in Slots, Settle(c)
    PROVE  /\ copy'[c].at \in {"ack", "markRetrying", "markFailed", "free"}
           /\ \/ MarkSucceeded(c) /\ task'[copy[c].job].status = "succeeded"
              \/ MarkFailed(c) /\ task'[copy[c].job].status = "failed"
              \/ /\ PublishRetry(c)
                 /\ \E d \in Slots : copy'[d].at = "retry" /\ copy'[d].job = copy[c].job
              \/ PublishDlq(c) /\ copy'[c].at = "markFailed" /\ copy'[c].job = copy[c].job
              \/ MarkRetrying(c) \/ Ack(c)
<1>1. TypeOK /\ copy[c].at # "requeue" /\ \A kind : ~Fault(kind)
  BY NothingGoesWrong DEF Sound, SafetyInv, NoRequeue
<1>2. CASE MarkSucceeded(c) \/ MarkFailed(c) \/ MarkRetrying(c)
  <2>1. copy[c].at # "free" /\ copy'[c].at = "ack" /\ copy[c].job \in Jobs
    BY <1>1, <1>2 DEF MarkSucceeded, MarkFailed, MarkRetrying, TypeOK, Copy
  <2>2. MarkSucceeded(c) => task'[copy[c].job].status = "succeeded"
    BY <1>1, <2>1 DEF MarkSucceeded, BestEffort, Finished, TypeOK
  <2>3. MarkFailed(c) => task'[copy[c].job].status = "failed"
    BY <1>1, <2>1 DEF MarkFailed, BestEffort, Finished, TypeOK
  <2>4. QED
    BY <1>2, <2>1, <2>2, <2>3
<1>3. CASE PublishRetry(c)
  <2>1. PICK ok \in BOOLEAN, S \in SUBSET FreeSlots :
          /\ Send(ok, Cardinality(S))
          /\ copy' = [d \in Slots |->
                       IF d \in S THEN Message("retry", copy[c].job, copy[c].n)
                         ELSE IF d = c THEN [copy[c] EXCEPT
                                        !.at = AfterPublish(ok, "markRetrying")]
                         ELSE copy[d]]
    BY <1>3 DEF PublishRetry
  <2>2. ok /\ S # {}
    BY <1>1, <2>1, SendStoresCopies DEF Send
  <2>3. PICK d \in S : d \in Slots
    BY <2>2 DEF FreeSlots
  <2>4. copy'[d].at = "retry" /\ copy'[d].job = copy[c].job
    BY <2>1, <2>3 DEF Message
  <2>5. copy'[c].at = "markRetrying"
    BY <1>1, <1>3, <2>1, <2>2 DEF PublishRetry, FreeSlots, AfterPublish, TypeOK, Copy
  <2>6. QED
    BY <1>3, <2>3, <2>4, <2>5
<1>4. CASE PublishDlq(c)
  <2>1. PICK ok \in BOOLEAN, k \in 0..2 :
          /\ Send(ok, k)
          /\ copy' = [copy EXCEPT ![c].at = AfterPublish(ok, "markFailed")]
    BY <1>4 DEF PublishDlq
  <2>2. ok
    BY <1>1, <2>1 DEF Send
  <2>3. QED
    BY <1>1, <1>4, <2>1, <2>2 DEF AfterPublish, TypeOK, Copy
<1>5. CASE Ack(c)
  BY <1>1, <1>5 DEF Ack, Free, TypeOK
<1>6. QED
  BY <1>1, <1>2, <1>3, <1>4, <1>5 DEF Settle, Requeue

\* New mail is the producer's first message, or that of a handler that gave up.
LEMMA CalmMail ==
    ASSUME Sound, Calm, Calm', OutboundNext, NEW d \in Slots, copy'[d] # copy[d],
           ~SendMessage(d), ~Underneath(d)
    PROVE  /\ NewMail(d) /\ step[d] = "none" /\ step'[d] = "none"
           /\ \/ copy'[d].job \in Jobs /\ ApiPublish(copy'[d].job)
              \/ \E c \in Slots : PublishRetry(c) /\ copy[c].job = copy'[d].job
<1>1. \A c : ~Crash(c) /\ ~Disconnect(c) /\ ~WorkerDies(c)
  BY NothingGoesWrong
<1>2. ASSUME NEW c,
             \/ c \in Slots /\ d # c /\ (SendMessage(c) \/ WorkerDies(c) \/ Underneath(c))
             \/ c \in Jobs /\ (Call(c) \/ CallerDies(c))
      PROVE  NewMail(d) /\ step[d] = "none" /\ step'[d] = "none" /\ Fills(c, d)
  BY <1>2, SlotsOfOthers DEF Sound
<1>3. QED
  BY <1>1, <1>2 DEF OutboundNext, Fills, Underneath

\* What a slot's own step leaves of it.
LEMMA CalmSlot ==
    ASSUME Sound, Calm, Calm', NoRequeue, NEW c \in Slots, SendMessage(c) \/ Underneath(c)
    PROVE  /\ step'[c] = "returned" \/ copy'[c].at = "markSucceeded"
                => MarkSent(c) \/ (step[c] = "returned" /\ Return(c))
           /\ (copy'[c].at = "publishDlq" /\ step'[c] = "none") \/ copy'[c].at = "markFailed"
                => Hook(c) \/ (copy[c].at = "publishDlq" /\ step[c] = "none")
           /\ copy'[c].at \in Unresolved =>
                /\ copy[c].at \in Unresolved
                /\ Doomed(c) => Doomed(c)'
           /\ copy'[c].at # "free" => copy'[c].job = copy[c].job
           /\ copy'[c].at # "requeue"
<1>1. /\ TypeOK /\ copy[c].at # "requeue" /\ StepsFit
      /\ step[c] # "none" => copy[c].at \in {"execute", "publishDlq"}
      /\ copy[c].at = "execute" => step[c] \notin {"none", "hook"}
      /\ copy[c].at = "publishDlq" => step[c] \in {"none", "hook"}
  BY DEF Sound, SafetyInv, NoRequeue, OutboundInv, StepFollowsCopy, StepsFit
<1>2. \A d : ~Crash(d) /\ ~Disconnect(d) /\ ~WorkerDies(d)
  BY NothingGoesWrong
<1>3. copy'[c].at # "free" => copy'[c].job = copy[c].job
  BY <1>1, SlotIsPipelineStep, SlotCopies DEF vars, Underneath
<1>4. CASE \/ UnknownInstance(c) /\ step'[c] = "nonRetryable" /\ copy' = copy
           \/ MarkSending(c) /\ step'[c] = "dispatch" /\ copy' = copy
           \/ Dispatch(c) /\ step'[c] \in {"markSent", "markRefused", "retryable"} /\ copy' = copy
           \/ MarkSent(c) /\ step'[c] = "returned" /\ copy' = copy
           \/ MarkRefused(c) /\ step'[c] = "nonRetryable" /\ copy' = copy
  <2>1. step[c] \in Sending /\ copy[c].at = "execute"
    BY <1>1, <1>4 DEF UnknownInstance, MarkSending, Dispatch, MarkSent, MarkRefused, Sending
  <2>2. QED
    BY <1>1, <1>3, <1>4, <2>1 DEF Sending, Doomed, Unresolved
<1>5. CASE Hook(c) /\ step'[c] = "none" /\ copy' = copy /\ copy[c].at = "publishDlq"
  BY <1>1, <1>3, <1>5 DEF Doomed, Unresolved
<1>6. CASE Return(c) /\ step'[c] = "none" /\ copy'[c].at = "markSucceeded"
  BY <1>1, <1>3, <1>6 DEF Doomed, Unresolved, Return, InQueue
<1>7. CASE /\ Fail(c)
           /\ \/ copy'[c].at = "publishDlq" /\ step'[c] = "hook"
              \/ /\ copy'[c].at = "publishRetry" /\ step'[c] = "none"
                 /\ step[c] = "retryable"
  <2>1. copy[c].at = "execute"
    BY <1>7 DEF Fail, Throw
  <2>2. QED
    BY <1>1, <1>3, <1>7, <2>1 DEF Doomed, Unresolved
<1>8. CASE /\ ClaimJob(c)
           /\ \/ copy'[c].at = "execute" /\ step'[c] = "markSending"
              \/ copy'[c].at = "ack" /\ step'[c] = "none"
  <2>1. copy[c].at = "claim"
    BY <1>8 DEF ClaimJob, Claim
  <2>2. QED
    BY <1>1, <1>3, <1>8, <2>1 DEF Doomed, Unresolved
<1>9. CASE Settle(c) /\ step[c] = "none" /\ step' = step
  <2>1. copy'[c].at \in {"ack", "markRetrying", "markFailed", "free"}
    BY <1>9, CalmSettle
  <2>2. copy'[c].at = "markFailed" => copy[c].at = "publishDlq"
    BY <1>1, <1>9, SettleMoves
  <2>3. QED
    BY <1>1, <1>3, <1>9, <2>1, <2>2 DEF Unresolved, InQueue
<1>10. CASE Broker(c) /\ step[c] = "none" /\ step' = step
  <2>1. copy[c].at \in InQueue /\ copy'[c].at \in {"main", "claim"}
    BY <1>1, <1>10 DEF Broker, RetryExpire, Deliver, InQueue, TypeOK, Copy
  <2>2. QED
    BY <1>1, <1>3, <1>10, <2>1 DEF Unresolved, InQueue, Doomed
<1>11. SafetyInv /\ OutboundInv /\ StepsFit
  BY DEF Sound
<1>12. QED
  BY <1>2, <1>4, <1>5, <1>6, <1>7, <1>8, <1>9, <1>10, <1>11, OwnSlot

-----------------------------------------------------------------------------
(* The chain of success. *)

LEMMA SentKept ==
    ASSUME Sound, OutboundNext, NEW j \in Jobs, msg[j].status = "sent"
    PROVE  msg'[j].status = "sent"
BY SentStep DEF Sound, SentStaysSent

\* Who ends a task.
LEMMA WhoEnds ==
    ASSUME Sound, OutboundNext, NEW j \in Jobs, NEW s \in {"succeeded", "failed"},
           task'[j].status = s, task[j].status # s
    PROVE  \E c \in Slots :
              /\ copy[c].job = j
              /\ \/ s = "succeeded" /\ copy[c].at = "markSucceeded"
                 \/ s = "failed" /\ copy[c].at = "markFailed"
<1>1. TypeOK /\ Malformed = {} /\ s \notin Claimable /\ s # "dropped"
  BY OutboundAssumption DEF Sound, SafetyInv, Claimable
<1>2. \A row \in [status : Status, attempt : Nat] :
        /\ Queued(row).status \in {row.status, "queued"}
        /\ Retrying(row).status \in {row.status, "queued"}
        /\ Claimed(row).status = "running"
        /\ Finished(row, "succeeded").status = "succeeded"
        /\ Finished(row, "failed").status = "failed"
  BY DEF Queued, Retrying, Claimed, Finished
<1>3. task \in [Jobs -> [status : Status, attempt : Nat]] /\ task' # task
  BY <1>1 DEF TypeOK
<1>4. ASSUME NEW i \in Jobs, Call(i) \/ CallerDies(i) PROVE FALSE
  <2>1. Api(i)
    BY <1>3, <1>4, CallIsPipelineStep DEF vars
  <2>2. \/ task' = [task EXCEPT ![i] = Queued(task[i])]
        \/ \E a : task' = [task EXCEPT ![i] = [status |-> "pending", attempt |-> a]]
    BY <1>3, <2>1 DEF Api, Enqueue, ApiPublish, ApiMarkQueued, ApiCrash, BestEffort
  <2>3. QED
    BY <1>1, <1>2, <1>3, <2>2 DEF Claimable
<1>5. ASSUME NEW c \in Slots, SendMessage(c) \/ WorkerDies(c) \/ Underneath(c)
      PROVE  /\ copy[c].job = j
             /\ \/ s = "succeeded" /\ copy[c].at = "markSucceeded"
                \/ s = "failed" /\ copy[c].at = "markFailed"
  <2>1. Handle(c)
    BY <1>3, <1>5, SlotIsPipelineStep DEF vars, Broker, RetryExpire, Deliver, Crash, Disconnect
  <2>2. \/ MarkSucceeded(c) /\ task' = [task EXCEPT ![copy[c].job] = Finished(@, "succeeded")]
        \/ MarkFailed(c) /\ task' = [task EXCEPT ![copy[c].job] = Finished(@, "failed")]
        \/ task' = [task EXCEPT ![copy[c].job] = Retrying(@)]
        \/ task' = [task EXCEPT ![copy[c].job] = Claimed(@)]
    BY <1>1, <1>3, <2>1 DEF Handle, DropMalformed, Claim, ExecuteOk, ExecuteFail, Throw,
       MarkSucceeded, PublishRetry, MarkRetrying, PublishDlq, MarkFailed, Requeue, Ack, BestEffort
  <2>3. CASE MarkSucceeded(c) /\ task' = [task EXCEPT ![copy[c].job] = Finished(@, "succeeded")]
    BY <1>1, <1>2, <1>3, <2>3 DEF MarkSucceeded
  <2>4. CASE MarkFailed(c) /\ task' = [task EXCEPT ![copy[c].job] = Finished(@, "failed")]
    BY <1>1, <1>2, <1>3, <2>4 DEF MarkFailed
  <2>5. CASE \/ task' = [task EXCEPT ![copy[c].job] = Retrying(@)]
             \/ task' = [task EXCEPT ![copy[c].job] = Claimed(@)]
    BY <1>1, <1>2, <1>3, <2>5 DEF Claimable
  <2>6. QED
    BY <2>2, <2>3, <2>4, <2>5
<1>6. QED
  BY <1>4, <1>5 DEF OutboundNext

LEMMA SuccessStep ==
    ASSUME Sound, Calm, Calm', NoRequeue, SuccessChain, OutboundNext
    PROVE  SuccessChain'
<1>1. TypeOK /\ OutboundTypeOK
  BY DEF Sound, SafetyInv, OutboundInv
<1>2. ASSUME NEW c \in Slots, step'[c] = "returned" \/ copy'[c].at = "markSucceeded"
      PROVE  msg'[copy'[c].job].status = "sent"
  <2>1. ASSUME step[c] = "returned" \/ copy[c].at = "markSucceeded", copy'[c].job = copy[c].job
        PROVE  msg'[copy'[c].job].status = "sent"
    <3>1. copy[c].job \in Jobs
      BY <2>1, CarriedJob DEF Sound, OutboundInv, StepFollowsCopy
    <3>2. msg[copy[c].job].status = "sent"
      BY <2>1 DEF SuccessChain
    <3>3. QED
      BY <2>1, <3>1, <3>2, SentKept
  <2>2. CASE SendMessage(c) \/ Underneath(c)
    <3>1. MarkSent(c) \/ (step[c] = "returned" /\ Return(c))
      BY <1>2, <2>2, CalmSlot
    <3>2. CASE MarkSent(c)
      <4>1. copy[c].job \in Jobs /\ ~Mishap
        BY <3>2, CarriedJob, NothingGoesWrong DEF MarkSent, Sound, OutboundInv, StepFollowsCopy
      <4>2. msg' = [msg EXCEPT ![copy[c].job] = MarkedSent(@)] /\ copy' = copy
        BY <3>2, <4>1 DEF MarkSent, Attempts, vars
      <4>3. QED
        BY <1>1, <4>1, <4>2 DEF MarkedSent, OutboundTypeOK
    <3>3. CASE step[c] = "returned" /\ Return(c)
      <4>1. copy'[c].job = copy[c].job
        BY <1>1, <3>3 DEF Return, ExecuteOk, TypeOK, Copy
      <4>2. QED
        BY <2>1, <3>3, <4>1
    <3>4. QED
      BY <3>1, <3>2, <3>3
  <2>3. CASE ~SendMessage(c) /\ ~Underneath(c)
    <3>1. copy'[c] = copy[c]
      BY <1>2, <2>3, CalmMail DEF NewMail, InQueue
    <3>2. step'[c] = step[c]
      BY <2>3, SlotsOfOthers, NothingGoesWrong DEF OutboundNext, Sound
    <3>3. QED
      BY <1>2, <2>1, <3>1, <3>2
  <2>4. QED
    BY <2>2, <2>3
<1>3. ASSUME NEW j \in Jobs, task'[j].status = "succeeded" PROVE msg'[j].status = "sent"
  <2>1. CASE task[j].status = "succeeded"
    BY <2>1, SentKept DEF SuccessChain
  <2>2. CASE task[j].status # "succeeded"
    <3>1. PICK c \in Slots : copy[c].job = j /\ copy[c].at = "markSucceeded"
      BY <1>3, <2>2, WhoEnds
    <3>2. QED
      BY <3>1, SentKept DEF SuccessChain
  <2>3. QED
    BY <2>1, <2>2
<1>4. QED
  BY <1>2, <1>3 DEF SuccessChain

-----------------------------------------------------------------------------
(* A failed message is over. *)

LEMMA FailedKept ==
    ASSUME Sound, Calm, Calm', FailedIsOver, OutboundNext, NEW j \in Jobs, msg[j].status = "failed"
    PROVE  msg'[j].status = "failed"
<1> SUFFICES ASSUME msg'[j].status # "failed" PROVE FALSE
  OBVIOUS
<1>1. PICK c \in Slots : copy[c].job = j /\ MarkSent(c)
  BY WhoWrites DEF Sound
<1>2. copy[c].at = "execute" /\ step[c] = "markSent"
  BY <1>1 DEF MarkSent, Sound, OutboundInv, StepFollowsCopy, StepsFit
<1>3. c \in EffectiveCopies(j)
  BY <1>1, <1>2 DEF EffectiveCopies, Effective, Unresolved
<1>4. QED
  BY <1>2, <1>3 DEF FailedIsOver, Doomed

\* Whoever marks a row failed has the only copy of the job, on its way to the DLQ.
LEMMA WhoFails ==
    ASSUME Sound, Calm, NEW c \in Slots, MarkRefused(c) \/ Hook(c)
    PROVE  /\ copy[c].job \in Jobs
           /\ c \in EffectiveCopies(copy[c].job)
           /\ EffectiveCopies(copy[c].job) = {c}
           /\ Starting(copy[c].job) = 0
           /\ msg[copy[c].job].status # "sent"
<1>1. step[c] \in {"markRefused", "hook"} /\ copy[c].at \in {"execute", "publishDlq"}
  BY DEF MarkRefused, Hook, Sound, OutboundInv, StepFollowsCopy
<1>2. copy[c].job \in Jobs
  BY <1>1, CarriedJob DEF Sound
<1>3. c \in EffectiveCopies(copy[c].job) /\ c \notin Answered(copy[c].job)
  BY <1>1 DEF EffectiveCopies, Effective, Unresolved, Answered
<1>4. QED
  BY <1>2, <1>3, OnlyOne

LEMMA StartsOnce ==
    ASSUME Sound, Sound', OutboundNext, NEW j \in Jobs, Starting(j) = 0
    PROVE  Starting(j)' = 0
<1>1. task[j].status # "absent" /\ api[j] # "publish"
  BY DEF Starting
<1>2. TypeOK
  BY DEF Sound, SafetyInv
<1>3. ASSUME NEW i \in Jobs, Call(i) \/ CallerDies(i)
      PROVE  task'[j].status # "absent" /\ api'[j] # "publish"
  <2>1. api'[j] # "publish"
    BY <1>1, <1>2, <1>3, CallIsPipelineStep
    DEF Api, Enqueue, Inserts, ApiPublish, ApiMarkQueued, ApiCrash, TypeOK, vars
  <2>2. CASE Enqueue(i)
    <3>1. i # j /\ task'[j] = task[j]
      BY <1>1, <1>2, <2>2 DEF Enqueue, Inserts, TypeOK
    <3>2. QED
      BY <1>1, <2>1, <3>1
  <2>3. CASE ApiMarkQueued(i)
    <3>1. task' = task \/ task' = [task EXCEPT ![i] = Queued(@)]
      BY <2>3 DEF ApiMarkQueued, BestEffort
    <3>2. Queued(task[j]).status # "absent"
      BY <1>1, <1>2 DEF Queued, TypeOK
    <3>3. QED
      BY <1>1, <1>2, <2>1, <3>1, <3>2 DEF TypeOK
  <2>4. QED
    BY <1>1, <1>3, <2>1, <2>2, <2>3, CallIsPipelineStep DEF Api, ApiPublish, ApiCrash, vars
<1>4. ASSUME NEW c \in Slots, SendMessage(c) \/ WorkerDies(c) \/ Underneath(c)
      PROVE  Starting(j)' = 0
  <2>1. CASE UNCHANGED vars
    BY <2>1 DEF vars, Starting
  <2>2. CASE Broker(c) \/ Handle(c) \/ Crash(c) \/ Disconnect(c)
    <3>1. Next
      BY <2>2 DEF Next
    <3>2. QED
      BY <1>2, <2>2, <3>1, StartingOfSlot DEF Sound, SafetyInv
  <2>3. QED
    BY <1>4, <2>1, <2>2, SlotIsPipelineStep
<1>5. QED
  BY <1>3, <1>4 DEF OutboundNext, Starting

LEMMA FailedIsOverStep ==
    ASSUME Sound, Sound', Calm, Calm', NoRequeue, FailedIsOver, OutboundNext
    PROVE  FailedIsOver'
<1> SUFFICES ASSUME NEW j \in Jobs, msg'[j].status = "failed"
             PROVE  /\ Starting(j)' = 0
                    /\ \A d \in EffectiveCopies(j)' : Doomed(d)'
  BY DEF FailedIsOver
<1>1. TypeOK /\ OutboundTypeOK
  BY DEF Sound, SafetyInv, OutboundInv
<1>2. CASE msg[j].status = "failed"
  <2>1. Starting(j) = 0 /\ \A d \in EffectiveCopies(j) : Doomed(d)
    BY <1>2 DEF FailedIsOver
  <2>2. ASSUME NEW d \in EffectiveCopies(j)' PROVE Doomed(d)'
    <3>1. d \in Slots /\ copy'[d].job = j /\ copy'[d].at \in Unresolved /\ copy'[d].at # "free"
      BY <2>2 DEF EffectiveCopies, Effective, Unresolved, InQueue
    <3>2. CASE SendMessage(d) \/ Underneath(d)
      <4>1. copy[d].at \in Unresolved /\ copy[d].job = j /\ (Doomed(d) => Doomed(d)')
        BY <3>1, <3>2, CalmSlot
      <4>2. d \in EffectiveCopies(j)
        BY <3>1, <4>1 DEF EffectiveCopies, Effective
      <4>3. QED
        BY <2>1, <4>1, <4>2
    <3>3. CASE ~SendMessage(d) /\ ~Underneath(d)
      <4>1. CASE copy'[d] = copy[d]
        <5>1. d \in EffectiveCopies(j)
          BY <3>1, <4>1 DEF EffectiveCopies, Effective
        <5>2. step'[d] = step[d]
          BY <3>1, <3>3, SlotsOfOthers, NothingGoesWrong DEF OutboundNext, Sound
        <5>3. QED
          BY <2>1, <4>1, <5>1, <5>2 DEF Doomed
      <4>2. CASE copy'[d] # copy[d]
        <5>1. \/ copy'[d].job \in Jobs /\ ApiPublish(copy'[d].job)
              \/ \E c \in Slots : PublishRetry(c) /\ copy[c].job = copy'[d].job
          BY <3>1, <3>3, <4>2, CalmMail
        <5>2. ~ApiPublish(j)
          BY <2>1 DEF ApiPublish, Starting
        <5>3. PICK c \in Slots : PublishRetry(c) /\ copy[c].job = j
          BY <3>1, <5>1, <5>2
        <5>4. copy[c].at = "publishRetry" /\ c \in EffectiveCopies(j)
          BY <5>3 DEF PublishRetry, EffectiveCopies, Effective, Unresolved
        <5>5. step[c] = "none"
          BY <5>4 DEF Sound, OutboundInv, StepFollowsCopy
        <5>6. QED
          BY <2>1, <5>4, <5>5 DEF Doomed
      <4>3. QED
        BY <4>1, <4>2
    <3>4. QED
      BY <3>2, <3>3
  <2>3. QED
    BY <2>1, <2>2, StartsOnce
<1>3. CASE msg[j].status # "failed"
  <2>1. PICK c \in Slots : copy[c].job = j /\ (MarkRefused(c) \/ Hook(c))
    BY <1>3, WhoWrites DEF Sound
  <2>2. EffectiveCopies(j) = {c} /\ Starting(j) = 0
    BY <2>1, WhoFails
  <2>3. UNCHANGED vars
    BY <2>1 DEF MarkRefused, Hook
  <2>4. EffectiveCopies(j)' = {c}
    BY <2>2, <2>3 DEF EffectiveCopies, Effective, vars
  <2>5. Doomed(c)'
    <3>1. CASE MarkRefused(c)
      BY <1>1, <3>1 DEF MarkRefused, Goes, Doomed, OutboundTypeOK
    <3>2. CASE Hook(c)
      BY <3>2, <2>3 DEF Hook, Doomed, Sound, StepsFit, OutboundInv, StepFollowsCopy, vars
    <3>3. QED
      BY <2>1, <3>1, <3>2
  <2>6. QED
    BY <2>2, <2>4, <2>5, StartsOnce
<1>4. QED
  BY <1>2, <1>3

LEMMA FailureStep ==
    ASSUME Sound, Calm, Calm', NoRequeue, FailureChain, FailedIsOver, OutboundNext
    PROVE  FailureChain'
<1> DEFINE Gone(c) == (copy[c].at = "publishDlq" /\ step[c] = "none") \/ copy[c].at = "markFailed"
<1>1. TypeOK /\ OutboundTypeOK
  BY DEF Sound, SafetyInv, OutboundInv
<1>2. ASSUME NEW c \in Slots, Gone(c)'
      PROVE  msg'[copy'[c].job].status = "failed"
  <2>1. ASSUME Gone(c), copy'[c].job = copy[c].job
        PROVE  msg'[copy'[c].job].status = "failed"
    <3>1. copy[c].job \in Jobs /\ msg[copy[c].job].status = "failed"
      BY <2>1, CarriedJob DEF Sound, FailureChain
    <3>2. QED
      BY <2>1, <3>1, FailedKept
  <2>2. CASE SendMessage(c) \/ Underneath(c)
    <3>1. (Hook(c) \/ Gone(c)) /\ copy'[c].job = copy[c].job
      BY <1>2, <2>2, CalmSlot
    <3>2. CASE Hook(c)
      <4>1. copy[c].job \in Jobs /\ ~Mishap /\ msg[copy[c].job].status # "sent"
        BY <3>2, WhoFails, NothingGoesWrong
      <4>2. msg' = [msg EXCEPT ![copy[c].job] = MarkedFailed(@)]
        BY <3>2, <4>1 DEF Hook, Attempts
      <4>3. QED
        BY <1>1, <3>1, <4>1, <4>2 DEF MarkedFailed, OutboundTypeOK
    <3>3. QED
      BY <2>1, <3>1, <3>2
  <2>3. CASE ~SendMessage(c) /\ ~Underneath(c)
    <3>1. copy'[c] = copy[c]
      BY <1>2, <2>3, CalmMail DEF NewMail, InQueue
    <3>2. step'[c] = step[c]
      BY <2>3, SlotsOfOthers, NothingGoesWrong DEF OutboundNext, Sound
    <3>3. QED
      BY <1>2, <2>1, <3>1, <3>2
  <2>4. QED
    BY <2>2, <2>3
<1>3. ASSUME NEW j \in Jobs, task'[j].status = "failed" PROVE msg'[j].status = "failed"
  <2>1. CASE task[j].status = "failed"
    BY <2>1, FailedKept DEF FailureChain
  <2>2. CASE task[j].status # "failed"
    <3>1. PICK c \in Slots : copy[c].job = j /\ copy[c].at = "markFailed"
      BY <1>3, <2>2, WhoEnds
    <3>2. QED
      BY <3>1, FailedKept DEF FailureChain
  <2>3. QED
    BY <2>1, <2>2
<1>4. QED
  BY <1>2, <1>3 DEF FailureChain

-----------------------------------------------------------------------------
(* Somebody is at work. *)

LEMMA NoRequeueStep ==
    ASSUME Sound, Calm, Calm', NoRequeue, OutboundNext
    PROVE  NoRequeue'
<1> SUFFICES ASSUME NEW d \in Slots PROVE copy'[d].at # "requeue"
  BY DEF NoRequeue
<1>1. CASE SendMessage(d) \/ Underneath(d)
  BY <1>1, CalmSlot
<1>2. CASE ~SendMessage(d) /\ ~Underneath(d)
  BY <1>2, CalmMail DEF NewMail, InQueue, NoRequeue
<1>3. QED
  BY <1>1, <1>2

\* A handler hands its work on: to its own next step, to a new message, or to the row.
LEMMA HandsOn ==
    ASSUME Sound, Calm, Calm', NoRequeue, NEW c \in Slots, SendMessage(c) \/ Underneath(c),
           Working(c), NEW j \in Jobs, j = copy[c].job
    PROVE  task'[j].status \in TerminalStatus \/ Live(j)'
<1>1. TypeOK /\ Malformed = {} /\ (copy'[c].at # "free" => copy'[c].job = j)
  BY CalmSlot, OutboundAssumption DEF Sound, SafetyInv
<1>2. Working(c)' /\ copy'[c].at # "free" => Live(j)'
  BY <1>1 DEF Live
<1>3. \A d : ~Crash(d) /\ ~Disconnect(d) /\ ~WorkerDies(d)
  BY NothingGoesWrong
<1>4. CASE copy' = copy
  BY <1>2, <1>4 DEF Working
<1>5. CASE Return(c) \/ Fail(c) \/ Broker(c)
  <2>1. copy'[c].at \in {"markSucceeded", "publishRetry", "publishDlq", "main", "claim"}
    BY <1>1, <1>5 DEF Return, ExecuteOk, Fail, Throw, Broker, RetryExpire, Deliver, TypeOK, Copy
  <2>2. QED
    BY <1>2, <2>1 DEF Working
<1>6. CASE ClaimJob(c)
  <2>1. Claim(c) /\ ~Fault("db")
    BY <1>6, NothingGoesWrong DEF ClaimJob
  <2>2. CASE task[j].status \in Claimable
    <3>1. copy'[c].at = "execute"
      BY <1>1, <2>1, <2>2 DEF Claim, Start, TypeOK, Copy
    <3>2. QED
      BY <1>2, <3>1 DEF Working
  <2>3. CASE task[j].status \notin Claimable
    <3>1. task' = task /\ HasCopy(j)
      BY <2>1, <2>3 DEF Claim, HasCopy
    <3>2. task[j].status \in Status /\ task[j].status # "absent"
      BY <1>1, <3>1 DEF Sound, SafetyInv, RowExists, TypeOK
    <3>3. QED
      BY <2>3, <3>1, <3>2 DEF Status
  <2>4. QED
    BY <2>2, <2>3
<1>7. CASE Settle(c)
  <2>1. \/ MarkSucceeded(c) /\ task'[j].status = "succeeded"
        \/ MarkFailed(c) /\ task'[j].status = "failed"
        \/ /\ PublishRetry(c)
           /\ \E d \in Slots : copy'[d].at = "retry" /\ copy'[d].job = j
        \/ PublishDlq(c) /\ copy'[c].at = "markFailed" /\ copy'[c].job = j
        \/ MarkRetrying(c) \/ Ack(c)
    BY <1>7, CalmSettle
  <2>2. ~MarkRetrying(c) /\ ~Ack(c)
    BY DEF Working, MarkRetrying, Ack
  <2>3. QED
    BY <2>1, <2>2 DEF TerminalStatus, Live, Working
<1>8. QED
  BY <1>3, <1>4, <1>5, <1>6, <1>7 DEF SendMessage, UnknownInstance, MarkSending, Dispatch,
     MarkSent, MarkRefused, Hook, Underneath, vars

LEMMA WorkStep ==
    ASSUME Sound, Calm, Calm', NoRequeue, WorkGoesOn, OutboundNext
    PROVE  WorkGoesOn'
<1> SUFFICES ASSUME NEW j \in Jobs,
                    HasCopy(j)' \/ msg'[j].status \in {"sending", "sent", "failed"}
             PROVE  task'[j].status \in TerminalStatus \/ Live(j)'
  BY DEF WorkGoesOn
<1>1. TypeOK
  BY DEF Sound, SafetyInv
<1>2. ASSUME NEW d \in Slots, NewMail(d), copy'[d].job = j PROVE Live(j)'
  BY <1>2 DEF NewMail, InQueue, Live, Working
<1>3. CASE task[j].status \in TerminalStatus
  <2>1. Next \/ UNCHANGED vars
    BY PipelineStep
  <2>2. QED
    BY <1>1, <1>3, <2>1, TerminalStep DEF vars
<1>4. CASE Live(j)
  <2>1. PICK c \in Slots : copy[c].job = j /\ Working(c)
    BY <1>4 DEF Live
  <2>2. CASE SendMessage(c) \/ Underneath(c)
    BY <2>1, <2>2, HandsOn
  <2>3. CASE ~SendMessage(c) /\ ~Underneath(c)
    <3>1. copy'[c] = copy[c]
      BY <2>1, <2>3, CalmMail DEF NewMail, Working
    <3>2. QED
      BY <2>1, <3>1 DEF Live, Working
  <2>4. QED
    BY <2>2, <2>3
<1>5. CASE HasCopy(j)' /\ ~HasCopy(j)
  <2>1. PICK d \in Slots : copy'[d].at # "free" /\ copy'[d].job = j
    BY <1>5 DEF HasCopy
  <2>2. copy'[d] # copy[d]
    BY <1>5, <2>1 DEF HasCopy
  <2>3. CASE SendMessage(d) \/ Underneath(d)
    <3>1. copy[d].job = j /\ copy[d].at = "free"
      BY <1>5, <2>1, <2>3, CalmSlot DEF HasCopy
    <3>2. Broker(d) \/ Handle(d) \/ UNCHANGED vars
      BY <2>3, NothingGoesWrong, SlotIsPipelineStep
    <3>3. FALSE
      BY <2>2, <3>1, <3>2 DEF vars, Broker, RetryExpire, Deliver, Handle, DropMalformed, Claim,
         ExecuteOk, ExecuteFail, Throw, MarkSucceeded, PublishRetry, MarkRetrying, PublishDlq,
         MarkFailed, Requeue, Ack
    <3>4. QED
      BY <3>3
  <2>4. CASE ~SendMessage(d) /\ ~Underneath(d)
    BY <1>2, <2>1, <2>2, <2>4, CalmMail
  <2>5. QED
    BY <2>3, <2>4
<1>6. CASE ~HasCopy(j) /\ msg[j].status \notin {"sending", "sent", "failed"} /\ ~HasCopy(j)'
  <2>1. PICK c \in Slots :
          copy[c].job = j /\ (MarkSent(c) \/ MarkSending(c) \/ MarkRefused(c) \/ Hook(c))
    BY <1>6, WhoWrites DEF Sound
  <2>2. copy[c].at # "free"
    BY <2>1 DEF MarkSent, MarkSending, MarkRefused, Hook, Sound, OutboundInv, StepFollowsCopy
  <2>3. QED
    BY <1>6, <2>1, <2>2 DEF HasCopy
<1>7. QED
  BY <1>3, <1>4, <1>5, <1>6 DEF WorkGoesOn

-----------------------------------------------------------------------------

LEMMA SoundInvariant == OutboundSpec => []Sound
<1>1. OutboundInit => StepsFit /\ SentIsCounted
  BY DEF OutboundInit, Init, StepsFit, SentIsCounted, Free
<1>2. SafetyInv /\ OutboundInv /\ StepsFit /\ [OutboundNext]_outboundVars => StepsFit'
  BY StepsFitStep
<1>3. SafetyInv /\ SafetyInv' /\ OutboundInv /\ OutboundInv' /\ StepsFit /\ SentIsCounted
      /\ [OutboundNext]_outboundVars => SentIsCounted'
  BY SentIsCountedStep
<1>4. Sound <=> SafetyInv /\ OutboundInv /\ StepsFit /\ SentIsCounted /\ ResendsInv
  BY DEF Sound
<1>5. QED
  BY <1>1, <1>2, <1>3, <1>4, PipelineInvariant, OutboundInvariant, ResendsInvariant, PTL
  DEF OutboundSpec

LEMMA CalmInit == OutboundInit => CalmInv
<1> SUFFICES ASSUME OutboundInit PROVE CalmInv
  OBVIOUS
<1>1. /\ \A c \in Slots : copy[c].at = "free" /\ step[c] = "none"
      /\ \A j \in Jobs : task[j].status = "absent" /\ msg[j].status = "absent"
  BY DEF OutboundInit, Init, Free
<1>2. QED
  BY <1>1 DEF CalmInv, SuccessChain, FailureChain, FailedIsOver, WorkGoesOn, NoRequeue, HasCopy

LEMMA CalmStep ==
    ASSUME Sound, Sound', Calm => CalmInv, [OutboundNext]_outboundVars
    PROVE  Calm' => CalmInv'
<1> SUFFICES ASSUME Calm' PROVE CalmInv'
  OBVIOUS
<1>1. Calm
  <2>1. faults \in Nat /\ faults' \in {faults, faults + 1}
    <3>1. faults \in Nat
      BY DEF Sound, SafetyInv, TypeOK
    <3>2. QED
      BY <3>1, PipelineStep, FaultsGrow
  <2>2. mishaps \in Nat /\ mishaps' \in {mishaps, mishaps + 1}
    <3>1. mishaps \in Nat
      BY OutboundAssumption DEF Sound, OutboundInv, OutboundTypeOK
    <3>2. \A i \in Jobs : Call(i) \/ CallerDies(i) => mishaps' = mishaps \/ Mishap
      BY DEF Call, CallerDies, Find, Create, EnqueueJob, PublishJob, SetTaskId, outbound, NoMishap
    <3>3. \A c \in Slots : SendMessage(c) \/ WorkerDies(c) \/ Underneath(c)
                             => mishaps' = mishaps \/ Mishap
      BY DEF SendMessage, WorkerDies, Underneath, ClaimJob, UnknownInstance, MarkSending, Dispatch,
         MarkSent, MarkRefused, Return, Fail, Hook, Settle, Attempts, outbound, NoMishap
    <3>4. mishaps' = mishaps \/ Mishap
      BY <3>2, <3>3 DEF OutboundNext, outboundVars, outbound
    <3>5. QED
      BY <3>1, <3>4 DEF Mishap
  <2>3. QED
    BY <2>1, <2>2 DEF Calm
<1>2. CASE OutboundNext
  BY <1>1, <1>2, SuccessStep, FailureStep, FailedIsOverStep, WorkStep, NoRequeueStep DEF CalmInv
<1>3. CASE UNCHANGED outboundVars
  BY <1>1, <1>3 DEF outboundVars, outbound, vars, CalmInv, SuccessChain, FailureChain,
     FailedIsOver, WorkGoesOn, NoRequeue, HasCopy, Live, Working, Doomed, EffectiveCopies,
     Effective, Starting
<1>4. QED
  BY <1>2, <1>3

\* While nothing goes wrong, the row of a message says sent or failed as its task
\* does, and a message that is under way has a task that has ended or somebody who
\* is at work on it: however setTaskId, markQueued and the worker race.
THEOREM TheMirrorAgrees == OutboundSpec => []MirrorAgrees
<1>1. OutboundSpec => [](Calm => CalmInv)
  <2>1. OutboundInit => (Calm => CalmInv)
    BY CalmInit
  <2>2. Sound /\ Sound' /\ (Calm => CalmInv) /\ [OutboundNext]_outboundVars
          => (Calm => CalmInv)'
    BY CalmStep
  <2>3. QED
    BY <2>1, <2>2, SoundInvariant, PTL DEF OutboundSpec
<1>2. (Calm => CalmInv) => MirrorAgrees
  BY DEF Calm, CalmInv, SuccessChain, FailureChain, WorkGoesOn, Live, MirrorAgrees
<1>3. QED
  BY <1>1, <1>2, PTL

=============================================================================
