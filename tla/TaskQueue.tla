------------------------------ MODULE TaskQueue ------------------------------
(***************************************************************************)
(* The life of a job: the `tasks` table, the AMQP topology (main queue,    *)
(* retry queue with TTL and dead-letter back to the main queue, DLQ), the  *)
(* producer (TaskService.enqueue) and the consumer's message handler       *)
(* (workers/shared/handler-base.ts).                                       *)
(*                                                                         *)
(* The broker's view is kept as a set of slots.  A slot is free or holds   *)
(* one copy of one message, together with how far its handler has come if  *)
(* it is being handled: a delivered message stays with the broker until    *)
(* it is acknowledged.  The queues are unordered: priorities, TTLs and     *)
(* redelivery reorder messages, and any number of workers with any         *)
(* prefetch consume them.                                                  *)
(***************************************************************************)
EXTENDS Integers, FiniteSets

CONSTANTS
    Jobs,           \* job ids
    Malformed,      \* the jobs whose body the consumer's jobSchema rejects
    Slots,          \* bound: how many message copies the broker holds at once
    NoJob,          \* the job of a free slot
    ClientAttempt,  \* the `attempt` each job is submitted with, or NoAttempt
    MaxRetries,     \* env AMQP_RETRY_MAX_RETRIES
    FaultKinds,     \* the faults that may happen
    MaxFaults       \* bound: how many faults happen in a behaviour

NoAttempt == -1     \* the optional field is undefined

\* What can go wrong around the code:
\*   db           a statement throws (applied or not)
\*   lost         publisher.send throws and the broker has no message
\*   unconfirmed  publisher.send throws, but the broker stored the message
\*   duplicated   the publisher's second attempt stored the message twice
\*   crash        a worker, or the API process, dies between two awaits
\*   disconnect   the channel closes under a running handler: the broker
\*                redelivers, the handler goes on without its delivery
AllFaults == {"db", "lost", "unconfirmed", "duplicated", "crash", "disconnect"}

ASSUME ConstantsAssumption ==
    /\ Malformed \subseteq Jobs
    /\ NoJob \notin Jobs
    /\ IsFiniteSet(Slots)
    /\ ClientAttempt \in [Jobs -> Nat \cup {NoAttempt}]
    /\ MaxRetries \in Nat
    /\ FaultKinds \subseteq AllFaults
    /\ MaxFaults \in Nat

VARIABLES
    task,    \* the tasks table: status and attempt of every row
    api,     \* how far the producer is with the job
    copy,    \* what every broker slot holds
    dlq,     \* how many copies of the job lie in the dead-letter queue
    execs,   \* history: how often executeJob was started for the job
    oks,     \* history: how often executeJob returned for the job
    faults   \* how many faults have happened

vars == <<task, api, copy, dlq, execs, oks, faults>>

-----------------------------------------------------------------------------

Claimable == {"pending", "queued", "running"}
TerminalStatus == {"succeeded", "failed", "dropped"}
Status == {"absent"} \cup Claimable \cup TerminalStatus

InQueue == {"main", "retry"}

\* Where a handler is, named for what it does next.
InHandler == {"claim", "execute", "markSucceeded", "publishRetry",
              "markRetrying", "publishDlq", "markFailed", "requeue", "ack"}

Copy == [at : {"free"} \cup InQueue \cup InHandler,
         job : Jobs \cup {NoJob},
         attempt : Nat \cup {NoAttempt},   \* the body's attempt field
         n : Nat,                          \* the handler's attemptNumber
         owned : BOOLEAN]                  \* the delivery is still this handler's

Free == [at |-> "free", job |-> NoJob, attempt |-> NoAttempt, n |-> 0,
         owned |-> TRUE]

Message(place, j, a) == [at |-> place, job |-> j, attempt |-> a, n |-> 0,
                         owned |-> TRUE]

FreeSlots == {c \in Slots : copy[c].at = "free"}

TypeOK ==
    /\ task \in [Jobs -> [status : Status, attempt : Nat]]
    /\ api \in [Jobs -> {"idle", "publish", "markQueued"}]
    /\ copy \in [Slots -> Copy]
    /\ \A c \in Slots : copy[c].at # "free" => copy[c].job \in Jobs
    /\ dlq \in [Jobs -> Nat]
    /\ execs \in [Jobs -> Nat]
    /\ oks \in [Jobs -> Nat]
    /\ faults \in 0..MaxFaults

Init ==
    /\ task = [j \in Jobs |-> [status |-> "absent", attempt |-> 0]]
    /\ api = [j \in Jobs |-> "idle"]
    /\ copy = [c \in Slots |-> Free]
    /\ dlq = [j \in Jobs |-> 0]
    /\ execs = [j \in Jobs |-> 0]
    /\ oks = [j \in Jobs |-> 0]
    /\ faults = 0

-----------------------------------------------------------------------------
(* The environment's calls. *)

Fault(kind) ==
    /\ kind \in FaultKinds
    /\ faults < MaxFaults
    /\ faults' = faults + 1

NoFault == UNCHANGED faults

\* publisher.send: it resolves or throws (ok), having stored k copies.
Send(ok, k) ==
    \/ ok /\ k = 1 /\ NoFault
    \/ ok /\ k = 2 /\ Fault("duplicated")
    \/ ~ok /\ k = 0 /\ Fault("lost")
    \/ ~ok /\ k = 1 /\ Fault("unconfirmed")

\* An UPDATE whose failure the caller only logs: row is what it writes.
BestEffort(j, row) ==
    \/ task' = [task EXCEPT ![j] = row] /\ NoFault
    \/ task' = task /\ Fault("db")

-----------------------------------------------------------------------------
(* Rows written by TaskRepository. *)

Queued(row) ==      \* markQueued: only from pending
    IF row.status = "pending" THEN [row EXCEPT !.status = "queued"] ELSE row

Claimed(row) == [status |-> "running", attempt |-> row.attempt + 1]

RetryingUnguarded(row) == [row EXCEPT !.status = "queued"]      \* mutant

Retrying(row) ==    \* markRetrying: only from running
    IF row.status = "running" THEN [row EXCEPT !.status = "queued"] ELSE row

\* markSucceeded, markFailed and markDropped: whatever the status is
Finished(row, status) == [row EXCEPT !.status = status]

-----------------------------------------------------------------------------
(* TaskService.enqueue, one job of the batch. *)

InsertsAgain(j) == api[j] = "idle"      \* mutant: the row is overwritten

\* ON CONFLICT DO NOTHING: a second call with the same id inserts no row and
\* publishes nothing (a stutter here).
Inserts(j) == task[j].status = "absent"

Enqueue(j) ==
    /\ Inserts(j)
    /\ task' = [task EXCEPT ![j] =
                  [status |-> "pending",
                   attempt |-> IF ClientAttempt[j] = NoAttempt
                               THEN 0 ELSE ClientAttempt[j]]]
    /\ api' = [api EXCEPT ![j] = "publish"]
    /\ UNCHANGED <<copy, dlq, execs, oks, faults>>

\* publisher.send to the main queue; when it throws, the job is given up and
\* its row stays pending.
ApiPublish(j) ==
    /\ api[j] = "publish"
    /\ \E ok \in BOOLEAN, S \in SUBSET FreeSlots :
         /\ Send(ok, Cardinality(S))
         /\ copy' = [c \in Slots |->
                       IF c \in S THEN Message("main", j, ClientAttempt[j])
                       ELSE copy[c]]
         /\ api' = [api EXCEPT ![j] = IF ok THEN "markQueued" ELSE "idle"]
    /\ UNCHANGED <<task, dlq, execs, oks>>

ApiMarkQueued(j) ==
    /\ api[j] = "markQueued"
    /\ BestEffort(j, Queued(task[j]))
    /\ api' = [api EXCEPT ![j] = "idle"]
    /\ UNCHANGED <<copy, dlq, execs, oks>>

ApiCrash(j) ==
    /\ api[j] # "idle"
    /\ Fault("crash")
    /\ api' = [api EXCEPT ![j] = "idle"]
    /\ UNCHANGED <<task, copy, dlq, execs, oks>>

-----------------------------------------------------------------------------
(* The broker. *)

RetryWithoutTtl(c) == FALSE     \* mutant

\* x-message-ttl of the retry queue, dead-lettered to the main queue
RetryExpire(c) ==
    /\ copy[c].at = "retry"
    /\ copy' = [copy EXCEPT ![c].at = "main"]
    /\ UNCHANGED <<task, api, dlq, execs, oks, faults>>

Deliver(c) ==
    /\ copy[c].at = "main"
    /\ copy' = [copy EXCEPT ![c].at = "claim"]
    /\ UNCHANGED <<task, api, dlq, execs, oks, faults>>

\* What a delivery becomes when it is given back: the message is ready again,
\* unless the channel it came from is gone (then it already was).
GivenBack(m) == IF m.owned THEN Message("main", m.job, m.attempt) ELSE Free

-----------------------------------------------------------------------------
(* handleMessage: one action per await. *)

\* The schema check fails: markDropped, then DROP.
DropMalformed(c) ==
    /\ copy[c].at = "claim"
    /\ copy[c].job \in Malformed
    /\ LET j == copy[c].job IN BestEffort(j, Finished(task[j], "dropped"))
    /\ copy' = [copy EXCEPT ![c].at = "ack"]
    /\ UNCHANGED <<api, dlq, execs, oks>>

\* executeJob is called with attemptNumber n.
Start(c, n) ==
    /\ copy' = [copy EXCEPT ![c].at = "execute", ![c].n = n]
    /\ execs' = [execs EXCEPT ![copy[c].job] = @ + 1]

NoDefaultAttempt(m) == m.attempt       \* mutant

\* job.attempt ?? 1
FallbackAttempt(m) == IF m.attempt = NoAttempt THEN 1 ELSE m.attempt

\* claimOrFallback: the UPDATE ... RETURNING gives a row, gives none (the
\* message is dropped), or throws (the job runs without persistence).
Claim(c) ==
    /\ copy[c].at = "claim"
    /\ copy[c].job \notin Malformed
    /\ LET j == copy[c].job IN
         \/ /\ task[j].status \in Claimable
            /\ task' = [task EXCEPT ![j] = Claimed(task[j])]
            /\ Start(c, task[j].attempt + 1)
            /\ NoFault
         \/ /\ task[j].status \notin Claimable
            /\ copy' = [copy EXCEPT ![c].at = "ack"]
            /\ NoFault
            /\ UNCHANGED <<task, execs>>
         \/ /\ Fault("db")
            /\ Start(c, FallbackAttempt(copy[c]))
            /\ \/ task' = task
               \/ /\ task[j].status \in Claimable
                  /\ task' = [task EXCEPT ![j] = Claimed(task[j])]
    /\ UNCHANGED <<api, dlq, oks>>

CanRetry(m) == m.n - 1 < MaxRetries

\* executeJob returns.
ExecuteOk(c) ==
    /\ copy[c].at = "execute"
    /\ copy' = [copy EXCEPT ![c].at = "markSucceeded"]
    /\ oks' = [oks EXCEPT ![copy[c].job] = @ + 1]
    /\ UNCHANGED <<task, api, dlq, execs, faults>>

\* executeJob throws: a NonRetryableError goes to the DLQ whatever n is.
Throw(c, nonRetryable) ==
    /\ copy[c].at = "execute"
    /\ copy' = [copy EXCEPT ![c].at =
                   IF ~nonRetryable /\ CanRetry(copy[c])
                   THEN "publishRetry" ELSE "publishDlq"]
    /\ UNCHANGED <<task, api, dlq, execs, oks, faults>>

ExecuteFail(c) == \E nonRetryable \in BOOLEAN : Throw(c, nonRetryable)

MarkSucceeded(c) ==
    /\ copy[c].at = "markSucceeded"
    /\ LET j == copy[c].job IN BestEffort(j, Finished(task[j], "succeeded"))
    /\ copy' = [copy EXCEPT ![c].at = "ack"]
    /\ UNCHANGED <<api, dlq, execs, oks>>

DropWhenPublishThrows(ok, mark) == IF ok THEN mark ELSE "ack"      \* mutant
MarkWhateverPublishDid(ok, mark) == mark                           \* mutant

\* publishOrRequeue: what follows publisher.send
AfterPublish(ok, mark) == IF ok THEN mark ELSE "requeue"

\* publishOrRequeue to the retry queue, with attempt |-> attemptNumber
PublishRetry(c) ==
    /\ copy[c].at = "publishRetry"
    /\ \E ok \in BOOLEAN, S \in SUBSET FreeSlots :
         /\ Send(ok, Cardinality(S))
         /\ copy' = [d \in Slots |->
                       IF d \in S THEN Message("retry", copy[c].job, copy[c].n)
                         ELSE IF d = c THEN [copy[c] EXCEPT
                                        !.at = AfterPublish(ok, "markRetrying")]
                         ELSE copy[d]]
    /\ UNCHANGED <<task, api, dlq, execs, oks>>

MarkRetrying(c) ==
    /\ copy[c].at = "markRetrying"
    /\ LET j == copy[c].job IN BestEffort(j, Retrying(task[j]))
    /\ copy' = [copy EXCEPT ![c].at = "ack"]
    /\ UNCHANGED <<api, dlq, execs, oks>>

\* publishOrRequeue to the DLQ (nothing consumes it)
PublishDlq(c) ==
    /\ copy[c].at = "publishDlq"
    /\ \E ok \in BOOLEAN, k \in 0..2 :
         /\ Send(ok, k)
         /\ dlq' = [dlq EXCEPT ![copy[c].job] = @ + k]
         /\ copy' = [copy EXCEPT ![c].at = AfterPublish(ok, "markFailed")]
    /\ UNCHANGED <<task, api, execs, oks>>

MarkFailed(c) ==
    /\ copy[c].at = "markFailed"
    /\ LET j == copy[c].job IN BestEffort(j, Finished(task[j], "failed"))
    /\ copy' = [copy EXCEPT ![c].at = "ack"]
    /\ UNCHANGED <<api, dlq, execs, oks>>

\* The publish threw: markRetrying, then REQUEUE.
Requeue(c) ==
    /\ copy[c].at = "requeue"
    /\ LET j == copy[c].job IN BestEffort(j, Retrying(task[j]))
    /\ copy' = [copy EXCEPT ![c] = GivenBack(copy[c])]
    /\ UNCHANGED <<api, dlq, execs, oks>>

\* The handler returned undefined (ack) or DROP: the copy is gone.
Ack(c) ==
    /\ copy[c].at = "ack"
    /\ copy' = [copy EXCEPT ![c] = Free]
    /\ UNCHANGED <<task, api, dlq, execs, oks, faults>>

-----------------------------------------------------------------------------
(* A worker dies, or loses its channel, between two awaits of a handler. *)

Crash(c) ==
    /\ copy[c].at \in InHandler
    /\ Fault("crash")
    /\ copy' = [copy EXCEPT ![c] = GivenBack(copy[c])]
    /\ UNCHANGED <<task, api, dlq, execs, oks>>

Disconnect(c) ==
    /\ copy[c].at \in InHandler
    /\ copy[c].owned
    /\ Fault("disconnect")
    /\ \E d \in FreeSlots :
         copy' = [copy EXCEPT ![c].owned = FALSE,
                              ![d] = Message("main", copy[c].job, copy[c].attempt)]
    /\ UNCHANGED <<task, api, dlq, execs, oks>>

-----------------------------------------------------------------------------

Api(j) == Enqueue(j) \/ ApiPublish(j) \/ ApiMarkQueued(j) \/ ApiCrash(j)

Broker(c) == RetryExpire(c) \/ Deliver(c)

Handle(c) ==
    \/ DropMalformed(c) \/ Claim(c)
    \/ ExecuteOk(c) \/ ExecuteFail(c)
    \/ MarkSucceeded(c)
    \/ PublishRetry(c) \/ MarkRetrying(c)
    \/ PublishDlq(c) \/ MarkFailed(c)
    \/ Requeue(c) \/ Ack(c)

Next ==
    \/ \E j \in Jobs : Api(j)
    \/ \E c \in Slots : Broker(c) \/ Handle(c) \/ Crash(c) \/ Disconnect(c)

Spec == Init /\ [][Next]_vars

\* What keeps running: the broker delivers and expires, a handler that has
\* started goes on (every await of it is bounded by a timeout), and the API
\* finishes the enqueue it has begun.  Nothing obliges a client to enqueue, or
\* a fault to happen.
Fairness ==
    /\ \A j \in Jobs : WF_vars(ApiPublish(j)) /\ WF_vars(ApiMarkQueued(j))
    /\ \A c \in Slots : WF_vars(Broker(c)) /\ WF_vars(Handle(c))

FairSpec == Spec /\ Fairness

-----------------------------------------------------------------------------
(* Properties. *)

WellFormed == Jobs \ Malformed

\* A delivery that has not been resolved: its handler, or the next one, will
\* still execute the job or pass it on.
Unresolved == InQueue \cup {"claim", "execute", "publishRetry", "publishDlq",
                            "requeue"}

Settled(j) == oks[j] > 0 \/ dlq[j] > 0

Held(j) == \E c \in Slots : /\ copy[c].job = j
                            /\ copy[c].owned
                            /\ copy[c].at \in Unresolved

\* No job is lost in silence: a task that says queued or running was executed
\* to the end (only its markSucceeded failed), or lies in the DLQ, or somebody
\* holds a message that will be acted on.  About the order of publish, mark
\* and acknowledge in publishOrRequeue, and about every crash between them.
NoSilentLoss ==
    \A j \in WellFormed :
        task[j].status \in {"queued", "running"} => Settled(j) \/ Held(j)

\* The table and the world agree on the end of a job: failed means that its
\* message can be found in the DLQ, succeeded that executeJob did return,
\* dropped that its body was rejected.  About the writes that follow a publish
\* or an execution by another handler of the same job.
TerminalIsJustified ==
    \A j \in Jobs :
        /\ task[j].status = "failed" => dlq[j] > 0
        /\ task[j].status = "succeeded" => oks[j] > 0
        /\ task[j].status = "dropped" => j \in Malformed

\* A job takes effect more than once, and is executed more often than the retry
\* budget allows, only if something failed: each repetition is paid by a fault
\* of its own.  About claim, acknowledge, ON CONFLICT, and the attempt counter
\* that lives both in the row and in the message.
RepeatsPaidByFaults ==
    \A j \in Jobs : oks[j] <= 1 + faults /\ execs[j] <= MaxRetries + 1 + faults

\* A task that has ended never goes back to work, whichever late markQueued or
\* markRetrying arrives.
EndedStaysEnded ==
    \A j \in Jobs : task[j].status \in TerminalStatus
                       => task'[j].status \in TerminalStatus

\* The same, as a property of every step.
TerminalStaysTerminal == [][EndedStaysEnded]_vars

\* When nothing fails, an accepted task ends.  About the writes that race each
\* other on the row: the producer's markQueued, a handler's markRetrying and
\* the claim of the message that this handler has just published.
AcceptedTaskEnds ==
    \A j \in Jobs : task[j].status # "absent"
                       ~> (task[j].status \in TerminalStatus \/ faults > 0)

\* The promise of AtLeastOnce, kept for the well-formed jobs.
phase == [j \in WellFormed |->
            CASE Settled(j) -> "settled"
              [] ~Settled(j) /\ Held(j) -> "live"
              [] ~Settled(j) /\ ~Held(j) /\ task[j].status # "absent" -> "accepted"
              [] OTHER -> "new"]

Promise == INSTANCE AtLeastOnce WITH Jobs <- WellFormed

PromiseFairSpec == Promise!FairSpec

=============================================================================
