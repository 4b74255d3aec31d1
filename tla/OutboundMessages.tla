--------------------------- MODULE OutboundMessages ---------------------------
(***************************************************************************)
(* Sending a message: OutboundMessagesService.send, the action that the    *)
(* worker runs for the job, and the hook that runs before a message is put *)
(* into the DLQ, on top of the job pipeline of TaskQueue.                  *)
(*                                                                         *)
(* A job is named after the call of send that would create it, and so is   *)
(* the row of outbound_messages.  The retry of a request is another call   *)
(* with the same key.                                                      *)
(***************************************************************************)
EXTENDS TaskQueue

CONSTANTS
    KeyOf,          \* the idempotencyKey of each call of send, or NoKey
    NoKey,
    MaxMishaps      \* bound: how many statements on outbound_messages throw,
                    \* or callers die, in a behaviour

\* send builds the job itself: it has the schema, and no attempt.
ASSUME OutboundAssumption ==
    /\ Malformed = {}
    /\ ClientAttempt = [j \in Jobs |-> NoAttempt]
    /\ MaxMishaps \in Nat

VARIABLES
    caller,     \* where each call of send is, or what it answered
    msg,        \* the outbound_messages table: status, and task_id is set
    step,       \* how far the handler in each slot is with the message
    sends,      \* history: how often the provider sent the message
    unsure,     \* history: how often it did so and the answer was lost
    mishaps     \* how many mishaps have happened

outbound == <<caller, msg, step, sends, unsure, mishaps>>
outboundVars == <<vars, outbound>>

-----------------------------------------------------------------------------

MsgStatus == {"absent", "pending", "queued", "sending", "sent", "failed"}

Answer == {"queued", "deduplicated", "threw", "died"}
Calling == {"create", "enqueue", "publish"}

\* The awaits of sendMessage; afterwards, how it ended; then the hook.
Sending == {"markSending", "dispatch", "markSent", "markRefused"}
Ended == {"returned", "retryable", "nonRetryable"}

OutboundTypeOK ==
    /\ caller \in [Jobs -> {"new"} \cup Calling \cup Answer]
    /\ msg \in [Jobs -> [status : MsgStatus, linked : BOOLEAN]]
    /\ step \in [Slots -> {"none", "hook"} \cup Sending \cup Ended]
    /\ sends \in [Jobs -> Nat]
    /\ unsure \in [Jobs -> Nat]
    /\ mishaps \in 0..MaxMishaps

OutboundInit ==
    /\ Init
    /\ caller = [j \in Jobs |-> "new"]
    /\ msg = [j \in Jobs |-> [status |-> "absent", linked |-> FALSE]]
    /\ step = [c \in Slots |-> "none"]
    /\ sends = [j \in Jobs |-> 0]
    /\ unsure = [j \in Jobs |-> 0]
    /\ mishaps = 0

Mishap ==
    /\ mishaps < MaxMishaps
    /\ mishaps' = mishaps + 1

NoMishap == UNCHANGED mishaps

-----------------------------------------------------------------------------
(* Rows written by OutboundMessagesRepository. *)

Linked(m) ==        \* setTaskId
    [status |-> IF m.status = "pending" THEN "queued" ELSE m.status,
     linked |-> TRUE]

Resent(m) == [m EXCEPT !.status = "sending"]                        \* mutant

MarkedSending(m) ==
    IF m.status \in {"pending", "queued", "sending"}
    THEN [m EXCEPT !.status = "sending"] ELSE m

MarkedSucceeded(m) == [m EXCEPT !.status = "succeeded"]             \* mutant

MarkedSent(m) == [m EXCEPT !.status = "sent"]

MarkedFailed(m) ==
    IF m.status \notin {"failed", "sent"}
    THEN [m EXCEPT !.status = "failed"] ELSE m

\* A statement whose failure is only logged; row is what it writes.
Attempts(j, row) ==
    \/ msg' = [msg EXCEPT ![j] = row] /\ NoMishap
    \/ msg' = msg /\ Mishap

-----------------------------------------------------------------------------
(* send(input).  Whatever throws is passed on to the caller. *)

SameKey(i, j) == KeyOf[i] = KeyOf[j] /\ KeyOf[j] # NoKey

NeverTaken(j) == FALSE                                              \* mutant

\* There is a row with this key.
Taken(j) == \E i \in Jobs : SameKey(i, j) /\ msg[i].status # "absent"

Answers(j, answer) == caller' = [caller EXCEPT ![j] = answer]

\* findDeduplicated; then the target and the instance are looked up, and an
\* invalid one is refused.
Find(j) ==
    /\ caller[j] = "new"
    /\ \/ Taken(j) /\ Answers(j, "deduplicated") /\ NoMishap
       \/ ~Taken(j) /\ Answers(j, "create") /\ NoMishap
       \/ ~Taken(j) /\ Answers(j, "threw") /\ NoMishap
       \/ Mishap /\ Answers(j, "threw")
    /\ UNCHANGED <<vars, msg, step, sends, unsure>>

\* The INSERT, and what follows a violation of the unique index.  Whether the
\* error is recognised as one depends on how the driver wraps it.
Create(j) ==
    /\ caller[j] = "create"
    /\ \/ /\ ~Taken(j)
          /\ msg' = [msg EXCEPT ![j].status = "pending"]
          /\ Answers(j, "enqueue")
          /\ NoMishap
       \/ /\ Taken(j)
          /\ Answers(j, "deduplicated") \/ Answers(j, "threw")
          /\ NoMishap /\ UNCHANGED msg
       \/ /\ Mishap
          /\ Answers(j, "threw")
          /\ \/ UNCHANGED msg
             \/ ~Taken(j) /\ msg' = [msg EXCEPT ![j].status = "pending"]
    /\ UNCHANGED <<vars, step, sends, unsure>>

\* taskService.enqueue: insertMany may throw, applied or not.
EnqueueJob(j) ==
    /\ caller[j] = "enqueue"
    /\ \/ Enqueue(j) /\ Answers(j, "publish") /\ NoMishap
       \/ Mishap /\ Answers(j, "threw") /\ (Enqueue(j) \/ UNCHANGED vars)
    /\ UNCHANGED <<msg, step, sends, unsure>>

\* ... and the rest of enqueue, which never throws.
PublishJob(j) ==
    /\ caller[j] = "publish"
    /\ ApiPublish(j) \/ ApiMarkQueued(j)
    /\ UNCHANGED outbound

SetTaskId(j) ==
    /\ caller[j] = "publish"
    /\ api[j] = "idle"
    /\ \/ /\ Answers(j, "queued")
          /\ NoMishap
          /\ msg' = [msg EXCEPT ![j] = Linked(@)]
       \/ /\ Answers(j, "threw")
          /\ Mishap
          /\ UNCHANGED msg \/ msg' = [msg EXCEPT ![j] = Linked(@)]
    /\ UNCHANGED <<vars, step, sends, unsure>>

CallerDies(j) ==
    /\ caller[j] \in Calling
    /\ Mishap
    /\ Answers(j, "died")
    /\ UNCHANGED <<vars, msg, step, sends, unsure>>

-----------------------------------------------------------------------------
(* The worker. *)

Goes(c, s) == step' = [step EXCEPT ![c] = s]

\* The claim; executeJob starts when it lets the job through.
ClaimJob(c) ==
    /\ Claim(c)
    /\ Goes(c, IF copy'[c].at = "execute" THEN "markSending" ELSE "none")
    /\ UNCHANGED <<caller, msg, sends, unsure, mishaps>>

\* resolveExecutor knows no such instance.
UnknownInstance(c) ==
    /\ step[c] = "markSending"
    /\ Goes(c, "nonRetryable")
    /\ UNCHANGED <<vars, caller, msg, sends, unsure, mishaps>>

MarkSending(c) ==
    /\ step[c] = "markSending"
    /\ LET j == copy[c].job IN Attempts(j, MarkedSending(msg[j]))
    /\ Goes(c, "dispatch")
    /\ UNCHANGED <<vars, caller, sends, unsure>>

\* What an attempt may come to: a 2xx with an id, a 2xx without one, a 4xx whose
\* body is JSON, a 4xx of another body (the client's own handler then throws),
\* and the rest: no provider free, a time-out, a 5xx, a lost connection, a
\* failed release.
Replies == {"ok", "noId", "refused", "unreadable", "open"}

\* Whether the message may have been sent then.
MaySend(reply) ==
    CASE reply = "ok" -> {TRUE}
      [] reply \in {"refused", "unreadable"} -> {FALSE}
      [] OTHER -> BOOLEAN

\* What sendMessage makes of it: only a ZApiError of status 4xx is final.
Classified(reply) ==
    CASE reply = "ok" -> "markSent"
      [] reply = "refused" -> "markRefused"
      [] OTHER -> "retryable"

\* executor.execute(dispatchSend)
Dispatch(c) ==
    /\ step[c] = "dispatch"
    /\ \E reply \in Replies : \E sent \in MaySend(reply) :
         LET j == copy[c].job IN
         /\ sends' = IF sent THEN [sends EXCEPT ![j] = @ + 1] ELSE sends
         /\ unsure' = IF sent /\ reply # "ok" THEN [unsure EXCEPT ![j] = @ + 1] ELSE unsure
         /\ Goes(c, Classified(reply))
    /\ UNCHANGED <<vars, caller, msg, mishaps>>

ThrowsWhenUnmarked == IF mishaps' = mishaps THEN "returned" ELSE "retryable" \* mutant

\* What sendMessage does after markSent, failed or not.
AfterMarkSent == "returned"

MarkSent(c) ==
    /\ step[c] = "markSent"
    /\ LET j == copy[c].job IN Attempts(j, MarkedSent(msg[j]))
    /\ Goes(c, AfterMarkSent)
    /\ UNCHANGED <<vars, caller, sends, unsure>>

MarkRefused(c) ==
    /\ step[c] = "markRefused"
    /\ LET j == copy[c].job IN Attempts(j, MarkedFailed(msg[j]))
    /\ Goes(c, "nonRetryable")
    /\ UNCHANGED <<vars, caller, sends, unsure>>

Return(c) ==
    /\ step[c] = "returned"
    /\ ExecuteOk(c)
    /\ Goes(c, "none")
    /\ UNCHANGED <<caller, msg, sends, unsure, mishaps>>

NeverTerminal(c) == FALSE                                           \* mutant

\* onTerminalFailure is called when the job is on its way to the DLQ.
Terminal(c) == copy'[c].at = "publishDlq"

Fail(c) ==
    /\ \/ step[c] = "retryable" /\ Throw(c, FALSE)
       \/ step[c] = "nonRetryable" /\ Throw(c, TRUE)
    /\ Goes(c, IF Terminal(c) THEN "hook" ELSE "none")
    /\ UNCHANGED <<caller, msg, sends, unsure, mishaps>>

Hook(c) ==
    /\ step[c] = "hook"
    /\ LET j == copy[c].job IN Attempts(j, MarkedFailed(msg[j]))
    /\ Goes(c, "none")
    /\ UNCHANGED <<vars, caller, sends, unsure>>

\* The rest of the handler, which does not know the message.
Settle(c) ==
    /\ step[c] = "none"
    /\ \/ MarkSucceeded(c)
       \/ PublishRetry(c) \/ MarkRetrying(c)
       \/ PublishDlq(c) \/ MarkFailed(c)
       \/ Requeue(c) \/ Ack(c)
    /\ UNCHANGED outbound

WorkerDies(c) ==
    /\ Crash(c)
    /\ Goes(c, "none")
    /\ UNCHANGED <<caller, msg, sends, unsure, mishaps>>

Underneath(c) ==
    /\ Broker(c) \/ Disconnect(c)
    /\ UNCHANGED outbound

-----------------------------------------------------------------------------

Call(j) ==
    \/ Find(j) \/ Create(j) \/ EnqueueJob(j) \/ PublishJob(j) \/ SetTaskId(j)

SendMessage(c) ==
    \/ ClaimJob(c) \/ UnknownInstance(c) \/ MarkSending(c) \/ Dispatch(c)
    \/ MarkSent(c) \/ MarkRefused(c) \/ Return(c) \/ Fail(c) \/ Hook(c)
    \/ Settle(c)

OutboundNext ==
    \/ \E j \in Jobs : Call(j) \/ CallerDies(j)
    \/ \E c \in Slots : SendMessage(c) \/ WorkerDies(c) \/ Underneath(c)

OutboundSpec == OutboundInit /\ [][OutboundNext]_outboundVars

-----------------------------------------------------------------------------
(* Properties. *)

\* Calls with one key create one job, whatever race, failure or crash they
\* meet.  About the window between findByIdempotencyKey and the INSERT.
OneJobPerKey ==
    \A i, j \in Jobs :
        i # j /\ SameKey(i, j)
            => task[i].status = "absent" \/ task[j].status = "absent"

\* A message is sent again only when an answer of the provider was lost, or a
\* fault of the pipeline ran the job again; never because a statement on
\* outbound_messages failed.  About the best-effort writes of sendMessage.
ResendsPaidFor == \A j \in Jobs : sends[j] <= 1 + unsure[j] + faults

\* sent is for ever: no late setTaskId, markSending or terminal hook of a
\* second delivery takes it back.
SentStaysSent ==
    \A j \in Jobs : msg[j].status = "sent" => msg'[j].status = "sent"

\* The same, as a property of every step.
SentIsFinal == [][SentStaysSent]_outboundVars

\* While nothing goes wrong, the row follows the task it mirrors, whichever of
\* setTaskId, markQueued and the worker is faster, and agrees with it in the
\* end.
MirrorAgrees ==
    faults = 0 /\ mishaps = 0 =>
        \A j \in Jobs :
            /\ task[j].status = "succeeded" => msg[j].status = "sent"
            /\ task[j].status = "failed" => msg[j].status = "failed"
            /\ msg[j].status \in {"sending", "sent", "failed"}
                 => task[j].status \in TerminalStatus \/ \E c \in Slots : copy[c].job = j

=============================================================================
