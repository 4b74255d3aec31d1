----------------------------- MODULE Moderation -----------------------------
(***************************************************************************)
(* A group message from the webhook to its removal: ingestion              *)
(* (GroupMessagesService), the moderation job (moderateGroupMessage) and   *)
(* the enforcement both of them end with (ModerationEnforcementService).   *)
(*                                                                         *)
(* A message has at most one moderation of the version in force, so its    *)
(* moderation and its job are named after it.  The pipeline appears as     *)
(* what it promises: a job that was handed over has a number of            *)
(* unacknowledged copies, each of which is run until it returns or has     *)
(* used up its retries; more copies than one are the work of faults.       *)
(***************************************************************************)
EXTENDS Integers, FiniteSets

CONSTANTS
    Messages,       \* group messages
    Contents,       \* content hashes
    Senders, Groups,
    ContentOf, SenderOf, GroupOf,   \* of each message
    Webhooks,       \* deliveries of the webhook
    EventOf,        \* the message each of them reports: redundant instances
                    \* report one message several times
    Untraceable,    \* messages whose provider instance is not known
    Hits,           \* messages on which the content filter fires
    Bypassed,       \* senders with a bypass policy
    Blacklisted,    \* senders with a blacklist policy to begin with
    Phoneless,      \* senders known by LID only
    Verdicts,       \* what the language model may answer
    Runs,           \* bound: how many jobs are executed at a time
    MaxRetries,     \* env AMQP_RETRY_MAX_RETRIES
    MaxFaults,      \* bound: faults of the pipeline
    MaxMishaps,     \* bound: statements that throw, webhooks that die
    MaxExpiries,    \* bound: how often a de-duplication key expires
    NoMessage, NoVerdict

Procs == Webhooks \cup Runs
Members == Groups \X Senders
Member(m) == <<GroupOf[m], SenderOf[m]>>

ASSUME ModerationAssumption ==
    /\ IsFiniteSet(Messages) /\ IsFiniteSet(Procs)
    /\ Webhooks \cap Runs = {}
    /\ NoMessage \notin Messages /\ NoVerdict \notin Verdicts
    /\ EventOf \in [Webhooks -> Messages]
    /\ ContentOf \in [Messages -> Contents]
    /\ SenderOf \in [Messages -> Senders]
    /\ GroupOf \in [Messages -> Groups]
    /\ Blacklisted \subseteq Senders
    /\ Groups \cap Senders = {}
    /\ {MaxRetries, MaxFaults, MaxMishaps, MaxExpiries} \subseteq Nat

VARIABLES
    row,        \* group_messages: moderation_status, current_moderation_id set
    moderation, \* message_moderations
    at,         \* what each delivery of the webhook, each run does next
    on,         \* the message each run is about
    held,       \* the verdict a process has read or been given, and from where
    copies,     \* unacknowledged copies of the message's job
    execs,      \* executions of the job that were started
    done,       \* messages whose job has returned
    dead,       \* messages whose job lies in the DLQ
    policies,   \* senders with a phone_policies row of kind blacklist
    key,        \* the removals that are de-duplicated at present, in Redis
    deletes,    \* delete_message jobs that were handed over, for a message
    deleted,    \* messages whose delete_message job was executed
    removed,    \* group_messages: removed_at is set
    kicks,      \* remove_participant jobs that were handed over, for a member
    expiries, faults, mishaps

tables == <<row, moderation, policies>>
jobs == <<copies, execs, done, dead>>
removal == <<key, expiries, deletes, kicks, deleted, removed>>
procs == <<at, on, held>>
vars == <<tables, jobs, removal, procs, faults, mishaps>>

-----------------------------------------------------------------------------

ModerationStatus == {"absent", "pending", "analyzed"}

Ingesting == {"find", "createCached", "setCached", "createFresh", "setPending",
              "enqueue"}
Enforcing == {"bypass", "blacklist", "addPolicy", "setKey", "enqueueBoth",
              "enqueueDelete"}
Analysing == {"load", "classify", "markAnalyzed", "setStatus"}
Answer == {"duplicate", "reused", "queued", "threw", "died"}

Nothing == [from |-> NoMessage, verdict |-> NoVerdict]
NoModeration == [status |-> "absent", source |-> "none",
                 from |-> NoMessage, verdict |-> NoVerdict]

RowRecord == [status : ModerationStatus, linked : BOOLEAN]

ModerationRecord ==
    [status : ModerationStatus, source : {"none", "fresh", "cached"},
     from : Messages \cup {NoMessage}, verdict : Verdicts \cup {NoVerdict}]

HeldRecord == [from : Messages \cup {NoMessage}, verdict : Verdicts \cup {NoVerdict}]

Place == {"new", "idle", "returned"} \cup Ingesting \cup Enforcing \cup Analysing \cup Answer

ModerationTypeOK ==
    /\ row \in [Messages -> RowRecord]
    /\ moderation \in [Messages -> ModerationRecord]
    /\ at \in [Procs -> Place]
    /\ on \in [Runs -> Messages \cup {NoMessage}]
    /\ held \in [Procs -> HeldRecord]
    /\ copies \in [Messages -> Nat]
    /\ execs \in [Messages -> Nat]
    /\ done \subseteq Messages /\ dead \subseteq Messages
    /\ policies \subseteq Senders
    /\ key \subseteq Members
    /\ deletes \in [Messages -> Nat]
    /\ deleted \subseteq Messages /\ removed \subseteq Messages
    /\ kicks \in [Members -> Nat]
    /\ expiries \in [Members -> 0..MaxExpiries]
    /\ faults \in 0..MaxFaults /\ mishaps \in 0..MaxMishaps

Init ==
    /\ row = [m \in Messages |-> [status |-> "absent", linked |-> FALSE]]
    /\ moderation = [m \in Messages |-> NoModeration]
    /\ at = [p \in Procs |-> IF p \in Webhooks THEN "new" ELSE "idle"]
    /\ on = [r \in Runs |-> NoMessage]
    /\ held = [p \in Procs |-> Nothing]
    /\ copies = [m \in Messages |-> 0]
    /\ execs = [m \in Messages |-> 0]
    /\ done = {} /\ dead = {}
    /\ policies = Blacklisted
    /\ key = {}
    /\ deletes = [m \in Messages |-> 0]
    /\ deleted = {} /\ removed = {}
    /\ kicks = [g \in Members |-> 0]
    /\ expiries = [g \in Members |-> 0]
    /\ faults = 0 /\ mishaps = 0

Mishap == mishaps < MaxMishaps /\ mishaps' = mishaps + 1
NoMishap == UNCHANGED mishaps
Fault == faults < MaxFaults /\ faults' = faults + 1

Goes(p, place) == at' = [at EXCEPT ![p] = place]

Subject(p) == IF p \in Webhooks THEN EventOf[p] ELSE on[p]

\* A statement that takes p to next, or throws, applied or not.
Statement(p, write, skip, next) ==
    \/ write /\ Goes(p, next) /\ NoMishap
    \/ (write \/ skip) /\ Goes(p, "threw") /\ Mishap

-----------------------------------------------------------------------------
(* ingestZapi and resolveModeration.  What throws reaches the route. *)

\* INSERT ... ON CONFLICT DO UPDATE has inserted a row (xmax = 0).
IsNew(m) == row[m].status = "absent"

\* upsertByIngestionHash; recordSeenFromMessage follows, at best.
Upsert(w) ==
    LET m == EventOf[w] IN
    /\ at[w] = "new"
    /\ IF IsNew(m)
       THEN Statement(w, row' = [row EXCEPT ![m].status = "pending"],
                      UNCHANGED row, "find")
       ELSE Statement(w, UNCHANGED row, UNCHANGED row, "duplicate")
    /\ UNCHANGED <<moderation, policies, jobs, removal, on, held, faults>>

\* What findReusable may return, as far as age allows.
Reusable(m) ==
    {s \in Messages : /\ ContentOf[s] = ContentOf[m]
                      /\ moderation[s].status = "analyzed"
                      /\ moderation[s].source = "fresh"}

FindReusable(w) ==
    /\ at[w] = "find"
    /\ \/ \E s \in Reusable(EventOf[w]) :
            /\ held' = [held EXCEPT ![w] =
                          [from |-> s, verdict |-> moderation[s].verdict]]
            /\ Goes(w, "createCached") /\ NoMishap
       \/ Statement(w, UNCHANGED held, UNCHANGED held, "createFresh")
    /\ UNCHANGED <<row, moderation, policies, jobs, removal, on, faults>>

FreshPending == [status |-> "pending", source |-> "fresh",
                 from |-> NoMessage, verdict |-> NoVerdict]

CopiedAsCached(h) == [status |-> "cached", source |-> "cached",     \* mutant
                      from |-> h.from, verdict |-> h.verdict]

CopyOf(h) == [status |-> "analyzed", source |-> "cached",
              from |-> h.from, verdict |-> h.verdict]

\* moderationsRepo.create
Insert(w, new, next) ==
    /\ Statement(w, moderation' = [moderation EXCEPT ![EventOf[w]] = new],
                 UNCHANGED moderation, next)
    /\ UNCHANGED <<row, policies, jobs, removal, on, held, faults>>

CreateCached(w) == at[w] = "createCached" /\ Insert(w, CopyOf(held[w]), "setCached")
CreateFresh(w) == at[w] = "createFresh" /\ Insert(w, FreshPending, "setPending")

\* setCurrentModeration
SetCurrent(w, status, next) ==
    /\ Statement(w, row' = [row EXCEPT ![EventOf[w]] =
                              [status |-> status, linked |-> TRUE]],
                 UNCHANGED row, next)
    /\ UNCHANGED <<moderation, policies, jobs, removal, on, held, faults>>

AnswersAtOnce == "reused"                                           \* mutant

\* The reused moderation is followed by the enforcement, too.
AfterSetCached == "bypass"

SetCached(w) == at[w] = "setCached" /\ SetCurrent(w, "analyzed", AfterSetCached)

AnsweredBeforeEnqueue == "queued"                                   \* mutant

AfterSetPending == "enqueue"

SetPending(w) == at[w] = "setPending" /\ SetCurrent(w, "pending", AfterSetPending)

\* taskService.enqueue: whatever fails is logged, and no copy may exist.
EnqueueAnalysis(w) ==
    LET handOver == copies' = [copies EXCEPT ![EventOf[w]] = @ + 1] IN
    /\ at[w] = "enqueue"
    /\ Goes(w, "queued")
    /\ \/ handOver /\ NoMishap
       \/ UNCHANGED copies /\ Mishap
    /\ UNCHANGED <<tables, execs, done, dead, removal, on, held, faults>>

WebhookDies(w) ==
    /\ at[w] \in Ingesting \cup Enforcing
    /\ Goes(w, "died") /\ Mishap
    /\ UNCHANGED <<tables, jobs, removal, on, held, faults>>

-----------------------------------------------------------------------------
(* The pipeline, as TaskQueue shows it, and moderateGroupMessage. *)

Running(m) == {r \in Runs : on[r] = m}

Start(r, m) ==
    /\ on[r] = NoMessage
    /\ Cardinality(Running(m)) < copies[m]
    /\ on' = [on EXCEPT ![r] = m]
    /\ Goes(r, "load")
    /\ execs' = [execs EXCEPT ![m] = @ + 1]
    /\ UNCHANGED <<tables, copies, done, dead, removal, held, faults, mishaps>>

NeverSkips(m) == FALSE                                              \* mutant
\* The moderation is not pending any more.
Skips(m) == moderation[m].status # "pending"

\* findByIdWithMessage.  The moderation exists and its message has a text:
\* the job is enqueued after the one is created, and the normaliser ignores
\* messages without the other.
Load(r) ==
    /\ at[r] = "load"
    /\ \/ Goes(r, IF Skips(on[r]) THEN "returned" ELSE "classify") /\ NoMishap
       \/ Goes(r, "threw") /\ Mishap
    /\ UNCHANGED <<tables, jobs, removal, on, held, faults>>

\* moderate(text): a verdict, or an error of the model or the network, which
\* is never a NonRetryableError.
Classify(r) ==
    /\ at[r] = "classify"
    /\ \/ \E v \in Verdicts :
            /\ held' = [held EXCEPT ![r].verdict = v]
            /\ Goes(r, "markAnalyzed")
       \/ Goes(r, "threw") /\ UNCHANGED held
    /\ UNCHANGED <<tables, jobs, removal, on, faults, mishaps>>

MarkAnalyzed(r) ==
    /\ at[r] = "markAnalyzed"
    /\ Statement(r, moderation' = [moderation EXCEPT ![on[r]].status = "analyzed",
                                          ![on[r]].verdict = held[r].verdict],
                 UNCHANGED moderation, "setStatus")
    /\ UNCHANGED <<row, policies, jobs, removal, on, held, faults>>

SetStatus(r) ==
    /\ at[r] = "setStatus"
    /\ Statement(r, row' = [row EXCEPT ![on[r]].status = "analyzed"],
                 UNCHANGED row, "bypass")
    /\ UNCHANGED <<moderation, policies, jobs, removal, on, held, faults>>

\* The handler's test of the attempt.
CanRetry(m) == execs[m] <= MaxRetries

\* The run is over, and its copy is gone, or not.
Leaves(r, acknowledged) ==
    /\ Goes(r, "idle")
    /\ on' = [on EXCEPT ![r] = NoMessage]
    /\ held' = [held EXCEPT ![r] = Nothing]
    /\ copies' = [copies EXCEPT ![on[r]] = IF acknowledged THEN @ - 1 ELSE @]

Return(r) ==
    /\ at[r] = "returned"
    /\ Leaves(r, TRUE)
    /\ done' = done \cup {on[r]}
    /\ UNCHANGED <<tables, execs, dead, removal, faults, mishaps>>

Fail(r) ==
    /\ at[r] = "threw"
    /\ Leaves(r, ~CanRetry(on[r]))
    /\ dead' = IF CanRetry(on[r]) THEN dead ELSE dead \cup {on[r]}
    /\ UNCHANGED <<tables, execs, done, removal, faults, mishaps>>

\* A worker dies; a copy is redelivered or stored twice.
RunDies(r) ==
    /\ on[r] # NoMessage
    /\ Fault
    /\ Leaves(r, FALSE)
    /\ UNCHANGED <<tables, execs, done, dead, removal, mishaps>>

Repeat(m) ==
    /\ copies[m] > 0
    /\ Fault
    /\ copies' = [copies EXCEPT ![m] = @ + 1]
    /\ UNCHANGED <<tables, execs, done, dead, removal, procs, mishaps>>

-----------------------------------------------------------------------------
(* evaluateAndEnforce, called by both.  The callers only log what throws. *)

Finished(p) == IF p \in Webhooks THEN "reused" ELSE "returned"

Throws(p) == Goes(p, Finished(p)) /\ Mishap

\* No provider instance, or isBypassed.
Exempt(m) == m \in Untraceable \/ SenderOf[m] \in Bypassed

Bypass(p) ==
    /\ at[p] = "bypass"
    /\ \/ /\ Goes(p, IF Exempt(Subject(p)) THEN Finished(p) ELSE "blacklist")
          /\ NoMishap
       \/ Throws(p)
    /\ UNCHANGED <<tables, jobs, removal, on, held, faults>>

\* The next step of a process that has a reason to remove the message.
ToRemove(p) ==
    IF SenderOf[Subject(p)] \in Phoneless THEN Finished(p) ELSE "setKey"

\* isBlacklisted; contentFilter.detect
Blacklist(p) ==
    LET m == Subject(p) IN
    /\ at[p] = "blacklist"
    /\ \/ /\ Goes(p, CASE SenderOf[m] \in policies -> ToRemove(p)
                       [] SenderOf[m] \notin policies /\ m \in Hits -> "addPolicy"
                       [] OTHER -> Finished(p))
          /\ NoMishap
       \/ Throws(p)
    /\ UNCHANGED <<tables, jobs, removal, on, held, faults>>

\* phonePoliciesService.add: a conflict and a failure change nothing here.
AddPolicy(p) ==
    /\ at[p] = "addPolicy"
    /\ Goes(p, ToRemove(p))
    /\ \/ policies' = policies \cup {SenderOf[Subject(p)]} /\ NoMishap
       \/ UNCHANGED policies /\ Mishap
    /\ UNCHANGED <<row, moderation, jobs, removal, on, held, faults>>

AlwaysAcquired(g) == TRUE                                           \* mutant

\* SET key NX answers OK.
Acquired(g) == g \notin key

SetKey(p) ==
    LET g == Member(Subject(p)) IN
    /\ at[p] = "setKey"
    /\ \/ /\ key' = key \cup {g}
          /\ Goes(p, IF Acquired(g) THEN "enqueueBoth" ELSE "enqueueDelete")
          /\ NoMishap
       \/ key' \in {key, key \cup {g}} /\ Throws(p)
    /\ UNCHANGED <<tables, jobs, expiries, deletes, kicks, deleted, removed, on, held,
                   faults>>

\* taskService.enqueue: insertMany throws, or a publish fails.
EnqueueRemoval(p) ==
    /\ at[p] \in {"enqueueBoth", "enqueueDelete"}
    /\ \E delete \in BOOLEAN, kick \in {FALSE, at[p] = "enqueueBoth"} :
         /\ deletes' = IF delete THEN [deletes EXCEPT ![Subject(p)] = @ + 1] ELSE deletes
         /\ kicks' = IF kick THEN [kicks EXCEPT ![Member(Subject(p))] = @ + 1] ELSE kicks
         /\ Goes(p, Finished(p))
         /\ IF delete /\ (kick \/ at[p] = "enqueueDelete") THEN NoMishap ELSE Mishap
    /\ UNCHANGED <<tables, jobs, key, expiries, deleted, removed, on, held, faults>>

KeyExpires(g) ==
    /\ g \in key
    /\ expiries[g] < MaxExpiries
    /\ key' = key \ {g}
    /\ expiries' = [expiries EXCEPT ![g] = @ + 1]
    /\ UNCHANGED <<tables, jobs, deletes, kicks, deleted, removed, procs, faults, mishaps>>

\* payload.phone of the delete_message job: the sender's
DeleteTarget(m) == SenderOf[m]

\* markRemoved(messageId, phone): the rows of this message in this group
Marked(m, phone) == {x \in Messages : x = m /\ GroupOf[x] = phone}

\* The delete_message job is executed: the provider is called, and markRemoved
\* may fail.
DeleteMessage(m) ==
    /\ deletes[m] > 0
    /\ m \notin deleted
    /\ deleted' = deleted \cup {m}
    /\ \/ removed' = removed \cup Marked(m, DeleteTarget(m)) /\ NoMishap
       \/ UNCHANGED removed /\ Mishap
    /\ UNCHANGED <<tables, jobs, key, expiries, deletes, kicks, procs, faults>>

-----------------------------------------------------------------------------

Enforce(p) ==
    \/ Bypass(p) \/ Blacklist(p) \/ AddPolicy(p) \/ SetKey(p) \/ EnqueueRemoval(p)

Ingest(w) ==
    \/ FindReusable(w) \/ CreateCached(w) \/ SetCached(w)
    \/ CreateFresh(w) \/ SetPending(w) \/ EnqueueAnalysis(w) \/ Enforce(w)

Moderate(r) ==
    \/ Load(r) \/ Classify(r) \/ MarkAnalyzed(r) \/ SetStatus(r) \/ Enforce(r)
    \/ Return(r) \/ Fail(r)

Next ==
    \/ \E w \in Webhooks : Upsert(w) \/ Ingest(w) \/ WebhookDies(w)
    \/ \E r \in Runs : Moderate(r) \/ RunDies(r) \/ \E m \in Messages : Start(r, m)
    \/ \E m \in Messages : Repeat(m) \/ DeleteMessage(m)
    \/ \E g \in Members : KeyExpires(g)

Spec == Init /\ [][Next]_vars

-----------------------------------------------------------------------------
(* Properties. *)

AtWork(m) ==
    \/ \E w \in Webhooks : EventOf[w] = m /\ at[w] \in Ingesting \cup Enforcing
    \/ copies[m] > 0

\* Its row says pending, and nobody will ever judge it; no DLQ shows it.
Forgotten(m) == row[m].status = "pending" /\ ~AtWork(m) /\ m \notin dead

\* An accepted message is forgotten only if something failed, and each failure
\* costs one message at most.  About the steps between the upsert, after which
\* every further delivery is a duplicate, and the end of the job.
ForgottenPaidFor == Cardinality({m \in Messages : Forgotten(m)}) <= mishaps + faults

\* A row that says analyzed points to a moderation with a verdict, whatever
\* fails and however often the job runs.  About the order of the statements on
\* the two tables on both paths.
AnalyzedMeansVerdict ==
    \A m \in Messages :
        row[m].status = "analyzed" => /\ row[m].linked
                                      /\ moderation[m].status = "analyzed"
                                      /\ moderation[m].verdict \in Verdicts

\* While the pipeline is sound, a reused verdict is the one that its source
\* still has: a moderation that was concluded is not judged again, even if the
\* statement that concluded it seemed to fail.  About the test of the status
\* at the start of the job.
CopiesAgree ==
    faults = 0 =>
        \A m \in Messages :
            moderation[m].source = "cached"
                => moderation[m].verdict = moderation[moderation[m].from].verdict

\* A member is removed once per period of the de-duplication key, however many
\* of his messages are judged at a time.  About SET NX in two processes.
KicksDeduplicated == \A g \in Members : kicks[g] <= 1 + expiries[g]

\* Nobody is removed who is bypassed or gave no reason to.  About the order of
\* the checks, and about the policies the content filter adds for others.
OnlyDueRemovals ==
    \A m \in Messages :
        deletes[m] > 0 => /\ SenderOf[m] \notin Bypassed
                          /\ \/ SenderOf[m] \in Blacklisted
                             \/ \E x \in Hits : SenderOf[x] = SenderOf[m]

\* Messages that have to go, of somebody who can be removed.
Removable ==
    {m \in Messages : /\ m \in Hits \/ SenderOf[m] \in Blacklisted
                      /\ m \notin Untraceable
                      /\ SenderOf[m] \notin Bypassed \cup Phoneless}

\* A message that has to go is analyzed and goes, whether its verdict is fresh
\* or reused; each failure saves one such message at most.  About the
\* enforcement at the end of both paths.
EscapesPaidFor ==
    Cardinality({m \in Removable : /\ row[m].status = "analyzed"
                                   /\ ~AtWork(m)
                                   /\ deletes[m] = 0}) <= mishaps + faults

(* What the repository's comments say and the code does not do. *)

\* moderate-group-message.ts: a moderation that is not pending was concluded by
\* another run, so there is nothing left to do.
ReturnedMeansConcluded == \A m \in done : row[m].status = "analyzed"

\* delete-message.ts: "payload.phone carries the groupId in a group", so that
\* markRemoved finds the row.
DeletedIsMarked == mishaps = 0 => deleted \subseteq removed

=============================================================================
