# Formal models of the WhatsApp worker

This directory holds TLA+ models of the worker in `src/`, the configurations that check them with TLC,
and theorems about them whose proofs TLAPS checks. It is written for a reader who has the repository.
File names below are relative to `src/src/` unless they start with `docs/`.

1. [The system](#1-the-system): inventory of the components
2. [The models](#2-the-models): what each module stands for
3. [The runs](#3-the-runs): what is checked, with which bounds, and what it shows
4. [Fairness](#4-fairness)
5. [The theorems](#5-the-theorems)
6. [Where code and documents disagree](#6-where-code-and-documents-disagree)
7. [What is not modelled](#7-what-is-not-modelled)
8. [The plan](#8-the-plan)
9. [Running it](#9-running-it)

## 1. The system

The program is an HTTP API and two kinds of workers. They share a Postgres database, a Redis instance and
an AMQP broker, and nothing else: every interaction between processes is a row, a key or a message. A job
is a row of `tasks` and a message on one of the main queues; the WhatsApp worker runs the jobs that call
the provider (Z-API), the moderation worker those that do not.

| Component | Its state | Its operations | Talks to | What is hard | What makes it correct |
|---|---|---|---|---|---|
| **Job pipeline** `workers/shared/handler-base.ts`, `services/task/`, `db/repositories/task-repository.ts` | `tasks` (status, attempt); per job type a main queue, a retry queue with a TTL that dead-letters back, a DLQ | enqueue (insert, publish, markQueued); claim, execute, markSucceeded, publish to retry or DLQ, markRetrying, markFailed, requeue, drop, ack | every producer; every action | redelivery after a crash or a closed channel, publishes whose outcome is unknown, a database that fails alone, two copies of one job at once | no job is lost in silence; the row tells the truth; repetitions are paid for by faults; a task that ended does not go back to work; accepted jobs end |
| **Provider gateway** `gateways/gateway.ts` | in Redis: a sorted set of availability scores, one owner key per provider; in memory: the rotation index, the permit, the heartbeat timer | execute = acquire (rotation), run, heartbeat, release; registration at start; ejection | the WhatsApp worker's actions; the instance service | leases that expire under a running action, stale tokens, crashes with a lease, two records of one lease | one action at a time per provider; a pause between actions; a lost lease is noticed; providers come back |
| **Outbound messages** `services/outbound-messages/`, `actions/whatsapp/send-message.ts`, `workers/whatsapp-zapi/handler.ts` | `outbound_messages` (status, task_id, idempotency_key) | send (find by key, create, enqueue, setTaskId); markSending, dispatch, markSent, markFailed; the hook before the DLQ | job pipeline, gateway | two requests with one key; writes of the API and the worker in any order; a message that is out while the database is down | one job per key; no message sent again for the sake of the database; sent is final; the row follows its task |
| **Ingestion and moderation** `services/group-messages/`, `gateways/whatsapp/zapi/message-normalizer.ts`, `lib/message-hash.ts`, `actions/whatsapp/moderate-group-message.ts` | `group_messages` (ingestion hash, moderation status, current moderation), `message_moderations` | normalise a payload; ingest it (upsert by hash, reuse or create a moderation, enqueue); run the model, store the verdict, enforce | job pipeline, participants, enforcement, the language model | copies of one message from redundant instances that describe it differently, equal texts at once, a crash between two of the writes, retries of half-done work | every accepted message ends with a verdict or a failure that is visible; the copies of a message are one row; what was said is read; a verdict belongs to its text |
| **Enforcement** `services/moderation-enforcement/`, `services/content-filter/` | a de-duplication key in Redis with a TTL; blacklist rows | bypass, blacklist, content filter with automatic blacklisting; enqueue removal and deletion | phone policies, job pipeline | a key that is set before the jobs exist | who is bypassed is never removed; who is to be removed gets a removal |
| **Group participants** `services/group-participants/` | `group_participants` (two identifiers, role, status, dates), `group_participant_events` | applyEvent, applySnapshot, recordSeenFromMessage | webhooks through the pipeline; ingestion; the sync script | find-then-insert and read-then-update without a transaction, beside a script with one; split identities; late events | a row is one person; a conflict is found again; an event is recorded once; a wrong status has a cause outside |
| **Monitored groups** `services/messaging-groups/`, `scripts/sync-group-participants.ts` | a set and negative entries in Redis, `messaging_groups` with `synced_at` | isMonitored, replaceSet, syncFromAdminApi; selection, batches and retries of the participants script | ingestion, admin API, provider | a cache filled from a read that is already old; two rebuilds at once; a rebuild that dies half-way | only a registered group is let in; no reader sees half a set; a run that ends has stored or reported what it selected, and what is old then has a reason |
| **Provider instances** `services/messaging-provider-instance/` | two tables, the pool's sorted set | create, patch, enable, disable, refresh (eject); the worker's load at start | gateway, Z-API | an HTTP call between read and write; two stores; workers that read the rows once, each at another time, and share the pools | the stored credentials were tried together; an ejection is for the credentials the row has, and keeps the instance out of every worker's rotation |
| **Phone policies, removal by phone** `services/phone-policies/`, `services/group-messages-removal/` | `phone_policies` with scope and expiry | add, remove, find the match; blacklist, then delete and remove everywhere | enforcement, job pipeline | messages that arrive while a removal runs; three queries that decide who is spared; partial fan-out | nothing slips between removal and enforcement; a protected sender is never touched |
| **AI classification** `ai/` | none | one or two model calls | moderation | the answer is outside | a doubted answer does not stand |
| **Z-API client, normalisers** `gateways/whatsapp/zapi/` | none | HTTP requests; parsing | actions, webhooks | outside | pure functions with unit tests |
| **HTTP API, scripts, plumbing** | none of their own | routes, command-line programs, connections | all of the above | | |

The lines where all this can go wrong are listed under `hazards` in `PROJECT.json`, with the property that
would catch each, or the reason why there is none.

## 2. The models

```
AtLeastOnce                 what the pipeline promises
     ^  refinement (phase)
TaskQueue  <---EXTENDS---  OutboundMessages          ProviderGateway      one pool, one start
     |                          |                         |
     \                          |                   ProviderGatewayProofs
      +---- JobPipelineProofs --+
                                                     ProviderInstances     what fills the pools

Moderation         awaits of ingestion, moderation job, enforcement  \
Ingestion          what those awaits compute: contents, hashes, tiers  |  on the pipeline as
BulkRemoval        policies, and removals by phone or by text          |  AtLeastOnce promises it
GroupParticipants  events, sightings, the script's transaction        /
MonitoredGroups    the cache, its rebuild, the script's batches
     ...Proofs  for all five, and for ProviderInstances
```

**`TaskQueue`** is the job pipeline. `task` is the table; `copy` is the broker: a set of slots, each free
or holding one copy of one message, with the place of the handler that works on it (a delivered message
stays with the broker until it is acknowledged). Handlers are named by what they do next, so each `await`
of `createJobHandler` is one action: `Claim` (`claimOrFallback`), `ExecuteOk`/`ExecuteFail`,
`PublishRetry`/`PublishDlq` (`publishOrRequeue`), `MarkSucceeded`, `MarkRetrying`, `MarkFailed`, `Requeue`,
`Ack`. The producer is `Enqueue`, `ApiPublish`, `ApiMarkQueued`. `Send` gives the four outcomes of a
publish (stored; stored twice, which `maxAttempts: 2` permits; lost; stored but not confirmed),
`BestEffort` the two of an UPDATE whose failure is only logged. Queues are sets: priorities, TTLs and
redeliveries reorder messages, and any worker may take any of them. `owned` is false when the channel of a
running handler has closed: the broker has redelivered, and the handler's own acknowledge will do nothing.
`execs`, `oks` and `faults` are history.

**`AtLeastOnce`** is the promise: a job is new, accepted, live, or settled (executed to the end, or in the
DLQ), and moves only forward. `TaskQueue` implements it under the mapping `phase`.

**`ProviderGateway`** is one pool. The three Lua scripts are the operators `Acquirable`/`Lease`,
`RenewScript` and `ReleaseScript`; `Call`, `TryPassthrough`, `TryLeased` and `PassOver` are the rotation of
`acquirePermit`, one entry per action; `Finish`, `Renew` and `Release` the rest of `execute`; `Bootstrap`,
`Crash` and `Eject` what happens around it. A worker
keeps the rotation that the database gave it when it started (`Rotations`). Time is kept as ticks *left* (`avail` is score minus now, `ttl`
is what PTTL answers, `hb` the ticks until the timer fires), so no bound on time is needed. A worker stands
for the token of its current permit, since it runs one job at a time (`AMQP_ZAPI_PREFETCH` is 1); a token
that nobody knows any more is `Orphan`.

**`OutboundMessages`** extends `TaskQueue` with the `outbound_messages` table (`msg`), the calls of `send`
(`caller`) and the progress of the action in each handler (`step`). Its actions *contain* those of
`TaskQueue`: `EnqueueJob` is `Enqueue` with what `send` does around it, `ClaimJob` is `Claim`, `Fail` is
`Throw` with the decision on the terminal hook, and so on; so every step is a step of the pipeline or leaves
it alone, which is theorem `RunsOnThePipeline`. A job is named after the call that would create it; a retry
of a request is another call with the same key. Statements that the code lets fail with a warning
(`warnOnFail`) are `Attempts`. `sends` and `unsure` record what the provider did and whether its answer got
lost.

**`Moderation`** follows a group message from the webhook to its removal. A *process* is a delivery of a
webhook or a run of the moderation job; `at` says which statement it executes next, so each `await` of
`ingestZapi`/`resolveModeration` (`Upsert`, `FindReusable`, `CreateCached`, `SetCached`, `CreateFresh`,
`SetPending`, `EnqueueAnalysis`), of `moderateGroupMessage` (`Load`, `Classify`, `MarkAnalyzed`, `SetStatus`)
and of `evaluateAndEnforce`, which both of them call (`Bypass`, `Blacklist`, `AddPolicy`, `SetKey`,
`EnqueueRemoval`), is one action. `Statement` is an UPDATE or INSERT that throws, applied or not. A
message has at most one moderation of the version in force, so moderations and jobs are named after
messages. The pipeline appears as what `AtLeastOnce` promises and not in its detail: a job that was handed
over has a number of unacknowledged `copies`, a run holds one of them until it returns or has used up the
retries, and every further copy (`Repeat`, `RunDies`) costs a fault. The age limit of `findReusable` is the
choice to find nothing.

**`Ingestion`** is the data that `Moderation` takes for granted. A payload has parts and signs; `Normalized`
is `extractZapiGroupMessage`, with `First` for the order in which it tries the parts, `TextOf`, `CaptionOf`
and `MediaOf` for what it takes of one, `Accepted` for the reasons to ignore a payload. `IngestionKey` and
`HashedContent` are the two hashes (a hash is the record that is hashed), `Judged` is what the models are
shown, `AskPrimary` and `AskEscalation` are `classifyTiered`. A webhook is one step here, which may stop
after its upsert (`ReceiveFails`). Texts are sets of words, so that one can contain another or be empty.

**`GroupParticipants`** is one group. `role` and `log` are the group itself, `job` and `tries` the jobs of its
webhooks, `rows` and `audit` the two tables. `op` is what a worker does, an event or a sighting, by its next
await: `findPhone`, `check`, `update`, `insert`, `refind`, `record`. `sync` and `draft` are the script and what
its transaction has written. A worker's statement waits for the transaction that has written its row
(`Locked`) or its key (`Claimed`), and the script reads its own writes (`View`). A patch is computed from the
row that was read (`fill`, `was`) and applied to the one that is there (`Patched`), as the code does it.
`newest`, `inverted` and `settled` are history.

**`MonitoredGroups`** has the table (`registered`, `fresh`), the cache (`set`, `miss`, `tmp`), the runs of
`GroupSyncService` with every Redis command of `replaceSet` a step, the webhooks that ask `isMonitored` with its
three fallbacks, and `runSyncGroupParticipants`: `Select`, `NextBatch`, `FetchFails` (`withRetry`), `Store`,
`EndRun`. The temporary key is named by the millisecond, so a second rebuild may choose the same. `Select` takes
all the groups that are old, or `Limit` of them (`--limit`, oldest first: which those are is arbitrary here), or the one
of `--group-external-id`; `target` is what it took, `left` the old groups it left. Groups get old at any time
(`GetsOld`), during a run too; `aged` are those that did so without the run having them still to store. `left` and `aged`
are history.

**`ProviderInstances`** has the rows, the pool of each Redis key, and the requests of the API between their
read and their write: the provider answers in between (`Answers`), and other requests run. Several workers
share the pools. Each reads the rows, disabled ones too, when it starts (`Loads`), registers them some awaits later
(`Registers`, the `ZADD NX`; `WorkerDies` may leave some of them registered) and goes on with those until it dies. A *pair* is an instance and a key: the member of
the sorted set, and the owner key, are named by both, so an instance whose key is patched has two. `Acquire`, `Renew`
and `Release` are the three Lua scripts as far as an ejection is concerned: only the first looks whether the pair is
in the pool. A lease may also end without the script. `accepted` and `refused`
record which credentials the provider was asked about; `mixed`, `out` (ejected since it was last registered) and `held`
(a worker had its lease then) are history.

**`BulkRemoval`** has the policies, the enforcement of each message (`at`), and the runs of
`GroupMessagesRemovalService`: preview, confirmation, then `CheckAllowlist`, `EnsureBlacklisted`, `Fetch`,
`RecordAll`, `Publish`, each of which may fail before or after its effect. `Similar` is what `ILIKE '%digits%'`
finds. The three places that decide who is spared are three operators (`FindMatch`, `Spares`, `SparesByPhone`).

The `MC...` modules give constants their values and symmetry sets; they define no behaviour. Definitions
marked `mutant` in the specifications are single plausible bugs of the definition below them. Nothing uses
them: they are there to show that each property notices when the code is wrong in that way.

## 3. The runs

Passing runs:

| Run | Instance | What it shows |
|---|---|---|
| `task_faults` | two jobs (one malformed, with `attempt` 0), three slots, one retry, any one fault of six kinds | `TypeOK`; `NoSilentLoss`: a task that says queued or running was executed to the end, is in the DLQ, or is held; `TerminalIsJustified`: failed, succeeded and dropped are true; `RepeatsPaidByFaults`: every extra effect and every execution past the budget is paid by a fault; `AcceptedTaskEnds`; `PromiseFairSpec`: the pipeline implements `AtLeastOnce` and its fairness |
| `gateway_faults` | a leased and a passthrough provider, the second unknown to a worker that starts early, two workers, lease of 3, heartbeat 1, pause 2; one Redis error, one stall, one crash, one ejection | `TypeOK`; `Exclusive`; `Paced`: the pause is kept over a crash too; `ProviderComesBack` |
| `outbound_faults` | two calls with one key, three slots, one retry, one mishap (a statement that throws, a caller that dies) and one fault of the pipeline | `OutboundTypeOK`; `OneJobPerKey`; `ResendsPaidFor`: no message is sent again because a statement on its row failed; `MirrorAgrees`: undisturbed, the row follows its task; `SentIsFinal` |
| `moderation_faults` | two messages with one text, of one sender, both caught by the filter; the first reported twice; two runs, one retry, two verdicts; one mishap, one fault of the pipeline, one expiry of the key | `ModerationTypeOK`; `ForgottenPaidFor`: a message stays pending without anybody at work on it only if something failed, one per failure; `CopiesAgree`: a reused verdict is the one its source still has; `KicksDeduplicated`; `EscapesPaidFor`: who has to go goes, on the fresh and on the reused path |
| `participants` | two people, two workers, four rows, two changes, one sighting, one retry, one fault; for one person also a run of the script with `--mark-missing-as-left` | `ParticipantsTypeOK`; `OneIdentity`: a row never mixes two people; `ConflictIsFound`: the two throws behind a conflict are not reached; `AuditIsTrue`; `StrayIsPaid`: at rest, a status that disagrees with the group is owed to a lost or late report or to a split identity; `SyncSettles`: an undisturbed snapshot leaves the table as the group is, whatever it was before |
| `groups` | two rebuilds, one webhook at a time, one fault, two groups; apart from them two runs of the script over three groups, with a limit of two, batches of two, two attempts and one failed group tolerated | `GroupsTypeOK`; `InIsRegistered`: a group is let in, and cached, only if the table has it; `RenameIsWhole`: the set is replaced by a whole list; `AllAreServed`: a run that ends has stored or reported what it selected, and an old group was left out, failed or aged |
| `instances` | one instance at the provider, which two clients may register at once, two requests at a time, four in all, two workers with three starts, one fault | `InstancesTypeOK`; `CredentialsWereTried`: token and client token were accepted as a pair; `EjectionIsDue`: unreachable is about the credentials that are stored; `EjectionHolds`: an ejection that meets no lease holds for all workers until one of them registers the instance |
| `bulk` | three messages, two phones of which one contains the digits of the other, one LID; one removal by phone, one by text, one edit of the policies, one mishap | `BulkTypeOK`; `NoneSlipsThrough`: no message falls between removal and enforcement; `ProtectedStay`: a standing allowlist policy protects from all three |
| `ingestion` | four posts (an image with either of two captions, a list answer that says one of them, a gif), two senders, three reports, window 2, one failure | `CopiesCollapse`; `NothingPassesUnread`; `VerdictFitsText` |

Runs that find a violation are in section 6.

*Why these bounds.* The pipeline treats each job apart: no statement or message touches two. So the second job
in `task_faults` is there for the malformed body and the other way of submitting an attempt. Three slots
hold the copies one fault can make of a job beside the other's message, and one retry shows both sides of the
budget test. In the gateway, two workers and two providers are the smallest pool where the rotation wraps, a
worker skips a provider that is taken or waits for the only one it has, and a stale token meets a new owner; a lease of 3 with a heartbeat of 1
has room for a renewal in time, one late, and an expiry. `OutboundMessages` needs two calls for a race on a key.
In `Moderation` two messages with one text are the smallest instance where a verdict is reused while its
source is being judged; a third delivery makes one of them a duplicate, and two runs make two copies of one
job, or the jobs of two messages, meet in the enforcement. Senders without a phone and messages of unknown
instances end the enforcement early and are left to the theorems.

Two workers and an event beside a sighting are the smallest race of `GroupParticipants`; four rows hold two
people split in two, so that an INSERT never waits for a free one; reports by phone or by both identifiers and
sightings by LID or by both are what splits and joins them. `SyncSettles` speaks of each person apart, so the script
meets one person and one busy worker only (`ScriptMeetsOne`, a CONSTRAINT of the run), whose events come around it. Three groups are more than the limit of two and more
than a batch of two, and let one be stored, one fail and one be left or age; the second run starts from what the first has left. Two rebuilds can share a millisecond, and a third adds nothing that the two
cannot do to the set. Script and cache share only the table, and the script does not look at what the cache holds nor the cache at what the script
changes, so one is explored while the other is not used (`Apart`, a CONSTRAINT). Two overlapping patches and the refresh that either overtakes are all of
`ProviderInstances`' races; a third and fourth request follow them. Two workers are the smallest number where one
starts, or is starting, while another has leases; with the third start one of them comes back after the ejection. In
`bulk` each message has a part: one that both removals want, one of the phone that merely contains the digits, one
that the content filter catches. In
`ingestion` three reports are two copies and a stranger, or two texts and a third that equals one of them.
The theorems of section 5 have none of these bounds.

Constants that are bounds and not of the program: `Slots`, `RowIds`, `Runs` and `Requests` (how much exists at a time);
`MaxFaults`, `FaultKinds`, `MaxMishaps`, `MaxFailures` and `MaxExpiries` (what goes wrong); `MaxChanges`, `MaxSightings`,
`MaxSyncs`, `MaxRuns`, `MaxRequests`, `MaxBoots`, `MaxEdits`, `MaxReports` and `MaxTime` (what happens at all). A publish needs a
free slot, and `Disconnect` one for the redelivery; a publish that finds none waits, as an INSERT does that finds no row.
`CHECK_DEADLOCK FALSE` is set where the system may stop: every job done and the queues empty, every report and
request spent. The runs `gateway_faults` and `groups` check for deadlock.

## 4. Fairness

* *Pipeline*: weak fairness of the broker (it delivers what is ready and lets TTLs run out), of each
  handler (every await is bounded by a timeout of its client, `ZAPI_REQUEST_TIMEOUT_MS` or the broker's), and of the
  enqueue a producer has begun. No client has to submit a job, and no fault has to happen or to stay away:
  the properties say themselves what they claim when one does.
* *Gateway*: time passes, timers fire, an action that runs ends (requests have a timeout), and a release
  follows. No worker has to call, or to come up after a crash.
The other modules state safety only. What must eventually happen to their jobs is what `PromiseFairSpec` shows
of the pipeline under them, and what may end without an end is charged to failures (`ForgottenPaidFor`,
`EscapesPaidFor`, `StrayIsPaid`), which says more than that it ends when nothing fails.

Weak fairness is enough in both: a step that is due stays enabled until it is taken, or until a fault removes it.

## 5. The theorems

All for arbitrary constants (any number of jobs, slots, workers, providers, people, groups, messages and faults,
any retry budget, any lease and heartbeat the constructor accepts). The assumptions are the named ones of the
modules; the only ones with content are `Heartbeat < Ttl` and `DelayMin <= DelayMax`, which the
gateway's constructor checks, that `Slots`, messages, processes and groups are finite, that a phone contains its own
digits, that `send` builds well-formed jobs without an attempt, and that there is a token, a client token and a
pool's key to register an instance with (`ProviderInstances` needs some value for the fields of an idle request;
without one no request could be made).

| Module | Theorem | States |
|---|---|---|
| `JobPipelineProofs`, first part | `TypeCorrect` | `Spec => []TypeOK` |
| | `NothingIsLost` | `Spec => []NoSilentLoss` |
| | `EndsAreJustified` | `Spec => []TerminalIsJustified` |
| | `EndsAreEnds` | `Spec => TerminalStaysTerminal` |
| | `RepeatsArePaid` | `Spec => []RepeatsPaidByFaults` |
| | `ThePromiseIsKept` | `Spec => Promise!Spec` |
| `ProviderGatewayProofs` | `GatewayTypeCorrect` | `Spec => []TypeOK` |
| | `OneActionAtATime` | `Spec => []Exclusive` |
| | `LeaseIsKept` | `Spec => []HeartbeatMeansLease` |
| | `NeverOffered` | `Spec => []CoveredIsNotOffered` |
| | `ActionsArePaced` | `Spec => Paced` |
| `JobPipelineProofs`, second part | `RunsOnThePipeline` | `OutboundSpec => Spec` |
| | `NoMessageIsLost` | `OutboundSpec => []NoSilentLoss`, from `RunsOnThePipeline` and `NothingIsLost` |
| | `OutboundTypeCorrect` | `OutboundSpec => []OutboundTypeOK` |
| | `KeysAreUsedOnce` | `OutboundSpec => []OneJobPerKey` |
| | `SentForEver` | `OutboundSpec => SentIsFinal` |
| | `ResendsArePaid` | `OutboundSpec => []ResendsPaidFor` |
| | `TheMirrorAgrees` | `OutboundSpec => []MirrorAgrees` |
| `ModerationProofs` | `ModerationTypeCorrect` | `Spec => []ModerationTypeOK` |
| | `ModerationVerdicts` | `Spec => []AnalyzedMeansVerdict` |
| | `ModerationRemovesTheDue` | `Spec => []OnlyDueRemovals` |
| | `ModerationRemovesOnce` | `Spec => []KicksDeduplicated` |
| | `ModerationEscapesArePaid` | `Spec => []EscapesPaidFor` |
| | `ModerationForgetsForFailures` | `Spec => []ForgottenPaidFor` |
| | `ModerationCopiesAgree` | `Spec => []CopiesAgree` |
| `GroupParticipantsProofs` | `ParticipantsTypeCorrect` | `Spec => []ParticipantsTypeOK` |
| | `RowsAreOnePersons` | `Spec => []OneIdentity` |
| | `ConflictsAreFound` | `Spec => []ConflictIsFound` |
| | `AuditIsOfTarget` | `Spec => []AuditIsTrue` |
| | `SnapshotsSettle` | `Spec => []SyncSettles` |
| | `StrayStatusIsPaid` | `Spec => []StrayIsPaid` |
| `MonitoredGroupsProofs` | `GroupsTypeCorrect` | `Spec => []GroupsTypeOK` |
| | `OnlyRegisteredAreIn` | `Spec => InIsRegistered` |
| | `RenamesAreWhole` | `Spec => RenameIsWhole` |
| | `RunServesAll` | `Spec => []AllAreServed` |
| `ProviderInstancesProofs` | `InstancesTypeCorrect` | `Spec => []InstancesTypeOK` |
| | `StoredCredentialsWork` | `Spec => []CredentialsWereTried` |
| | `UnreachableIsDue` | `Spec => []EjectionIsDue` |
| | `EjectionsHold` | `Spec => []EjectionHolds` |
| `BulkRemovalProofs` | `BulkTypeCorrect` | `Spec => []BulkTypeOK` |
| | `RemovalMissesNone` | `Spec => []NoneSlipsThrough` |
| | `ProtectedForEver` | `Spec => []ProtectedStay` |
| `IngestionProofs` | `CopiesAreOneRow` | `Spec => []CopiesCollapse` |
| | `EverythingIsRead` | `Spec => []NothingPassesUnread` |
| | `VerdictsFit` | `Spec => []VerdictFitsText` |

*Pipeline.* `NoSilentLoss` is not inductive: it speaks of tasks that say queued or running, and a job that
is pending may already be in the queue. `SafetyInv` says it of every job that was *handed over*
(`HandedOverIsSecure`: some copy exists, or the producer is about to mark it queued, or the row has left
pending), together with `RowExists` (a copy has a row, so markRetrying does not conjure one up) and
`MarksAreJustified` (a handler that is about to write succeeded or failed has just seen the return or the
publish). The core of the argument is `SecureKept`: a copy is given up only by a handler that has executed
the job, stored it in the DLQ, stored it in the retry queue, or given it back.

`RepeatsPaidByFaults` bounds two counters, and nothing in the state bounds them. What every step keeps is a sum
(`RepeatsInv`): the effects a job has had, one if its producer may still publish it, and its copies that may
still take effect; for the executions also what the attempt in the row leaves of the budget (`Left`). A step without a
fault moves parts of the sum (a publish turns the producer's part into a copy, a claim one of the budget into an
execution), and each of the six faults adds one at most. `ThePromiseIsKept` maps each step to a step of `AtLeastOnce`
or a stutter: a step is about one job, so the others keep their phase, and a job that is accepted and not handed over has no
copy, because a copy would make it secure. The fairness of the promise stays with TLC (`PromiseFairSpec`).

The first part of `JobPipelineProofs` is about `TaskQueue` alone and cites nothing that `OutboundMessages` assumes; the module
extends the latter so that the second part can stand on the first.

*Gateway.* The invariant ties the two records of a lease and the timer of its owner: a worker with a
heartbeat that is not overdue owns the key, with at least as many ticks left as its timer needs and
a score that lies as far ahead; a running action without a live heartbeat is paid for by a lapse;
and what is left of a score is never less than what is missing from the pause.

*Outbound.* The pipeline's invariant is inherited through `RunsOnThePipeline`. On top, `OutboundInv` says
that a handler busy with a message holds a copy of a job that exists, that a job exists only after its row
(`RowComesFirst`), and that no two rows have one key (`OneRowPerKey`), which the unique index of the
INSERT maintains and the look-up before it does not. `ResendsPaidFor` takes the sum of the pipeline over
(`Resends`): an answer of the provider counts when it comes, a few awaits before the pipeline's effect, so handlers
that have one and have not returned (`Answered`) are subtracted. `MirrorAgrees` follows from it: while
nothing is disturbed the sum is one, so a job that fails has had no answer and has no second handler that could get one
(`FailedIsOver`), and the row its hook marks failed is not overwritten. `CalmInv` says besides what each handler that is
through has written (`SuccessChain`, `FailureChain`), and that somebody is at work on a job that has not ended (`WorkGoesOn`).

*Moderation.* The type of `copies` already needs an argument: a run that returns takes a copy away, so every run
must hold one (`RunsHoldCopies`, by counting runs). `AnalyzedMeansVerdict` rests on `IngestedOnce` (only the
delivery that inserted the row decides how the message is moderated, and while it decides there is no job
yet, so its INSERT cannot overwrite what a run has concluded), on `JobsAreLinked` (the row is linked before the
job is enqueued), and on `VerdictInv` (what the processes have read or been given). `KicksDeduplicated`
counts, besides the jobs, the processes that have acquired the key and have not enqueued yet.

`EscapesPaidFor` and `ForgottenPaidFor` charge messages to failures. Neither set is the one to count: a message is lost
some steps before nobody is at work on it. `Escaped` are the messages that have to go, are analyzed, and have no process
left that enforces; `Neglected` those whose row is pending while no webhook ingests them, and no copy of a job is left or
their moderation is concluded and no run is about to set the row (every later run skips). Each grows by one
message at most in a step, and only in one that counts a mishap or a fault; `OneForOne` is the arithmetic. That a
step without a failure neglects nobody needs `ForgetInv`: who is ingested has no job yet, what is handed over is pending, and a run
that returns leaves no pending row with a pending moderation. `CopiesAgree` needs that a source is never judged again
(`CopyInv`): while the pipeline is sound there is one copy of a job at most, so a run that is classifying finds the
moderation as it was loaded, pending, whereas a source is analyzed; and nobody overwrites a source by an INSERT, since a delivery that
decides has no moderation yet.

*Participants.* What a worker is about to do rests on what it read some awaits before, and the table has
changed since. `Fits` and `SyncFits` say what is still true of that read: the row is the target's, and an
identifier it is about to fill is the target's or missing. They survive every step of the others, since an
identifier that is set never changes (`Extends`), and that in turn rests on every row being one person's
(`Pure`). So the three go together, over the committed table and over the view of the transaction.
The type of `tries` needs an argument of its own: a job fails at most once more than its retries, since a running job
has exactly one worker (`Holding`, `Budget`).
`SyncSettles` says nothing until the commit, so `Settling` follows the script to it: each member is still awaited
(an entry to do, or the one in hand) or has exactly one row among those the script has seen, active and with the
member's role; what was read of the table still stands, since nobody else acts while the snapshot is undisturbed; and
once the missing rows are listed, an active row is seen or listed.
`StrayIsPaid` speaks of a moment of rest, and nothing is at rest while its invariant is needed. `RowsTrue` says it of
each person at any time, if the person's status was last written from the latest change of it and never out of order: then the
only row says what the group says. A sighting that inserts an active row needs that whoever has had a status written has a row
(`NewestKnown`) and whoever acts has been in the group (`Stranger`); the commit needs that of a person whose status has not changed
since the fetch, the transaction writes what it is, and marks a member's row only if there is another (`SnapTrue`).
At rest every report that was not lost has been written (`DoneNoted`), which closes the argument. The run checks it
with one person and the script, or with two and without it; the theorem has both. A participant who joins between the fetch and the commit
is marked as left: that is a status written out of order, which the property exempts, and all the harm a snapshot does.

*Monitored groups.* `InIsRegistered` is about copies of the table: the list of each rebuild, its temporary set,
the answer a webhook is about to return, all subsets of what the table had and, since rows are not deleted here,
has. `RenameIsWhole` adds that without a fault each rebuild has its own name, and that the temporary set and
the rest of the list make up the list. `AllAreServed` counts nothing: `Accounted` says that what the run has selected is to do, in
the batch, stored or failed, and that an old group is one of these but stored, or was left, or has aged; a group that
ages before it is stored is still to do, and one that is stored in time leaves `aged`.

*Instances.* One invariant for all (`RegistryInv`). `RequestOK` says what a request still knows of the row it read:
what it stores or marks was accepted or refused as it stands, and unless another request has overtaken it (`stale`), it is
the patch over the credentials of the row, or those credentials themselves. `EjectedStaysOut` carries
`EjectionHolds` over acquire, renewal and release: an instance whose ejection met no lease is not in the pool, and no
worker has a lease of it whose renewal or release would put it back, so none can get one.

*Bulk removal.* `NoneSlipsThrough` is the order of two pairs of statements: the removal blacklists before it
fetches, and a message is stored before it is judged. The invariant says of each run past `EnsureBlacklisted` that
the policy stands, and past `Fetch` that a message not found was stored, and so judged, later. `ProtectedStay`
follows each message through the enforcement and both removals, with what was read about it.

*Ingestion.* `CopiesCollapse` holds since the fields of a row that are not hashed follow from those that are
and from the post; `NothingPassesUnread` needs, for every kind of part, that what is said in it reaches the text the
models read; `VerdictFitsText` that the hash that finds a verdict and the text that was judged have the same source.

*Only model-checked*: liveness (`AcceptedTaskEnds`, `PromiseFairSpec`, `ProviderComesBack`), since fairness and ENABLED are
beyond the prover. Every invariant and every action property that a run checks is a theorem. Three theorems of the gateway and of the pipeline (`LeaseIsKept`,
`NeverOffered`, `EndsAreEnds`) and two of moderation (`ModerationVerdicts`, `ModerationRemovesTheDue`) are about properties that no run lists: they are
lemmas of theirs, or of interest by themselves. No module here uses a RECURSIVE operator, and nothing
needs induction over data.

## 6. Where code and documents disagree

Each of these is a run that TLC ends with a counterexample, and an entry under `findings`.

| Run | Said | Done |
|---|---|---|
| `moderation_skip` | `moderate-group-message.ts`: a moderation that is not pending was concluded by another run | the other run may have failed after markAnalyzed; the retry skips, the job succeeds, the row stays pending and the enforcement never runs |
| `moderation_target` | `delete-message.ts`: `payload.phone` is the group | the enforcement sends the sender's phone, and no row is ever marked as removed |
| `instances_ejected` | `docs/provider-gateway.md:102`: an ejected instance is skipped until the next restart | the renewal, or the release, of an action that is running on it puts it back, and it is offered again |

The first needs a statement that throws; the others need nothing.

What follows are divergences that the actions named show when they are read beside the document; they have no run.

*Pipeline and messages.*
`config/env.ts` says retries + 1 executions at most, and `docs/architecture.md` that a task that has ended is
not executed again, but an execution whose claim threw (`Claim`) does neither count nor look;
`docs/outbound-messages.md` says that queued means that the task entered AMQP, but a publish that threw is swallowed
(`EnqueueJob`); and `outbound-messages-repository.ts` says that the first to mark a message terminal wins, but
markSent (`MarkedSent`) replaces failed. `docs/architecture.md:143` has succeeded and failed as terminal;
but markSucceeded, markFailed and markDropped overwrite each other when two copies of a job live. An error of the provider whose body is not JSON is read twice
(`client.ts:339`), the second read throws, and so a refusal that `send-message.ts` would send to the DLQ is
retried like a network error; a 200 without an id is retried though the message may be out.

*Ingestion.* `docs/moderation-ingestion.md` promises to collapse the copies of redundant instances, but the key has
senderPhone or, if that is missing, senderExternalId: instances that name a sender differently make two rows. A payload
without `momment` is timed by its arrival. Two equal messages of one sender within a window are one row, and the
second can never be deleted. The document's content formula lacks the caption that the code hashes.

*Participants.* A role survives leaving and joining again; a request for approval (`MEMBERSHIP_APPROVAL_REQUEST`) counts as
joining; without `--mark-missing-as-left` a duplicate row stays active for ever; the branch of the snapshot that looks for another row with its
identifier is unreachable, since the snapshot looks up by the only identifier it brings.

*Groups.* `docs/messaging-groups-sync.md` says that a failed or empty answer leaves Redis untouched (the cache is rebuilt from the
table), and that a synchronisation goes on when Redis is down (it throws). `synced_at` is written by the synchronisation
of groups too, so a group whose data changed is not selected for its participants. A negative entry may turn a group away
for up to a minute after it was registered.

*Instances.* `docs/provider-gateway.md` has disabled instances skipped at the next start; the worker loads and registers disabled rows too.
So the start of any worker brings an ejected instance back for all of them. A passthrough instance cannot be ejected. When the pool's key is patched, an ejection goes to the new key, and the workers
that have the old one go on until they restart; and the owner key is named by it (`docs/provider-gateway.md:18` promises exclusion per
instance), so a worker that started before the patch and one that started after it may both lease the instance. Two overlapping patches, one of each credential, store a pair that was never tried, and a refresh that
a patch overtakes ejects an instance whose new credentials work: the exceptions of `CredentialsWereTried` and
`EjectionIsDue`.

*Policies and removal.* A blacklist row that has expired is ignored by the look-up and still violates the unique index, so
`ensureBlacklisted` is content with it. A preview that finds nothing ends without blacklisting the phone. `ILIKE '%digits%'`
finds the messages of other phones. `scripts/README.md:109` has the spam watcher run remove-spam by itself, which asks
for a confirmation on a standard input that the watcher does not give it.

## 7. What is not modelled

* Contents: payloads, texts, error messages, delays in milliseconds, job priorities, metrics and logs.
  Nothing the properties speak of depends on them. The provider's HTTP exchange is its outcomes.
* In the pipeline: two jobs sharing an id with different bodies; `tasks.payload`; the
  in-memory `JobGateway` of the tests. In the gateway: the deadline of `acquirePermit` (a pass in vain may
  end the call at any time), several pools (they share no key), a failing registration at start (the
  worker does not come up).
* In outbound messages: the look-ups of target and instance are one outcome (they change nothing). Whether
  a unique violation is recognised depends on how the driver wraps the error, so both answers are possible.
* In moderation: `markFailed`, which only a `NonRetryableError` reaches, and nothing under `ai/` throws one (the
  normaliser ignores messages without a text, the other way there); so a moderation whose retries are used up
  stays pending with its job in the DLQ, in the model as in the code. Bypass policies and the initial blacklist do
  not change while the model runs, except by the content filter. `blacklistEnforcementEnabled` is on. Executions
  of `remove_participant` keep no state here, and those of `delete_message` are taken once per message.
* In participants: dates, names and photos, which decide nothing; `findAllByIdentifier`, which nothing calls. A lock is what `Locked` and
  `Claimed` say: statements of workers commit one by one, and only the script holds a transaction, so there is no deadlock among them to model.
* In the groups: one protocol; `listMissingForInstance` and `join-pending-groups`, whose effect is at the provider and whose next
  run starts from the table alone; what the admin API answers is free, and a group is never deleted.
* In the instances: the histories of connections and devices (append-only, read by no operation), the display name, the
  check of an external id against the provider's own. Passthrough instances have no score and no lease, so nothing ejects or
  excludes them; what the workers do with one pool, with scores, times and tokens, is in `ProviderGateway`. A lease here ends
  with its worker, where in the code its key expires a while later: earlier is one of the times it may be taken.
* In bulk removal: the number of messages a limit leaves, the text of the confirmation, what the enforcement does in Redis (in
  `Moderation`). In ingestion: the shapes of the payloads beyond which part says what; the separator that the
  hashed fields are joined with (a hash is the fields); the age limit and the version of `findReusable`, and that it
  takes the latest: `Reusable` offers every fresh verdict of the content, which is more than the code reuses, and no property
  depends on the difference.
* The prompt and the HTTP call of the AI classification (its answer is free), the requests of the Z-API client (their outcomes are
  in `OutboundMessages`), routes that validate a body and call one service, the report of groups (it reads), `spam-watcher` and `bulk-moderation`
  (a loop around a script; CSV files), and plumbing: configuration, connections, logs, metrics, health checks.

## 8. The plan

Done, in this order:

1. `TaskQueue`, `AtLeastOnce`: everything else runs on it.
2. `ProviderGateway`: the only place where processes exclude each other.
3. `OutboundMessages`: the first component on top of the pipeline, and the pattern for the next.
4. `Moderation`: ingestion, the moderation job with its retries and the enforcement, over the pipeline's promise
   rather than its detail.
5. `GroupParticipants`, `MonitoredGroups`, `ProviderInstances`, `BulkRemoval`: the services on shared rows.
6. `Ingestion`: the data under 4.

Left, and worth it in this order:

1. Composition of gateway and pipeline: an action whose release fails is retried (`gateways/gateway.ts:336`); waiting for
   a provider uses up the retries.

## 9. Running it

```
tlc -workers 2 -config TaskQueue_faults.cfg MCTaskQueue.tla
tlapm JobPipelineProofs.tla
```

`PROJECT.json` lists every run with its module and configuration, the property each mutant breaks, the source
lines behind each definition (`map`), the hazards and the theorems.
