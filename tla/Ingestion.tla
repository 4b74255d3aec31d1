------------------------------ MODULE Ingestion ------------------------------
(***************************************************************************)
(* What becomes of a message that somebody posts in a monitored group:     *)
(* webhooks of redundant provider instances report it (webhooksZapiModule),*)
(* the normaliser extracts what can be read of it                          *)
(* (extractZapiGroupMessage), two hashes decide whether it is a copy and   *)
(* whether its text was judged before (GroupMessagesService), and else the *)
(* language models judge it (classifyTiered).                              *)
(*                                                                         *)
(* One group.  A text is a set of words.  The interleaving of the awaits   *)
(* inside ingestZapi and inside the job is the subject of Moderation: here *)
(* a webhook is one step, which may stop after the upsert.                 *)
(***************************************************************************)
EXTENDS Integers, FiniteSets

CONSTANTS
    Posts,          \* messages that were posted
    Senders,        \* each has a phone and a LID
    Words,
    None, Empty, Blank,     \* a missing text, "", and white space
    Urls,           \* of media
    SenderOf, SentAt, Shown,    \* of each post; the last one is its payload
    Window,         \* env INGESTION_DEDUPE_WINDOW_MS
    Analyses,       \* what a model may answer
    Doubtful,       \* those below the threshold, in a category to escalate
    MaxTime,        \* bound: the clock
    MaxReports,     \* bound: webhooks
    MaxFailures     \* bound: webhooks and calls of a model that fail

Texts == (SUBSET Words) \ {{}}
Silences == {None, Empty, Blank}
Raw == Silences \cup Texts

Parts == {"text", "image", "video", "document", "location", "contact", "poll",
          "list", "buttons", "template", "product", "event"}

\* Why a payload is discarded unread.
Signs == {"newsletter", "broadcast", "not-group", "from-me", "notification",
          "status-reply", "waiting-message", "audio", "sticker", "reaction", "gif",
          "missing-identifiers"}

\* The fields of a part, by their use: what it says, and what else may be said.
Field == [main : Raw, other : Raw, spare : Raw, media : {None} \cup Urls]

Payload == [signs : SUBSET Signs, has : SUBSET Parts, part : [Parts -> Field]]

ASSUME IngestionAssumption ==
    /\ \A t \in Texts : t \notin Silences \cup Urls
    /\ None \notin Urls
    /\ None # Empty /\ None # Blank /\ Empty # Blank
    /\ SenderOf \in [Posts -> Senders]
    /\ MaxTime \in Nat /\ SentAt \in [Posts -> 0..MaxTime]
    /\ Shown \in [Posts -> Payload]
    /\ Window \in Nat \ {0}
    /\ Doubtful \subseteq Analyses
    /\ {MaxReports, MaxFailures} \subseteq Nat

VARIABLES
    now,
    rows,       \* group_messages
    queued,     \* those whose job is to be run
    asked,      \* jobs that have the primary model's answer, and doubt it
    verdicts,   \* message_moderations of status analyzed
    given,      \* history: what the models have answered
    acknowledged,   \* history: posts of which a report with its sender was answered 202
    unstamped,      \* history: posts of which a report carried no time
    reports, failures

tables == <<rows, queued, asked, verdicts>>
history == <<given, acknowledged, unstamped>>
vars == <<now, tables, history, reports, failures>>

-----------------------------------------------------------------------------
(* extractZapiGroupMessage. *)

Names == {"phone", "lid"} \X Senders

\* White space is trimmed away, and what is empty then counts as missing.
Trimmed(raw) == IF raw \in Silences THEN None ELSE raw

\* a ?? b
Or(a, b) == IF a # None THEN a ELSE b

\* name and address, those that are left.
Joined(a, b) ==
    IF a = None THEN b ELSE IF b = None THEN a ELSE a \cup b

Order == [text |-> 1, image |-> 2, video |-> 3, document |-> 4, location |-> 5,
          contact |-> 6, poll |-> 7, list |-> 8, buttons |-> 9, template |-> 10,
          product |-> 11, event |-> 12]

\* A part decides if it is there; a text only if it has a length.
Present(p) ==
    {k \in p.has : k = "text" => p.part[k].main \notin {None, Empty}}

First(p) == CHOOSE k \in Present(p) : \A l \in Present(p) : Order[k] <= Order[l]

PlainTextOf(k, f) == IF k = "text" THEN Trimmed(f.main) ELSE None      \* mutant

TextOf(k, f) ==
    IF k \in {"text", "poll", "list", "buttons", "template"} THEN Trimmed(f.main) ELSE None

CaptionOf(k, f) ==
    CASE k \in {"image", "video", "contact"} -> Trimmed(f.main)
      [] k = "document" -> Trimmed(Or(f.main, f.other))
      [] k = "location" -> Joined(Trimmed(f.main), Trimmed(f.other))
      [] k = "list" -> Trimmed(f.other)
      [] k = "template" -> Trimmed(Or(f.other, f.spare))
      [] OTHER -> None

MediaOf(k, f) == IF k \in {"image", "video", "document"} THEN f.media ELSE None

\* toDateMillis: without a time, a message was sent when it arrived.
SendTime(m, stamped) == IF stamped THEN SentAt[m] ELSE now

\* The message as ingestZapi sees it: senderPhone ?? senderExternalId names its
\* sender.  Each report has an id of its own.
Normalized(m, ids, stamped) ==
    LET p == Shown[m] k == First(p) f == p.part[k] IN
    [post |-> m, id |-> Cardinality(rows),
     sender |-> <<IF "phone" \in ids THEN "phone" ELSE "lid", SenderOf[m]>>,
     bucket |-> SendTime(m, stamped) \div Window,
     text |-> TextOf(k, f), caption |-> CaptionOf(k, f), media |-> MediaOf(k, f)]

RowRecord ==
    [post : Posts, id : 0..MaxReports, sender : Names, bucket : Nat, text : {None} \cup Texts,
     caption : {None} \cup Texts, media : {None} \cup Urls]

\* What is left after the signs, the identifiers, the content and the text.
Accepted(m, ids, stamped) ==
    /\ Shown[m].signs = {} /\ ids # {}
    /\ Present(Shown[m]) # {}
    /\ LET n == Normalized(m, ids, stamped) IN n.text # None \/ n.caption # None

-----------------------------------------------------------------------------
(* GroupMessagesService.ingestZapi. *)

\* What the models read, and what the filter and the hashes call content.
Judged(r) == Or(r.text, r.caption)

DocumentedContent(r) == Or(r.text, r.media)                           \* mutant

HashedContent(r) == Or(Judged(r), r.media)

NewEachTime(r) == <<r.sender, HashedContent(r), r.bucket, r.id>>        \* mutant

\* computeIngestionDedupeHash; the protocol and the group are the same for all.
IngestionKey(r) == <<r.sender, HashedContent(r), r.bucket>>

Analyzed(r, v) == [row |-> r, analysis |-> v.analysis, by |-> v.by, fresh |-> FALSE]

\* findReusable, by content hash, among the verdicts that were not copied.  Its version
\* and its age limit are left out: any of them may be taken here.
Reusable(r) ==
    {v \in verdicts : v.fresh /\ HashedContent(v.row) = HashedContent(r)}

Copied(r) == \E s \in rows : IngestionKey(s) = IngestionKey(r)

Acknowledges(m, ids) ==
    acknowledged' = IF ids = {} THEN acknowledged ELSE acknowledged \cup {m}

\* A report that ends in an answer 202: ignored, duplicate, reused or queued.
Ingest(m, ids, stamped) ==
    LET r == Normalized(m, ids, stamped) IN
    IF ~Accepted(m, ids, stamped) \/ Copied(r)
    THEN UNCHANGED <<rows, queued, verdicts>>
    ELSE /\ rows' = rows \cup {r}
         /\ IF Reusable(r) = {}
            THEN queued' = queued \cup {r} /\ UNCHANGED verdicts
            ELSE /\ \E v \in Reusable(r) : verdicts' = verdicts \cup {Analyzed(r, v)}
                 /\ UNCHANGED queued

Reports(m, stamped) ==
    /\ SentAt[m] <= now
    /\ reports < MaxReports /\ reports' = reports + 1
    /\ unstamped' = IF stamped THEN unstamped ELSE unstamped \cup {m}

Receive(m, ids, stamped) ==
    /\ Reports(m, stamped)
    /\ Ingest(m, ids, stamped)
    /\ Acknowledges(m, ids)
    /\ UNCHANGED <<now, asked, given, failures>>

Failure == failures < MaxFailures /\ failures' = failures + 1

\* The webhook throws, before the upsert or after it.
ReceiveFails(m, ids, stamped) ==
    LET r == Normalized(m, ids, stamped) IN
    /\ Reports(m, stamped) /\ Failure
    /\ Accepted(m, ids, stamped) /\ ~Copied(r)
    /\ rows' \in {rows, rows \cup {r}}
    /\ UNCHANGED <<now, queued, asked, verdicts, given, acknowledged>>

-----------------------------------------------------------------------------
(* The job: classifyTiered. *)

Answers(r, by, a) == given' = given \cup {<<Judged(r), a, by>>}

Marks(r, by, a) ==
    /\ verdicts' = verdicts \cup {[row |-> r, analysis |-> a, by |-> by, fresh |-> TRUE]}
    /\ queued' = queued \ {r}

Busy(r) == \E x \in asked : x.row = r

\* resolveEscalationTarget
Escalates(a) == a \in Doubtful

AskPrimary(r) ==
    /\ r \in queued /\ ~Busy(r)
    /\ \E a \in Analyses :
         /\ Answers(r, "primary", a)
         /\ IF Escalates(a)
            THEN asked' = asked \cup {[row |-> r, first |-> a]} /\ UNCHANGED <<verdicts, queued>>
            ELSE Marks(r, "primary", a) /\ UNCHANGED asked
    /\ UNCHANGED <<now, rows, acknowledged, unstamped, reports, failures>>

\* Whatever the second model answers stands.
AskEscalation(x) ==
    /\ x \in asked
    /\ \E a \in Analyses : Answers(x.row, "escalation", a) /\ Marks(x.row, "escalation", a)
    /\ asked' = asked \ {x}
    /\ UNCHANGED <<now, rows, acknowledged, unstamped, reports, failures>>

\* A call throws: the job begins anew, or its retries are used up.
ModelFails(r) ==
    /\ r \in queued /\ Failure
    /\ asked' = {x \in asked : x.row # r}
    /\ queued' \in {queued, queued \ {r}}
    /\ UNCHANGED <<now, rows, verdicts, history, reports>>

-----------------------------------------------------------------------------

IngestionTypeOK ==
    /\ now \in 0..MaxTime
    /\ rows \subseteq RowRecord
    /\ queued \subseteq rows
    /\ asked \subseteq [row : queued, first : Doubtful]
    /\ verdicts \subseteq [row : rows, analysis : Analyses,
                           by : {"primary", "escalation"}, fresh : BOOLEAN]
    /\ given \subseteq Texts \X Analyses \X {"primary", "escalation"}
    /\ acknowledged \subseteq Posts /\ unstamped \subseteq Posts
    /\ reports \in 0..MaxReports /\ failures \in 0..MaxFailures

Init ==
    /\ now = 0
    /\ rows = {} /\ queued = {} /\ asked = {} /\ verdicts = {}
    /\ given = {} /\ acknowledged = {} /\ unstamped = {}
    /\ reports = 0 /\ failures = 0

Tick ==
    /\ now < MaxTime /\ now' = now + 1
    /\ UNCHANGED <<tables, history, reports, failures>>

Next ==
    \/ \E m \in Posts, ids \in {{}, {"lid"}, {"lid", "phone"}}, stamped \in BOOLEAN :
         Receive(m, ids, stamped) \/ ReceiveFails(m, ids, stamped)
    \/ \E r \in queued : AskPrimary(r) \/ ModelFails(r)
    \/ \E x \in asked : AskEscalation(x)
    \/ Tick

Spec == Init /\ [][Next]_vars

-----------------------------------------------------------------------------
(* Properties. *)

\* However many instances report a message, and whenever, it has one row for each
\* way they name its sender, if they all say when it was sent.  About the hash of
\* ingestion, which is to collapse the copies of redundant instances.
CopiesCollapse ==
    \A r, s \in rows :
        r.post = s.post /\ r.sender = s.sender /\ r.post \notin unstamped => r = s

\* The payload has one part, and says something in it.
Legible(p) ==
    /\ p.signs = {}
    /\ \E k \in Parts \ {"product", "event"} : p.has = {k} /\ p.part[k].main \notin Silences

Says(p) == UNION {p.part[k].main : k \in p.has}

\* What a member says in a message that was acknowledged is where the models read,
\* in a row of that member and of that time, if not always of that message: only
\* an identical text counts as a copy.  About what the normaliser makes of each kind
\* of message, and about both hashes and the models taking the same text.
NothingPassesUnread ==
    \A m \in acknowledged :
        Legible(Shown[m]) =>
            \E r \in rows :
                /\ r.sender[2] = SenderOf[m]
                /\ m \notin unstamped => r.bucket = SentAt[m] \div Window
                /\ Says(Shown[m]) \subseteq Judged(r)

\* A verdict, fresh or reused, was given to the very text of the message, and not
\* by a model that doubted it.
VerdictFitsText ==
    \A v \in verdicts :
        /\ <<Judged(v.row), v.analysis, v.by>> \in given
        /\ v.by = "primary" => v.analysis \notin Doubtful

=============================================================================
