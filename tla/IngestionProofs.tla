--------------------------- MODULE IngestionProofs ---------------------------
(***************************************************************************)
(* Proofs about Ingestion.                                                 *)
(***************************************************************************)
EXTENDS Ingestion, TLAPS

-----------------------------------------------------------------------------
(***************************************************************************)
(* The inductive invariant: what a row says is determined by its post, has *)
(* something for the models, and no two rows have one key.                 *)
(***************************************************************************)

PartOf(m) == Shown[m].part[First(Shown[m])]

RowsFit ==
    \A r \in rows :
        /\ r.sender[2] = SenderOf[r.post]
        /\ r.text = TextOf(First(Shown[r.post]), PartOf(r.post))
        /\ r.caption = CaptionOf(First(Shown[r.post]), PartOf(r.post))
        /\ r.media = MediaOf(First(Shown[r.post]), PartOf(r.post))
        /\ r.post \notin unstamped => r.bucket = SentAt[r.post] \div Window

RowsSpeak == \A r \in rows : Judged(r) # None

KeysDiffer == \A r, s \in rows : IngestionKey(r) = IngestionKey(s) => r = s

\* Jobs and verdicts are of rows.
TablesFit ==
    /\ queued \subseteq rows
    /\ \A x \in asked : x.row \in rows
    /\ \A v \in verdicts : v.row \in rows

IngestionInv ==
    /\ RowsFit /\ RowsSpeak /\ KeysDiffer /\ TablesFit
    /\ NothingPassesUnread /\ VerdictFitsText

-----------------------------------------------------------------------------
(* Rows.                                                                   *)

\* What a report makes of a post is what the post says.
LEMMA NormalizedFits ==
    ASSUME NEW m \in Posts, NEW ids, NEW stamped \in BOOLEAN
    PROVE  LET r == Normalized(m, ids, stamped) IN
           /\ r.post = m /\ r.sender[2] = SenderOf[m]
           /\ r.text = TextOf(First(Shown[m]), PartOf(m))
           /\ r.caption = CaptionOf(First(Shown[m]), PartOf(m))
           /\ r.media = MediaOf(First(Shown[m]), PartOf(m))
           /\ stamped => r.bucket = SentAt[m] \div Window
  BY DEF Normalized, PartOf, SendTime

LEMMA AcceptedSpeaks ==
    ASSUME NEW m \in Posts, NEW ids, NEW stamped \in BOOLEAN, Accepted(m, ids, stamped)
    PROVE  Judged(Normalized(m, ids, stamped)) # None
  BY DEF Accepted, Judged, Or

\* Rows that speak have one hash only if the models read the same of them.
LEMMA HashIsText ==
    ASSUME NEW r, NEW s, Judged(r) # None, Judged(s) # None,
           HashedContent(r) = HashedContent(s)
    PROVE  Judged(r) = Judged(s)
  BY DEF HashedContent, Or

\* What a report may do to the rows.
Grows(m, ids, stamped) ==
    LET r == Normalized(m, ids, stamped) IN
    /\ unstamped' = IF stamped THEN unstamped ELSE unstamped \cup {m}
    /\ \/ rows' = rows
       \/ Accepted(m, ids, stamped) /\ ~Copied(r) /\ rows' = rows \cup {r}

LEMMA ReportsGrow ==
    ASSUME NEW m \in Posts, NEW ids, NEW stamped \in BOOLEAN,
           Receive(m, ids, stamped) \/ ReceiveFails(m, ids, stamped)
    PROVE  Grows(m, ids, stamped)
<1>1. CASE Receive(m, ids, stamped)
  BY <1>1 DEF Receive, Ingest, Reports, Grows
<1>2. CASE ReceiveFails(m, ids, stamped)
  BY <1>2 DEF ReceiveFails, Reports, Grows
<1>3. QED
  BY <1>1, <1>2

LEMMA GrowingRows ==
    ASSUME RowsFit, RowsSpeak, KeysDiffer, NEW m \in Posts, NEW ids,
           NEW stamped \in BOOLEAN, Grows(m, ids, stamped)
    PROVE  RowsFit' /\ RowsSpeak' /\ KeysDiffer' /\ rows \subseteq rows'
<1> DEFINE r == Normalized(m, ids, stamped)
<1>1. rows' = rows \/ (Accepted(m, ids, stamped) /\ ~Copied(r) /\ rows' = rows \cup {r})
  BY DEF Grows
<1>2. unstamped \subseteq unstamped' /\ (~stamped => m \in unstamped')
  BY DEF Grows
<1>3. /\ r.post = m /\ r.sender[2] = SenderOf[m]
      /\ r.text = TextOf(First(Shown[m]), PartOf(m))
      /\ r.caption = CaptionOf(First(Shown[m]), PartOf(m))
      /\ r.media = MediaOf(First(Shown[m]), PartOf(m))
      /\ stamped => r.bucket = SentAt[m] \div Window
  BY NormalizedFits
<1> HIDE DEF r
<1>4. RowsFit'
  BY <1>1, <1>2, <1>3 DEF RowsFit
<1>5. RowsSpeak'
  BY <1>1, AcceptedSpeaks DEF RowsSpeak, r
<1>6. KeysDiffer'
  BY <1>1 DEF KeysDiffer, Copied
<1>7. QED
  BY <1>1, <1>4, <1>5, <1>6

-----------------------------------------------------------------------------
(* What a legible message says is what the models read of it.              *)

LEMMA SoleIsFirst ==
    ASSUME NEW p, NEW k \in Parts, Present(p) = {k}
    PROVE  First(p) = k
<1>1. Order[k] <= Order[k]
  BY DEF Order, Parts
<1>2. \E j \in Present(p) : \A l \in Present(p) : Order[j] <= Order[l]
  BY <1>1
<1>3. First(p) \in Present(p)
  BY <1>2 DEF First
<1>4. QED
  BY <1>3

LEMMA TextsAreHeard ==
    /\ \A t \in Texts : t \notin Silences /\ Trimmed(t) = t
    /\ None \in Silences /\ Empty \in Silences
  BY IngestionAssumption DEF Silences, Trimmed

LEMMA MainIsRead ==
    ASSUME NEW k \in Parts \ {"product", "event"}, NEW f \in Field, f.main \notin Silences
    PROVE  /\ TextOf(k, f) # None \/ CaptionOf(k, f) # None
           /\ f.main \subseteq Or(TextOf(k, f), CaptionOf(k, f))
<1>1. f.main # None /\ Trimmed(f.main) = f.main
  BY DEF Silences, Trimmed
<1>2. CASE k \in {"text", "poll", "list", "buttons", "template"}
  BY <1>1, <1>2 DEF TextOf, Or
<1>3. CASE k \in {"image", "video", "contact"}
  BY <1>1, <1>3 DEF TextOf, CaptionOf, Or
<1>4. CASE k = "document"
  BY <1>1, <1>4 DEF TextOf, CaptionOf, Or
<1>5. CASE k = "location"
  <2>1. TextOf(k, f) = None /\ CaptionOf(k, f) = Joined(f.main, Trimmed(f.other))
    BY <1>1, <1>5 DEF TextOf, CaptionOf
  <2>2. f.main \subseteq Joined(f.main, Trimmed(f.other))
    BY <1>1 DEF Joined
  <2>3. Joined(f.main, Trimmed(f.other)) # None
    <3>1. f.main \in SUBSET Words /\ f.main # {}
      BY DEF Field, Raw, Texts
    <3>2. CASE Trimmed(f.other) = None
      BY <1>1, <3>2 DEF Joined
    <3>3. CASE Trimmed(f.other) # None
      <4>1. Trimmed(f.other) = f.other /\ f.other \in Texts
        BY <3>3 DEF Trimmed, Field, Raw
      <4>2. f.main \cup f.other \in Texts
        BY <3>1, <4>1 DEF Texts
      <4>3. QED
        BY <1>1, <3>3, <4>1, <4>2, TextsAreHeard DEF Joined
    <3>4. QED
      BY <3>2, <3>3
  <2>4. QED
    BY <2>1, <2>2, <2>3 DEF Or
<1>6. QED
  BY <1>2, <1>3, <1>4, <1>5 DEF Parts

\* A legible message is accepted when the report names its sender.
LEMMA LegibleIsRead ==
    ASSUME NEW m \in Posts, NEW ids, ids # {}, NEW stamped \in BOOLEAN, Legible(Shown[m])
    PROVE  /\ Accepted(m, ids, stamped)
           /\ Says(Shown[m]) \subseteq Judged(Normalized(m, ids, stamped))
<1> DEFINE p == Shown[m]
           r == Normalized(m, ids, stamped)
<1>1. PICK k \in Parts \ {"product", "event"} : p.has = {k} /\ p.part[k].main \notin Silences
  BY DEF Legible
<1>2. p.part[k] \in Field
  <2>1. p \in Payload
    BY IngestionAssumption
  <2>2. p.part \in [Parts -> Field]
    BY <2>1 DEF Payload
  <2>3. QED
    BY <2>2
<1>3. Present(p) = {k}
  BY <1>1 DEF Present, Silences
<1>4. First(p) = k
  BY <1>3, SoleIsFirst
<1>5. r.text = TextOf(k, p.part[k]) /\ r.caption = CaptionOf(k, p.part[k])
  BY <1>4 DEF Normalized
<1>6. /\ r.text # None \/ r.caption # None
      /\ p.part[k].main \subseteq Judged(r)
  BY <1>1, <1>2, <1>5, MainIsRead DEF Judged
<1>7. Says(p) = p.part[k].main
  BY <1>1 DEF Says
<1>8. p.signs = {}
  BY DEF Legible
<1>9. QED
  BY <1>3, <1>6, <1>7, <1>8 DEF Accepted

-----------------------------------------------------------------------------
(* The steps.                                                              *)

LEMMA ReceiveKeepsUnread ==
    ASSUME IngestionInv, NEW m \in Posts, NEW ids, NEW stamped \in BOOLEAN,
           Receive(m, ids, stamped)
    PROVE  NothingPassesUnread'
<1> DEFINE r == Normalized(m, ids, stamped)
           Kept(x, table) == \E s \in table :
               /\ s.sender[2] = SenderOf[x]
               /\ x \notin unstamped' => s.bucket = SentAt[x] \div Window
               /\ Says(Shown[x]) \subseteq Judged(s)
<1>1. Grows(m, ids, stamped)
  BY ReportsGrow
<1>2. rows \subseteq rows' /\ unstamped \subseteq unstamped'
  BY <1>1 DEF Grows
<1>3. ASSUME NEW x \in acknowledged, Legible(Shown[x]) PROVE Kept(x, rows')
  BY <1>2, <1>3 DEF IngestionInv, NothingPassesUnread
<1>4. ASSUME ids # {}, Legible(Shown[m]) PROVE Kept(m, rows')
  <2>1. Accepted(m, ids, stamped) /\ Says(Shown[m]) \subseteq Judged(r)
    BY <1>4, LegibleIsRead
  <2>2. /\ r.sender[2] = SenderOf[m]
        /\ m \notin unstamped' => r.bucket = SentAt[m] \div Window
    BY <1>1, NormalizedFits DEF Grows
  <2>3. CASE Copied(r)
    <3>1. PICK s \in rows : IngestionKey(s) = IngestionKey(r)
      BY <2>3 DEF Copied
    <3>2. s.sender = r.sender /\ s.bucket = r.bucket /\ HashedContent(s) = HashedContent(r)
      BY <3>1 DEF IngestionKey
    <3>3. Judged(s) # None
      BY DEF IngestionInv, RowsSpeak
    <3>4. Judged(r) # None
      BY <2>1, AcceptedSpeaks
    <3>5. Judged(s) = Judged(r)
      BY <3>2, <3>3, <3>4, HashIsText
    <3>6. s.sender[2] = SenderOf[m]
      BY <2>2, <3>2
    <3>7. m \notin unstamped' => s.bucket = SentAt[m] \div Window
      BY <2>2, <3>2
    <3>8. Says(Shown[m]) \subseteq Judged(s)
      BY <2>1, <3>5
    <3>9. s \in rows'
      BY <1>2
    <3>10. QED
      BY <3>6, <3>7, <3>8, <3>9
  <2>4. CASE ~Copied(r)
    <3>1. r \in rows'
      BY <2>1, <2>4 DEF Receive, Ingest
    <3>2. QED
      BY <2>1, <2>2, <3>1
  <2>5. QED
    BY <2>3, <2>4
<1>5. acknowledged' = acknowledged \/ (ids # {} /\ acknowledged' = acknowledged \cup {m})
  BY DEF Receive, Acknowledges
<1> HIDE DEF Kept
<1>6. \A x \in acknowledged' : Legible(Shown[x]) => Kept(x, rows')
  BY <1>3, <1>4, <1>5
<1>7. QED
  BY <1>6 DEF NothingPassesUnread, Kept

LEMMA ReceiveKeepsVerdicts ==
    ASSUME IngestionInv, NEW m \in Posts, NEW ids, NEW stamped \in BOOLEAN,
           Receive(m, ids, stamped)
    PROVE  VerdictFitsText' /\ TablesFit'
<1> DEFINE r == Normalized(m, ids, stamped)
<1>1. given' = given /\ asked' = asked
  BY DEF Receive
<1>2. CASE UNCHANGED <<rows, queued, verdicts>>
  BY <1>1, <1>2 DEF IngestionInv, VerdictFitsText, TablesFit
<1>3. CASE Accepted(m, ids, stamped) /\ rows' = rows \cup {r} /\ UNCHANGED verdicts
           /\ queued' = queued \cup {r}
  BY <1>1, <1>3 DEF IngestionInv, VerdictFitsText, TablesFit
<1>4. ASSUME Accepted(m, ids, stamped), rows' = rows \cup {r}, UNCHANGED queued,
             NEW v \in Reusable(r), verdicts' = verdicts \cup {Analyzed(r, v)}
      PROVE  VerdictFitsText' /\ TablesFit'
  <2>1. v \in verdicts /\ HashedContent(v.row) = HashedContent(r)
    BY <1>4 DEF Reusable
  <2>2. Judged(v.row) # None /\ Judged(r) # None
    BY <1>4, <2>1, AcceptedSpeaks DEF IngestionInv, RowsSpeak, TablesFit
  <2>3. Judged(v.row) = Judged(r)
    BY <2>1, <2>2, HashIsText
  <2> DEFINE w == Analyzed(r, v)
  <2>4. w.row = r /\ w.analysis = v.analysis /\ w.by = v.by
    BY DEF Analyzed
  <2>5. /\ <<Judged(w.row), w.analysis, w.by>> \in given
        /\ w.by = "primary" => w.analysis \notin Doubtful
    BY <2>1, <2>3, <2>4 DEF IngestionInv, VerdictFitsText
  <2> HIDE DEF w
  <2>6. verdicts' = verdicts \cup {w}
    BY <1>4 DEF w
  <2>7. VerdictFitsText'
    BY <1>1, <2>5, <2>6 DEF IngestionInv, VerdictFitsText
  <2>8. TablesFit'
    BY <1>1, <1>4, <2>4, <2>6 DEF IngestionInv, TablesFit
  <2>9. QED
    BY <2>7, <2>8
<1>5. QED
  BY <1>2, <1>3, <1>4 DEF Receive, Ingest

LEMMA FailureKeepsInv ==
    ASSUME IngestionInv, NEW m \in Posts, NEW ids, NEW stamped \in BOOLEAN,
           ReceiveFails(m, ids, stamped)
    PROVE  NothingPassesUnread' /\ VerdictFitsText' /\ TablesFit'
<1>1. Grows(m, ids, stamped)
  BY ReportsGrow
<1>2. rows \subseteq rows' /\ unstamped \subseteq unstamped'
  BY <1>1 DEF Grows
<1>3. UNCHANGED <<queued, asked, verdicts, given, acknowledged>>
  BY DEF ReceiveFails
<1>4. NothingPassesUnread'
  BY <1>2, <1>3 DEF IngestionInv, NothingPassesUnread
<1>5. QED
  BY <1>2, <1>3, <1>4 DEF IngestionInv, VerdictFitsText, TablesFit

\* A model's answer is given before its verdict is stored.
LEMMA MarksFit ==
    ASSUME IngestionInv, NEW r \in rows, NEW by, NEW a, Answers(r, by, a),
           Marks(r, by, a), by = "primary" => a \notin Doubtful,
           rows' = rows, \A x \in asked' : x \in asked
    PROVE  VerdictFitsText' /\ TablesFit'
<1> DEFINE w == [row |-> r, analysis |-> a, by |-> by, fresh |-> TRUE]
<1>1. w.row = r /\ w.analysis = a /\ w.by = by
  OBVIOUS
<1>2. verdicts' = verdicts \cup {w} /\ queued' \subseteq queued
  BY DEF Marks
<1> HIDE DEF w
<1>3. given' = given \cup {<<Judged(r), a, by>>}
  BY DEF Answers
<1>4. VerdictFitsText'
  BY <1>1, <1>2, <1>3 DEF IngestionInv, VerdictFitsText
<1>5. TablesFit'
  BY <1>1, <1>2 DEF IngestionInv, TablesFit
<1>6. QED
  BY <1>4, <1>5

LEMMA ModelsKeepInv ==
    ASSUME IngestionInv,
           \/ \E r \in queued : AskPrimary(r) \/ ModelFails(r)
           \/ \E x \in asked : AskEscalation(x)
    PROVE  VerdictFitsText' /\ TablesFit' /\ UNCHANGED <<rows, acknowledged, unstamped>>
<1>1. ASSUME NEW r \in queued, AskPrimary(r)
      PROVE  VerdictFitsText' /\ TablesFit' /\ UNCHANGED <<rows, acknowledged, unstamped>>
  <2>1. UNCHANGED <<rows, acknowledged, unstamped>> /\ r \in rows
    BY <1>1 DEF AskPrimary, IngestionInv, TablesFit
  <2>2. PICK a \in Analyses :
          /\ Answers(r, "primary", a)
          /\ IF Escalates(a)
             THEN asked' = asked \cup {[row |-> r, first |-> a]} /\ UNCHANGED <<verdicts, queued>>
             ELSE Marks(r, "primary", a) /\ UNCHANGED asked
    BY <1>1 DEF AskPrimary
  <2>3. CASE Escalates(a)
    <3>1. given \subseteq given'
      BY <2>2 DEF Answers
    <3>2. VerdictFitsText'
      BY <2>2, <2>3, <3>1 DEF IngestionInv, VerdictFitsText
    <3>3. TablesFit'
      BY <2>1, <2>2, <2>3 DEF IngestionInv, TablesFit
    <3>4. QED
      BY <2>1, <3>2, <3>3
  <2>4. CASE ~Escalates(a)
    BY <2>1, <2>2, <2>4, MarksFit DEF Escalates
  <2>5. QED
    BY <2>3, <2>4
<1>2. ASSUME NEW r \in queued, ModelFails(r)
      PROVE  VerdictFitsText' /\ TablesFit' /\ UNCHANGED <<rows, acknowledged, unstamped>>
  <2>1. UNCHANGED <<rows, verdicts, given, acknowledged, unstamped>>
    BY <1>2 DEF ModelFails, history
  <2>2. queued' \subseteq queued /\ asked' \subseteq asked
    BY <1>2 DEF ModelFails
  <2>3. QED
    BY <2>1, <2>2 DEF IngestionInv, VerdictFitsText, TablesFit
<1>3. ASSUME NEW x \in asked, AskEscalation(x)
      PROVE  VerdictFitsText' /\ TablesFit' /\ UNCHANGED <<rows, acknowledged, unstamped>>
  <2>1. UNCHANGED <<rows, acknowledged, unstamped>> /\ x.row \in rows
    BY <1>3 DEF AskEscalation, IngestionInv, TablesFit
  <2>2. PICK a \in Analyses : Answers(x.row, "escalation", a) /\ Marks(x.row, "escalation", a)
    BY <1>3 DEF AskEscalation
  <2>3. \A y \in asked' : y \in asked
    BY <1>3 DEF AskEscalation
  <2>4. QED
    BY <2>1, <2>2, <2>3, MarksFit
<1>4. QED
  BY <1>1, <1>2, <1>3

LEMMA NextKeepsInv == IngestionInv /\ [Next]_vars => IngestionInv'
<1> SUFFICES ASSUME IngestionInv, [Next]_vars PROVE IngestionInv'
  OBVIOUS
<1>1. ASSUME NEW m \in Posts, NEW ids, NEW stamped \in BOOLEAN,
             Receive(m, ids, stamped) \/ ReceiveFails(m, ids, stamped)
      PROVE  IngestionInv'
  <2>1. Grows(m, ids, stamped)
    BY <1>1, ReportsGrow
  <2>2. RowsFit' /\ RowsSpeak' /\ KeysDiffer'
    BY <2>1, GrowingRows DEF IngestionInv
  <2>3. NothingPassesUnread' /\ VerdictFitsText' /\ TablesFit'
    BY <1>1, ReceiveKeepsUnread, ReceiveKeepsVerdicts, FailureKeepsInv
  <2>4. QED
    BY <2>2, <2>3 DEF IngestionInv
<1>2. ASSUME UNCHANGED <<rows, acknowledged, unstamped>>, VerdictFitsText', TablesFit'
      PROVE  IngestionInv'
  BY <1>2 DEF IngestionInv, RowsFit, RowsSpeak, KeysDiffer, NothingPassesUnread
<1>3. CASE \/ \E r \in queued : AskPrimary(r) \/ ModelFails(r)
           \/ \E x \in asked : AskEscalation(x)
  BY <1>2, <1>3, ModelsKeepInv
<1>4. CASE Tick \/ UNCHANGED vars
  <2>1. UNCHANGED <<tables, history>>
    BY <1>4 DEF Tick, vars
  <2>2. UNCHANGED <<rows, queued, asked, verdicts, given, acknowledged, unstamped>>
    BY <2>1 DEF tables, history
  <2>3. QED
    BY <1>2, <2>2 DEF IngestionInv, VerdictFitsText, TablesFit
<1>5. QED
  BY <1>1, <1>3, <1>4 DEF Next

LEMMA InitHolds == Init => IngestionInv
  BY DEF Init, IngestionInv, RowsFit, RowsSpeak, KeysDiffer, TablesFit,
         NothingPassesUnread, VerdictFitsText

LEMMA Inductive == Spec => []IngestionInv
  BY InitHolds, NextKeepsInv, PTL DEF Spec

-----------------------------------------------------------------------------

\* However many instances report a message and whatever they call it, its copies
\* are one row, for every window and any number of posts.
THEOREM CopiesAreOneRow == Spec => []CopiesCollapse
<1>1. IngestionInv => CopiesCollapse
  <2> SUFFICES ASSUME IngestionInv, NEW r \in rows, NEW s \in rows,
                      r.post = s.post, r.sender = s.sender, r.post \notin unstamped
               PROVE  r = s
    BY DEF CopiesCollapse
  <2>1. r.text = s.text /\ r.caption = s.caption /\ r.media = s.media /\ r.bucket = s.bucket
    BY DEF IngestionInv, RowsFit
  <2>2. IngestionKey(r) = IngestionKey(s)
    BY <2>1 DEF IngestionKey, HashedContent, Judged
  <2>3. QED
    BY <2>2 DEF IngestionInv, KeysDiffer
<1>2. QED
  BY <1>1, Inductive, PTL

\* Whatever the payloads, what an acknowledged and legible message says is where
\* the models read, in a row of its sender and of its time.
THEOREM EverythingIsRead == Spec => []NothingPassesUnread
  BY Inductive, PTL DEF IngestionInv

\* Whatever the models answer and whichever verdicts are reused, a verdict was given
\* to the very text it is attached to, and not by a model that doubted it.
THEOREM VerdictsFit == Spec => []VerdictFitsText
  BY Inductive, PTL DEF IngestionInv

=============================================================================
