-------------------------- MODULE BulkRemovalProofs --------------------------
(***************************************************************************)
(* Proofs about BulkRemoval.                                               *)
(***************************************************************************)
EXTENDS BulkRemoval, TLAPS

-----------------------------------------------------------------------------
(* Types.                                                                  *)

USE DEF Origin

\* The parts of BulkTypeOK that the kinds of steps disturb.
PoliciesTyped ==
    /\ rows \subseteq PolicyRow /\ expired \subseteq rows
    /\ edits \in 0..MaxEdits
MessagesTyped == at \in [Messages -> Place] /\ old \subseteq Messages
RunsTyped ==
    /\ step \in [Runs -> Step]
    /\ found \in [Runs -> SUBSET Messages]
    /\ spared \in [Runs -> SUBSET Messages]
EffectsTyped ==
    /\ recorded \subseteq Messages
    /\ handed \subseteq Messages \X Origin
    /\ kicked \subseteq Groups \X Phones
    /\ deleted \subseteq Messages /\ removed \subseteq deleted

LEMMA TypeParts ==
    BulkTypeOK <=> /\ PoliciesTyped /\ MessagesTyped /\ RunsTyped /\ EffectsTyped
                   /\ mishaps \in 0..MaxMishaps
  BY DEF BulkTypeOK, PoliciesTyped, MessagesTyped, RunsTyped, EffectsTyped

LEMMA PartsAfter ==
    /\ PoliciesTyped' /\ MessagesTyped' /\ RunsTyped' /\ EffectsTyped'
    /\ mishaps' \in 0..MaxMishaps
    => BulkTypeOK'
  BY DEF BulkTypeOK, PoliciesTyped, MessagesTyped, RunsTyped, EffectsTyped

LEMMA TypeInit == Init => BulkTypeOK
<1> SUFFICES ASSUME Init PROVE BulkTypeOK
  OBVIOUS
<1>1. PoliciesTyped /\ mishaps \in 0..MaxMishaps
  BY BulkRemovalAssumption DEF Init, PoliciesTyped
<1>2. MessagesTyped
  BY DEF Init, MessagesTyped, Place
<1>3. RunsTyped
  BY DEF Init, RunsTyped, Step
<1>4. EffectsTyped
  BY DEF Init, EffectsTyped
<1>5. QED
  BY <1>1, <1>2, <1>3, <1>4, TypeParts

LEMMA MishapTyped ==
    ASSUME mishaps \in 0..MaxMishaps, Mishap \/ NoMishap
    PROVE  mishaps' \in 0..MaxMishaps
  BY BulkRemovalAssumption DEF Mishap, NoMishap

LEMMA AutoRowTyped == \A m \in Messages : AutoRow(m) \in PolicyRow
  BY BulkRemovalAssumption DEF AutoRow, PolicyRow

LEMMA ManualRowTyped == \A o \in Operators : ManualRow(Target[o]) \in PolicyRow
  BY BulkRemovalAssumption DEF ManualRow, PolicyRow

LEMMA AddedGrows == \A p : rows \subseteq Added(p) /\ Added(p) \subseteq rows \cup {p}
  BY DEF Added

LEMMA PolicyStepsTyped ==
    ASSUME BulkTypeOK,
           \/ \E p \in Addable : Add(p)
           \/ \E p \in Withdrawable : Remove(p)
           \/ \E p \in rows : Expire(p)
    PROVE  BulkTypeOK'
<1>1. edits' \in 0..MaxEdits /\ UNCHANGED <<at, old, runs, effects, mishaps>>
  BY BulkRemovalAssumption DEF Add, Remove, Expire, Edit, BulkTypeOK
<1>2. rows' \subseteq PolicyRow /\ expired' \subseteq rows'
  <2>1. CASE \E p \in Addable : Add(p)
    BY <2>1, AddedGrows, BulkRemovalAssumption DEF Add, BulkTypeOK
  <2>2. CASE \E p \in Withdrawable : Remove(p)
    BY <2>2 DEF Remove, BulkTypeOK
  <2>3. CASE \E p \in rows : Expire(p)
    BY <2>3 DEF Expire, BulkTypeOK
  <2>4. QED
    BY <2>1, <2>2, <2>3
<1>3. QED
  BY <1>1, <1>2 DEF BulkTypeOK, runs, effects

LEMMA GoesTyped ==
    ASSUME MessagesTyped, NEW m \in Messages, NEW place \in Place, Goes(m, place),
           old' \subseteq Messages
    PROVE  MessagesTyped'
  BY DEF MessagesTyped, Goes

LEMMA MessageStepsTyped ==
    ASSUME BulkTypeOK, NEW m \in Messages, Store(m) \/ Judge(m) \/ JudgeFails(m)
    PROVE  BulkTypeOK'
<1> USE TypeParts, PartsAfter
<1>1. MessagesTyped
  OBVIOUS
<1>2. ToRemove(m) \in Place
  BY DEF ToRemove, Place, Judging, Judged
<1>3. CASE Store(m)
  <2>1. old' \subseteq Messages
    BY <1>1, <1>3 DEF Store, MessagesTyped
  <2>2. MessagesTyped'
    BY <1>1, <1>3, <2>1, GoesTyped DEF Store, Place, Judging
  <2>3. QED
    BY <1>3, <2>2 DEF Store, policies, runs, effects, PoliciesTyped, RunsTyped, EffectsTyped
<1>4. CASE JudgeFails(m)
  <2>1. MessagesTyped'
    BY <1>1, <1>4, GoesTyped DEF JudgeFails, Place, Judged, MessagesTyped
  <2>2. QED
    BY <1>4, <2>1, MishapTyped
    DEF JudgeFails, policies, runs, effects, PoliciesTyped, RunsTyped, EffectsTyped
<1>5. CASE ReadBypass(m) \/ ReadBlacklist(m)
  <2>1. \E place \in Place : Goes(m, place)
    BY <1>2, <1>5 DEF ReadBypass, ReadBlacklist, Place, Judging, Judged
  <2>2. MessagesTyped'
    BY <1>1, <1>5, <2>1, GoesTyped DEF ReadBypass, ReadBlacklist, MessagesTyped
  <2>3. QED
    BY <1>5, <2>2
    DEF ReadBypass, ReadBlacklist, policies, runs, effects, PoliciesTyped, RunsTyped,
        EffectsTyped
<1>6. CASE AutoAdd(m)
  <2>1. MessagesTyped'
    BY <1>1, <1>2, <1>6, GoesTyped DEF AutoAdd, MessagesTyped
  <2>2. rows \subseteq rows' /\ rows' \subseteq rows \cup {AutoRow(m)}
    BY <1>6, AddedGrows DEF AutoAdd
  <2>3. PoliciesTyped'
    BY <1>6, <2>2, AutoRowTyped DEF AutoAdd, PoliciesTyped
  <2>4. mishaps' \in 0..MaxMishaps
    BY <1>6, MishapTyped DEF AutoAdd
  <2>5. QED
    BY <1>6, <2>1, <2>3, <2>4 DEF AutoAdd, runs, effects, RunsTyped, EffectsTyped
<1>7. CASE EnqueueDelete(m)
  <2>1. MessagesTyped'
    BY <1>1, <1>7, GoesTyped DEF EnqueueDelete, MessagesTyped, Place, Judged
  <2>2. EffectsTyped'
    BY <1>7 DEF EnqueueDelete, EffectsTyped
  <2>3. QED
    BY <1>7, <2>1, <2>2 DEF EnqueueDelete, policies, runs, PoliciesTyped, RunsTyped
<1>8. QED
  BY <1>3, <1>4, <1>5, <1>6, <1>7 DEF Judge

LEMMA MovesTyped ==
    ASSUME RunsTyped, NEW r \in Runs, NEW s \in Step, Moves(r, s)
    PROVE  step' \in [Runs -> Step]
  BY DEF RunsTyped, Moves

LEMMA SparedAmong == \A some \in SUBSET Messages : Spared(some) \in SUBSET some
  BY DEF Spared

LEMMA RunStepsTyped ==
    ASSUME BulkTypeOK,
           NEW r \in Runs, Run(r) \/ RunFails(r) \/ (r \in Operators /\ ByPhone(r))
    PROVE  BulkTypeOK'
<1> USE TypeParts, PartsAfter
<1>1. RunsTyped /\ EffectsTyped /\ PoliciesTyped
  OBVIOUS
<1>2. \E s \in Step : Moves(r, s)
  BY DEF Run, RunFails, ByPhone, PreviewCount, Confirm, Fetch, RecordAll, Publish,
         PreviewAllowlist, CheckAllowlist, EnsureBlacklisted, After, Answers, Begin, Step,
         Executing, Ended
<1>3. step' \in [Runs -> Step]
  BY <1>1, <1>2, MovesTyped
<1>4. mishaps' \in 0..MaxMishaps
  BY MishapTyped
  DEF Run, RunFails, ByPhone, PreviewCount, Confirm, Fetch, RecordAll, Publish,
      PreviewAllowlist, CheckAllowlist, EnsureBlacklisted, NoMishap
<1>5. MessagesTyped'
  BY DEF Run, RunFails, ByPhone, PreviewCount, Confirm, Fetch, RecordAll, Publish,
         PreviewAllowlist, CheckAllowlist, EnsureBlacklisted, MessagesTyped
<1>6. CASE \/ PreviewCount(r) \/ Confirm(r) \/ RunFails(r)
           \/ PreviewAllowlist(r) \/ CheckAllowlist(r)
  <2>1. UNCHANGED <<policies, found, spared, effects>>
    BY <1>6 DEF PreviewCount, Confirm, RunFails, PreviewAllowlist, CheckAllowlist
  <2>2. QED
    BY <1>1, <1>3, <1>4, <1>5, <2>1
    DEF policies, effects, RunsTyped, PoliciesTyped, EffectsTyped
<1>7. CASE r \in Operators /\ EnsureBlacklisted(r)
  <2>1. rows \subseteq rows' /\ rows' \subseteq rows \cup {ManualRow(Target[r])}
    BY <1>7, AddedGrows DEF EnsureBlacklisted
  <2>2. PoliciesTyped'
    BY <1>1, <1>7, <2>1, ManualRowTyped DEF EnsureBlacklisted, PoliciesTyped
  <2>3. QED
    BY <1>1, <1>3, <1>4, <1>5, <1>7, <2>2
    DEF EnsureBlacklisted, effects, RunsTyped, EffectsTyped
<1>8. CASE Fetch(r)
  <2>1. Rows(r) \subseteq Messages
    BY DEF Rows
  <2>2. PICK some \in SUBSET Messages :
          /\ found' = [found EXCEPT ![r] = some]
          /\ spared' = [spared EXCEPT ![r] = Spared(some)]
    BY <1>8, <2>1 DEF Fetch
  <2>3. Spared(some) \in SUBSET Messages
    BY SparedAmong
  <2>4. RunsTyped'
    BY <1>1, <1>3, <2>2, <2>3 DEF RunsTyped
  <2>5. QED
    BY <1>1, <1>4, <1>5, <1>8, <2>4
    DEF Fetch, policies, effects, PoliciesTyped, EffectsTyped
<1>9. CASE RecordAll(r)
  <2>1. Usable(r) \subseteq Messages
    BY <1>1 DEF Usable, RunsTyped
  <2>2. recorded' \subseteq Messages
    BY <1>1, <1>9, <2>1 DEF RecordAll, EffectsTyped
  <2>3. EffectsTyped' /\ RunsTyped' /\ PoliciesTyped'
    BY <1>1, <1>3, <1>9, <2>2 DEF RecordAll, policies, EffectsTyped, RunsTyped, PoliciesTyped
  <2>4. QED
    BY <1>4, <1>5, <2>3
<1>10. CASE Publish(r)
  <2>1. Usable(r) \subseteq Messages
    BY <1>1 DEF Usable, RunsTyped
  <2>2. Members(Usable(r)) \subseteq Groups \X Phones
    BY <2>1, BulkRemovalAssumption DEF Members
  <2>3. handed' \subseteq Messages \X Origin
    BY <1>1, <1>10, <2>1 DEF Publish, EffectsTyped
  <2>4. kicked' \subseteq Groups \X Phones
    BY <1>1, <1>10, <2>2 DEF Publish, EffectsTyped
  <2>5. EffectsTyped' /\ RunsTyped' /\ PoliciesTyped'
    BY <1>1, <1>3, <1>10, <2>3, <2>4
    DEF Publish, policies, EffectsTyped, RunsTyped, PoliciesTyped
  <2>6. QED
    BY <1>4, <1>5, <2>5
<1>11. QED
  BY <1>6, <1>7, <1>8, <1>9, <1>10 DEF Run, ByPhone

LEMMA DeleteTyped ==
    ASSUME BulkTypeOK, NEW m \in Messages, NEW origin \in Origin, DeleteMessage(m, origin)
    PROVE  BulkTypeOK'
<1>1. deleted' \subseteq Messages /\ removed' \subseteq deleted'
  BY DEF DeleteMessage, Deletes, BulkTypeOK
<1>2. mishaps' \in 0..MaxMishaps
  BY MishapTyped DEF DeleteMessage, BulkTypeOK
<1>3. QED
  BY <1>1, <1>2 DEF DeleteMessage, BulkTypeOK, policies, runs

LEMMA TypeStep == BulkTypeOK /\ [Next]_vars => BulkTypeOK'
<1> SUFFICES ASSUME BulkTypeOK, [Next]_vars PROVE BulkTypeOK'
  OBVIOUS
<1>1. CASE Midnight
  BY <1>1 DEF Midnight, BulkTypeOK, policies, runs, effects
<1>2. CASE UNCHANGED vars
  BY <1>2 DEF vars, BulkTypeOK, policies, runs, effects
<1>3. QED
  BY <1>1, <1>2, PolicyStepsTyped, MessageStepsTyped, RunStepsTyped, DeleteTyped
  DEF Next, Runs

\* The policies, the messages, the runs and their effects stay well-typed, for any
\* number of messages, operators and sweeps.
THEOREM BulkTypeCorrect == Spec => []BulkTypeOK
  BY TypeInit, TypeStep, PTL DEF Spec

-----------------------------------------------------------------------------
(* ProtectedStay.  A standing policy stays in force; so a message it covers is *)
(* turned aside when the enforcement reads the bypasses, and is among those    *)
(* that a run spares when it fetches it.                                       *)

Covered(m) == \E p \in Standing : Covers(p, m)

Aside == {"absent", "stored", "exempt", "threw"}

StandingInForce == Standing \subseteq InForce
CoveredAreAside == \A m \in Messages : Covered(m) => at[m] \in Aside
CoveredAreSpared ==
    \A r \in Runs : \A m \in found[r] : Covered(m) => m \in spared[r]

ProtectedInv ==
    BulkTypeOK /\ StandingInForce /\ CoveredAreAside /\ CoveredAreSpared /\ ProtectedStay

\* No step takes a standing policy out of force.
LEMMA StandingStays ==
    ASSUME BulkTypeOK, StandingInForce, [Next]_vars
    PROVE  StandingInForce'
<1>0. Standing \subseteq rows /\ Standing \cap expired = {}
  BY DEF StandingInForce, InForce
<1>1. SUFFICES Standing \subseteq rows' /\ Standing \cap expired' = {}
  BY DEF StandingInForce, InForce
<1>2. ASSUME NEW p \in Addable, Add(p) PROVE <1>1!1
  BY <1>0, <1>2, AddedGrows DEF Add
<1>3. ASSUME NEW p \in Withdrawable, Remove(p) PROVE <1>1!1
  BY <1>0, <1>3 DEF Remove, Standing
<1>4. ASSUME NEW p \in rows, Expire(p) PROVE <1>1!1
  BY <1>0, <1>4 DEF Expire, Standing
<1>5. ASSUME NEW m \in Messages, Store(m) \/ Judge(m) \/ JudgeFails(m) PROVE <1>1!1
  BY <1>0, <1>5, AddedGrows
  DEF Store, Judge, JudgeFails, ReadBypass, ReadBlacklist, AutoAdd, EnqueueDelete, policies
<1>6. CASE Midnight
  BY <1>0, <1>6 DEF Midnight, policies
<1>7. ASSUME NEW o \in Operators, ByPhone(o) PROVE <1>1!1
  BY <1>0, <1>7, AddedGrows
  DEF ByPhone, PreviewAllowlist, CheckAllowlist, EnsureBlacklisted, policies
<1>8. ASSUME NEW r \in Runs, Run(r) \/ RunFails(r) PROVE <1>1!1
  BY <1>0, <1>8
  DEF Run, RunFails, PreviewCount, Confirm, Fetch, RecordAll, Publish, policies
<1>9. ASSUME NEW m \in Messages, NEW origin \in Origin, DeleteMessage(m, origin)
      PROVE  <1>1!1
  BY <1>0, <1>9 DEF DeleteMessage, policies
<1>10. CASE UNCHANGED vars
  BY <1>0, <1>10 DEF vars, policies
<1>11. QED
  BY <1>2, <1>3, <1>4, <1>5, <1>6, <1>7, <1>8, <1>9, <1>10 DEF Next

\* What a standing policy covers, the enforcement's test and the runs' tests see.
LEMMA CoveredBypassed ==
    ASSUME StandingInForce, NEW m \in Messages, Covered(m)
    PROVE  FindMatch("bypass", m) # {}
  BY DEF Covered, Covers, Standing, StandingInForce, FindMatch

LEMMA CoveredSpared ==
    ASSUME StandingInForce, NEW messages, NEW m \in messages, Covered(m)
    PROVE  m \in Spared(messages)
  BY DEF Covered, Covers, Standing, StandingInForce, Spared, Spares

\* The enforcement turns aside a message that is covered.
LEMMA AsideStays ==
    ASSUME BulkTypeOK, StandingInForce, CoveredAreAside, [Next]_vars
    PROVE  CoveredAreAside'
<1> SUFFICES ASSUME NEW m \in Messages, Covered(m) PROVE at'[m] \in Aside
  BY DEF CoveredAreAside, Covered, Covers, Standing
<1>0. at[m] \in Aside /\ at \in [Messages -> Place]
  BY DEF CoveredAreAside, BulkTypeOK
<1>1. ASSUME NEW p, Add(p) \/ Remove(p) \/ Expire(p) PROVE at'[m] \in Aside
  BY <1>0, <1>1 DEF Add, Remove, Expire
<1>2. ASSUME NEW x \in Messages, Store(x) PROVE at'[m] \in Aside
  BY <1>0, <1>2 DEF Store, Goes, Aside
<1>3. ASSUME NEW x \in Messages, JudgeFails(x) PROVE at'[m] \in Aside
  BY <1>0, <1>3 DEF JudgeFails, Goes, Aside
<1>4. ASSUME NEW x \in Messages, ReadBypass(x) PROVE at'[m] \in Aside
  <2>1. FindMatch("bypass", m) # {}
    BY CoveredBypassed
  <2>2. QED
    BY <1>0, <1>4, <2>1 DEF ReadBypass, Goes, Aside
<1>5. ASSUME NEW x \in Messages, ReadBlacklist(x) \/ AutoAdd(x) \/ EnqueueDelete(x)
      PROVE  at'[m] \in Aside
  <2>1. x # m
    BY <1>0, <1>5 DEF ReadBlacklist, AutoAdd, EnqueueDelete, Aside
  <2>2. QED
    BY <1>0, <1>5, <2>1 DEF ReadBlacklist, AutoAdd, EnqueueDelete, Goes
<1>6. CASE Midnight
  BY <1>0, <1>6 DEF Midnight
<1>7. ASSUME NEW o \in Operators, ByPhone(o) PROVE at'[m] \in Aside
  BY <1>0, <1>7 DEF ByPhone, PreviewAllowlist, CheckAllowlist, EnsureBlacklisted
<1>8. ASSUME NEW r \in Runs, Run(r) \/ RunFails(r) PROVE at'[m] \in Aside
  BY <1>0, <1>8
  DEF Run, RunFails, PreviewCount, Confirm, Fetch, RecordAll, Publish
<1>9. ASSUME NEW x \in Messages, NEW origin \in Origin, DeleteMessage(x, origin)
      PROVE  at'[m] \in Aside
  BY <1>0, <1>9 DEF DeleteMessage
<1>10. CASE UNCHANGED vars
  BY <1>0, <1>10 DEF vars
<1>11. QED
  BY <1>1, <1>2, <1>3, <1>4, <1>5, <1>6, <1>7, <1>8, <1>9, <1>10 DEF Next, Judge

\* A run spares what is covered, when it fetches it.
LEMMA SparedStays ==
    ASSUME BulkTypeOK, StandingInForce, CoveredAreSpared, [Next]_vars
    PROVE  CoveredAreSpared'
<1>1. ASSUME UNCHANGED <<found, spared>> PROVE CoveredAreSpared'
  BY <1>1 DEF CoveredAreSpared, Covered, Covers, Standing
<1>2. ASSUME NEW r \in Runs, Fetch(r) PROVE CoveredAreSpared'
  <2> SUFFICES ASSUME NEW q \in Runs, NEW m \in found'[q], Covered(m)
               PROVE  m \in spared'[q]
    BY DEF CoveredAreSpared, Covered, Covers, Standing
  <2>1. PICK some : /\ found' = [found EXCEPT ![r] = some]
                    /\ spared' = [spared EXCEPT ![r] = Spared(some)]
    BY <1>2 DEF Fetch
  <2>2. CASE q = r
    BY <2>1, <2>2, CoveredSpared DEF BulkTypeOK
  <2>3. CASE q # r
    BY <2>1, <2>3 DEF BulkTypeOK, CoveredAreSpared
  <2>4. QED
    BY <2>2, <2>3
<1>3. ASSUME NEW p, Add(p) \/ Remove(p) \/ Expire(p) PROVE CoveredAreSpared'
  BY <1>1, <1>3 DEF Add, Remove, Expire, runs
<1>4. ASSUME NEW m \in Messages, Store(m) \/ Judge(m) \/ JudgeFails(m)
      PROVE  CoveredAreSpared'
  BY <1>1, <1>4
  DEF Store, Judge, JudgeFails, ReadBypass, ReadBlacklist, AutoAdd, EnqueueDelete, runs
<1>5. CASE Midnight
  BY <1>1, <1>5 DEF Midnight, runs
<1>6. ASSUME NEW o \in Operators, ByPhone(o) PROVE CoveredAreSpared'
  BY <1>1, <1>6 DEF ByPhone, PreviewAllowlist, CheckAllowlist, EnsureBlacklisted
<1>7. ASSUME NEW r \in Runs, Run(r) \/ RunFails(r) PROVE CoveredAreSpared'
  BY <1>1, <1>2, <1>7 DEF Run, RunFails, PreviewCount, Confirm, RecordAll, Publish
<1>8. ASSUME NEW m \in Messages, NEW origin \in Origin, DeleteMessage(m, origin)
      PROVE  CoveredAreSpared'
  BY <1>1, <1>8 DEF DeleteMessage, runs
<1>9. CASE UNCHANGED vars
  BY <1>1, <1>9 DEF vars, runs
<1>10. QED
  BY <1>3, <1>4, <1>5, <1>6, <1>7, <1>8, <1>9 DEF Next

LEMMA UsableUncovered ==
    ASSUME CoveredAreSpared, NEW r \in Runs
    PROVE  \A m \in Usable(r) : ~Covered(m)
  BY DEF CoveredAreSpared, Usable

\* Those a policy of every group covers are no members of what a run removes.
LEMMA MembersUncovered ==
    ASSUME NEW messages, \A m \in messages : ~Covered(m),
           NEW p \in Standing, p.group = Everywhere, NEW g
    PROVE  <<g, p.phone>> \notin Members(messages)
<1> SUFFICES ASSUME <<g, p.phone>> \in Members(messages) PROVE FALSE
  OBVIOUS
<1>1. PICK m \in messages : PhoneOf[m] # None /\ <<g, p.phone>> = <<GroupOf[m], PhoneOf[m]>>
  BY DEF Members
<1>2. Covers(p, m)
  BY <1>1 DEF Covers
<1>3. QED
  BY <1>2 DEF Covered

NoneHanded ==
    \A m \in Messages : Covered(m) => \A origin \in Origin : <<m, origin>> \notin handed
NoneKicked ==
    \A p \in Standing, g \in Groups : p.group = Everywhere => <<g, p.phone>> \notin kicked

LEMMA ProtectedParts == ProtectedStay <=> NoneHanded /\ NoneKicked
  BY DEF ProtectedStay, NoneHanded, NoneKicked, Covered

LEMMA ProtectedPartsAfter == ProtectedStay' <=> NoneHanded' /\ NoneKicked'
  BY DEF ProtectedStay, NoneHanded, NoneKicked, Covered

\* Only the enforcement and Publish hand anything over.
LEMMA ProtectedStays ==
    ASSUME BulkTypeOK, CoveredAreAside, CoveredAreSpared, ProtectedStay, [Next]_vars
    PROVE  ProtectedStay'
<1>0. NoneHanded /\ NoneKicked
  BY ProtectedParts
<1>1. ASSUME UNCHANGED <<handed, kicked>> PROVE ProtectedStay'
  <2>1. NoneHanded' /\ NoneKicked'
    BY <1>0, <1>1 DEF NoneHanded, NoneKicked, Covered, Covers, Standing
  <2>2. QED
    BY <2>1, ProtectedPartsAfter
<1>2. ASSUME NEW x \in Messages, EnqueueDelete(x) PROVE ProtectedStay'
  <2>1. ~Covered(x)
    BY <1>2 DEF CoveredAreAside, Aside, EnqueueDelete
  <2>2. handed' = handed \cup {<<x, "enforcement">>} /\ kicked' = kicked
    BY <1>2 DEF EnqueueDelete
  <2>3. NoneHanded'
    BY <1>0, <2>1, <2>2 DEF NoneHanded, Covered, Covers, Standing
  <2>4. NoneKicked'
    BY <1>0, <2>2 DEF NoneKicked, Standing
  <2>5. QED
    BY <2>3, <2>4, ProtectedPartsAfter
<1>3. ASSUME NEW r \in Runs, Publish(r) PROVE ProtectedStay'
  <2>1. \A m \in Usable(r) : ~Covered(m)
    BY UsableUncovered
  <2>2. /\ handed' \subseteq handed \cup (Usable(r) \X {"bulk"})
        /\ kicked' \subseteq kicked \cup Members(Usable(r))
    BY <1>3 DEF Publish
  <2>3. NoneHanded'
    BY <1>0, <2>1, <2>2 DEF NoneHanded, Covered, Covers, Standing
  <2>4. \A p \in Standing, g \in Groups :
            p.group = Everywhere => <<g, p.phone>> \notin Members(Usable(r))
    BY <2>1, MembersUncovered
  <2>5. NoneKicked'
    BY <1>0, <2>2, <2>4 DEF NoneKicked, Standing
  <2>6. QED
    BY <2>3, <2>5, ProtectedPartsAfter
<1>4. ASSUME NEW p, Add(p) \/ Remove(p) \/ Expire(p) PROVE ProtectedStay'
  BY <1>1, <1>4 DEF Add, Remove, Expire, effects
<1>5. ASSUME NEW m \in Messages, Store(m) \/ Judge(m) \/ JudgeFails(m)
      PROVE  ProtectedStay'
  BY <1>1, <1>2, <1>5 DEF Store, Judge, JudgeFails, ReadBypass, ReadBlacklist, AutoAdd, effects
<1>6. CASE Midnight
  BY <1>1, <1>6 DEF Midnight, effects
<1>7. ASSUME NEW o \in Operators, ByPhone(o) PROVE ProtectedStay'
  BY <1>1, <1>7 DEF ByPhone, PreviewAllowlist, CheckAllowlist, EnsureBlacklisted, effects
<1>8. ASSUME NEW r \in Runs, Run(r) \/ RunFails(r) PROVE ProtectedStay'
  BY <1>1, <1>3, <1>8 DEF Run, RunFails, PreviewCount, Confirm, Fetch, RecordAll, effects
<1>9. ASSUME NEW m \in Messages, NEW origin \in Origin, DeleteMessage(m, origin)
      PROVE  ProtectedStay'
  BY <1>1, <1>9 DEF DeleteMessage
<1>10. CASE UNCHANGED vars
  BY <1>1, <1>10 DEF vars, effects
<1>11. QED
  BY <1>4, <1>5, <1>6, <1>7, <1>8, <1>9, <1>10 DEF Next

LEMMA ProtectedInit == Init => ProtectedInv
<1> SUFFICES ASSUME Init PROVE ProtectedInv
  OBVIOUS
<1>1. BulkTypeOK
  BY TypeInit
<1>2. StandingInForce
  BY DEF Init, StandingInForce, InForce, Standing
<1>3. CoveredAreAside /\ CoveredAreSpared
  BY DEF Init, CoveredAreAside, Aside, CoveredAreSpared
<1>4. NoneHanded /\ NoneKicked
  BY DEF Init, NoneHanded, NoneKicked
<1>5. QED
  BY <1>1, <1>2, <1>3, <1>4, ProtectedParts DEF ProtectedInv

LEMMA ProtectedStep == ProtectedInv /\ [Next]_vars => ProtectedInv'
<1> SUFFICES ASSUME ProtectedInv, [Next]_vars PROVE ProtectedInv'
  OBVIOUS
<1>1. BulkTypeOK'
  BY TypeStep DEF ProtectedInv
<1>2. StandingInForce' /\ CoveredAreAside' /\ CoveredAreSpared' /\ ProtectedStay'
  BY StandingStays, AsideStays, SparedStays, ProtectedStays DEF ProtectedInv
<1>3. QED
  BY <1>1, <1>2 DEF ProtectedInv

\* Whatever administrators, operators, sweeps and messages do, in any order, what
\* a standing bypass policy covers is never handed over for removal, nor the
\* phone it covers everywhere kicked.
THEOREM ProtectedForEver == Spec => []ProtectedStay
  BY ProtectedInit, ProtectedStep, PTL DEF Spec, ProtectedInv

-----------------------------------------------------------------------------
(* NoneSlipsThrough.  From the moment remove-by-phone has blacklisted its      *)
(* target, a listing that nobody may withdraw is there.  So a listing for good *)
(* was there all along (a second one would conflict), the enforcement lets no  *)
(* message of the phone pass, and those it did let pass are there to be        *)
(* fetched.                                                                    *)

Late == {"fetch", "record", "publish", "done"}

Lasting(phone) == \A p \in Withdrawable : ~Lists(p, phone)

ExpiredExpire == \A p \in expired : p.expires

TargetListed ==
    \A o \in Operators :
        step[o] \in Late /\ Lasting(Target[o]) => \E p \in rows : Lists(p, Target[o])

Slipped(o, m) == Steady(Target[o]) /\ InReach(o, m) /\ at[m] = "passed"

Settled(o, m) == m \in removed \cup spared[o] \/ <<m, "bulk">> \in handed

Caught ==
    \A o \in Operators \ Limited, m \in Messages :
        Slipped(o, m) =>
            /\ step[o] \in {"record", "publish"} => m \in found[o] \cup removed
            /\ step[o] = "done" => Settled(o, m)

SlipInv == BulkTypeOK /\ ExpiredExpire /\ TargetListed /\ Caught

OnlyFresh == \A q \in rows' : q \in rows \/ ~Conflicts(q)
OnlyWithdrawn == \A q \in rows : q \in rows' \/ q \in Withdrawable

\* A row that is new conflicts with none, and only a withdrawable one goes.
LEMMA RowsChange == ASSUME [Next]_vars PROVE OnlyFresh /\ OnlyWithdrawn
<1>1. ASSUME UNCHANGED rows PROVE OnlyFresh /\ OnlyWithdrawn
  BY <1>1 DEF OnlyFresh, OnlyWithdrawn
<1>2. ASSUME NEW p, rows' = Added(p) PROVE OnlyFresh /\ OnlyWithdrawn
  <2>1. CASE Conflicts(p)
    BY <1>1, <1>2, <2>1 DEF Added
  <2>2. CASE ~Conflicts(p)
    BY <1>2, <2>2 DEF Added, OnlyFresh, OnlyWithdrawn
  <2>3. QED
    BY <2>1, <2>2
<1>3. ASSUME NEW p \in Addable, Add(p) PROVE OnlyFresh /\ OnlyWithdrawn
  BY <1>2, <1>3 DEF Add
<1>4. ASSUME NEW p \in Withdrawable, Remove(p) PROVE OnlyFresh /\ OnlyWithdrawn
  BY <1>4 DEF Remove, OnlyFresh, OnlyWithdrawn
<1>5. ASSUME NEW p \in rows, Expire(p) PROVE OnlyFresh /\ OnlyWithdrawn
  BY <1>1, <1>5 DEF Expire
<1>6. ASSUME NEW m \in Messages, Store(m) \/ Judge(m) \/ JudgeFails(m)
      PROVE  OnlyFresh /\ OnlyWithdrawn
  BY <1>1, <1>2, <1>6
  DEF Store, Judge, JudgeFails, ReadBypass, ReadBlacklist, AutoAdd, EnqueueDelete, policies
<1>7. ASSUME Midnight PROVE OnlyFresh /\ OnlyWithdrawn
  BY <1>1, <1>7 DEF Midnight, policies
<1>8. ASSUME NEW o \in Operators, ByPhone(o) PROVE OnlyFresh /\ OnlyWithdrawn
  BY <1>1, <1>2, <1>8
  DEF ByPhone, PreviewAllowlist, CheckAllowlist, EnsureBlacklisted, policies
<1>9. ASSUME NEW r \in Runs, Run(r) \/ RunFails(r) PROVE OnlyFresh /\ OnlyWithdrawn
  BY <1>1, <1>9
  DEF Run, RunFails, PreviewCount, Confirm, Fetch, RecordAll, Publish, policies
<1>10. ASSUME NEW m \in Messages, NEW origin \in Origin, DeleteMessage(m, origin)
       PROVE  OnlyFresh /\ OnlyWithdrawn
  BY <1>1, <1>10 DEF DeleteMessage, policies
<1>11. ASSUME UNCHANGED vars PROVE OnlyFresh /\ OnlyWithdrawn
  BY <1>1, <1>11 DEF vars, policies
<1>12. QED
  BY <1>3, <1>4, <1>5, <1>6, <1>7, <1>8, <1>9, <1>10, <1>11 DEF Next

\* Two listings of one phone conflict.
LEMMA ListingsConflict ==
    ASSUME NEW o \in Operators, NEW p \in rows, Lists(p, Target[o]),
           NEW q, Lists(q, Target[o])
    PROVE  Conflicts(q)
<1>1. Target[o] # None
  BY BulkRemovalAssumption
<1>2. QED
  BY <1>1 DEF Lists, Conflicts

\* So a phone that is listed for good, and was listed, was listed for good.
LEMMA SteadyBefore ==
    ASSUME TargetListed, [Next]_vars, NEW o \in Operators, step[o] \in Late,
           Steady(Target[o])'
    PROVE  Steady(Target[o])
<1>1. Lasting(Target[o])
  BY DEF Steady, Lasting, Lists
<1>2. PICK p \in rows : Lists(p, Target[o])
  BY <1>1 DEF TargetListed
<1>3. PICK q \in rows' : Lists(q, Target[o]) /\ ~q.expires
  BY DEF Steady, Lists
<1>4. q \in rows
  BY <1>2, <1>3, RowsChange, ListingsConflict DEF OnlyFresh
<1>5. QED
  BY <1>1, <1>3, <1>4 DEF Steady, Lasting

LEMMA ExpiredStays ==
    ASSUME ExpiredExpire, [Next]_vars
    PROVE  ExpiredExpire'
<1>1. ASSUME UNCHANGED expired PROVE ExpiredExpire'
  BY <1>1 DEF ExpiredExpire
<1>2. ASSUME NEW p, Add(p) \/ Remove(p) \/ Expire(p) PROVE ExpiredExpire'
  BY <1>2 DEF Add, Remove, Expire, ExpiredExpire
<1>3. ASSUME NEW m \in Messages, Store(m) \/ Judge(m) \/ JudgeFails(m)
      PROVE  ExpiredExpire'
  BY <1>1, <1>3
  DEF Store, Judge, JudgeFails, ReadBypass, ReadBlacklist, AutoAdd, EnqueueDelete, policies
<1>4. ASSUME Midnight PROVE ExpiredExpire'
  BY <1>1, <1>4 DEF Midnight, policies
<1>5. ASSUME NEW o \in Operators, ByPhone(o) PROVE ExpiredExpire'
  BY <1>1, <1>5
  DEF ByPhone, PreviewAllowlist, CheckAllowlist, EnsureBlacklisted, policies
<1>6. ASSUME NEW r \in Runs, Run(r) \/ RunFails(r) PROVE ExpiredExpire'
  BY <1>1, <1>6
  DEF Run, RunFails, PreviewCount, Confirm, Fetch, RecordAll, Publish, policies
<1>7. ASSUME NEW m \in Messages, NEW origin \in Origin, DeleteMessage(m, origin)
      PROVE  ExpiredExpire'
  BY <1>1, <1>7 DEF DeleteMessage, policies
<1>8. ASSUME UNCHANGED vars PROVE ExpiredExpire'
  BY <1>1, <1>8 DEF vars, policies
<1>9. QED
  BY <1>2, <1>3, <1>4, <1>5, <1>6, <1>7, <1>8 DEF Next

\* The fetch comes after the blacklisting.
LEMMA LateAfterAdd ==
    ASSUME BulkTypeOK, [Next]_vars, NEW o \in Operators, step'[o] \in Late,
           step[o] \notin Late
    PROVE  EnsureBlacklisted(o) /\ step'[o] = "fetch"
<1>0. o \in Runs /\ step \in [Runs -> Step] /\ o \notin Sweeps
  BY BulkRemovalAssumption DEF Runs, BulkTypeOK
<1>1. ASSUME UNCHANGED step PROVE FALSE
  BY <1>1
<1>2. ASSUME NEW p, Add(p) \/ Remove(p) \/ Expire(p) PROVE FALSE
  BY <1>1, <1>2 DEF Add, Remove, Expire, runs
<1>3. ASSUME NEW m \in Messages, Store(m) \/ Judge(m) \/ JudgeFails(m) PROVE FALSE
  BY <1>1, <1>3
  DEF Store, Judge, JudgeFails, ReadBypass, ReadBlacklist, AutoAdd, EnqueueDelete, runs
<1>4. ASSUME Midnight PROVE FALSE
  BY <1>1, <1>4 DEF Midnight, runs
<1>5. ASSUME NEW q \in Operators, ByPhone(q)
      PROVE  EnsureBlacklisted(o) /\ step'[o] = "fetch"
  <2>1. q = o
    BY <1>0, <1>5
    DEF ByPhone, PreviewAllowlist, CheckAllowlist, EnsureBlacklisted, Moves
  <2>2. QED
    BY <1>0, <1>5, <2>1
    DEF ByPhone, PreviewAllowlist, CheckAllowlist, EnsureBlacklisted, Moves, Late, After
<1>6. ASSUME NEW r \in Runs, RunFails(r) PROVE FALSE
  BY <1>0, <1>6 DEF RunFails, Moves, Late
<1>7. ASSUME NEW r \in Runs, PreviewCount(r) PROVE FALSE
  BY <1>0, <1>7 DEF PreviewCount, Moves, Late
<1>8. ASSUME NEW r \in Runs, Confirm(r) PROVE FALSE
  BY <1>0, <1>8 DEF Confirm, Answers, Begin, Moves, Late
<1>9. ASSUME NEW r \in Runs, Fetch(r) \/ RecordAll(r) \/ Publish(r) PROVE FALSE
  <2>1. r = o
    BY <1>0, <1>9 DEF Fetch, RecordAll, Publish, Moves
  <2>2. QED
    BY <1>9, <2>1 DEF Fetch, RecordAll, Publish, Late
<1>10. ASSUME NEW m \in Messages, NEW origin \in Origin, DeleteMessage(m, origin)
       PROVE  FALSE
  BY <1>1, <1>10 DEF DeleteMessage, runs
<1>11. ASSUME UNCHANGED vars PROVE FALSE
  BY <1>1, <1>11 DEF vars, runs
<1>12. QED
  BY <1>2, <1>3, <1>4, <1>5, <1>6, <1>7, <1>8, <1>9, <1>10, <1>11 DEF Next, Run

LEMMA Blacklists ==
    ASSUME NEW o \in Operators, EnsureBlacklisted(o)
    PROVE  \E p \in rows' : Lists(p, Target[o])
<1>1. rows' = Added(ManualRow(Target[o]))
  BY DEF EnsureBlacklisted
<1>2. CASE Conflicts(ManualRow(Target[o]))
  <2>1. PICK p \in rows : p.kind = "blacklist" /\ p.group = Everywhere
                          /\ p.phone = Target[o]
    BY <1>2 DEF Conflicts, ManualRow
  <2>2. QED
    BY <1>1, <1>2, <2>1 DEF Added, Lists
<1>3. CASE ~Conflicts(ManualRow(Target[o]))
  <2>1. ManualRow(Target[o]) \in rows'
    BY <1>1, <1>3 DEF Added
  <2>2. Lists(ManualRow(Target[o]), Target[o])
    BY DEF ManualRow, Lists
  <2>3. QED
    BY <2>1, <2>2
<1>4. QED
  BY <1>2, <1>3

LEMMA TargetStays ==
    ASSUME BulkTypeOK, TargetListed, [Next]_vars
    PROVE  TargetListed'
<1> SUFFICES ASSUME NEW o \in Operators, step'[o] \in Late, Lasting(Target[o])
             PROVE  \E p \in rows' : Lists(p, Target[o])
  BY DEF TargetListed, Lasting, Lists
<1>1. CASE step[o] \in Late
  <2>1. PICK p \in rows : Lists(p, Target[o])
    BY <1>1 DEF TargetListed
  <2>2. p \in rows'
    BY <2>1, RowsChange DEF OnlyWithdrawn, Lasting
  <2>3. QED
    BY <2>1, <2>2
<1>2. CASE step[o] \notin Late
  BY <1>2, LateAfterAdd, Blacklists
<1>3. QED
  BY <1>1, <1>2

\* What is removed, handed over, or of a day that is over remains so.
LEMMA Grows ==
    ASSUME [Next]_vars
    PROVE  old \subseteq old' /\ removed \subseteq removed' /\ handed \subseteq handed'
<1> DEFINE Growing ==
        old \subseteq old' /\ removed \subseteq removed' /\ handed \subseteq handed'
<1>1. ASSUME NEW p, Add(p) \/ Remove(p) \/ Expire(p) PROVE Growing
  BY <1>1 DEF Add, Remove, Expire, effects
<1>2. ASSUME NEW m \in Messages, Store(m) \/ Judge(m) \/ JudgeFails(m) PROVE Growing
  BY <1>2
  DEF Store, Judge, JudgeFails, ReadBypass, ReadBlacklist, AutoAdd, EnqueueDelete, effects
<1>3. ASSUME Midnight PROVE Growing
  BY <1>3 DEF Midnight, effects
<1>4. ASSUME NEW o \in Operators, ByPhone(o) PROVE Growing
  BY <1>4 DEF ByPhone, PreviewAllowlist, CheckAllowlist, EnsureBlacklisted, effects
<1>5. ASSUME NEW r \in Runs, Run(r) \/ RunFails(r) PROVE Growing
  BY <1>5 DEF Run, RunFails, PreviewCount, Confirm, Fetch, RecordAll, Publish, effects
<1>6. ASSUME NEW m \in Messages, NEW origin \in Origin, DeleteMessage(m, origin)
      PROVE  Growing
  BY <1>6 DEF DeleteMessage
<1>7. ASSUME UNCHANGED vars PROVE Growing
  BY <1>7 DEF vars, effects
<1>8. QED
  BY <1>1, <1>2, <1>3, <1>4, <1>5, <1>6, <1>7 DEF Next

\* The enforcement lets no message of a phone pass that is listed for good.
LEMMA NonePasses ==
    ASSUME BulkTypeOK, ExpiredExpire, [Next]_vars, NEW o \in Operators,
           NEW m \in Messages, Steady(Target[o]), PhoneOf[m] = Target[o],
           at'[m] = "passed"
    PROVE  at[m] = "passed"
<1>0. at \in [Messages -> Place]
  BY DEF BulkTypeOK
<1>1. FindMatch("blacklist", m) # {}
  <2>1. PICK p \in rows : Lists(p, Target[o]) /\ ~p.expires
    BY DEF Steady, Lists
  <2>2. p \in InForce
    BY <2>1 DEF InForce, ExpiredExpire
  <2>3. PhoneOf[m] # None
    BY BulkRemovalAssumption
  <2>4. QED
    BY <2>1, <2>2, <2>3 DEF Lists, FindMatch
<1>2. ASSUME UNCHANGED at PROVE at[m] = "passed"
  BY <1>2
<1>3. ASSUME NEW p, Add(p) \/ Remove(p) \/ Expire(p) PROVE at[m] = "passed"
  BY <1>2, <1>3 DEF Add, Remove, Expire
<1>4. ASSUME NEW x \in Messages, ReadBlacklist(x) PROVE at[m] = "passed"
  BY <1>0, <1>1, <1>4 DEF ReadBlacklist, Goes, ToRemove
<1>5. ASSUME NEW x \in Messages,
             Store(x) \/ JudgeFails(x) \/ ReadBypass(x) \/ AutoAdd(x) \/ EnqueueDelete(x)
      PROVE  at[m] = "passed"
  BY <1>0, <1>5 DEF Store, JudgeFails, ReadBypass, AutoAdd, EnqueueDelete, Goes, ToRemove
<1>6. ASSUME Midnight PROVE at[m] = "passed"
  BY <1>2, <1>6 DEF Midnight
<1>7. ASSUME NEW q \in Operators, ByPhone(q) PROVE at[m] = "passed"
  BY <1>2, <1>7 DEF ByPhone, PreviewAllowlist, CheckAllowlist, EnsureBlacklisted
<1>8. ASSUME NEW r \in Runs, Run(r) \/ RunFails(r) PROVE at[m] = "passed"
  BY <1>2, <1>8 DEF Run, RunFails, PreviewCount, Confirm, Fetch, RecordAll, Publish
<1>9. ASSUME NEW x \in Messages, NEW origin \in Origin, DeleteMessage(x, origin)
      PROVE  at[m] = "passed"
  BY <1>2, <1>9 DEF DeleteMessage
<1>10. ASSUME UNCHANGED vars PROVE at[m] = "passed"
  BY <1>2, <1>10 DEF vars
<1>11. QED
  BY <1>3, <1>4, <1>5, <1>6, <1>7, <1>8, <1>9, <1>10 DEF Next, Judge

\* How a run can come to a step after the fetch.
Idle(o) == step'[o] = step[o] /\ found'[o] = found[o] /\ spared'[o] = spared[o]

LEMMA RunMoves ==
    ASSUME BulkTypeOK, [Next]_vars, NEW o \in Operators,
           step'[o] \in {"record", "publish", "done"}
    PROVE  Fetch(o) \/ RecordAll(o) \/ Publish(o) \/ Idle(o)
<1>0. /\ o \in Runs /\ step \in [Runs -> Step]
      /\ found \in [Runs -> SUBSET Messages] /\ spared \in [Runs -> SUBSET Messages]
  BY DEF Runs, BulkTypeOK
<1>1. ASSUME UNCHANGED runs PROVE Idle(o)
  BY <1>1 DEF runs, Idle
<1>2. ASSUME NEW p, Add(p) \/ Remove(p) \/ Expire(p) PROVE Idle(o)
  BY <1>1, <1>2 DEF Add, Remove, Expire
<1>3. ASSUME NEW m \in Messages, Store(m) \/ Judge(m) \/ JudgeFails(m) PROVE Idle(o)
  BY <1>1, <1>3
  DEF Store, Judge, JudgeFails, ReadBypass, ReadBlacklist, AutoAdd, EnqueueDelete
<1>4. ASSUME Midnight PROVE Idle(o)
  BY <1>1, <1>4 DEF Midnight
<1>5. ASSUME NEW q \in Operators, PreviewAllowlist(q) \/ CheckAllowlist(q) PROVE Idle(o)
  BY <1>0, <1>5 DEF PreviewAllowlist, CheckAllowlist, Moves, After, Idle
<1>6. ASSUME NEW q \in Operators, EnsureBlacklisted(q) PROVE Idle(o)
  BY <1>0, <1>6 DEF EnsureBlacklisted, Moves, After, Idle
<1>7. ASSUME NEW r \in Runs, PreviewCount(r) \/ RunFails(r) PROVE Idle(o)
  BY <1>0, <1>7 DEF PreviewCount, RunFails, Moves, Idle
<1>8. ASSUME NEW r \in Runs, Confirm(r) PROVE Idle(o)
  BY <1>0, <1>8 DEF Confirm, Answers, Begin, Moves, Idle
<1>9. ASSUME NEW r \in Runs, r # o, Fetch(r) PROVE Idle(o)
  BY <1>0, <1>9 DEF Fetch, Moves, Idle
<1>10. ASSUME NEW r \in Runs, r # o, RecordAll(r) \/ Publish(r) PROVE Idle(o)
  BY <1>0, <1>10 DEF RecordAll, Publish, Moves, Idle
<1>11. ASSUME NEW m \in Messages, NEW origin \in Origin, DeleteMessage(m, origin)
       PROVE  Idle(o)
  BY <1>1, <1>11 DEF DeleteMessage
<1>12. ASSUME UNCHANGED vars PROVE Idle(o)
  BY <1>1, <1>12 DEF vars
<1>13. QED
  BY <1>2, <1>3, <1>4, <1>5, <1>6, <1>7, <1>8, <1>9, <1>10, <1>11, <1>12
  DEF Next, ByPhone, Run

LEMMA CaughtStays ==
    ASSUME BulkTypeOK, ExpiredExpire, TargetListed, Caught, [Next]_vars
    PROVE  Caught'
<1> SUFFICES ASSUME NEW o \in Operators \ Limited, NEW m \in Messages, Slipped(o, m)',
                    step'[o] \in {"record", "publish", "done"}
             PROVE  /\ step'[o] \in {"record", "publish"} => m \in found'[o] \cup removed'
                    /\ step'[o] = "done" => Settled(o, m)'
  BY DEF Caught
<1>1. step[o] \in Late
  BY LateAfterAdd DEF Late
<1>2. Steady(Target[o])
  BY <1>1, SteadyBefore DEF Slipped
<1>3. InReach(o, m)
  BY Grows DEF Slipped, InReach
<1>4. at[m] = "passed"
  BY <1>2, <1>3, NonePasses DEF Slipped, InReach
<1>5. /\ step[o] \in {"record", "publish"} => m \in found[o] \cup removed
      /\ step[o] = "done" => Settled(o, m)
  BY <1>2, <1>3, <1>4 DEF Caught, Slipped
<1>6. o \in Runs /\ o \notin Sweeps /\ step \in [Runs -> Step]
      /\ found \in [Runs -> SUBSET Messages]
  BY BulkRemovalAssumption DEF Runs, BulkTypeOK
<1>7. removed \subseteq removed' /\ handed \subseteq handed'
  BY Grows
<1>8. CASE Fetch(o)
  <2>1. PhoneOf[m] \in Similar[Target[o]]
    BY <1>3, BulkRemovalAssumption DEF InReach
  <2>2. m \notin removed => m \in Rows(o)
    BY <1>3, <1>4, <1>6, <2>1 DEF Rows, Wanted, InReach
  <2>3. found'[o] = Rows(o) /\ step'[o] = "record"
    BY <1>6, <1>8 DEF Fetch, Moves, After
  <2>4. QED
    BY <1>7, <2>2, <2>3
<1>9. CASE RecordAll(o)
  <2>1. step[o] = "record" /\ step'[o] = "publish" /\ found'[o] = found[o]
    BY <1>6, <1>9 DEF RecordAll, Moves, After
  <2>2. QED
    BY <1>5, <1>7, <2>1
<1>10. CASE Publish(o)
  <2>1. step[o] = "publish" /\ spared' = spared
    BY <1>10 DEF Publish
  <2>2. handed' = handed \cup (Usable(o) \X {"bulk"}) /\ step'[o] = "done"
    BY <1>6, <1>10 DEF Publish, Moves, After
  <2>3. m \in removed \/ m \in spared[o] \/ m \in Usable(o)
    BY <1>5, <2>1 DEF Usable
  <2>4. QED
    BY <1>7, <2>1, <2>2, <2>3 DEF Settled
<1>11. CASE Idle(o)
  BY <1>5, <1>7, <1>11 DEF Idle, Settled
<1>12. QED
  BY <1>8, <1>9, <1>10, <1>11, RunMoves

LEMMA SlipInit == Init => SlipInv
<1> SUFFICES ASSUME Init PROVE SlipInv
  OBVIOUS
<1>1. BulkTypeOK /\ ExpiredExpire
  BY TypeInit DEF Init, ExpiredExpire
<1>2. \A o \in Operators : step[o] = "new"
  BY DEF Init, Runs
<1>3. TargetListed /\ Caught
  BY <1>2 DEF TargetListed, Late, Caught
<1>4. QED
  BY <1>1, <1>3 DEF SlipInv

LEMMA SlipStep == SlipInv /\ [Next]_vars => SlipInv'
<1> SUFFICES ASSUME SlipInv, [Next]_vars PROVE SlipInv'
  OBVIOUS
<1>1. BulkTypeOK' /\ ExpiredExpire'
  BY TypeStep, ExpiredStays DEF SlipInv
<1>2. TargetListed' /\ Caught'
  BY TargetStays, CaughtStays DEF SlipInv
<1>3. QED
  BY <1>1, <1>2 DEF SlipInv

LEMMA SlipSafe == SlipInv => NoneSlipsThrough
  BY DEF SlipInv, Caught, Slipped, Settled, NoneSlipsThrough

\* However messages, operators and sweeps interleave, what the enforcement let
\* pass of a phone that is listed for good is removed, handed over or spared when
\* remove-by-phone is done.
THEOREM RemovalMissesNone == Spec => []NoneSlipsThrough
  BY SlipInit, SlipStep, SlipSafe, PTL DEF Spec

=============================================================================
