---------------------- MODULE RoutingAssessmentProofs ----------------------
(***************************************************************************)
(* Proofs about RoutingAssessment, for any set of procurements and any     *)
(* value of the bounds: types, the honesty of the recorded fingerprint,    *)
(* the accounting of claims in live and single mode, and the two action    *)
(* properties that follow from it.                                         *)
(***************************************************************************)
EXTENDS RoutingAssessment, TLAPS

-----------------------------------------------------------------------------
(* Types.                                                                  *)

(* The statements that touch one row keep the table well typed. *)
LEMMA PutType ==
    ASSUME row \in [Procs -> Row], NEW p \in Procs, NEW r \in Row, Put(p, r)
    PROVE  row' \in [Procs -> Row]
  BY DEF Put

LEMMA MarkType ==
    ASSUME NEW r \in Row, NEW st \in Statuses, NEW e \in Errors
    PROVE  Mark(r, st, e) \in Row
  <1>1. 0 \in 0..AgeCap
    BY TimeAssumption
  <1> QED BY <1>1 DEF Mark, Row

LEMMA SetAttempts ==
    ASSUME NEW r \in Row, NEW n \in Nat
    PROVE  [r EXCEPT !.attempts = n] \in Row
  BY DEF Row

(* A procurement has a text at every edit so far, the last of which is the  *)
(* current one.                                                             *)
LEMMA TextTypes ==
    ASSUME source \in [Procs -> Source], NEW p \in Procs
    PROVE  /\ Edits(p) \in Nat \ {0} /\ Current(p) \in Nat \ {0}
           /\ \A i \in 1..Edits(p) : Text(p, i) \in Nat \ {0}
  <1>1. source[p].texts \in Seq(Nat \ {0}) /\ source[p].texts # <<>>
    <2>1. source[p].texts \in Texts
      BY DEF Source
    <2> QED BY <2>1 DEF Texts
  <1>2. Len(source[p].texts) \in Nat /\ Len(source[p].texts) # 0
    BY <1>1
  <1>3. \A i \in 1..Len(source[p].texts) : source[p].texts[i] \in Nat \ {0}
    BY <1>1
  <1> QED BY <1>2, <1>3 DEF Edits, Text, Current

LEMMA SnapType ==
    ASSUME source \in [Procs -> Source], NEW p \in Procs,
           NEW shape \in Shapes, NEW e \in BOOLEAN
    PROVE  Snap(p, shape, e) \in Snapshot
  <1>1. source[p] \in Source /\ Current(p) \in Nat /\ Edits(p) \in Nat
    BY TextTypes
  <1> QED BY <1>1 DEF Snap, Snapshot, Source, Fingerprints

(* TypeOK constrains nothing but the values of the variables. *)
LEMMA TypeInit == Init => TypeOK
  <1> SUFFICES ASSUME Init PROVE TypeOK
    OBVIOUS
  <1>1. row \in [Procs -> Row]
    BY TimeAssumption DEF Init, Row, Statuses, Errors, NonRetryable, Fingerprints,
       NoFingerprint, Shapes
  <1>2. source \in [Procs -> Source]
    <2>1. source \in [Procs -> [texts : {<< 1 >>}, stage : Stages, endKnown : BOOLEAN,
                                 end : {1}, passed : {0}]]
      BY DEF Init
    <2>2. ASSUME NEW s \in [texts : {<< 1 >>}, stage : Stages, endKnown : BOOLEAN,
                            end : {1}, passed : {0}]
          PROVE  s \in Source
      <3>1. s = [texts |-> s.texts, stage |-> s.stage, endKnown |-> s.endKnown,
                 end |-> s.end, passed |-> s.passed]
        OBVIOUS
      <3>2. s.stage \in Stages /\ s.end \in Nat /\ s.passed \in Nat
        OBVIOUS
      <3>4. s.texts \in Texts
        <4>1. s.texts = << 1 >> /\ 1 \in Nat \ {0}
          OBVIOUS
        <4>2. << 1 >> \in Seq(Nat \ {0}) /\ << 1 >> # <<>>
          BY <4>1
        <4> QED BY <4>1, <4>2 DEF Texts
      <3>3. s.endKnown \in BOOLEAN
        BY Zenon
      <3> QED BY <3>1, <3>2, <3>3, <3>4, Zenon DEF Source
    <2> QED BY <2>1, <2>2
  <1>3. infer \in [Procs -> Provenance]
    BY DEF Init, Provenance
  <1> QED BY <1>1, <1>2, <1>3, CountAssumption DEF Init, TypeOK, Locations, InItem, Modes

(* Claiming, skipping, failing and parking a row. *)
LEMMA ClaimType == ASSUME TypeOK, NEW s \in batch, Claim(s) PROVE TypeOK'
  <1> DEFINE p == s.proc
             m == Mark(row[p], "RUNNING", "NONE")
             r == [m EXCEPT !.attempts = @ + 1]
  <1>1. s \in Snapshot /\ p \in Procs
    BY DEF TypeOK, Snapshot
  <1>a. m \in Row
    BY <1>1, MarkType DEF TypeOK, Statuses, Errors
  <1>2. r \in Row
    <2>1. m.attempts + 1 \in Nat
      BY <1>a DEF Row
    <2> QED BY <1>a, <2>1, SetAttempts
  <1>3. row' \in [Procs -> Row]
    BY <1>1, <1>2, PutType DEF Claim, TypeOK
  <1>4. item' \in Item
    BY <1>1 DEF Claim, Item
  <1> QED BY <1>3, <1>4 DEF Claim, TypeOK, Locations, InItem, env

LEMMA SkipType ==
    ASSUME TypeOK, pc # "idle", NEW p \in Procs, SkipWaiting(p) PROVE TypeOK'
  <1> DEFINE m == Mark(row[p], "UNASSESSED", "WAITING_NOT_ROUTABLE_SKIP")
             r == [m EXCEPT !.attempts = IF @ = 0 THEN 0 ELSE @ - 1]
  <1>a. m \in Row
    BY MarkType DEF TypeOK, Statuses, Errors
  <1>1. r \in Row
    <2>1. (IF m.attempts = 0 THEN 0 ELSE m.attempts - 1) \in Nat
      BY <1>a DEF Row
    <2> QED BY <1>a, <2>1, SetAttempts
  <1>2. row' \in [Procs -> Row]
    BY <1>1, PutType DEF SkipWaiting, TypeOK
  <1> QED BY <1>2 DEF SkipWaiting, Leave, TypeOK, Locations, InItem, env

LEMMA FailType ==
    ASSUME TypeOK, pc # "idle", NEW p \in Procs, Fail(p) PROVE TypeOK'
  <1>1. FailRow(p) \in Row
    BY MarkType DEF FailRow, TypeOK, Statuses, Errors, NonRetryable
  <1>2. row' \in [Procs -> Row]
    BY <1>1, PutType DEF Fail, TypeOK
  <1> QED BY <1>2 DEF Fail, Leave, TypeOK, Locations, InItem, env

LEMMA ReviewType ==
    ASSUME TypeOK, pc # "idle", NEW p \in Procs, NEW e \in Terminal, ToReview(p, e)
    PROVE  TypeOK'
  <1>1. Mark(row[p], "NEEDS_REVIEW", e) \in Row
    BY MarkType DEF TypeOK, Statuses, Errors, NonRetryable
  <1>2. row' \in [Procs -> Row]
    BY <1>1, PutType DEF ToReview, TypeOK
  <1> QED BY <1>2 DEF ToReview, Leave, TypeOK, Locations, InItem, env

(* The item in process_item is well formed. *)
LEMMA ItemType ==
    ASSUME TypeOK, pc \in InItem
    PROVE  item \in Item /\ item.snap \in Snapshot /\ item.snap.proc \in Procs
           /\ item.snap.fp \in Fingerprints /\ pc # "idle" /\ mode # "none"
  BY DEF TypeOK, Item, Snapshot, InItem

(* Every step inside process_item. *)
LEMMA ProcessType == ASSUME TypeOK, ProcessItem PROVE TypeOK'
  <1>1. CASE \E s \in batch : Claim(s)
    BY <1>1, ClaimType
  <1> SUFFICES ASSUME pc \in InItem, ~ \E s \in batch : Claim(s)
               PROVE  TypeOK'
    BY <1>1 DEF ProcessItem, GuardSkip, V3Disabled, FailBeforeInput, RuleDecides,
       PostEnrichSkip, Enrich, InferenceFails, InvalidCategory, InferenceSucceeds,
       ReadOverrides, Commit, Persist, Unexpected, Routable, InItem
  <1>0. /\ item \in Item /\ item.snap \in Snapshot /\ item.snap.proc \in Procs
        /\ item.snap.fp \in Fingerprints /\ pc # "idle" /\ mode # "none"
    BY ItemType
  <1>2. CASE GuardSkip
    BY <1>0, <1>2, SkipType DEF GuardSkip
  <1>3. CASE V3Disabled
    BY <1>0, <1>3, ReviewType DEF V3Disabled, Terminal
  <1>4. CASE FailBeforeInput
    BY <1>0, <1>4, FailType DEF FailBeforeInput
  <1>5. CASE RuleDecides
    <2>1. item' \in Item
      BY <1>0, <1>5 DEF RuleDecides, Item, Snapshot
    <2> QED BY <2>1, <1>5 DEF RuleDecides, TypeOK, Locations, InItem, env
  <1>6. CASE PostEnrichSkip
    BY <1>0, <1>6, SkipType DEF PostEnrichSkip
  <1>7. CASE Enrich
    <2>1. PICK e \in BOOLEAN : item' = [item EXCEPT !.got = Refresh(e).edit, !.v3 = TRUE]
      BY <1>7 DEF Enrich
    <2>2. Refresh(e).edit \in Nat
      BY <1>0, TextTypes DEF Refresh, TypeOK, Snapshot
    <2>3. item' \in Item
      BY <1>0, <2>1, <2>2 DEF Item
    <2> QED BY <2>3, <1>7 DEF Enrich, TypeOK, Locations, InItem, env
  <1>8. CASE InferenceFails
    BY <1>0, <1>8, FailType DEF InferenceFails
  <1>9. CASE InvalidCategory
    BY <1>0, <1>9, ReviewType DEF InvalidCategory, Terminal
  <1>10. CASE InferenceSucceeds
    BY <1>0, <1>10 DEF InferenceSucceeds, TypeOK, Locations, InItem, env
  <1>11. CASE ReadOverrides
    <2>0. (item.snap.proc \in ovr) \in BOOLEAN
      OBVIOUS
    <2>1. item' \in Item
      BY <1>0, <1>11, <2>0 DEF ReadOverrides, Item
    <2> QED BY <2>1, <1>11 DEF ReadOverrides, TypeOK, Locations, InItem, env
  <1>12. CASE Commit
    <2> DEFINE p == item.snap.proc
               m == Mark(row[p], "COMPLETED", row[p].err)
    <2>a. m \in Row
      <3>1. row[p] \in Row /\ row[p].err \in Errors
        BY <1>0 DEF TypeOK, Row
      <3> QED BY <3>1, MarkType DEF Statuses
    <2>1. CommittedRow(p) \in Row
      <3>1. item.seen \in BOOLEAN
        BY <1>0 DEF Item
      <3> HIDE DEF m
      <3> DEFINE done == [m EXCEPT !.fp = item.snap.fp, !.reassess = FALSE]
      <3>2. done \in Row
        BY <1>0, <2>a DEF Row
      <3> HIDE DEF done
      <3>3. [done EXCEPT !.manual = item.seen,
               !.qual = IF item.seen THEN "human" ELSE "model"] \in Row
        BY <3>1, <3>2 DEF Row
      <3> USE DEF m, done
      <3> QED BY <3>2, <3>3 DEF CommittedRow
    <2>2. row' \in [Procs -> Row]
      BY <1>0, <1>12, <2>1, PutType DEF Commit, TypeOK
    <2>3. infer' \in [Procs -> Provenance]
      <3>1. [snap |-> item.snap.edit, read |-> item.got] \in Provenance
        BY <1>0 DEF Item, Snapshot, Provenance
      <3> QED BY <1>0, <1>12, <3>1 DEF Commit, TypeOK
    <2> QED BY <1>0, <2>2, <2>3, <1>12 DEF Commit, Leave, TypeOK, Locations, InItem, env
  <1>13. CASE Persist
    BY <1>0, <1>13 DEF Persist, Leave, TypeOK, Locations, InItem, env
  <1>14. CASE Unexpected
    <2>1. Mark(row[item.snap.proc], "FAILED", Transient) \in Row
      BY <1>0, MarkType DEF TypeOK, Statuses, Errors
    <2>2. row' \in [Procs -> Row]
      BY <1>0, <1>14, <2>1, PutType DEF Unexpected, TypeOK
    <2> QED BY <1>0, <2>2, <1>14 DEF Unexpected, Leave, TypeOK, Locations, InItem, env
  <1> QED BY <1>2, <1>3, <1>4, <1>5, <1>6, <1>7, <1>8, <1>9, <1>10, <1>11,
             <1>12, <1>13, <1>14 DEF ProcessItem

(* The runner outside process_item, and everything that is not the runner. *)
LEMMA RunnerType == ASSUME TypeOK, StartLive \/ RunnerStep PROVE TypeOK'
  <1>1. CASE StartLive
    BY <1>1 DEF StartLive, Start, TypeOK, Locations, InItem, Modes, env
  <1>2. CASE Reclaim
    <2>1. ASSUME NEW p \in Procs PROVE row'[p] \in Row
      <3>1. row[p] \in Row
        BY DEF TypeOK
      <3>2. [row[p] EXCEPT !.status = "STALE",
               !.err = IF @ = "NONE" THEN "LEASE_EXPIRED" ELSE @] \in Row
        BY <3>1 DEF Row, Statuses, Errors
      <3> QED BY <1>2, <3>1, <3>2 DEF Reclaim
    <2>2. row' \in [Procs -> Row]
      BY <1>2, <2>1 DEF Reclaim
    <2> QED BY <1>2, <2>2 DEF Reclaim, TypeOK, Locations, InItem, env
  <1>3. CASE Fetch
    <2>1. \A P \in SUBSET Procs, shape \in Shapes : SnapAll(P, shape) \subseteq Snapshot
      <3> SUFFICES ASSUME NEW P \in SUBSET Procs, NEW shape \in Shapes, NEW p \in P
                   PROVE  Snap(p, shape, source[p].endKnown) \in Snapshot
        BY DEF SnapAll
      <3>1. source[p].endKnown \in BOOLEAN
        BY DEF TypeOK, Source
      <3> QED BY <3>1, SnapType DEF TypeOK
    <2>2. CASE FetchLive
      <3>1. PICK P \in SUBSET {p \in Procs : Allocatable(p)} : batch' = SnapAll(P, "live")
        BY <2>2 DEF FetchLive
      <3> QED BY <3>1, <2>1, <1>3 DEF Fetch, TypeOK, Locations, InItem, env, Shapes
    <2>3. CASE FetchSingle
      <3>1. PICK p \in Procs : batch' = SnapAll({q \in {p} : Selectable(q)}, "live")
        BY <2>3 DEF FetchSingle
      <3>2. {q \in {p} : Selectable(q)} \in SUBSET Procs
        OBVIOUS
      <3>3. batch' \subseteq Snapshot
        BY <3>1, <3>2, <2>1 DEF Shapes
      <3> QED BY <3>3, <1>3 DEF Fetch, TypeOK, Locations, InItem, env
    <2>4. CASE FetchGroup /\ mode = "group"
      <3>1. PICK P \in SUBSET SampleGroup : batch' = SnapAll(P, "group")
        BY <2>4 DEF FetchGroup
      <3>2. P \in SUBSET Procs
        BY GroupAssumption
      <3>3. batch' \subseteq Snapshot
        BY <3>1, <3>2, <2>1 DEF Shapes
      <3> QED BY <3>3, <1>3 DEF Fetch, TypeOK, Locations, InItem, env
    <2>5. CASE FetchForce
      <3>1. PICK p \in Procs, shape \in {"live", "force"}, e \in BOOLEAN :
               batch' = {Snap(p, shape, source[p].endKnown \/ e)}
        BY <2>5 DEF FetchForce
      <3>2. (source[p].endKnown \/ e) \in BOOLEAN
        OBVIOUS
      <3>3. Snap(p, shape, source[p].endKnown \/ e) \in Snapshot
        BY <3>2, SnapType DEF TypeOK, Shapes
      <3> QED BY <3>1, <3>3, <1>3 DEF Fetch, TypeOK, Locations, InItem, env
    <2> QED BY <1>3, <2>2, <2>3, <2>4, <2>5 DEF Fetch
  <1>4. CASE NextBatch
    BY <1>4 DEF NextBatch, TypeOK, Locations, InItem, env
  <1>5. CASE Finish
    BY <1>5 DEF Finish, TypeOK, Locations, InItem, env
  <1>6. CASE ProcessItem
    BY <1>6, ProcessType
  <1> QED BY <1>1, <1>2, <1>3, <1>4, <1>5, <1>6 DEF RunnerStep

LEMMA EnvironmentType == ASSUME TypeOK, Environment PROVE TypeOK'
  <1>1. ASSUME NEW e, Disturb(e) PROVE budget' \in Nat
    BY <1>1 DEF Disturb, TypeOK
  <1>2. CASE StartOperator
    BY <1>2, <1>1 DEF StartOperator, Start, TypeOK, Locations, InItem, Modes, env
  <1>3. CASE Crash
    BY <1>3, <1>1 DEF Crash, TypeOK, Locations, InItem, env
  <1>4. CASE Tick
    <2>1. ASSUME NEW p \in Procs PROVE row'[p] \in Row
      <3>1. row[p] \in Row /\ LowerOf(row[p].age + 1, AgeCap) \in 0..AgeCap
        BY TimeAssumption DEF TypeOK, Row, LowerOf
      <3>2. row'[p] = [row[p] EXCEPT !.age = LowerOf(row[p].age + 1, AgeCap)]
        BY <1>4 DEF Tick
      <3> QED BY <3>1, <3>2 DEF Row
    <2>2. row' \in [Procs -> Row]
      BY <1>4, <2>1 DEF Tick
    <2> QED BY <1>4, <2>2 DEF Tick, TypeOK, runner, env
  <1>5. ASSUME NEW p \in Procs,
               SourceEdit(p) \/ StageChange(p) \/ DeadlineChange(p)
        PROVE  TypeOK'
    <2>1. source' \in [Procs -> Source]
      <3>1. CASE SourceEdit(p)
        <4>1. PICK text \in 1..(Edits(p) + 1) :
                 source' = [source EXCEPT ![p].texts = Append(@, text)]
          BY <3>1 DEF SourceEdit
        <4>2. source[p] \in Source /\ text \in Nat \ {0}
          BY TextTypes DEF TypeOK
        <4>3. source[p].texts \in Seq(Nat \ {0})
          BY <4>2 DEF Source, Texts
        <4>4. Append(source[p].texts, text) \in Texts
          BY <4>2, <4>3 DEF Texts
        <4>5. [source[p] EXCEPT !.texts = Append(source[p].texts, text)] \in Source
          BY <4>2, <4>4 DEF Source
        <4>6. source' = [source EXCEPT
                 ![p] = [source[p] EXCEPT !.texts = Append(source[p].texts, text)]]
          BY <4>1
        <4> QED BY <4>5, <4>6 DEF TypeOK
      <3>2. CASE StageChange(p)
        BY <3>2 DEF StageChange, TypeOK, Source
      <3>3. CASE DeadlineChange(p)
        <4>1. source[p] \in Source
          BY DEF TypeOK
        <4>2. ASSUME NEW s \in Source
              PROVE  /\ [s EXCEPT !.passed = s.end] \in Source
                     /\ [s EXCEPT !.end = s.end + 1] \in Source
                     /\ [s EXCEPT !.endKnown = TRUE] \in Source
          <5>1. s.end \in Nat /\ s.end + 1 \in Nat
            BY DEF Source
          <5>2. TRUE \in BOOLEAN
            OBVIOUS
          <5> QED BY <5>1, <5>2 DEF Source
        <4>3. /\ [source[p] EXCEPT !.passed = source[p].end] \in Source
              /\ [source[p] EXCEPT !.end = source[p].end + 1] \in Source
              /\ [source[p] EXCEPT !.endKnown = TRUE] \in Source
          BY <4>1, <4>2, Zenon
        <4>4. \E s \in Source : source' = [source EXCEPT ![p] = s]
          BY <3>3, <4>3, Zenon DEF DeadlineChange
        <4> QED BY <4>4 DEF TypeOK
      <3> QED BY <1>5, <3>1, <3>2, <3>3
    <2>2. budget' \in Nat
      BY <1>1, <1>5 DEF SourceEdit, StageChange, DeadlineChange
    <2> QED BY <1>5, <2>1, <2>2
            DEF SourceEdit, StageChange, DeadlineChange, TypeOK, runner
  <1>6. ASSUME NEW p \in Procs, RequestReassess(p) PROVE TypeOK'
    <2>1. [row[p] EXCEPT !.reassess = TRUE] \in Row
      BY DEF TypeOK, Row
    <2>2. row' \in [Procs -> Row]
      BY <1>6, <2>1, PutType DEF RequestReassess, TypeOK
    <2> QED BY <1>6, <1>1, <2>2 DEF RequestReassess, TypeOK, runner, env
  <1>7. ASSUME NEW p \in Procs, ApplyOverride(p) PROVE TypeOK'
    <2>1. [row[p] EXCEPT !.manual = TRUE, !.qual = "human"] \in Row
      BY DEF TypeOK, Row
    <2>2. row' \in [Procs -> Row]
      BY <1>7, <2>1, PutType DEF ApplyOverride, TypeOK
    <2> QED BY <1>7, <2>2 DEF ApplyOverride, TypeOK, runner
  <1>8. ASSUME NEW p \in Procs, SaveOverride(p) \/ SaveFails(p) \/ SaveExpert(p)
        PROVE  TypeOK'
    BY <1>8, <1>1 DEF SaveOverride, SaveFails, SaveExpert, TypeOK, runner
  <1> QED BY <1>2, <1>3, <1>4, <1>5, <1>6, <1>7, <1>8 DEF Environment

(* Type correctness of the runner, its table and its environment.          *)
THEOREM TypeCorrect == Spec => []TypeOK
  <1>1. TypeOK /\ [Next]_vars => TypeOK'
    <2>1. TypeOK /\ Next => TypeOK'
      BY RunnerType, EnvironmentType DEF Next
    <2>2. TypeOK /\ UNCHANGED vars => TypeOK'
      BY DEF TypeOK, vars
    <2> QED BY <2>1, <2>2
  <1> QED BY TypeInit, <1>1, PTL DEF Spec

-----------------------------------------------------------------------------
(* Content versions.                                                       *)

LEMMA MarkKeeps ==
    ASSUME NEW r \in Row, NEW st \in Statuses, NEW e \in Errors
    PROVE  /\ Mark(r, st, e) \in Row
           /\ Mark(r, st, e).status = st /\ Mark(r, st, e).fp = r.fp
           /\ Mark(r, st, e).attempts = r.attempts
           /\ Mark(r, st, e).reassess = r.reassess
           /\ Mark(r, st, e).manual = r.manual
  <1>1. Mark(r, st, e) \in Row
    BY MarkType
  <1>2. /\ Mark(r, st, e).status = st /\ Mark(r, st, e).fp = r.fp
        /\ Mark(r, st, e).attempts = r.attempts
        /\ Mark(r, st, e).reassess = r.reassess
        /\ Mark(r, st, e).manual = r.manual
    BY DEF Mark, Row
  <1> QED BY <1>1, <1>2

(* What the updates of process_item, other than the commit, do to the row. *)
Touched(p, status) ==
    /\ row' = [row EXCEPT ![p] = row'[p]]
    /\ row'[p].status = status /\ row'[p].fp = row[p].fp /\ row'[p].manual = row[p].manual

LEMMA SkipTouches ==
    ASSUME TypeOK, NEW p \in Procs, SkipWaiting(p) PROVE Touched(p, "UNASSESSED")
  <1> DEFINE m == Mark(row[p], "UNASSESSED", "WAITING_NOT_ROUTABLE_SKIP")
             r == [m EXCEPT !.attempts = IF @ = 0 THEN 0 ELSE @ - 1]
  <1>1. m \in Row /\ m.status = "UNASSESSED" /\ m.fp = row[p].fp /\ m.manual = row[p].manual
    BY MarkKeeps DEF TypeOK, Statuses, Errors
  <1> HIDE DEF m
  <1>2. r.status = "UNASSESSED" /\ r.fp = row[p].fp /\ r.manual = row[p].manual
    BY <1>1 DEF Row
  <1> HIDE DEF r
  <1>3. row' = [row EXCEPT ![p] = r]
    BY DEF SkipWaiting, Put, r, m
  <1> QED BY <1>2, <1>3 DEF Touched, TypeOK

LEMMA FailTouches ==
    ASSUME TypeOK, NEW p \in Procs, Fail(p)
    PROVE  Touched(p, "FAILED") \/ Touched(p, "NEEDS_REVIEW")
  <1>1. row' = [row EXCEPT ![p] = FailRow(p)]
    BY DEF Fail, Put
  <1>2. /\ FailRow(p).status \in {"FAILED", "NEEDS_REVIEW"} /\ FailRow(p).fp = row[p].fp
        /\ FailRow(p).manual = row[p].manual
    BY MarkKeeps DEF FailRow, TypeOK, Statuses, Errors, NonRetryable
  <1>3. row'[p] = FailRow(p)
    BY <1>1 DEF TypeOK
  <1> QED BY <1>1, <1>2, <1>3 DEF Touched, TypeOK

LEMMA ReviewTouches ==
    ASSUME TypeOK, NEW p \in Procs, NEW e \in Terminal, ToReview(p, e)
    PROVE  Touched(p, "NEEDS_REVIEW")
  <1> DEFINE m == Mark(row[p], "NEEDS_REVIEW", e)
  <1>1. m.status = "NEEDS_REVIEW" /\ m.fp = row[p].fp /\ m.manual = row[p].manual
    BY MarkKeeps DEF TypeOK, Statuses, Errors, NonRetryable
  <1>2. row' = [row EXCEPT ![p] = m]
    BY DEF ToReview, Put
  <1> QED BY <1>1, <1>2 DEF Touched, TypeOK

LEMMA UnexpectedTouches ==
    ASSUME TypeOK, item.snap.proc \in Procs, Unexpected
    PROVE  Touched(item.snap.proc, "FAILED")
  <1> DEFINE p == item.snap.proc
             m == Mark(row[p], "FAILED", Transient)
  <1>1. m.status = "FAILED" /\ m.fp = row[p].fp /\ m.manual = row[p].manual
    BY MarkKeeps DEF TypeOK, Statuses, Errors
  <1>2. row' = [row EXCEPT ![p] = m]
    BY DEF Unexpected, Put
  <1> QED BY <1>1, <1>2 DEF Touched, TypeOK

LEMMA ClaimTouches ==
    ASSUME TypeOK, NEW s \in batch, Claim(s)
    PROVE  /\ s \in Snapshot /\ s.proc \in Procs
           /\ \/ UNCHANGED row /\ ~ClaimAccepts(s.proc, s.fp)
              \/ Touched(s.proc, "RUNNING")
  <1> DEFINE p == s.proc
             m == Mark(row[p], "RUNNING", "NONE")
             r == [m EXCEPT !.attempts = @ + 1]
  <1>0. s \in Snapshot /\ p \in Procs
    BY DEF TypeOK, Snapshot
  <1>1. m \in Row /\ m.status = "RUNNING" /\ m.fp = row[p].fp /\ m.manual = row[p].manual
    BY <1>0, MarkKeeps DEF TypeOK, Statuses, Errors
  <1> HIDE DEF m
  <1>2. r.status = "RUNNING" /\ r.fp = row[p].fp /\ r.manual = row[p].manual
    BY <1>1 DEF Row
  <1> HIDE DEF r
  <1>3. (UNCHANGED row /\ ~ClaimAccepts(p, s.fp)) \/ row' = [row EXCEPT ![p] = r]
    BY DEF Claim, Put, r, m
  <1> QED BY <1>0, <1>2, <1>3 DEF Touched, TypeOK

(* Leaving the item with the fingerprints as they were keeps the order.    *)
LEMMA LeaveKeepsVersions ==
    ASSUME TypeOK, VersionsInOrder, pc' = "next", UNCHANGED <<infer, source, batch>>,
           \A p \in Procs : row'[p].fp = row[p].fp
    PROVE  VersionsInOrder'
  BY DEF VersionsInOrder, Dated, Edits, Text, InItem, TypeOK, Snapshot

LEMMA TouchKeepsFp ==
    ASSUME TypeOK, NEW p \in Procs, NEW st, Touched(p, st)
    PROVE  \A q \in Procs : row'[q].fp = row[q].fp
  BY DEF Touched, TypeOK

LEMMA ProcessVersions ==
    ASSUME TypeOK, TypeOK', VersionsInOrder, ProcessItem PROVE VersionsInOrder'
  <1>1. ASSUME NEW s \in batch, Claim(s) PROVE VersionsInOrder'
    <2>1. /\ s \in Snapshot /\ s.proc \in Procs
          /\ \A q \in Procs : row'[q].fp = row[q].fp
      BY <1>1, ClaimTouches, TouchKeepsFp
    <2>2. /\ item'.snap = s /\ pc' = "claimed" /\ batch' \subseteq batch
          /\ UNCHANGED <<infer, source>>
      BY <1>1 DEF Claim, env
    <2> QED BY <2>1, <2>2 DEF VersionsInOrder, Dated, Edits, Text, InItem
  <1> SUFFICES ASSUME pc \in InItem, ~ \E s \in batch : Claim(s)
               PROVE  VersionsInOrder'
    BY <1>1 DEF ProcessItem, GuardSkip, V3Disabled, FailBeforeInput, RuleDecides,
       PostEnrichSkip, Enrich, InferenceFails, InvalidCategory, InferenceSucceeds,
       ReadOverrides, Commit, Persist, Unexpected, Routable, InItem
  <1> DEFINE p == item.snap.proc
  <1>0. /\ item \in Item /\ item.snap \in Snapshot /\ p \in Procs
        /\ item.snap.fp \in Fingerprints
    BY ItemType
  <1>2. CASE GuardSkip \/ PostEnrichSkip
    <2>1. SkipWaiting(p)
      BY <1>2 DEF GuardSkip, PostEnrichSkip
    <2>2. pc' = "next" /\ UNCHANGED <<infer, source, batch>>
      BY <2>1 DEF SkipWaiting, Leave, env
    <2> QED BY <1>0, <2>1, <2>2, SkipTouches, TouchKeepsFp, LeaveKeepsVersions
  <1>3. CASE V3Disabled \/ InvalidCategory
    <2>1. PICK e \in Terminal : ToReview(p, e)
      BY <1>3 DEF V3Disabled, InvalidCategory, Terminal
    <2>2. pc' = "next" /\ UNCHANGED <<infer, source, batch>>
      BY <2>1 DEF ToReview, Leave, env
    <2> QED BY <1>0, <2>1, <2>2, ReviewTouches, TouchKeepsFp, LeaveKeepsVersions
  <1>4. CASE FailBeforeInput \/ InferenceFails
    <2>1. Fail(p)
      BY <1>4 DEF FailBeforeInput, InferenceFails
    <2>2. pc' = "next" /\ UNCHANGED <<infer, source, batch>>
      BY <2>1 DEF Fail, Leave, env
    <2> QED BY <1>0, <2>1, <2>2, FailTouches, TouchKeepsFp, LeaveKeepsVersions
  <1>5. CASE Unexpected
    <2>1. pc' = "next" /\ UNCHANGED <<infer, source, batch>>
      BY <1>5 DEF Unexpected, Leave, env
    <2> QED BY <1>0, <1>5, <2>1, UnexpectedTouches, TouchKeepsFp, LeaveKeepsVersions
  <1>6. CASE RuleDecides
    <2>1. item'.snap = item.snap /\ item'.got = item.snap.edit
      BY <1>0, <1>6 DEF RuleDecides, Item
    <2>2. UNCHANGED <<row, infer, source, batch>> /\ pc' = "inferred"
      BY <1>0, <1>6 DEF RuleDecides, env
    <2>3. Dated(p, item.snap.fp.text, item.snap.edit) /\ Edits(p) \in Nat
      BY <1>0, TextTypes DEF VersionsInOrder, TypeOK
    <2> QED BY <2>1, <2>2, <2>3 DEF VersionsInOrder, Dated, Edits, Text, InItem
  <1>7. CASE Enrich
    <2>1. PICK e \in BOOLEAN : item' = [item EXCEPT !.got = Refresh(e).edit, !.v3 = TRUE]
      BY <1>7 DEF Enrich
    <2>2. Refresh(e).edit \in {item.snap.edit, Edits(p)}
      BY DEF Refresh
    <2>3. item'.snap = item.snap /\ item'.got \in {item.snap.edit, Edits(p)}
      BY <1>0, <2>1, <2>2 DEF Item
    <2>4. UNCHANGED <<row, infer, source, batch>> /\ pc' = "infer"
      BY <1>7 DEF Enrich, env
    <2>5. Dated(p, item.snap.fp.text, item.snap.edit) /\ Edits(p) \in Nat
      BY <1>0, TextTypes DEF VersionsInOrder, TypeOK
    <2> QED BY <2>3, <2>4, <2>5 DEF VersionsInOrder, Dated, Edits, Text, InItem
  <1>8. CASE InferenceSucceeds
    BY <1>8 DEF InferenceSucceeds, env, VersionsInOrder, Dated, Edits, Text, InItem
  <1>9. CASE ReadOverrides
    <2>1. item'.snap = item.snap /\ item'.got = item.got
      BY <1>0, <1>9 DEF ReadOverrides, Item
    <2> QED BY <1>9, <2>1 DEF ReadOverrides, env, VersionsInOrder, Dated, Edits, Text, InItem
  <1>10. CASE Commit
    <2>1. CommittedRow(p).fp = item.snap.fp
      <3> DEFINE m == Mark(row[p], "COMPLETED", row[p].err)
                 done == [m EXCEPT !.fp = item.snap.fp, !.reassess = FALSE]
      <3>1. m \in Row
        <4>1. row[p] \in Row /\ row[p].err \in Errors
          BY <1>0 DEF TypeOK, Row
        <4> QED BY <4>1, MarkType DEF Statuses
      <3> HIDE DEF m
      <3>2. done \in Row /\ done.fp = item.snap.fp
        BY <1>0, <3>1 DEF Row
      <3> HIDE DEF done
      <3>3. [done EXCEPT !.manual = item.seen,
               !.qual = IF item.seen THEN "human" ELSE "model"].fp = item.snap.fp
        BY <3>2 DEF Row
      <3> USE DEF m, done
      <3> QED BY <3>2, <3>3 DEF CommittedRow
    <2>2. /\ row' = [row EXCEPT ![p] = CommittedRow(p)]
          /\ infer' = [infer EXCEPT ![p] = [snap |-> item.snap.edit, read |-> item.got]]
          /\ UNCHANGED <<source, batch>> /\ pc = "ready"
          /\ (pc' = "persist" /\ item' = item) \/ pc' = "next"
      BY <1>10 DEF Commit, Put, Leave, env
    <2>3. /\ Dated(p, item.snap.fp.text, item.snap.edit)
          /\ item.got \in item.snap.edit..Edits(p)
      BY <2>2 DEF VersionsInOrder, InItem
    <2>4. ASSUME NEW q \in Procs, row'[q].fp.text # 0
          PROVE  /\ Dated(q, row'[q].fp.text, infer'[q].snap)
                 /\ infer'[q].read \in infer'[q].snap..Edits(q)
      <3>1. CASE q = p
        <4>1. row'[p].fp = item.snap.fp
          BY <1>0, <2>1, <2>2 DEF TypeOK
        <4>2. infer'[p] = [snap |-> item.snap.edit, read |-> item.got]
          BY <1>0, <2>2 DEF TypeOK
        <4> QED BY <2>3, <3>1, <4>1, <4>2
      <3>2. CASE q # p
        BY <1>0, <2>2, <2>4, <3>2 DEF TypeOK, VersionsInOrder
      <3> QED BY <3>1, <3>2
    <2> QED BY <2>2, <2>3, <2>4 DEF VersionsInOrder, Dated, Edits, Text, InItem
  <1>11. CASE Persist
    <2>1. pc' = "next" /\ UNCHANGED <<row, infer, source, batch>>
      BY <1>11 DEF Persist, Leave, env
    <2> QED BY <2>1, LeaveKeepsVersions
  <1> QED BY <1>2, <1>3, <1>4, <1>5, <1>6, <1>7, <1>8, <1>9, <1>10, <1>11
          DEF ProcessItem

(* An edit adds a text and leaves the earlier ones as they were. *)
LEMMA EditKeepsTexts ==
    ASSUME TypeOK, NEW p \in Procs, SourceEdit(p) \/ StageChange(p) \/ DeadlineChange(p),
           NEW q \in Procs
    PROVE  /\ Edits(q) \in Nat /\ Edits(q)' \in Nat /\ Edits(q) <= Edits(q)'
           /\ \A i \in 1..Edits(q) : Text(q, i)' = Text(q, i)
  <1>1. source[q].texts \in Seq(Nat \ {0})
    <2>1. source[q].texts \in Texts
      BY DEF TypeOK, Source
    <2> QED BY <2>1 DEF Texts
  <1>2. CASE SourceEdit(p)
    <2>1. PICK text \in 1..(Edits(p) + 1) :
             source' = [source EXCEPT ![p].texts = Append(@, text)]
      BY <1>2 DEF SourceEdit
    <2>2. text \in Nat \ {0}
      BY TextTypes DEF TypeOK
    <2>3. source'[q].texts \in {source[q].texts, Append(source[q].texts, text)}
      BY <2>1 DEF TypeOK, Source
    <2>4. ASSUME NEW t \in Seq(Nat \ {0})
          PROVE  /\ Len(t) \in Nat /\ Len(Append(t, text)) = Len(t) + 1
                 /\ \A i \in 1..Len(t) : Append(t, text)[i] = t[i]
      BY <2>2
    <2>5. /\ Len(source[q].texts) \in Nat /\ Len(source'[q].texts) \in Nat
          /\ Len(source[q].texts) <= Len(source'[q].texts)
      BY <1>1, <2>3, <2>4
    <2>6. \A i \in 1..Len(source[q].texts) : source'[q].texts[i] = source[q].texts[i]
      BY <1>1, <2>3, <2>4
    <2> QED BY <2>5, <2>6 DEF Edits, Text
  <1>3. CASE StageChange(p) \/ DeadlineChange(p)
    <2>1. source'[q].texts = source[q].texts
      BY <1>3 DEF StageChange, DeadlineChange, TypeOK, Source
    <2> QED BY <1>1, <2>1 DEF Edits, Text
  <1> QED BY <1>2, <1>3

LEMMA OtherVersions ==
    ASSUME TypeOK, TypeOK', VersionsInOrder,
           StartLive \/ Reclaim \/ Fetch \/ NextBatch \/ Finish \/ Environment
    PROVE  VersionsInOrder'
  <1>1. CASE StartLive \/ StartOperator
    BY <1>1 DEF StartLive, StartOperator, Start, env, VersionsInOrder, Dated, Edits, Text, InItem
  <1>2. CASE Reclaim
    <2>1. ASSUME NEW q \in Procs PROVE row'[q].fp = row[q].fp
      <3>1. [row[q] EXCEPT !.status = "STALE",
               !.err = IF @ = "NONE" THEN "LEASE_EXPIRED" ELSE @].fp = row[q].fp
        BY DEF TypeOK, Row
      <3> QED BY <1>2, <3>1 DEF Reclaim
    <2> QED BY <1>2, <2>1 DEF Reclaim, env, VersionsInOrder, Dated, Edits, Text, InItem
  <1>3. CASE Fetch
    <2>1. ASSUME NEW s \in batch' PROVE Dated(s.proc, s.fp.text, s.edit)
      <3>1. PICK p, shape, e : s = Snap(p, shape, e)
        <4>1. CASE FetchForce
          BY <4>1 DEF FetchForce
        <4>2. CASE \E P, shape : batch' = SnapAll(P, shape)
          BY <4>2 DEF SnapAll
        <4> QED BY <1>3, <4>1, <4>2 DEF Fetch, FetchLive, FetchSingle, FetchGroup
      <3>2. s.proc = p /\ s.fp.text = Current(p) /\ s.edit = Edits(p)
        BY <3>1 DEF Snap
      <3>3. p \in Procs
        BY <3>2 DEF TypeOK, Snapshot
      <3>4. Edits(p) \in Nat \ {0}
        BY <3>3, TextTypes DEF TypeOK
      <3> QED BY <3>2, <3>4 DEF Dated, Current
    <2>2. /\ UNCHANGED <<row, infer, source>> /\ pc' = "next"
      BY <1>3 DEF Fetch, env
    <2> QED BY <2>1, <2>2 DEF VersionsInOrder, Dated, Edits, Text, InItem
  <1>4. CASE NextBatch \/ Finish \/ Crash
    BY <1>4 DEF NextBatch, Finish, Crash, env, VersionsInOrder, Dated, Edits, Text, InItem
  <1>5. CASE Tick
    <2>1. \A q \in Procs : row'[q].fp = row[q].fp
      BY <1>5 DEF Tick, TypeOK, Row
    <2> QED BY <1>5, <2>1 DEF Tick, env, runner, VersionsInOrder, Dated, Edits, Text, InItem
  <1>6. ASSUME NEW p \in Procs,
               SourceEdit(p) \/ StageChange(p) \/ DeadlineChange(p)
        PROVE  VersionsInOrder'
    <2>1. UNCHANGED <<row, infer, pc, batch, item>>
      BY <1>6 DEF SourceEdit, StageChange, DeadlineChange, runner
    <2>2. ASSUME NEW q \in Procs, NEW text, NEW i, Dated(q, text, i)
          PROVE  Dated(q, text, i)'
      BY <1>6, <2>2, EditKeepsTexts DEF Dated
    <2>3. ASSUME NEW q \in Procs, NEW i \in Int, NEW n \in i..Edits(q)
          PROVE  n \in i..Edits(q)'
      <3>1. Edits(q) \in Nat /\ Edits(q)' \in Nat /\ Edits(q) <= Edits(q)'
        BY <1>6, EditKeepsTexts
      <3> QED BY <3>1
    <2>4. ASSUME NEW q \in Procs, row'[q].fp.text # 0
          PROVE  /\ Dated(q, row[q].fp.text, infer[q].snap)'
                 /\ infer'[q].read \in infer'[q].snap..Edits(q)'
      <3>1. Dated(q, row[q].fp.text, infer[q].snap) /\ infer[q].read \in infer[q].snap..Edits(q)
        BY <2>1, <2>4 DEF VersionsInOrder
      <3>2. infer[q].snap \in Int
        BY <3>1 DEF Dated
      <3>3. Dated(q, row[q].fp.text, infer[q].snap)'
        BY <2>1, <2>2, <3>1 DEF Dated
      <3> QED BY <2>1, <2>3, <3>1, <3>2, <3>3
    <2>5. ASSUME NEW s \in batch' PROVE Dated(s.proc, s.fp.text, s.edit)'
      <3>1. s \in batch /\ s.proc \in Procs /\ Dated(s.proc, s.fp.text, s.edit)
        BY <2>1 DEF VersionsInOrder, TypeOK, Snapshot
      <3> QED BY <2>2, <3>1
    <2>6. ASSUME pc \in InItem
          PROVE  Dated(item.snap.proc, item.snap.fp.text, item.snap.edit)'
      <3>1. item.snap.proc \in Procs
        BY <2>6, ItemType
      <3>2. Dated(item.snap.proc, item.snap.fp.text, item.snap.edit)
        BY <2>6 DEF VersionsInOrder
      <3> QED BY <2>1, <2>2, <3>1, <3>2 DEF Dated, Text, Edits
    <2>7. ASSUME pc \in InItem \ {"claimed"}
          PROVE  (item.got \in item.snap.edit..Edits(item.snap.proc))'
      <3>1. item.snap.proc \in Procs
        BY <2>7, ItemType
      <3>2. item.got \in item.snap.edit..Edits(item.snap.proc) /\ item.snap.edit \in Int
        BY <2>7 DEF VersionsInOrder, Dated
      <3>3. item.got \in item.snap.edit..Edits(item.snap.proc)'
        BY <2>1, <2>3, <3>1, <3>2
      <3> QED BY <2>1, <3>3
    <2> QED BY <2>1, <2>4, <2>5, <2>6, <2>7 DEF VersionsInOrder
  <1>7. ASSUME NEW p \in Procs, RequestReassess(p) \/ ApplyOverride(p)
        PROVE  VersionsInOrder'
    <2>1. /\ [row[p] EXCEPT !.reassess = TRUE].fp = row[p].fp
          /\ [row[p] EXCEPT !.manual = TRUE, !.qual = "human"].fp = row[p].fp
      BY DEF TypeOK, Row
    <2>2. \A q \in Procs : row'[q].fp = row[q].fp
      BY <1>7, <2>1 DEF RequestReassess, ApplyOverride, Put, TypeOK
    <2> QED BY <1>7, <2>2
            DEF RequestReassess, ApplyOverride, env, runner, VersionsInOrder, Dated, Edits, Text, InItem
  <1>8. ASSUME NEW p \in Procs, SaveOverride(p) \/ SaveFails(p) \/ SaveExpert(p)
        PROVE  VersionsInOrder'
    BY <1>8 DEF SaveOverride, SaveFails, SaveExpert, runner, VersionsInOrder, Dated, Edits, Text
  <1> QED BY <1>1, <1>2, <1>3, <1>4, <1>5, <1>6, <1>7, <1>8 DEF Environment

LEMMA VersionsInvariant == Spec => [](TypeOK /\ VersionsInOrder)
  <1>1. Init => VersionsInOrder
    <2> SUFFICES ASSUME Init PROVE VersionsInOrder
      OBVIOUS
    <2>1. TypeOK
      BY TypeInit
    <2>2. \A p \in Procs : row[p].fp.text = 0
      BY DEF Init, NoFingerprint
    <2> QED BY <2>1, <2>2 DEF Init, VersionsInOrder, InItem
  <1>2. TypeOK /\ TypeOK' /\ VersionsInOrder /\ [Next]_vars => VersionsInOrder'
    <2>1. TypeOK /\ TypeOK' /\ VersionsInOrder /\ Next => VersionsInOrder'
      BY ProcessVersions, OtherVersions DEF Next, RunnerStep
    <2>2. VersionsInOrder /\ UNCHANGED vars => VersionsInOrder'
      BY DEF VersionsInOrder, Dated, Edits, Text, vars, env
    <2> QED BY <2>1, <2>2
  <1> QED BY TypeCorrect, <1>1, <1>2, PTL DEF Spec

LEMMA VersionsAreHonest == ASSUME TypeOK, VersionsInOrder PROVE FingerprintHonest
  <1> SUFFICES ASSUME NEW p \in Procs, row[p].fp = LiveFp(p),
                      Text(p, infer[p].read) # Current(p)
               PROVE  infer[p].snap < infer[p].read /\ infer[p].read < Edits(p)
    BY DEF FingerprintHonest
  <1>1. row[p].fp.text = Current(p)
    BY DEF LiveFp
  <1>2. Edits(p) \in Nat \ {0} /\ infer[p] \in Provenance
    BY TextTypes DEF TypeOK
  <1>3. infer[p].snap \in Nat /\ infer[p].read \in Nat
    BY <1>2 DEF Provenance
  <1>4. /\ Dated(p, row[p].fp.text, infer[p].snap)
        /\ infer[p].read \in infer[p].snap..Edits(p)
    BY <1>1, TextTypes DEF VersionsInOrder, TypeOK
  <1>5. infer[p].read # infer[p].snap
    BY <1>1, <1>4 DEF Dated
  <1>6. infer[p].read # Edits(p)
    BY DEF Current
  <1> QED BY <1>2, <1>3, <1>4, <1>5, <1>6

(* A row is passed over as already assessed only when its assessment was    *)
(* inferred from the content it has now, save where two edits, one before   *)
(* and one after the inference read the row, undo each other.               *)
THEOREM FingerprintIsHonest == Spec => []FingerprintHonest
  <1> QED BY VersionsAreHonest, VersionsInvariant, PTL

-----------------------------------------------------------------------------
(* Claims.                                                                 *)

(* Whatever inside process_item touches the table touches one row.         *)
ItemStep == ProcessItem /\ pc \in InItem /\ ~ \E s \in batch : Claim(s)

LEMMA ProcessSplit ==
    ASSUME ProcessItem PROVE ItemStep \/ \E s \in batch : Claim(s)
  BY DEF ProcessItem, ItemStep, GuardSkip, V3Disabled, FailBeforeInput, RuleDecides,
     PostEnrichSkip, Enrich, InferenceFails, InvalidCategory, InferenceSucceeds,
     ReadOverrides, Commit, Persist, Unexpected, Routable, InItem

LEMMA CommitStatus ==
    ASSUME TypeOK, NEW p \in Procs, item \in Item, item.snap \in Snapshot
    PROVE  /\ CommittedRow(p).status = "COMPLETED"
           /\ CommittedRow(p).manual \in {row[p].manual, item.seen}
  <1> DEFINE m == Mark(row[p], "COMPLETED", row[p].err)
             done == [m EXCEPT !.fp = item.snap.fp, !.reassess = FALSE]
  <1>1. m \in Row /\ m.status = "COMPLETED" /\ m.manual = row[p].manual
    <2>1. row[p] \in Row /\ row[p].err \in Errors
      BY DEF TypeOK, Row
    <2>2. "COMPLETED" \in Statuses
      BY DEF Statuses
    <2> QED BY <2>1, <2>2, MarkKeeps
  <1> HIDE DEF m
  <1>2. done \in Row /\ done.status = "COMPLETED" /\ done.manual = row[p].manual
    BY <1>1 DEF Row, Snapshot
  <1> HIDE DEF done
  <1> DEFINE full == [done EXCEPT !.manual = item.seen,
                        !.qual = IF item.seen THEN "human" ELSE "model"]
  <1>3. full.status = "COMPLETED" /\ full.manual = item.seen
    BY <1>2 DEF Row
  <1> HIDE DEF full
  <1>4. CommittedRow(p) \in {done, full}
    BY DEF CommittedRow, m, done, full
  <1> QED BY <1>2, <1>3, <1>4

LEMMA ItemStepShape ==
    ASSUME TypeOK, ItemStep
    PROVE  /\ item.snap.proc \in Procs
           /\ UNCHANGED <<mode, batch>>
           /\ \/ row'[item.snap.proc].manual = row[item.snap.proc].manual
              \/ pc = "ready" /\ row'[item.snap.proc].manual = item.seen
           /\ \/ /\ UNCHANGED row /\ item'.snap = item.snap
                 /\ pc' \in InItem \ {"persist"} /\ pc # "persist"
              \/ /\ pc' = "next"
                 /\ row' = [row EXCEPT ![item.snap.proc] = row'[item.snap.proc]]
                 /\ \/ row'[item.snap.proc].status # "RUNNING"
                    \/ pc = "persist" /\ UNCHANGED row
              \/ /\ pc' = "persist" /\ item' = item
                 /\ row' = [row EXCEPT ![item.snap.proc] = row'[item.snap.proc]]
                 /\ row'[item.snap.proc].status = "COMPLETED"
  <1> DEFINE p == item.snap.proc
  <1>0. item \in Item /\ item.snap \in Snapshot /\ p \in Procs
    BY ItemType DEF ItemStep
  <1>1. CASE GuardSkip \/ PostEnrichSkip
    <2>1. SkipWaiting(p)
      BY <1>1 DEF GuardSkip, PostEnrichSkip
    <2>2. Touched(p, "UNASSESSED")
      BY <1>0, <2>1, SkipTouches
    <2> QED BY <1>0, <2>1, <2>2 DEF SkipWaiting, Leave, Touched
  <1>2. CASE V3Disabled \/ InvalidCategory
    <2>1. PICK e \in Terminal : ToReview(p, e)
      BY <1>2 DEF V3Disabled, InvalidCategory, Terminal
    <2>2. Touched(p, "NEEDS_REVIEW")
      BY <1>0, <2>1, ReviewTouches
    <2> QED BY <1>0, <2>1, <2>2 DEF ToReview, Leave, Touched
  <1>3. CASE FailBeforeInput \/ InferenceFails
    <2>1. Fail(p)
      BY <1>3 DEF FailBeforeInput, InferenceFails
    <2>2. Touched(p, "FAILED") \/ Touched(p, "NEEDS_REVIEW")
      BY <1>0, <2>1, FailTouches
    <2> QED BY <1>0, <2>1, <2>2 DEF Fail, Leave, Touched
  <1>4. CASE Unexpected
    <2>1. Touched(p, "FAILED")
      BY <1>0, <1>4, UnexpectedTouches
    <2> QED BY <1>0, <1>4, <2>1 DEF Unexpected, Leave, Touched
  <1>5. CASE RuleDecides \/ Enrich \/ ReadOverrides
    <2>1. item'.snap = item.snap
      BY <1>0, <1>5 DEF RuleDecides, Enrich, ReadOverrides, Item
    <2> QED BY <1>0, <1>5, <2>1 DEF RuleDecides, Enrich, ReadOverrides, Routable, InItem
  <1>6. CASE InferenceSucceeds
    BY <1>0, <1>6 DEF InferenceSucceeds, InItem
  <1>7. CASE Commit
    <2>1. row' = [row EXCEPT ![p] = CommittedRow(p)]
      BY <1>7 DEF Commit, Put
    <2>2. row'[p] = CommittedRow(p)
      BY <1>0, <2>1 DEF TypeOK
    <2> QED BY <1>0, <1>7, <2>1, <2>2, CommitStatus DEF Commit, Leave
  <1>8. CASE Persist
    <2>1. row = [row EXCEPT ![p] = row[p]]
      BY <1>0 DEF TypeOK
    <2> QED BY <1>0, <1>8, <2>1 DEF Persist, Leave
  <1> QED BY <1>1, <1>2, <1>3, <1>4, <1>5, <1>6, <1>7, <1>8 DEF ItemStep, ProcessItem

(* Rows may age, and be asked for again, without spoiling a snapshot.      *)
LEMMA ClaimsKept ==
    ASSUME TypeOK, ClaimsInOrder, UNCHANGED <<mode, pc, batch, item>>,
           \A q \in Procs :
              /\ row'[q].status = row[q].status /\ row'[q].fp = row[q].fp
              /\ row'[q].attempts = row[q].attempts
              /\ row[q].reassess => row'[q].reassess
              /\ row[q].age > Lease => row'[q].age > Lease
    PROVE  ClaimsInOrder'
  <1>1. \A s \in batch : s.proc \in Procs
    BY DEF TypeOK, Snapshot
  <1>2. ASSUME NEW s \in batch, Claimable(s) PROVE Claimable(s)'
    BY <1>1, <1>2 DEF Claimable, ClaimAccepts, LeaseExpired
  <1>3. pc \in InItem => item.snap.proc \in Procs
    BY ItemType
  <1> QED BY <1>2, <1>3 DEF ClaimsInOrder

LEMMA FetchClaimable ==
    ASSUME TypeOK, Fetch, mode \in {"live", "single"}, NEW s \in batch'
    PROVE  /\ Claimable(s)'
           /\ s = Snap(s.proc, "live", source[s.proc].endKnown)
  <1>1. PICK p \in Procs : Selectable(p) /\ s = Snap(p, "live", source[p].endKnown)
    <2>1. CASE mode = "live"
      BY <2>1 DEF Fetch, FetchLive, SnapAll, Allocatable
    <2>2. CASE mode = "single"
      BY <2>2 DEF Fetch, FetchSingle, SnapAll
    <2> QED BY <2>1, <2>2
  <1>2. s.proc = p /\ s.fp = LiveFp(p)
    BY <1>1 DEF Snap, LiveFp
  <1>3. UNCHANGED <<row, mode>>
    BY DEF Fetch
  <1>4. Claimable(s)
    BY <1>1, <1>2 DEF Selectable, StatusSelectable, Claimable, ClaimAccepts
  <1>5. Claimable(s)'
    BY <1>3, <1>4 DEF Claimable, ClaimAccepts, LeaseExpired
  <1> QED BY <1>1, <1>2, <1>5

LEMMA ClaimStepClaims ==
    ASSUME TypeOK, ClaimsInOrder, NEW s \in batch, Claim(s) PROVE ClaimsInOrder'
  <1>1. /\ batch' = batch \ {s} /\ item'.snap = s /\ pc' = "claimed" /\ mode' = mode
    BY DEF Claim
  <1>2. CASE mode \in {"live", "single"}
    <2>1. ClaimAccepts(s.proc, s.fp) /\ \A t \in batch' : t.proc # s.proc
      BY <1>1, <1>2 DEF ClaimsInOrder, Claimable
    <2>2. s.proc \in Procs /\ Touched(s.proc, "RUNNING")
      BY <2>1, ClaimTouches
    <2>3. ASSUME NEW t \in batch' PROVE Claimable(t)'
      <3>1. t.proc \in Procs /\ t.proc # s.proc /\ Claimable(t)
        BY <1>1, <1>2, <2>1 DEF ClaimsInOrder, TypeOK, Snapshot
      <3>2. row'[t.proc] = row[t.proc]
        BY <2>2, <3>1 DEF Touched, TypeOK
      <3> QED BY <1>1, <3>1, <3>2 DEF Claimable, ClaimAccepts, LeaseExpired
    <2> QED BY <1>1, <1>2, <2>1, <2>2, <2>3 DEF ClaimsInOrder, Touched, InItem
  <1>3. CASE mode \notin {"live", "single"}
    BY <1>1, <1>3 DEF ClaimsInOrder
  <1> QED BY <1>2, <1>3

LEMMA ItemStepClaims ==
    ASSUME TypeOK, ClaimsInOrder, ItemStep PROVE ClaimsInOrder'
  <1> DEFINE p == item.snap.proc
  <1>0. p \in Procs /\ UNCHANGED <<mode, batch>> /\ pc \in InItem
    BY ItemStepShape DEF ItemStep
  <1>1. CASE mode \notin {"live", "single"}
    <2>1. pc' \notin {"idle", "reclaim", "fetch"}
      BY ItemStepShape DEF InItem
    <2> QED BY <1>0, <1>1, <2>1 DEF ClaimsInOrder
  <1>2. CASE mode \in {"live", "single"}
    <2>1. \A s \in batch : s.proc \in Procs /\ s.proc # p /\ Claimable(s)
      BY <1>0, <1>2 DEF ClaimsInOrder, TypeOK, Snapshot
    <2>2. \A s \in batch : row'[s.proc] = row[s.proc]
      BY <1>0, <2>1, ItemStepShape DEF TypeOK
    <2>3. \A s \in batch' : Claimable(s)'
      BY <1>0, <2>1, <2>2 DEF Claimable, ClaimAccepts, LeaseExpired
    <2>4. CASE UNCHANGED row /\ item'.snap = item.snap /\ pc # "persist"
               /\ pc' \in InItem \ {"persist"}
      BY <1>0, <1>2, <2>3, <2>4 DEF ClaimsInOrder, InItem
    <2>5. CASE pc' = "next"
      BY <1>0, <1>2, <2>3, <2>5 DEF ClaimsInOrder, InItem
    <2>6. CASE pc' = "persist" /\ item' = item /\ row'[p].status = "COMPLETED"
      BY <1>0, <1>2, <2>3, <2>6 DEF ClaimsInOrder, InItem
    <2> QED BY <2>4, <2>5, <2>6, ItemStepShape
  <1> QED BY <1>1, <1>2

LEMMA OtherClaims ==
    ASSUME TypeOK, ClaimsInOrder,
           StartLive \/ Reclaim \/ Fetch \/ NextBatch \/ Finish \/ Environment
    PROVE  ClaimsInOrder'
  <1>1. CASE StartLive \/ StartOperator
    BY <1>1 DEF StartLive, StartOperator, Start, ClaimsInOrder, InItem
  <1>2. CASE Reclaim
    BY <1>2 DEF Reclaim, ClaimsInOrder, InItem
  <1>3. CASE Fetch
    <2>1. pc' = "next" /\ mode' = mode
      BY <1>3 DEF Fetch
    <2>2. CASE mode \in {"live", "single"}
      BY <1>3, <2>1, <2>2, FetchClaimable DEF ClaimsInOrder, InItem
    <2>3. CASE mode \notin {"live", "single"}
      BY <2>1, <2>3 DEF ClaimsInOrder
    <2> QED BY <2>2, <2>3
  <1>4. CASE NextBatch \/ Finish \/ Crash
    BY <1>4 DEF NextBatch, Finish, Crash, ClaimsInOrder, InItem
  <1>5. CASE Tick
    <2>1. ASSUME NEW q \in Procs
          PROVE  /\ row'[q].status = row[q].status /\ row'[q].fp = row[q].fp
                 /\ row'[q].attempts = row[q].attempts
                 /\ row'[q].reassess = row[q].reassess
                 /\ row[q].age > Lease => row'[q].age > Lease
      <3>1. row[q] \in Row
        BY DEF TypeOK
      <3>2. row'[q] = [row[q] EXCEPT !.age = LowerOf(row[q].age + 1, AgeCap)]
        BY <1>5 DEF Tick
      <3>3. row[q].age > Lease => LowerOf(row[q].age + 1, AgeCap) > Lease
        BY <3>1, TimeAssumption DEF LowerOf, Row
      <3> QED BY <3>1, <3>2, <3>3 DEF Row
    <2> QED BY <1>5, <2>1, ClaimsKept DEF Tick, runner
  <1>6. ASSUME NEW p \in Procs, RequestReassess(p) \/ ApplyOverride(p)
        PROVE  ClaimsInOrder'
    <2> DEFINE a == [row[p] EXCEPT !.reassess = TRUE]
               b == [row[p] EXCEPT !.manual = TRUE, !.qual = "human"]
    <2>1. /\ a.status = row[p].status /\ a.fp = row[p].fp /\ a.age = row[p].age
          /\ a.attempts = row[p].attempts /\ a.reassess
      BY DEF TypeOK, Row
    <2>2. /\ b.status = row[p].status /\ b.fp = row[p].fp /\ b.age = row[p].age
          /\ b.attempts = row[p].attempts /\ b.reassess = row[p].reassess
      BY DEF TypeOK, Row
    <2>3. row' = [row EXCEPT ![p] = a] \/ row' = [row EXCEPT ![p] = b]
      BY <1>6 DEF RequestReassess, ApplyOverride, Put
    <2> HIDE DEF a, b
    <2>4. \A q \in Procs :
              /\ row'[q].status = row[q].status /\ row'[q].fp = row[q].fp
              /\ row'[q].attempts = row[q].attempts
              /\ row[q].reassess => row'[q].reassess
              /\ row[q].age > Lease => row'[q].age > Lease
      BY <2>1, <2>2, <2>3 DEF TypeOK
    <2> QED BY <1>6, <2>4, ClaimsKept DEF RequestReassess, ApplyOverride, runner
  <1>7. ASSUME NEW p \in Procs,
               \/ SourceEdit(p) \/ StageChange(p) \/ DeadlineChange(p)
               \/ SaveOverride(p) \/ SaveFails(p) \/ SaveExpert(p)
        PROVE  ClaimsInOrder'
    <2>1. UNCHANGED <<row, mode, pc, batch, item>>
      BY <1>7 DEF SourceEdit, StageChange, DeadlineChange, SaveOverride, SaveFails,
         SaveExpert, runner
    <2> QED BY <2>1, ClaimsKept
  <1> QED BY <1>1, <1>2, <1>3, <1>4, <1>5, <1>6, <1>7 DEF Environment

LEMMA ClaimsInvariant == Spec => [](TypeOK /\ ClaimsInOrder)
  <1>1. Init => ClaimsInOrder
    BY DEF Init, ClaimsInOrder, InItem
  <1>2. TypeOK /\ ClaimsInOrder /\ [Next]_vars => ClaimsInOrder'
    <2>1. TypeOK /\ ClaimsInOrder /\ Next => ClaimsInOrder'
      BY ProcessSplit, ClaimStepClaims, ItemStepClaims, OtherClaims DEF Next, RunnerStep
    <2>2. TypeOK /\ ClaimsInOrder /\ UNCHANGED vars => ClaimsInOrder'
      BY ClaimsKept DEF vars
    <2> QED BY <2>1, <2>2
  <1> QED BY TypeCorrect, <1>1, <1>2, PTL DEF Spec

(* In live and single mode the runner works on rows it has claimed, though  *)
(* it never looks at what its UPDATE hit: the selector's Python and the     *)
(* claim's SQL agree, and nobody else moves a status in between.            *)
THEOREM LiveClaims == Spec => []LiveWorkIsClaimed
  <1>1. ClaimsInOrder => LiveWorkIsClaimed
    BY DEF ClaimsInOrder, LiveWorkIsClaimed
  <1> QED BY <1>1, ClaimsInvariant, PTL

(* What a status change in the timer's modes can start from.               *)
LEMMA StatusMoves ==
    ASSUME TypeOK, ClaimsInOrder, Next, mode \notin {"group", "force"},
           NEW p \in Procs, row'[p].status # row[p].status
    PROVE  /\ row[p].status # "NEEDS_REVIEW"
           /\ row[p].status \in {"FAILED", "STALE"} => row[p].attempts < MaxAttempts
  <1>1. CASE Reclaim
    BY <1>1 DEF Reclaim
  <1>2. CASE ProcessItem
    <2>1. mode \in {"live", "single"}
      <3>1. pc # "idle"
        BY <1>2, ProcessSplit DEF ItemStep, Claim, InItem
      <3> QED BY <3>1 DEF TypeOK, Modes
    <2>2. ASSUME NEW s \in batch, Claim(s)
          PROVE  /\ row[p].status # "NEEDS_REVIEW"
                 /\ row[p].status \in {"FAILED", "STALE"} => row[p].attempts < MaxAttempts
      <3>1. s.proc = p
        BY <2>2, ClaimTouches DEF Touched, TypeOK
      <3> QED BY <2>1, <3>1 DEF ClaimsInOrder, Claimable
    <2>3. CASE ItemStep
      <3>1. p = item.snap.proc
        BY <2>3, ItemStepShape DEF TypeOK
      <3> QED BY <2>1, <2>3, <3>1 DEF ClaimsInOrder, ItemStep
    <2> QED BY <1>2, <2>2, <2>3, ProcessSplit
  <1>3. CASE Tick
    <2>1. row[p] \in Row /\ row'[p] = [row[p] EXCEPT !.age = LowerOf(@ + 1, AgeCap)]
      BY <1>3 DEF Tick, TypeOK
    <2> QED BY <2>1 DEF Row
  <1>4. ASSUME NEW q \in Procs, RequestReassess(q) \/ ApplyOverride(q) PROVE FALSE
    <2> DEFINE a == [row[q] EXCEPT !.reassess = TRUE]
               b == [row[q] EXCEPT !.manual = TRUE, !.qual = "human"]
    <2>1. a.status = row[q].status /\ b.status = row[q].status
      BY DEF TypeOK, Row
    <2>2. row' = [row EXCEPT ![q] = a] \/ row' = [row EXCEPT ![q] = b]
      BY <1>4 DEF RequestReassess, ApplyOverride, Put
    <2> HIDE DEF a, b
    <2> QED BY <2>1, <2>2 DEF TypeOK
  <1>5. ~ UNCHANGED row
    OBVIOUS
  <1> QED BY <1>1, <1>2, <1>3, <1>4, <1>5
          DEF Next, RunnerStep, Environment, StartLive, Start, Fetch, NextBatch, Finish,
          StartOperator, Crash, SourceEdit, StageChange, DeadlineChange, SaveOverride,
          SaveFails, SaveExpert

(* A row held for review stays held until an operator forces it.           *)
THEOREM ReviewHolds == Spec => ReviewIsHeld
  <1>1. TypeOK /\ ClaimsInOrder /\ [Next]_vars =>
          [\A p \in Procs :
             row[p].status = "NEEDS_REVIEW" /\ row'[p].status # "NEEDS_REVIEW"
                => mode \in {"group", "force"}]_vars
    BY StatusMoves
  <1> QED BY <1>1, ClaimsInvariant, PTL DEF Spec, ReviewIsHeld

(* A row out of attempts stays out of the timer's hands.                    *)
THEOREM ExhaustedStays == Spec => ExhaustedNotRetried
  <1>1. TypeOK /\ ClaimsInOrder /\ [Next]_vars =>
          [\A p \in Procs :
             row[p].status \in {"FAILED", "STALE"} /\ row[p].attempts >= MaxAttempts
             /\ row'[p].status = "RUNNING"
                => mode \in {"group", "force"}]_vars
    <2> SUFFICES ASSUME TypeOK, ClaimsInOrder, Next, NEW p \in Procs,
                        row[p].status \in {"FAILED", "STALE"},
                        row[p].attempts >= MaxAttempts, row'[p].status = "RUNNING",
                        mode \notin {"group", "force"}
                 PROVE  FALSE
      OBVIOUS
    <2>1. row[p].attempts < MaxAttempts
      BY StatusMoves
    <2>2. row[p].attempts \in Nat /\ MaxAttempts \in Nat
      BY CountAssumption DEF TypeOK, Row
    <2> QED BY <2>1, <2>2
  <1> QED BY <1>1, ClaimsInvariant, PTL DEF Spec, ExhaustedNotRetried

-----------------------------------------------------------------------------
(* Exits, and overrides.                                                   *)

(* What the rest of the world does to a row: not its status, and a manager  *)
(* sets manual_override only.                                               *)
LEMMA EnvironmentRows ==
    ASSUME TypeOK, Environment, NEW q \in Procs
    PROVE  /\ row'[q].status = row[q].status
           /\ \/ row'[q].manual = row[q].manual
              \/ q \in saving /\ row'[q].manual = TRUE
  <1>1. CASE Tick
    <2>1. row[q] \in Row /\ row'[q] = [row[q] EXCEPT !.age = LowerOf(@ + 1, AgeCap)]
      BY <1>1 DEF Tick, TypeOK
    <2> QED BY <2>1 DEF Row
  <1>2. ASSUME NEW p \in Procs, RequestReassess(p) \/ ApplyOverride(p)
        PROVE  /\ row'[q].status = row[q].status
               /\ \/ row'[q].manual = row[q].manual
                  \/ q \in saving /\ row'[q].manual = TRUE
    <2> DEFINE a == [row[p] EXCEPT !.reassess = TRUE]
               b == [row[p] EXCEPT !.manual = TRUE, !.qual = "human"]
    <2>1. a.status = row[p].status /\ b.status = row[p].status
      BY DEF TypeOK, Row
    <2>2. a.manual = row[p].manual /\ b.manual = TRUE
      BY DEF TypeOK, Row
    <2>3. row' = [row EXCEPT ![p] = a] \/ (row' = [row EXCEPT ![p] = b] /\ p \in saving)
      BY <1>2 DEF RequestReassess, ApplyOverride, Put
    <2> HIDE DEF a, b
    <2> QED BY <2>1, <2>2, <2>3 DEF TypeOK
  <1>3. CASE UNCHANGED row
    BY <1>3
  <1> QED BY <1>1, <1>2, <1>3
          DEF Environment, StartOperator, Start, Crash, SourceEdit, StageChange, DeadlineChange,
              SaveOverride, SaveFails, SaveExpert

(* After the commit the row is not RUNNING, in any mode.                    *)
CommitCompletes == pc = "persist" => row[item.snap.proc].status # "RUNNING"

LEMMA CommitCompletesStep ==
    ASSUME TypeOK, CommitCompletes, [Next]_vars PROVE CommitCompletes'
  <1> SUFFICES ASSUME pc' = "persist", NEW p, p = item'.snap.proc PROVE row'[p].status # "RUNNING"
    BY DEF CommitCompletes
  <1>1. CASE ItemStep
    BY <1>1, ItemStepShape DEF TypeOK
  <1>2. CASE Environment /\ UNCHANGED <<pc, item>>
    <2>1. p \in Procs
      BY <1>2, ItemType DEF InItem
    <2> QED BY <1>2, <2>1, EnvironmentRows DEF CommitCompletes
  <1>3. CASE UNCHANGED vars
    BY <1>3 DEF vars, CommitCompletes
  <1>4. ASSUME NEW s \in batch, Claim(s) PROVE FALSE
    BY <1>4 DEF Claim
  <1>5. ~StartLive /\ ~Reclaim /\ ~Fetch /\ ~NextBatch /\ ~Finish /\ ~StartOperator /\ ~Crash
    BY DEF StartLive, Start, Reclaim, Fetch, NextBatch, Finish, StartOperator, Crash
  <1>6. Environment => UNCHANGED <<pc, item>>
    BY <1>5 DEF Environment, Tick, SourceEdit, StageChange, DeadlineChange, RequestReassess, SaveOverride,
       ApplyOverride, SaveFails, SaveExpert, runner
  <1> QED BY <1>1, <1>2, <1>3, <1>4, <1>5, <1>6, ProcessSplit DEF Next, RunnerStep

(* process_item: whichever of its many ways out an item takes, short of the *)
(* death of the process, and in every mode, its row is not left RUNNING for *)
(* the lease to run out.                                                    *)
THEOREM ExitsSettle == Spec => EveryExitSettles
  <1> DEFINE Inv == TypeOK /\ CommitCompletes
             Body == \A p \in Procs :
                        item # NoItem /\ item' = NoItem /\ p = item.snap.proc /\ pc' # "idle"
                           => row'[p].status # "RUNNING"
  <1>1. Init => CommitCompletes
    BY DEF Init, CommitCompletes
  <1>2. Inv /\ [Next]_vars => CommitCompletes'
    BY CommitCompletesStep
  <1>3. Inv /\ Inv' /\ [Next]_vars => [Body]_vars
    <2> SUFFICES ASSUME TypeOK, CommitCompletes, TypeOK', [Next]_vars, NEW p \in Procs,
                        item # NoItem, item' = NoItem, p = item.snap.proc, pc' # "idle"
                 PROVE  row'[p].status # "RUNNING"
      OBVIOUS
    <2>1. pc \in InItem /\ pc' \notin InItem
      BY NoItemAssumption DEF TypeOK
    <2>2. ItemStep
      <3>1. pc # pc' /\ pc \notin {"idle", "reclaim", "fetch", "next"}
        BY <2>1 DEF InItem
      <3>2. ~StartLive /\ ~Reclaim /\ ~Fetch /\ ~NextBatch /\ ~Finish /\ ~(\E s \in batch : Claim(s))
        BY <3>1 DEF StartLive, Start, Reclaim, Fetch, NextBatch, Finish, Claim
      <3>3. ~Environment
        BY <3>1 DEF Environment, StartOperator, Start, Crash, Tick, SourceEdit, StageChange, DeadlineChange,
           RequestReassess, SaveOverride, ApplyOverride, SaveFails, SaveExpert, runner
      <3>4. ~UNCHANGED vars
        BY <3>1 DEF vars
      <3> QED BY <3>2, <3>3, <3>4, ProcessSplit DEF Next, RunnerStep
    <2>3. row'[p].status # "RUNNING" \/ (pc = "persist" /\ UNCHANGED row)
      BY <2>1, <2>2, ItemStepShape DEF InItem
    <2> QED BY <2>3 DEF CommitCompletes
  <1>4. Spec => [][Body]_vars
    <2> HIDE DEF Body
    <2>1. Inv /\ TypeOK' /\ [Next]_vars => Inv'
      BY <1>2
    <2> HIDE DEF Inv
    <2>2. Inv <=> TypeOK /\ CommitCompletes
      BY DEF Inv
    <2> QED BY <1>1, <1>3, <2>1, <2>2, TypeCorrect, PTL DEF Spec
  <1> QED BY <1>4, PTL DEF EveryExitSettles

(* The trace of a manager's save: the override is there before the row is   *)
(* changed, and is never taken away.                                        *)
OverridesRecorded ==
    /\ saving \subseteq ovr
    /\ \A p \in Procs : row[p].manual => p \in ovr
    /\ pc \in InItem => (item.seen => item.snap.proc \in ovr)

(* Inside process_item, seen is what ReadOverrides saw, or FALSE.           *)
LEMMA SeenIsRead ==
    ASSUME TypeOK, ItemStep, pc' \in InItem
    PROVE  /\ item'.snap = item.snap
           /\ item'.seen \in {item.seen, item.snap.proc \in ovr}
  <1>0. item \in Item
    BY ItemType DEF ItemStep
  <1>1. CASE RuleDecides \/ Enrich
    BY <1>0, <1>1 DEF RuleDecides, Enrich, Item
  <1>2. CASE InferenceSucceeds \/ Commit
    BY <1>2 DEF InferenceSucceeds, Commit, Leave, InItem
  <1>3. CASE ReadOverrides
    <2> DEFINE b == item.snap.proc \in ovr
    <2>1. item' = [item EXCEPT !.seen = b]
      BY <1>3 DEF ReadOverrides
    <2> HIDE DEF b
    <2>2. item'.snap = item.snap /\ item'.seen = b
      BY <1>0, <2>1 DEF Item
    <2> QED BY <2>2 DEF b
  <1> QED BY <1>1, <1>2, <1>3
          DEF ItemStep, ProcessItem, GuardSkip, V3Disabled, FailBeforeInput, PostEnrichSkip, SkipWaiting,
              ToReview, Fail, InferenceFails, InvalidCategory, Persist, Unexpected, Leave, InItem

LEMMA OverridesRecordedStep ==
    ASSUME TypeOK, OverridesRecorded, [Next]_vars PROVE OverridesRecorded'
  <1>1. CASE ItemStep
    <2>1. UNCHANGED <<ovr, saving>>
      BY <1>1 DEF ItemStep, ProcessItem, GuardSkip, V3Disabled, FailBeforeInput, RuleDecides, PostEnrichSkip,
         Enrich, InferenceFails, InvalidCategory, InferenceSucceeds, ReadOverrides, Commit, Persist, Unexpected,
         SkipWaiting, ToReview, Fail, env
    <2>2. pc' \in InItem => (item'.seen => item'.snap.proc \in ovr)
      <3> SUFFICES ASSUME pc' \in InItem, item'.seen PROVE item'.snap.proc \in ovr
        OBVIOUS
      <3>1. item'.snap = item.snap /\ item'.seen \in {item.seen, item.snap.proc \in ovr}
        BY <1>1, SeenIsRead
      <3> QED BY <1>1, <3>1 DEF ItemStep, OverridesRecorded
    <2>3. ASSUME NEW p \in Procs, row'[p].manual PROVE p \in ovr
      <3>1. CASE p = item.snap.proc
        <4>1. row'[p].manual \in {row[p].manual, item.seen}
          BY <1>1, <3>1, ItemStepShape
        <4> QED BY <1>1, <2>3, <3>1, <4>1 DEF ItemStep, OverridesRecorded
      <3>2. CASE p # item.snap.proc
        <4>1. row'[p] = row[p]
          BY <1>1, <3>2, ItemStepShape DEF TypeOK
        <4> QED BY <2>3, <4>1 DEF OverridesRecorded
      <3> QED BY <3>1, <3>2
    <2> QED BY <2>1, <2>2, <2>3 DEF OverridesRecorded
  <1>2. ASSUME NEW s \in batch, Claim(s) PROVE OverridesRecorded'
    <2>1. item'.seen = FALSE /\ UNCHANGED <<ovr, saving>>
      BY <1>2 DEF Claim, env
    <2>2. ASSUME NEW p \in Procs PROVE row'[p].manual = row[p].manual
      BY <1>2, ClaimTouches DEF Touched, TypeOK
    <2> QED BY <2>1, <2>2 DEF OverridesRecorded
  <1>3. CASE Environment
    <2>1. ovr \subseteq ovr' /\ saving' \subseteq saving \cup ovr'
      BY <1>3 DEF Environment, StartOperator, Start, Crash, Tick, SourceEdit, StageChange, DeadlineChange,
         RequestReassess, SaveOverride, ApplyOverride, SaveFails, SaveExpert, env
    <2>2. \A p \in Procs : row'[p].manual => p \in ovr
      BY <1>3, EnvironmentRows DEF OverridesRecorded
    <2>3. pc' \in InItem => pc = pc' /\ item' = item
      BY <1>3 DEF Environment, StartOperator, Start, Crash, Tick, SourceEdit, StageChange, DeadlineChange,
         RequestReassess, SaveOverride, ApplyOverride, SaveFails, SaveExpert, runner, InItem
    <2> QED BY <2>1, <2>2, <2>3 DEF OverridesRecorded
  <1>4. CASE Reclaim
    <2>1. ASSUME NEW p \in Procs PROVE row'[p].manual = row[p].manual
      <3> DEFINE a == [row[p] EXCEPT !.status = "STALE",
                         !.err = IF @ = "NONE" THEN "LEASE_EXPIRED" ELSE @]
      <3>1. a.manual = row[p].manual
        BY DEF TypeOK, Row
      <3>2. row'[p] \in {row[p], a}
        BY <1>4 DEF Reclaim
      <3> QED BY <3>1, <3>2
    <2> QED BY <1>4, <2>1 DEF Reclaim, env, InItem, OverridesRecorded
  <1>5. CASE StartLive \/ Fetch \/ NextBatch \/ Finish \/ UNCHANGED vars
    BY <1>5 DEF StartLive, Start, Fetch, NextBatch, Finish, env, vars, InItem, OverridesRecorded
  <1> QED BY <1>1, <1>2, <1>3, <1>4, <1>5, ProcessSplit DEF Next, RunnerStep

(* manual_override: the model takes a row back from a manager in one window *)
(* only, between its read of crm_manual_overrides and its commit, and never *)
(* without the manager's own entry there to tell of it.                     *)
THEOREM OverridesLast == Spec => OverrideLostOnlyInWindow
  <1> DEFINE Inv == TypeOK /\ OverridesRecorded
             Body == \A p \in Procs :
                        row[p].manual /\ ~row'[p].manual
                           => pc = "ready" /\ item.snap.proc = p /\ ~item.seen /\ p \in ovr
  <1>1. Init => OverridesRecorded
    BY DEF Init, InItem, OverridesRecorded
  <1>2. Inv /\ [Next]_vars => OverridesRecorded'
    BY OverridesRecordedStep
  <1>3. Inv /\ [Next]_vars => [Body]_vars
    <2> SUFFICES ASSUME TypeOK, OverridesRecorded, [Next]_vars, NEW p \in Procs,
                        row[p].manual, ~row'[p].manual
                 PROVE  pc = "ready" /\ item.snap.proc = p /\ ~item.seen
      BY DEF OverridesRecorded
    <2>1. CASE ItemStep
      <3>1. item.snap.proc = p
        BY <2>1, ItemStepShape DEF TypeOK
      <3> QED BY <2>1, <3>1, ItemStepShape
    <2>2. ASSUME NEW s \in batch, Claim(s) PROVE FALSE
      BY <2>2, ClaimTouches DEF Touched, TypeOK
    <2>3. ~Environment
      BY EnvironmentRows
    <2>4. ~Reclaim
      <3> DEFINE a == [row[p] EXCEPT !.status = "STALE",
                         !.err = IF @ = "NONE" THEN "LEASE_EXPIRED" ELSE @]
      <3>1. a.manual = row[p].manual
        BY DEF TypeOK, Row
      <3>2. Reclaim => row'[p] \in {row[p], a}
        BY DEF Reclaim
      <3> QED BY <3>1, <3>2
    <2>5. row' # row
      OBVIOUS
    <2> QED BY <2>1, <2>2, <2>3, <2>4, <2>5, ProcessSplit
            DEF Next, RunnerStep, StartLive, Start, Fetch, NextBatch, Finish, vars
  <1>4. Spec => [][Body]_vars
    <2> HIDE DEF Body
    <2>1. Inv /\ TypeOK' /\ [Next]_vars => Inv'
      BY <1>2
    <2> HIDE DEF Inv
    <2>2. Inv <=> TypeOK /\ OverridesRecorded
      BY DEF Inv
    <2> QED BY <1>1, <1>3, <2>1, <2>2, TypeCorrect, PTL DEF Spec
  <1> QED BY <1>4, PTL DEF OverrideLostOnlyInWindow
=============================================================================
