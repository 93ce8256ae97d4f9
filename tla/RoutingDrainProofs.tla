-------------------------- MODULE RoutingDrainProofs --------------------------
(***************************************************************************)
(* Proofs about RoutingDrain, for any set of procurements and any value of *)
(* the bounds: types and the agreement of the loop with the lock, what the *)
(* routing runner promises on its own still holds when the drain decides   *)
(* which of its steps are taken, and the back-off spaces the retries.      *)
(***************************************************************************)
EXTENDS RoutingDrain, RoutingAssessmentProofs

(* The steps of the loop that are none of the runner's: it stops, or goes   *)
(* back to look at the backlog, between two items.                          *)
Pauses ==
    /\ pc \in {"reclaim", "fetch", "next"} /\ (pc = "next" => batch = {})
    /\ \/ pc' = "idle" /\ mode' = "none"
       \/ pc' = "reclaim" /\ mode' = mode
    /\ UNCHANGED <<row, infer, env, batch, item, budget>>

Works == Reclaim \/ Fetch \/ ProcessItem

Around == /\ Environment /\ UNCHANGED <<mode, pc, batch, item>>

(* What a step of the drain is to the runner. *)
LEMMA StepKinds ==
    ASSUME DrainTypeOK, [DrainNext]_drainVars
    PROVE  StartLive \/ Works \/ Around \/ Crash \/ Pauses \/ UNCHANGED vars
  <1>1. CASE UNCHANGED drainVars \/ TimeUp
    BY <1>1 DEF drainVars, TimeUp
  <1>2. CASE DrainStart \/ DrainDies
    BY <1>2 DEF DrainStart, DrainDies
  <1>3. CASE DrainTimeout \/ DrainEmpty \/ DrainBatch \/ ZeroProgress \/ DrainAgain
    BY <1>3 DEF DrainTimeout, AtTop, DrainEmpty, Looking, DrainBatch, ZeroProgress, DrainAgain, BatchDone, Stop, Pauses
  <1>4. CASE DrainReclaim \/ DrainWork
    BY <1>4 DEF DrainReclaim, DrainWork, Works
  <1>5. CASE Meanwhile
    <2>1. Environment
      BY <1>5 DEF Meanwhile, Environment
    <2>2. UNCHANGED <<mode, pc, batch, item>>
      BY <1>5 DEF Meanwhile, Tick, SourceEdit, StageChange, DeadlineChange, RequestReassess, SaveExpert,
         SaveOverride, ApplyOverride, SaveFails, runner
    <2> QED BY <2>1, <2>2 DEF Around
  <1> QED BY <1>1, <1>2, <1>3, <1>4, <1>5 DEF DrainNext, DrainStep

LEMMA KindsAreSteps ==
    ASSUME StartLive \/ Works \/ Around \/ Crash PROVE Next
  BY DEF Works, Around, Next, RunnerStep, Environment

-----------------------------------------------------------------------------
(* Types.                                                                  *)

LEMMA DrainInitTypes == DrainInit => DrainTypeOK
  <1>1. DrainInit => TypeOK
    BY TypeInit DEF DrainInit
  <1>2. ASSUME DrainInit PROVE drain \in Drain /\ drain.phase = "off" /\ pc = "idle"
    BY <1>2 DEF DrainInit, Init, Drain, Stops
  <1> QED BY <1>1, <1>2 DEF DrainTypeOK

LEMMA PauseTypes == ASSUME TypeOK, Pauses PROVE TypeOK'
  BY DEF TypeOK, Pauses, Locations, InItem, Modes, env

LEMMA RunnerTypes == ASSUME DrainTypeOK, [DrainNext]_drainVars PROVE TypeOK'
  <1>0. TypeOK
    BY DEF DrainTypeOK
  <1>1. CASE StartLive \/ Works
    BY <1>0, <1>1, RunnerType DEF Works, RunnerStep
  <1>2. CASE Around \/ Crash
    BY <1>0, <1>2, EnvironmentType DEF Around, Environment
  <1>3. CASE UNCHANGED vars
    BY <1>0, <1>3 DEF TypeOK, vars
  <1> QED BY <1>0, <1>1, <1>2, <1>3, PauseTypes, StepKinds

(* The loop's record, and what it says of the runner's place. *)
LoopOK ==
    /\ drain \in Drain
    /\ drain.phase = "off" <=> pc = "idle"
    /\ drain.phase = "check" => pc \in {"reclaim", "fetch"}

(* Work does not unlock. *)
LEMMA WorkGoesOn == ASSUME TypeOK, Works PROVE pc' # "idle" /\ pc # "idle"
  <1>1. CASE Reclaim \/ Fetch
    BY <1>1 DEF Reclaim, Fetch
  <1>2. CASE ItemStep
    BY <1>2, ItemStepShape DEF ItemStep, InItem
  <1>3. CASE \E s \in batch : Claim(s)
    BY <1>3 DEF Claim
  <1> QED BY <1>1, <1>2, <1>3, ProcessSplit DEF Works

LEMMA TallyType ==
    ASSUME drain \in Drain, Tally PROVE drain' \in Drain /\ drain'.phase = drain.phase
  <1>1. CASE UNCHANGED drain
    BY <1>1
  <1>2. CASE drain' = [drain EXCEPT
               !.ok     = IF Succeeds THEN @ + 1 ELSE @,
               !.failed = IF Succeeds THEN @ ELSE @ + 1]
    <2>1. CASE Succeeds
      <3>1. drain' = [drain EXCEPT !.ok = drain.ok + 1]
        BY <1>2, <2>1 DEF Drain
      <3> QED BY <3>1 DEF Drain
    <2>2. CASE ~Succeeds
      <3>1. drain' = [drain EXCEPT !.failed = drain.failed + 1]
        BY <1>2, <2>2 DEF Drain
      <3> QED BY <3>1 DEF Drain
    <2> QED BY <2>1, <2>2
  <1> QED BY <1>1, <1>2 DEF Tally

LEMMA LoopStep == ASSUME DrainTypeOK, [DrainNext]_drainVars PROVE LoopOK'
  <1>0. TypeOK /\ LoopOK
    BY DEF DrainTypeOK, LoopOK
  <1>1. CASE UNCHANGED drainVars
    BY <1>0, <1>1 DEF LoopOK, drainVars, vars
  <1>2. CASE TimeUp
    <2>1. drain' \in Drain /\ drain'.phase = drain.phase
      BY <1>0, <1>2 DEF TimeUp, LoopOK, Drain
    <2> QED BY <1>0, <1>2, <2>1 DEF TimeUp, LoopOK, vars
  <1>3. CASE DrainStart
    <2>1. drain' \in Drain /\ drain'.phase = "check"
      BY <1>0, <1>3 DEF DrainStart, LoopOK, Drain, Stops
    <2> QED BY <1>3, <2>1 DEF DrainStart, StartLive, Start, LoopOK
  <1>4. ASSUME NEW reason \in Stops, Stop(reason) PROVE LoopOK'
    <2>1. drain' \in Drain /\ drain'.phase = "off"
      BY <1>0, <1>4 DEF Stop, LoopOK, Drain
    <2> QED BY <1>4, <2>1 DEF Stop, LoopOK
  <1>5. CASE DrainTimeout \/ DrainEmpty \/ ZeroProgress
    BY <1>4, <1>5 DEF DrainTimeout, DrainEmpty, ZeroProgress, Stops
  <1>6. CASE DrainReclaim
    BY <1>0, <1>6 DEF DrainReclaim, AtTop, Reclaim, LoopOK
  <1>7. CASE DrainBatch
    <2>1. drain' \in Drain /\ drain'.phase = "run"
      BY <1>0, <1>7 DEF DrainBatch, LoopOK, Drain
    <2> QED BY <1>7, <2>1 DEF DrainBatch, LoopOK
  <1>8. CASE DrainAgain
    <2>1. drain' \in Drain /\ drain'.phase = "check"
      BY <1>0, <1>8 DEF DrainAgain, LoopOK, Drain
    <2> QED BY <1>8, <2>1 DEF DrainAgain, LoopOK
  <1>9. CASE DrainWork
    <2>1. drain.phase = "run" /\ Works /\ Tally
      BY <1>9 DEF DrainWork, Works
    <2>2. drain' \in Drain /\ drain'.phase = "run"
      BY <1>0, <2>1, TallyType DEF LoopOK
    <2>3. pc' # "idle"
      BY <1>0, <2>1, WorkGoesOn
    <2> QED BY <2>2, <2>3 DEF LoopOK
  <1>10. CASE DrainDies
    <2>1. drain' \in Drain /\ drain'.phase = "off"
      BY <1>0, <1>10 DEF DrainDies, LoopOK, Drain, Stops
    <2> QED BY <1>10, <2>1 DEF DrainDies, Crash, LoopOK
  <1>11. CASE Meanwhile
    <2>1. UNCHANGED <<pc, drain>>
      BY <1>11 DEF Meanwhile, Tick, SourceEdit, StageChange, DeadlineChange, RequestReassess, SaveExpert,
         SaveOverride, ApplyOverride, SaveFails, runner
    <2> QED BY <1>0, <2>1 DEF LoopOK
  <1> QED BY <1>1, <1>2, <1>3, <1>5, <1>6, <1>7, <1>8, <1>9, <1>10, <1>11 DEF DrainNext, DrainStep

(* routing_drain.py: types, and the loop is between its batches or in one   *)
(* exactly while its invocation holds the advisory lock, through stops,     *)
(* deaths and restarts.                                                     *)
THEOREM DrainTypeCorrect == DrainSpec => []DrainTypeOK
  <1>1. DrainTypeOK /\ [DrainNext]_drainVars => DrainTypeOK'
    BY RunnerTypes, LoopStep DEF DrainTypeOK, LoopOK
  <1> QED BY DrainInitTypes, <1>1, PTL DEF DrainSpec

-----------------------------------------------------------------------------
(* What the runner promises, it promises under the drain.                  *)

(* The drain runs live, and the runner's own invariants hold.               *)
RunnerInv ==
    /\ DrainTypeOK /\ mode \in {"live", "none"}
    /\ ClaimsInOrder /\ VersionsInOrder

LEMMA PauseKeeps ==
    ASSUME TypeOK, ClaimsInOrder, VersionsInOrder, Pauses PROVE ClaimsInOrder' /\ VersionsInOrder'
  <1>1. batch' = {} /\ pc' \notin InItem
    BY DEF Pauses, ClaimsInOrder, InItem
  <1>2. ClaimsInOrder'
    BY <1>1 DEF ClaimsInOrder
  <1>3. VersionsInOrder'
    BY <1>1 DEF VersionsInOrder, Dated, Edits, Text, Pauses, env
  <1> QED BY <1>2, <1>3

LEMMA RunnerInvStep == ASSUME RunnerInv, [DrainNext]_drainVars PROVE RunnerInv'
  <1>0. TypeOK /\ DrainTypeOK /\ DrainTypeOK'
    BY RunnerTypes, LoopStep DEF RunnerInv, DrainTypeOK, LoopOK
  <1>1. mode' \in {"live", "none"}
    <2>1. StartLive => mode' = "live"
      BY DEF StartLive, Start
    <2>2. Works => mode' = mode
      <3>1. ItemStep => mode' = mode
        BY <1>0, ItemStepShape
      <3> QED BY <3>1, ProcessSplit DEF Works, Reclaim, Fetch, Claim
    <2>3. Pauses => mode' \in {mode, "none"}
      BY DEF Pauses
    <2>4. Crash => mode' = "none"
      BY DEF Crash
    <2>5. Around \/ UNCHANGED vars => mode' = mode
      BY DEF Around, vars
    <2> QED BY <1>0, <2>1, <2>2, <2>3, <2>4, <2>5, StepKinds DEF RunnerInv
  <1>2. CASE StartLive \/ Works \/ Around \/ Crash
    <2>1. \/ \E s \in batch : Claim(s)
          \/ ItemStep
          \/ StartLive \/ Reclaim \/ Fetch \/ NextBatch \/ Finish \/ Environment
      BY <1>2, ProcessSplit DEF Works, Around, Environment
    <2>2. ClaimsInOrder'
      BY <1>0, <2>1, ClaimStepClaims, ItemStepClaims, OtherClaims DEF RunnerInv
    <2>3. ProcessItem \/ StartLive \/ Reclaim \/ Fetch \/ NextBatch \/ Finish \/ Environment
      BY <1>2 DEF Works, Around, Environment
    <2>4. VersionsInOrder'
      BY <1>0, <2>3, ProcessVersions, OtherVersions DEF RunnerInv, DrainTypeOK
    <2> QED BY <1>0, <1>1, <2>2, <2>4 DEF RunnerInv
  <1>3. CASE Pauses
    BY <1>0, <1>1, <1>3, PauseKeeps DEF RunnerInv
  <1>4. CASE UNCHANGED vars
    <2>1. ClaimsInOrder'
      BY <1>0, <1>4, ClaimsKept DEF vars, RunnerInv
    <2>2. VersionsInOrder'
      BY <1>4 DEF vars, env, RunnerInv, VersionsInOrder, Dated, Edits, Text
    <2> QED BY <1>0, <1>1, <2>1, <2>2 DEF RunnerInv
  <1> QED BY <1>0, <1>2, <1>3, <1>4, StepKinds

LEMMA RunnerInvHolds == DrainSpec => []RunnerInv
  <1>1. DrainInit => RunnerInv
    <2> SUFFICES ASSUME DrainInit PROVE RunnerInv
      OBVIOUS
    <2>1. Init /\ DrainTypeOK
      BY DrainInitTypes DEF DrainInit
    <2>2. ClaimsInOrder /\ mode = "none"
      BY <2>1 DEF Init, ClaimsInOrder, InItem
    <2>3. \A p \in Procs : row[p].fp.text = 0
      BY <2>1 DEF Init, NoFingerprint
    <2>4. VersionsInOrder
      BY <2>1, <2>3 DEF Init, VersionsInOrder, InItem
    <2> QED BY <2>1, <2>2, <2>4 DEF RunnerInv
  <1> QED BY <1>1, RunnerInvStep, PTL DEF DrainSpec

(* Under the drain a recorded fingerprint is honest and the work is on rows *)
(* that were claimed: its stops between a look at the backlog and a batch,  *)
(* which a plain run never makes, take nothing of this away.                *)
THEOREM DrainIsHonest == DrainSpec => [](FingerprintHonest /\ LiveWorkIsClaimed)
  <1>1. RunnerInv => FingerprintHonest
    BY VersionsAreHonest DEF RunnerInv, DrainTypeOK
  <1>2. RunnerInv => LiveWorkIsClaimed
    BY DEF RunnerInv, ClaimsInOrder, LiveWorkIsClaimed
  <1> QED BY <1>1, <1>2, RunnerInvHolds, PTL

(* However its batches follow one another, a drain never takes a row off    *)
(* the NEEDS_REVIEW hold and never runs one that is out of attempts.        *)
THEOREM DrainKeepsHolds == DrainSpec => ReviewIsHeld /\ ExhaustedNotRetried
  <1> DEFINE Held == \A p \in Procs :
                row[p].status = "NEEDS_REVIEW" /\ row'[p].status # "NEEDS_REVIEW"
                   => mode \in {"group", "force"}
             Spent == \A p \in Procs :
                row[p].status \in {"FAILED", "STALE"} /\ row[p].attempts >= MaxAttempts
                /\ row'[p].status = "RUNNING"
                   => mode \in {"group", "force"}
  <1>1. RunnerInv /\ [DrainNext]_drainVars => [Held /\ Spent]_vars
    <2> SUFFICES ASSUME RunnerInv, [DrainNext]_drainVars, NEW p \in Procs, row'[p].status # row[p].status
                 PROVE  /\ row[p].status # "NEEDS_REVIEW"
                        /\ row[p].status \in {"FAILED", "STALE"} => ~(row[p].attempts >= MaxAttempts)
      OBVIOUS
    <2>1. TypeOK /\ ClaimsInOrder /\ mode \notin {"group", "force"}
      BY DEF RunnerInv, DrainTypeOK
    <2>2. Next
      BY StepKinds, KindsAreSteps DEF RunnerInv, Pauses, vars
    <2>3. /\ row[p].status # "NEEDS_REVIEW"
          /\ row[p].status \in {"FAILED", "STALE"} => row[p].attempts < MaxAttempts
      BY <2>1, <2>2, StatusMoves
    <2>4. row[p].attempts \in Nat /\ MaxAttempts \in Nat
      BY <2>1, CountAssumption DEF TypeOK, Row
    <2> QED BY <2>3, <2>4
  <1>2. DrainSpec => [][Held /\ Spent]_vars
    <2> HIDE DEF Held, Spent
    <2>1. RunnerInv /\ [DrainNext]_drainVars => [Held /\ Spent]_vars
      BY <1>1
    <2> QED BY <2>1, RunnerInvHolds, PTL DEF DrainSpec
  <1>3. [][Held /\ Spent]_vars => [][Held]_vars /\ [][Spent]_vars
    <2> HIDE DEF Held, Spent
    <2> QED BY PTL
  <1>4. [][Held]_vars => ReviewIsHeld
    BY PTL DEF ReviewIsHeld
  <1>5. [][Spent]_vars => ExhaustedNotRetried
    BY PTL DEF ExhaustedNotRetried
  <1> QED BY <1>2, <1>3, <1>4, <1>5, PTL

-----------------------------------------------------------------------------
(* The back-off.                                                           *)

(* What failed and is in the batch has rested since. *)
Rested == \A s \in batch : row[s.proc].status = "FAILED" => row[s.proc].age > 0

LEMMA BackoffIsPositive ==
    ASSUME BackoffBase > 0, BackoffMax > 0, \A n \in Nat : 2^n \in Nat \ {0}, NEW a \in Nat
    PROVE  Backoff(a) \in Nat /\ Backoff(a) > 0
  <1> DEFINE n == IF a < 1 THEN 1 ELSE a
             d == BackoffBase * 2^(n - 1)
  <1>1. n - 1 \in Nat
    OBVIOUS
  <1>2. 2^(n - 1) \in Nat /\ 2^(n - 1) > 0
    <2>1. 2^(n - 1) \in Nat \ {0}
      BY <1>1
    <2> HIDE DEF n
    <2> QED BY <2>1
  <1>3. \A b, x \in Nat : b > 0 /\ x > 0 => b * x \in Nat /\ b * x > 0
    OBVIOUS
  <1>4. d \in Nat /\ d > 0
    <2> HIDE DEF n
    <2> QED BY <1>2, <1>3, TimeAssumption
  <1>5. Backoff(a) = IF d < BackoffMax THEN d ELSE BackoffMax
    BY DEF Backoff
  <1> HIDE DEF d
  <1> QED BY <1>4, <1>5, TimeAssumption

(* Time, and everyone else, leave what has rested rested. *)
LEMMA AroundRests ==
    ASSUME TypeOK, Environment, NEW q \in Procs, row[q].age > 0 PROVE row'[q].age > 0
  <1>1. CASE Tick
    <2>1. row[q] \in Row /\ row'[q] = [row[q] EXCEPT !.age = LowerOf(row[q].age + 1, AgeCap)]
      BY <1>1 DEF Tick, TypeOK
    <2>2. LowerOf(row[q].age + 1, AgeCap) > 0
      BY <2>1, TimeAssumption DEF LowerOf, Row
    <2> QED BY <2>1, <2>2 DEF Row
  <1>2. ASSUME NEW p \in Procs, RequestReassess(p) \/ ApplyOverride(p) PROVE row'[q].age > 0
    <2> DEFINE a == [row[p] EXCEPT !.reassess = TRUE]
               b == [row[p] EXCEPT !.manual = TRUE, !.qual = "human"]
    <2>1. a.age = row[p].age /\ b.age = row[p].age
      BY DEF TypeOK, Row
    <2>2. row' = [row EXCEPT ![p] = a] \/ row' = [row EXCEPT ![p] = b]
      BY <1>2 DEF RequestReassess, ApplyOverride, Put
    <2> HIDE DEF a, b
    <2> QED BY <2>1, <2>2 DEF TypeOK
  <1>3. CASE UNCHANGED row
    BY <1>3
  <1> QED BY <1>1, <1>2, <1>3
          DEF Environment, StartOperator, Start, Crash, SourceEdit, StageChange, DeadlineChange,
              SaveOverride, SaveFails, SaveExpert

LEMMA RestedStep ==
    ASSUME BackoffBase > 0, BackoffMax > 0, \A n \in Nat : 2^n \in Nat \ {0},
           RunnerInv, Rested, [DrainNext]_drainVars
    PROVE  Rested'
  <1>0. TypeOK /\ DrainTypeOK /\ ClaimsInOrder /\ mode \in {"live", "none"}
    BY DEF RunnerInv, DrainTypeOK
  <1>a. \A s \in batch : s.proc \in Procs
    BY <1>0 DEF TypeOK, Snapshot
  <1>1. CASE StartLive \/ Pauses \/ UNCHANGED vars
    BY <1>1 DEF StartLive, Start, Pauses, vars, Rested
  <1>2. CASE Crash \/ Reclaim
    <2>1. batch' = {}
      BY <1>0, <1>2 DEF Crash, Reclaim, ClaimsInOrder
    <2> QED BY <2>1 DEF Rested
  <1>3. CASE Around
    <2>1. ASSUME NEW s \in batch, row'[s.proc].status = "FAILED" PROVE row'[s.proc].age > 0
      <3>1. row[s.proc].status = "FAILED"
        BY <1>0, <1>a, <1>3, <2>1, EnvironmentRows DEF Around
      <3>2. row[s.proc].age > 0
        BY <3>1 DEF Rested
      <3> QED BY <1>0, <1>a, <1>3, <3>2, AroundRests DEF Around
    <2> QED BY <1>3, <2>1 DEF Around, Rested
  <1>4. CASE Fetch
    <2>1. UNCHANGED row /\ mode = "live"
      BY <1>0, <1>4 DEF Fetch
    <2> SUFFICES ASSUME NEW s \in batch', row[s.proc].status = "FAILED" PROVE row[s.proc].age > 0
      BY <2>1 DEF Rested
    <2>2. PICK p \in Procs : Allocatable(p) /\ s.proc = p
      <3>1. PICK P \in SUBSET {p \in Procs : Allocatable(p)} : batch' = SnapAll(P, "live")
        BY <1>4, <2>1 DEF Fetch, FetchLive
      <3>2. PICK p \in P : s = Snap(p, "live", source[p].endKnown)
        BY <3>1 DEF SnapAll
      <3>3. s.proc = p
        BY <3>2 DEF Snap
      <3> QED BY <3>1, <3>2, <3>3
    <2>3. row[p].age >= Backoff(row[p].attempts)
      BY <2>2 DEF Allocatable, Selectable, StatusSelectable
    <2>4. row[p].age \in Nat /\ row[p].attempts \in Nat
      BY <1>0, TimeAssumption DEF TypeOK, Row
    <2>5. Backoff(row[p].attempts) \in Nat /\ Backoff(row[p].attempts) > 0
      BY <2>4, BackoffIsPositive
    <2> QED BY <2>2, <2>3, <2>4, <2>5
  <1>5. ASSUME NEW s \in batch, Claim(s) PROVE Rested'
    <2>1. mode = "live" /\ batch' = batch \ {s}
      BY <1>0, <1>5 DEF Claim, TypeOK
    <2>2. ASSUME NEW t \in batch' PROVE t \in batch /\ row'[t.proc] = row[t.proc]
      <3>1. t \in batch /\ t.proc # s.proc
        BY <1>0, <2>1, <2>2 DEF ClaimsInOrder
      <3> QED BY <1>0, <1>a, <1>5, <3>1, ClaimTouches DEF Touched, TypeOK
    <2> QED BY <2>2 DEF Rested
  <1>6. CASE ItemStep
    <2>1. mode = "live" /\ pc \in InItem
      BY <1>0, <1>6 DEF ItemStep, InItem, TypeOK
    <2>2. batch' = batch
      BY <1>0, <1>6, ItemStepShape
    <2>3. ASSUME NEW t \in batch PROVE row'[t.proc] = row[t.proc]
      <3>1. t.proc # item.snap.proc
        BY <1>0, <2>1 DEF ClaimsInOrder
      <3> QED BY <1>0, <1>a, <1>6, <3>1, ItemStepShape DEF TypeOK
    <2> QED BY <2>2, <2>3 DEF Rested
  <1> QED BY <1>0, <1>1, <1>2, <1>3, <1>4, <1>5, <1>6, StepKinds, ProcessSplit DEF Works

(* failed_backoff_seconds: however the batches of a drain follow one        *)
(* another, and whenever the row was selected, a row that has just failed   *)
(* is not claimed again before time has passed.  The back-off of the        *)
(* configuration must not be zero; that a power of two is a positive number *)
(* is arithmetic the provers do not know.                                   *)
THEOREM DrainSpacesRetries ==
    ASSUME BackoffBase > 0, BackoffMax > 0, \A n \in Nat : 2^n \in Nat \ {0}
    PROVE  DrainSpec => BackoffSpacesRetries
  <1> DEFINE Inv == RunnerInv /\ Rested
             Spaced == \A p \in Procs :
                row[p].status = "FAILED" /\ row[p].age = 0 => row'[p].status # "RUNNING"
  <1>1. DrainInit => Rested
    BY DEF DrainInit, Init, Rested
  <1>2. Inv /\ [DrainNext]_drainVars => Rested'
    BY RestedStep
  <1>3. Inv /\ [DrainNext]_drainVars => [Spaced]_drainVars
    <2> SUFFICES ASSUME RunnerInv, Rested, [DrainNext]_drainVars, NEW p \in Procs,
                        row[p].status = "FAILED", row[p].age = 0, row'[p].status = "RUNNING"
                 PROVE  FALSE
      OBVIOUS
    <2>1. TypeOK /\ DrainTypeOK /\ ClaimsInOrder /\ mode \in {"live", "none"} /\ row'[p] # row[p]
      BY DEF RunnerInv, DrainTypeOK
    <2>2. ASSUME NEW s \in batch, Claim(s) PROVE FALSE
      <3>1. s.proc = p
        BY <2>1, <2>2, ClaimTouches DEF Touched, TypeOK
      <3> QED BY <3>1 DEF Rested
    <2>3. ~ItemStep
      <3> SUFFICES ASSUME ItemStep PROVE FALSE
        OBVIOUS
      <3>1. p = item.snap.proc
        BY <2>1, ItemStepShape DEF TypeOK
      <3>2. mode = "live" /\ pc \in InItem
        BY <2>1 DEF ItemStep, InItem, TypeOK
      <3> QED BY <2>1, <3>1, <3>2 DEF ClaimsInOrder
    <2>4. ~Around /\ ~Crash
      BY <2>1, EnvironmentRows DEF Around, Environment
    <2>5. ~StartLive /\ ~Fetch /\ ~Pauses /\ ~UNCHANGED vars
      BY <2>1 DEF StartLive, Start, Fetch, Pauses, vars
    <2>6. ~Reclaim
      <3>1. Reclaim => row'[p] = row[p]
        BY DEF Reclaim
      <3> QED BY <2>1, <3>1
    <2> QED BY <2>1, <2>2, <2>3, <2>4, <2>5, <2>6, StepKinds, ProcessSplit DEF Works
  <1>4. DrainSpec => [][Spaced]_drainVars
    <2>1. Inv /\ RunnerInv' /\ [DrainNext]_drainVars => Inv'
      BY <1>2
    <2> HIDE DEF Spaced, Inv
    <2>2. Inv <=> RunnerInv /\ Rested
      BY DEF Inv
    <2> QED BY <1>1, <1>3, <2>1, <2>2, RunnerInvHolds, PTL DEF DrainSpec
  <1> QED BY <1>4, PTL DEF BackoffSpacesRetries
=============================================================================
