------------------------- MODULE RoutingAssessment -------------------------
(***************************************************************************)
(* The commercial routing runner of the CRM (crm_ai_assessment_runner.py): *)
(* one invocation at a time, under a PostgreSQL advisory lock, reclaims    *)
(* the rows of a dead predecessor, snapshots the eligible procurements and *)
(* takes them one by one through claim, guards, enrichment, inference, the *)
(* read of the manual overrides, the commit and the persistence of the     *)
(* opportunities.  Meanwhile the source system edits procurements, time    *)
(* passes, and managers save overrides from the UI, each in several        *)
(* separately committed statements.                                        *)
(*                                                                         *)
(* A procurement is an element of Procs whose row passes                   *)
(* source_integrity_ok.  Its fingerprinted content is a text, a number;    *)
(* the texts it has had are kept in the order of the edits, and an edit    *)
(* may bring an earlier text back.  Durations are ages since               *)
(* ai_assessed_at, which saturate at AgeCap (NULL counts as infinitely     *)
(* old, so it is AgeCap too).                                              *)
(***************************************************************************)
EXTENDS Integers, FiniteSets, Sequences

CONSTANTS
    Procs,        \* procurements
    SampleGroup,  \* rows of quality_gate_samples (--group)
    Prior,        \* procurements whose OKPD code has a routing prior
    Design,       \* procurements whose title reads as design or survey work
    MaxAttempts,  \* MAX_ROUTING_ATTEMPTS
    Lease,        \* ROUTING_PROCESSING_LEASE_SEC
    BackoffBase,  \* FAILED_RETRY_BACKOFF_BASE_SEC
    BackoffMax,   \* FAILED_RETRY_BACKOFF_MAX_SEC
    AgeCap,       \* bound: ages saturate here
    BatchLimit,   \* --limit
    Budget,       \* bound: number of disturbances (edits, crashes, ...)
    Events,       \* which disturbances may happen
    ShadowMode,   \* qwen_shadow_mode()
    NoItem        \* no procurement is being processed

ASSUME TimeAssumption ==
    /\ Lease \in Nat /\ BackoffBase \in Nat /\ BackoffMax \in Nat
    /\ AgeCap \in Nat /\ AgeCap > Lease /\ AgeCap >= BackoffMax

ASSUME CountAssumption ==
    /\ MaxAttempts \in Nat \ {0} /\ BatchLimit \in Nat \ {0} /\ Budget \in Nat

ASSUME GroupAssumption == SampleGroup \subseteq Procs

ASSUME ModeAssumption == ShadowMode \in BOOLEAN

Statuses == {"UNASSESSED", "QUEUED", "RUNNING", "COMPLETED", "FAILED",
             "STALE", "NEEDS_REVIEW"}
Transient == "TRANSIENT"     \* any member of TRANSIENT_ERROR_CLASSES
Terminal  == {"INVALID_CATEGORY", "V3_DISABLED"}
NonRetryable == Terminal \cup {"MAX_ATTEMPTS_EXCEEDED"}
Errors == NonRetryable \cup {"NONE", Transient, "LEASE_EXPIRED",
                             "WAITING_NOT_ROUTABLE_SKIP"}

Stages == {"torgi", "commission", "razygranye"}
Modes  == {"live", "single", "group", "force"}

(* Which way of shaping the row the recorded hash was computed from: the   *)
(* three code paths hash different dictionaries.                           *)
Shapes == {"live", "group", "force"}

(* A fingerprint hashes the content, so two are equal exactly when shape   *)
(* and text are; text 0 stands for NULL.                                   *)
Fingerprints == [shape : Shapes, text : Nat]
NoFingerprint == [shape |-> "live", text |-> 0]

VARIABLES
    row,     \* crm_procurements, the columns the runner reads and writes
    source,  \* what the source system currently says of each procurement
    infer,   \* history: the edits the current assessment comes from (0: none)
    ovr,     \* procurements with a row in crm_manual_overrides
    expert,  \* procurements with a current expert annotation
    saving,  \* UI saves that have written the override but not the row
    mode,    \* mode of the invocation that holds the lock, or "none"
    pc,      \* where that invocation is
    batch,   \* snapshots still to be processed
    item,    \* the procurement in process_item, or NoItem
    budget   \* disturbances left

env  == <<source, ovr, expert, saving>>
vars == <<row, source, infer, ovr, expert, saving, mode, pc, batch, item, budget>>

Row == [status : Statuses, attempts : Nat, age : 0..AgeCap, err : Errors,
        fp : Fingerprints, reassess : BOOLEAN, manual : BOOLEAN,
        qual : {"none", "model", "human"}]

(* The texts of a procurement, edit by edit. *)
Texts == Seq(Nat \ {0}) \ {<<>>}

(* Deadlines are numbered: end is the one announced, those up to passed    *)
(* lie before today.                                                       *)
Source == [texts : Texts, stage : Stages, endKnown : BOOLEAN,
           end : Nat, passed : Nat]

(* edit is history: at which edit of the procurement the row was read.     *)
Snapshot == [proc : Procs, fp : Fingerprints, edit : Nat, stage : Stages,
             endKnown : BOOLEAN, end : Nat]

(* got is history: at which edit the text the model is asked about was read. *)
Item == [snap : Snapshot, got : Nat, v3 : BOOLEAN, seen : BOOLEAN]

(* snap: the edit the recorded fingerprint was taken at; read: the one the *)
(* inference saw.                                                          *)
Provenance == [snap : Nat, read : Nat]

ASSUME NoItemAssumption == NoItem \notin Item

Locations == {"idle", "reclaim", "fetch", "next", "claimed", "infer",
              "inferred", "ready", "persist"}
InItem    == {"claimed", "infer", "inferred", "ready", "persist"}

Init ==
    /\ row = [p \in Procs |->
                [status |-> "UNASSESSED", attempts |-> 0, age |-> AgeCap,
                 err |-> "NONE", fp |-> NoFingerprint, reassess |-> FALSE,
                 manual |-> FALSE, qual |-> "none"]]
    /\ source \in [Procs -> [texts : {<<1>>}, stage : Stages, endKnown : BOOLEAN,
                             end : {1}, passed : {0}]]
    /\ infer = [p \in Procs |-> [snap |-> 0, read |-> 0]]
    /\ ovr = {} /\ expert = {} /\ saving = {}
    /\ mode = "none" /\ pc = "idle" /\ batch = {} /\ item = NoItem
    /\ budget = Budget

-----------------------------------------------------------------------------
(* Lifecycle and eligibility: pure functions of the row and the calendar.  *)

Lifecycle(stage, endKnown, past) ==
    CASE stage = "razygranye" -> "AWARDED"
      [] stage = "commission" -> "WAITING_SOURCE_OUTCOME"
      [] OTHER -> IF endKnown /\ past THEN "WAITING_SOURCE_OUTCOME" ELSE "OPEN"

Past(p) == source[p].end <= source[p].passed

CrmLifecycle(p) == Lifecycle(source[p].stage, source[p].endKnown, Past(p))

Lane(p) ==
    LET lc == CrmLifecycle(p) IN
    CASE lc = "OPEN"                     -> "ACTIVE_OPEN"
      [] lc = "AWARDED" /\ p \in Prior   -> "AWARDED_ADMITTED"
      [] lc = "AWARDED" /\ p \in Design  -> "REVIEW_DISCOVERY"
      [] OTHER                           -> "NONE"

(* Mutant: the lease is compared with something no row reaches. *)
LeaseExpired_Never(r) == r.age > AgeCap

LeaseExpired(r) == r.age > Lease

(* Mutant: the first retry is free. *)
Backoff_FirstFree(attempts) ==
    IF attempts <= 1 THEN 0 ELSE BackoffMax

Backoff(attempts) ==
    LET n == IF attempts < 1 THEN 1 ELSE attempts
        d == BackoffBase * 2^(n - 1)
    IN  IF d < BackoffMax THEN d ELSE BackoffMax

Edits(p) == Len(source[p].texts)
Text(p, edit) == source[p].texts[edit]
Current(p) == Text(p, Edits(p))

LiveFp(p) == [shape |-> "live", text |-> Current(p)]

(* Mutant: NEEDS_REVIEW is not held. *)
StatusSelectable_NoHold(p) ==
    LET r == row[p] IN
    \/ r.status \in {"UNASSESSED", "QUEUED", "NEEDS_REVIEW"}
    \/ r.status = "COMPLETED" /\ (r.fp # LiveFp(p) \/ r.reassess)

(* Mutant: a reclaimed row is retried whatever its attempts. *)
StatusSelectable_NoLimit(p) ==
    LET r == row[p] IN
    \/ r.status \in {"UNASSESSED", "QUEUED", "STALE"}
    \/ r.status = "FAILED" /\ r.age >= Backoff(r.attempts)

(* Mutant: a reclaimed row is never retried. *)
StatusSelectable_NoStale(p) ==
    LET r == row[p] IN
    \/ r.status \in {"UNASSESSED", "QUEUED"}
    \/ r.status = "COMPLETED" /\ (r.fp # LiveFp(p) \/ r.reassess)
    \/ r.status = "FAILED" /\ r.attempts < MaxAttempts /\ r.age >= Backoff(r.attempts)

StatusSelectable(p) ==
    LET r == row[p] IN
    \/ r.status \in {"UNASSESSED", "QUEUED"}
    \/ r.status = "RUNNING" /\ LeaseExpired(r)
    \/ r.status = "COMPLETED" /\ (r.fp # LiveFp(p) \/ r.reassess)
    \/ r.status = "STALE" /\ r.attempts < MaxAttempts
    \/ /\ r.status = "FAILED" /\ r.attempts < MaxAttempts
       /\ r.err \notin NonRetryable
       /\ r.age >= Backoff(r.attempts)

Selectable(p) == ~row[p].manual /\ Lane(p) # "NONE" /\ StatusSelectable(p)

(* REVIEW_DISCOVERY is eligible but has no share of the batch. *)
Allocatable(p) == Selectable(p) /\ Lane(p) # "REVIEW_DISCOVERY"

-----------------------------------------------------------------------------
(* The invocation: lock, reclaim, snapshot.                                *)

(* main() takes the advisory lock; an invocation that finds it busy exits  *)
(* without a trace.  The timer starts live runs, an operator the others.   *)
Start(m) ==
    /\ pc = "idle"
    /\ mode' = m /\ pc' = "reclaim"
    /\ UNCHANGED <<row, infer, env, batch, item>>

StartLive == Start("live") /\ UNCHANGED budget

Reclaim ==
    /\ pc = "reclaim"
    /\ row' = [p \in Procs |->
                 IF row[p].status = "RUNNING" /\ LeaseExpired(row[p])
                 THEN [row[p] EXCEPT !.status = "STALE",
                         !.err = IF @ = "NONE" THEN "LEASE_EXPIRED" ELSE @]
                 ELSE row[p]]
    /\ pc' = "fetch"
    /\ UNCHANGED <<infer, env, mode, batch, item, budget>>

Snap(p, shape, endKnown) ==
    [proc |-> p, fp |-> [shape |-> shape, text |-> Current(p)], edit |-> Edits(p),
     stage |-> source[p].stage, endKnown |-> endKnown, end |-> source[p].end]

SnapAll(P, shape) == {Snap(p, shape, source[p].endKnown) : p \in P}

LowerOf(a, b) == IF a < b THEN a ELSE b

(* The batches fetch_candidates and its siblings may return. *)
FetchLive == \E P \in SUBSET {p \in Procs : Allocatable(p)} :
    /\ Cardinality(P) =
         LowerOf(BatchLimit, Cardinality({p \in Procs : Allocatable(p)}))
    /\ batch' = SnapAll(P, "live")

FetchSingle == \E p \in Procs :
    batch' = SnapAll({q \in {p} : Selectable(q)}, "live")

FetchGroup == \E P \in SUBSET SampleGroup :
    /\ Cardinality(P) = LowerOf(BatchLimit, Cardinality(SampleGroup))
    /\ batch' = SnapAll(P, "group")

(* Controlled reassessment hashes the enriched row, which may or may not   *)
(* hash to what the production selector computes, and enrichment may or    *)
(* may not reach S7 to fill a missing end date.                            *)
FetchForce == \E p \in Procs, shape \in {"live", "force"}, enriched \in BOOLEAN :
    batch' = {Snap(p, shape, source[p].endKnown \/ enriched)}

Fetch ==
    /\ pc = "fetch"
    /\ \/ mode = "live"   /\ FetchLive
       \/ mode = "single" /\ FetchSingle
       \/ mode = "group"  /\ FetchGroup
       \/ mode = "force"  /\ FetchForce
    /\ pc' = "next"
    /\ UNCHANGED <<row, infer, env, mode, item, budget>>

(* End of the batch: a drain fetches the next one, anything else returns.  *)
NextBatch ==
    /\ pc = "next" /\ batch = {} /\ mode = "live"
    /\ pc' = "reclaim"
    /\ UNCHANGED <<row, infer, env, mode, batch, item, budget>>

(* Mutant: the run ends without unlocking. *)
Finish_KeepsLock ==
    /\ pc = "next" /\ batch = {}
    /\ pc' = "idle"
    /\ UNCHANGED <<row, infer, env, mode, batch, item, budget>>

(* The finally clause unlocks. *)
Finish ==
    /\ pc = "next" /\ batch = {}
    /\ pc' = "idle" /\ mode' = "none"
    /\ UNCHANGED <<row, infer, env, batch, item, budget>>

-----------------------------------------------------------------------------
(* process_item.  Every statement is its own transaction, except Commit.   *)

Put(p, r) == row' = [row EXCEPT ![p] = r]

(* Every status update stamps ai_assessed_at and the error class. *)
Mark(r, status, error) ==
    [r EXCEPT !.status = status, !.age = 0, !.err = error]

(* The item is left: the loop in run_live takes the next one. *)
Leave == pc' = "next" /\ item' = NoItem

(* Mutant: the claim knows nothing of reclaimed rows. *)
ClaimAccepts_NoStale(p, fp) ==
    LET r == row[p] IN
    \/ mode = "force"
    \/ r.status \in {"UNASSESSED", "QUEUED", "FAILED"}
    \/ r.reassess
    \/ r.status = "COMPLETED" /\ r.fp # fp
    \/ r.status = "RUNNING" /\ LeaseExpired(r)

ClaimAccepts(p, fp) ==
    LET r == row[p] IN
    \/ mode = "force"
    \/ r.status \in {"UNASSESSED", "QUEUED", "FAILED", "STALE"}
    \/ r.reassess
    \/ r.status = "COMPLETED" /\ r.fp # fp
    \/ r.status = "RUNNING" /\ LeaseExpired(r)

(* The number of rows the UPDATE hit is ignored: processing goes on even   *)
(* when the row was not claimed.                                           *)
Claim(s) ==
    LET p == s.proc IN
    /\ pc = "next" /\ s \in batch
    /\ batch' = batch \ {s}
    /\ item' = [snap |-> s, got |-> 0, v3 |-> FALSE, seen |-> FALSE]
    /\ pc' = "claimed"
    /\ IF ClaimAccepts(p, s.fp)
       THEN Put(p, [Mark(row[p], "RUNNING", "NONE") EXCEPT !.attempts = @ + 1])
       ELSE UNCHANGED row
    /\ UNCHANGED <<infer, env, mode, budget>>

SkipWaiting(p) ==
    /\ Put(p, [Mark(row[p], "UNASSESSED", "WAITING_NOT_ROUTABLE_SKIP")
                 EXCEPT !.attempts = IF @ = 0 THEN 0 ELSE @ - 1])
    /\ Leave
    /\ UNCHANGED <<infer, env, mode, batch, budget>>

(* _fail(): retryable until the attempts are used up. *)
FailRow(p) ==
    IF row[p].attempts >= MaxAttempts
    THEN Mark(row[p], "NEEDS_REVIEW", "MAX_ATTEMPTS_EXCEEDED")
    ELSE Mark(row[p], "FAILED", Transient)

Fail(p) ==
    /\ Put(p, FailRow(p))
    /\ Leave
    /\ UNCHANGED <<infer, env, mode, batch, budget>>

ToReview(p, error) ==
    /\ Put(p, Mark(row[p], "NEEDS_REVIEW", error))
    /\ Leave
    /\ UNCHANGED <<infer, env, mode, batch, budget>>

(* The snapshot's lifecycle against today's date. *)
SnapLifecycle(s) == Lifecycle(s.stage, s.endKnown, s.end <= source[s.proc].passed)

(* Mutant: the guard returns early without giving the row back. *)
GuardSkip_Forgets ==
    /\ pc = "claimed"
    /\ SnapLifecycle(item.snap) = "WAITING_SOURCE_OUTCOME"
    /\ Leave
    /\ UNCHANGED <<row, infer, env, mode, batch, budget>>

(* First guard, on the snapshot. *)
GuardSkip ==
    /\ pc = "claimed"
    /\ SnapLifecycle(item.snap) = "WAITING_SOURCE_OUTCOME"
    /\ SkipWaiting(item.snap.proc)

Routable == pc = "claimed" /\ SnapLifecycle(item.snap) # "WAITING_SOURCE_OUTCOME"

V3Disabled == Routable /\ ToReview(item.snap.proc, "V3_DISABLED")

(* Schema not ready, or an exception while the input is built. *)
FailBeforeInput == Routable /\ Fail(item.snap.proc)

(* An OKPD rule decides without the model, from the snapshot. *)
RuleDecides ==
    /\ Routable
    /\ item' = [item EXCEPT !.got = item.snap.edit]
    /\ pc' = "inferred"
    /\ UNCHANGED <<row, infer, env, mode, batch, budget>>

(* ensure_v3_model_input re-reads the row, fills a missing end date from   *)
(* S7 when it can, and the lifecycle is checked a second time.  A forced   *)
(* item carries the input it was fetched with.                             *)
Refresh(enriched) ==
    LET s == item.snap IN
    IF mode = "force"
    THEN [edit |-> s.edit, lc |-> SnapLifecycle(s)]
    ELSE [edit |-> Edits(s.proc),
          lc |-> Lifecycle(source[s.proc].stage,
                           source[s.proc].endKnown \/ enriched,
                           Past(s.proc))]

PostEnrichSkip == \E enriched \in BOOLEAN :
    /\ Routable
    /\ Refresh(enriched).lc = "WAITING_SOURCE_OUTCOME"
    /\ SkipWaiting(item.snap.proc)

Enrich == \E enriched \in BOOLEAN :
    /\ Routable
    /\ Refresh(enriched).lc # "WAITING_SOURCE_OUTCOME"
    /\ item' = [item EXCEPT !.got = Refresh(enriched).edit, !.v3 = TRUE]
    /\ pc' = "infer"
    /\ UNCHANGED <<row, infer, env, mode, batch, budget>>

(* Timeout, unparsable JSON, exception in the engine. *)
InferenceFails == pc = "infer" /\ Fail(item.snap.proc)

InvalidCategory == pc = "infer" /\ ToReview(item.snap.proc, "INVALID_CATEGORY")

InferenceSucceeds ==
    /\ pc = "infer"
    /\ pc' = "inferred"
    /\ UNCHANGED <<row, infer, env, mode, batch, item, budget>>

ReadOverrides ==
    /\ pc = "inferred"
    /\ item' = [item EXCEPT !.seen = (item.snap.proc \in ovr)]
    /\ pc' = "ready"
    /\ UNCHANGED <<row, infer, env, mode, batch, budget>>

(* Mutant: the fingerprint is computed afresh at the commit. *)
CommittedRow_FreshFp(p) ==
    [Mark(row[p], "COMPLETED", row[p].err) EXCEPT !.fp = LiveFp(p), !.reassess = FALSE]

(* Mutant: the commit resets manual_override. *)
CommittedRow_NoManual(p) ==
    [Mark(row[p], "COMPLETED", row[p].err)
       EXCEPT !.fp = item.snap.fp, !.reassess = FALSE, !.manual = FALSE]

CommittedRow(p) ==
    LET done == [Mark(row[p], "COMPLETED", row[p].err)
                   EXCEPT !.fp = item.snap.fp, !.reassess = FALSE]
    IN  IF ShadowMode \/ p \in expert
        THEN done
        ELSE [done EXCEPT !.manual = item.seen,
                !.qual = IF item.seen THEN "human" ELSE "model"]

(* One transaction: the old assessment is retired, the new one inserted,   *)
(* the row completed.                                                      *)
Commit ==
    LET p == item.snap.proc IN
    /\ pc = "ready"
    /\ Put(p, CommittedRow(p))
    /\ infer' = [infer EXCEPT ![p] = [snap |-> item.snap.edit, read |-> item.got]]
    /\ IF item.v3 THEN pc' = "persist" /\ UNCHANGED item ELSE Leave
    /\ UNCHANGED <<env, mode, batch, budget>>

Persist ==
    /\ pc = "persist"
    /\ Leave
    /\ UNCHANGED <<row, infer, env, mode, batch, budget>>

(* The outer except: no look at the attempts, and a row the commit has     *)
(* just completed becomes FAILED when the persistence raises.              *)
Unexpected ==
    LET p == item.snap.proc IN
    /\ \/ pc \in {"inferred", "ready", "persist"}
       \/ Routable
    /\ Put(p, Mark(row[p], "FAILED", Transient))
    /\ Leave
    /\ UNCHANGED <<infer, env, mode, batch, budget>>

ProcessItem ==
    \/ \E s \in batch : Claim(s)
    \/ GuardSkip \/ V3Disabled \/ FailBeforeInput \/ RuleDecides
    \/ PostEnrichSkip \/ Enrich
    \/ InferenceFails \/ InvalidCategory \/ InferenceSucceeds
    \/ ReadOverrides \/ Commit \/ Persist \/ Unexpected

RunnerStep == Reclaim \/ Fetch \/ NextBatch \/ Finish \/ ProcessItem

-----------------------------------------------------------------------------
(* Everything else.                                                        *)

Disturb(event) == event \in Events /\ budget > 0 /\ budget' = budget - 1

runner == <<mode, pc, batch, item>>

StartOperator == \E m \in Modes \ {"live"} : Disturb("operator") /\ Start(m)

(* The process or its database session dies; the server drops the lock. *)
Crash ==
    /\ Disturb("crash") /\ pc # "idle"
    /\ mode' = "none" /\ pc' = "idle" /\ batch' = {} /\ item' = NoItem
    /\ UNCHANGED <<row, infer, env>>

(* The projection rewrites the row: with a text it never had, or with an   *)
(* earlier one.                                                            *)
SourceEdit(p) == \E text \in 1..(Edits(p) + 1) \ {Current(p)} :
    /\ Disturb("edit")
    /\ source' = [source EXCEPT ![p].texts = Append(@, text)]
    /\ UNCHANGED <<row, infer, ovr, expert, saving, runner>>

StageChange(p) == \E stage \in Stages \ {source[p].stage} :
    /\ Disturb("stage")
    /\ source' = [source EXCEPT ![p].stage = stage]
    /\ UNCHANGED <<row, infer, ovr, expert, saving, runner>>

(* The deadline passes or is extended; the sync fills a missing end date. *)
DeadlineChange(p) ==
    /\ Disturb("deadline")
    /\ \/ ~Past(p) /\ source' = [source EXCEPT ![p].passed = source[p].end]
       \/ source' = [source EXCEPT ![p].end = source[p].end + 1]
       \/ ~source[p].endKnown /\ source' = [source EXCEPT ![p].endKnown = TRUE]
    /\ UNCHANGED <<row, infer, ovr, expert, saving, runner>>

(* reassessment_requested is set by hand, in SQL. *)
RequestReassess(p) ==
    /\ Disturb("reassess")
    /\ Put(p, [row[p] EXCEPT !.reassess = TRUE])
    /\ UNCHANGED <<infer, env, runner>>

(* The medal form: the override first, the row last, no transaction. *)
SaveOverride(p) ==
    /\ Disturb("override") /\ p \notin saving
    /\ ovr' = ovr \cup {p} /\ saving' = saving \cup {p}
    /\ UNCHANGED <<row, source, infer, expert, runner>>

ApplyOverride(p) ==
    /\ p \in saving
    /\ saving' = saving \ {p}
    /\ Put(p, [row[p] EXCEPT !.manual = TRUE, !.qual = "human"])
    /\ UNCHANGED <<source, infer, ovr, expert, runner, budget>>

SaveFails(p) ==
    /\ p \in saving
    /\ saving' = saving \ {p}
    /\ UNCHANGED <<row, source, infer, ovr, expert, runner, budget>>

SaveExpert(p) ==
    /\ Disturb("expert") /\ p \notin expert
    /\ expert' = expert \cup {p}
    /\ UNCHANGED <<row, source, infer, ovr, saving, runner>>

Tick ==
    /\ \E p \in Procs : row[p].age < AgeCap
    /\ row' = [p \in Procs |-> [row[p] EXCEPT !.age = LowerOf(@ + 1, AgeCap)]]
    /\ UNCHANGED <<infer, env, runner, budget>>

Environment ==
    \/ StartOperator \/ Crash \/ Tick
    \/ \E p \in Procs :
          \/ SourceEdit(p) \/ StageChange(p) \/ DeadlineChange(p)
          \/ RequestReassess(p)
          \/ SaveOverride(p) \/ ApplyOverride(p) \/ SaveFails(p)
          \/ SaveExpert(p)

Next == StartLive \/ RunnerStep \/ Environment

Spec == Init /\ [][Next]_vars

(* The timer keeps starting live runs, a run that is not killed goes on,   *)
(* time passes.                                                            *)
FairSpec == Spec /\ WF_vars(StartLive) /\ WF_vars(RunnerStep) /\ WF_vars(Tick)

-----------------------------------------------------------------------------
(* Types: every column, snapshot and in-flight item holds a value the code *)
(* can put there, and an item exists exactly inside process_item.          *)
TypeOK ==
    /\ row \in [Procs -> Row]
    /\ source \in [Procs -> Source]
    /\ infer \in [Procs -> Provenance]
    /\ ovr \subseteq Procs /\ expert \subseteq Procs /\ saving \subseteq Procs
    /\ mode \in Modes \cup {"none"} /\ (mode = "none" <=> pc = "idle")
    /\ pc \in Locations
    /\ batch \subseteq Snapshot
    /\ IF pc \in InItem THEN item \in Item ELSE item = NoItem
    /\ budget \in Nat

(* A row whose recorded fingerprint is the current one is never             *)
(* reselected, so its assessment must rest on the current content, although *)
(* the fingerprint is taken from the snapshot and the model input from a    *)
(* later read of the row.  One case is left to the code: an edit between    *)
(* the two reads and, after the second, another that takes it back.         *)
FingerprintHonest ==
    \A p \in Procs : row[p].fp = LiveFp(p) =>
        \/ Text(p, infer[p].read) = Current(p)
        \/ infer[p].snap < infer[p].read /\ infer[p].read < Edits(p)

(* The runner never checks that its claim hit the row.  In live and single  *)
(* mode it always has: what evaluate_routing_eligibility lets through at    *)
(* the snapshot, the WHERE clause of the claim accepts later on.            *)
LiveWorkIsClaimed ==
    mode \in {"live", "single"} /\ pc \in InItem \ {"persist"}
        => row[item.snap.proc].status = "RUNNING"

(* No way out of process_item, short of dying, leaves its row RUNNING for   *)
(* the lease to run out.                                                    *)
EveryExitSettles ==
    [][\A p \in Procs :
         item # NoItem /\ item' = NoItem /\ p = item.snap.proc /\ pc' # "idle"
            => row'[p].status # "RUNNING"]_vars

(* NEEDS_REVIEW is a hold: only an operator's group or forced run takes a   *)
(* row out of it, whatever requests, edits and overrides arrive.            *)
ReviewIsHeld ==
    [][\A p \in Procs :
         row[p].status = "NEEDS_REVIEW" /\ row'[p].status # "NEEDS_REVIEW"
            => mode \in {"group", "force"}]_vars

(* A failed or reclaimed row that has used up MAX_ROUTING_ATTEMPTS is not   *)
(* taken up again by the timer's runs.                                      *)
ExhaustedNotRetried ==
    [][\A p \in Procs :
         row[p].status \in {"FAILED", "STALE"} /\ row[p].attempts >= MaxAttempts
         /\ row'[p].status = "RUNNING"
            => mode \in {"group", "force"}]_vars

(* The model takes a row back from a manager in one window only: the item   *)
(* read crm_manual_overrides before the manager's save and commits after.   *)
OverrideLostOnlyInWindow ==
    [][\A p \in Procs :
         row[p].manual /\ ~row'[p].manual
            => pc = "ready" /\ item.snap.proc = p /\ ~item.seen /\ p \in ovr]_vars

(* The row of a runner that died is given back: nothing stays RUNNING.      *)
RunningIsLeft ==
    \A p \in Procs : row[p].status = "RUNNING" ~> row[p].status # "RUNNING"

(* Nothing more to do for p: the current fingerprint is on record, parked   *)
(* for review, out of attempts, or not for the timer's runs to take.        *)
Settled(p) ==
    \/ row[p].status = "COMPLETED" /\ row[p].fp = LiveFp(p) /\ ~row[p].reassess
    \/ row[p].status = "NEEDS_REVIEW"
    \/ row[p].status \in {"FAILED", "STALE"} /\ row[p].attempts >= MaxAttempts
    \/ row[p].manual
    \/ Lane(p) \in {"NONE", "REVIEW_DISCOVERY"}

(* Once the disturbances end, every procurement is settled for good, save   *)
(* those whose missing end date hides a passed deadline.                    *)
EventuallySettled ==
    \A p \in Procs :
        <>[](Settled(p) \/ (Past(p) /\ ~source[p].endKnown))

-----------------------------------------------------------------------------
(* The inductive strengthenings behind FingerprintHonest, LiveWorkIsClaimed *)
(* and the two holds.                                                       *)

(* A text taken down as that of some edit is the text of that edit.         *)
Dated(p, text, edit) == edit \in 1..Edits(p) /\ text = Text(p, edit)

(* Contents only travel forward, from source through snapshot and model     *)
(* input to the assessment: the recorded text is that of the snapshot, and  *)
(* the inference read that edit or a later one.                             *)
VersionsInOrder ==
    /\ \A p \in Procs : row[p].fp.text # 0 =>
          /\ Dated(p, row[p].fp.text, infer[p].snap)
          /\ infer[p].read \in infer[p].snap..Edits(p)
    /\ \A s \in batch : Dated(s.proc, s.fp.text, s.edit)
    /\ pc \in InItem => Dated(item.snap.proc, item.snap.fp.text, item.snap.edit)
    /\ pc \in InItem \ {"claimed"} =>
          item.got \in item.snap.edit..Edits(item.snap.proc)

(* What the selector saw still holds when the claim comes. *)
Claimable(s) ==
    LET r == row[s.proc] IN
    /\ ClaimAccepts(s.proc, s.fp)
    /\ r.status # "NEEDS_REVIEW"
    /\ r.status \in {"FAILED", "STALE"} => r.attempts < MaxAttempts

(* In the timer's modes: the batch holds one claimable snapshot per         *)
(* procurement, none of the one in process, and that one is claimed.        *)
ClaimsInOrder ==
    /\ pc \in {"idle", "reclaim", "fetch"} => batch = {}
    /\ mode \in {"live", "single"} =>
          /\ \A s \in batch : Claimable(s)
          /\ \A s, t \in batch : s.proc = t.proc => s = t
          /\ pc \in InItem =>
                /\ \A s \in batch : s.proc # item.snap.proc
                /\ row[item.snap.proc].status =
                      IF pc = "persist" THEN "COMPLETED" ELSE "RUNNING"
=============================================================================
