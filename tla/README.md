# Verification project: construction opportunity intelligence

This directory holds TLA+ models of the parts of the repository whose
correctness depends on the order in which things happen: the commercial routing
runner of the CRM, the stores it writes, and the components that work on the
same tables at the same time.  TLC checks the models on small instances.  TLAPS
proves every safety property of the passing runs, for every value of the
constants or under the hypotheses that sections 2 to 9 name; liveness is
model-checked only.

## 1. The system

Two machines run it.  S7 keeps `tender_monitor`, a PostgreSQL database that the
EIS parsers fill with procurements (`reestr_contract_*` tables).  S13 keeps the
CRM database, the Streamlit application, the language model (Ollama) and the
document daemons.

| Component | State it keeps | Operations | Talks to |
|---|---|---|---|
| Routing runner (`crm_ai_assessment_runner.py`, `commercial_routing_v3/`) | columns `ai_*`, `reassessment_requested`, `manual_override`, `qualification_state` of `crm_procurements`; `procurement_ai_assessments` | reclaim, select, claim, guard, enrich, infer, commit, persist | timer, S7 (read only), GPU arbiter, opportunity store, UI through the tables |
| Backlog drain (`routing_drain.py`, `routing_backlog.py`, `routing_ready.py`) | none of its own; a status file | loop of batches until empty, out of time or without progress | runner, GPU arbiter |
| GPU arbiter (`gpu_arbiter.py`) | lock file, state file | acquire, release, publish queue depths | runner, other users of the GPU |
| Opportunity store (`opportunity_persistence.py`) | `crm_procurement_category_opportunities` | supersede, upsert, daily medal reevaluation | runner, lifecycle sync, expert lock |
| Opportunity lifecycle sync (`opportunity_lifecycle_sync.py`) | `commercial_state`, audit table | decide, write, audit | source projection; not on the production timer |
| Source projection (`projection.py`, `projection_writer.py`, `crm_procurements_sync.py`) | identity and source columns of `crm_procurements` | index, match, insert, update | S7 |
| Manual overrides and expert annotations (`card_tabs_medals.py`, `expert_annotation_service.py`) | `crm_manual_overrides`, `crm_manual_category_overrides`, `crm_v3_expert_annotations` | save, mark out of profile, annotate, withdraw | runner through the tables |
| Document queue producers (`queue_producer.py`, `research_queue_lifecycle.py`, `s13_v2_queue_producer.py`) | `document_research_queue` | upsert, supersede, cancel | daemons |
| Document daemons (`tender_documents_research/document_processor`) | queue rows, per-file registry, results | claim a batch, process files, complete, reset stale | queue, file system, CRM bridge |
| Legacy assessment runner (`ai_assessment_runner.py`) | `procurement_ai_assessments` on S7 | as the routing runner | S7 |
| Analytics snapshots (`v3_analytics_refresh.py`, `_cache.py`, `_precutover.py`, `_read.py`) | generations and rows in the CRM, or `meta.json` and one snapshot file | start, write, switch, fail, read | timer, button and page |
| System health, CRM pages, golden canary | reports and history tables | read, render, record | everything, read only |

What is hard about it:

* **Unserialised writers.**  The runner works on a snapshot for minutes per
  item; source sync, managers and expert annotations write the same rows
  meanwhile.  Almost every statement is its own transaction.
* **Crashes.**  A lease, not a transaction, protects a claimed row.
* **Retries.**  Attempts, back-off, error class, lease and hold states decide
  together whether a row is ever taken up again.
* **Two statements of one predicate.**  Eligibility is decided in Python, the
  claim repeats it in SQL, and nobody looks at the claim's row count.

`PROJECT.json` lists each hazard at its line with the property that covers it.

How the modules stand to each other:

| Module | Extends or instantiates | Models |
|---|---|---|
| `RoutingAssessment` | | the runner over the rows of the CRM (section 2) |
| `RoutingDrain` | `RoutingAssessment` | the timer's loop around the runner (3) |
| `GpuArbiter` | `GpuSlot` as its abstract specification | the lock and state file of the model (4) |
| `OpportunityStore` | | the opportunity table and its four writers (5) |
| `ProjectionSync` | | from source rows to CRM rows (6) |
| `DocumentQueue` | | producers, queue and daemons (7) |
| `DocumentFiles` | | one task of a daemon, page by page (8) |
| `AnalyticsCache` | | the snapshots of the analytics page (9) |

`MC...` modules name the model values of the runs; `...Proofs` modules hold the
theorems.  The `.cfg` files give constants their values and replace nothing.

## 2. The routing runner: `RoutingAssessment`

### State and actions

| Variable | In the code |
|---|---|
| `row[p]` | the row of `crm_procurements`: status, attempts, age of `ai_assessed_at`, error class, fingerprint, `reassessment_requested`, `manual_override`, who set `qualification_state` |
| `source[p]` | what the source says: the texts it has had, edit by edit, the stage, the deadline and whether the CRM row has it |
| `infer[p]` | history: the edit at which the recorded fingerprint was taken, and the one the inference of the current assessment read |
| `ovr`, `saving`, `expert` | rows of `crm_manual_overrides`, half-done saves of the medal form, current expert annotations |
| `mode`, `pc`, `batch`, `item` | the one invocation that holds the advisory lock |
| `budget` | a bound: how many disturbances remain |

A run is `Start`, `Reclaim`, `Fetch` (live, single, group or forced), then per
snapshot `Claim`, the two lifecycle guards, the V3 gates, `Enrich`, the
inference and its failures, `ReadOverrides`, `Commit`, `Persist`, and
`Unexpected` for the outer `except`; it ends with `NextBatch` (drain) or
`Finish`.  Around it `Crash`, `SourceEdit`, `StageChange`, `DeadlineChange`,
`RequestReassess`, `SaveOverride`, `ApplyOverride`, `SaveFails`, `SaveExpert`
and `Tick` interleave freely.

Abstractions.

* The fingerprint is a hash of the content; the model keeps the text, a number,
  and the shape of the dictionary that was hashed.  `--group` adds the
  lifecycle before hashing, so its hash never equals the selector's; the forced
  path hashes the enriched row, which may or may not agree.
* An age saturates at `AgeCap`, above the lease and the longest back-off: no
  comparison of the code tells larger ages apart.  A NULL timestamp is as old as
  can be, which is what every comparison makes of it.
* The transient error classes are one value: the code treats them alike.
* The 70/30 split of a batch is abstracted: any selection of the right size.
  Rows in the `REVIEW_DISCOVERY` lane are eligible and never allocated, as in
  the code.
* Rows that fail `source_integrity_ok` are never touched and are not in `Procs`.
* Assumed configuration: `CRM_V3_WAITING_ROUTABLE` unset, candidate inference on.
* A busy advisory lock makes the invocation exit, so there is one runner.
* `reassessment_requested` is set by hand in SQL: no code under `src/` sets it.
* A deadline moved earlier is not modelled, an extended or passed one is.
* An edit, which is a write of the projection, of another sync or of S7, brings a
  new text or one the procurement has had before.

### Runs

| Run | Instance | Shows |
|---|---|---|
| `routing_one` | 1 procurement, 3 disturbances of every kind, 3 attempts, lease 1, ages to 2 | types, `FingerprintHonest`, `LiveWorkIsClaimed`, `EveryExitSettles`, `ReviewIsHeld`, `ExhaustedNotRetried`, `OverrideLostOnlyInWindow` |
| `routing_live` | 1 procurement, 2 disturbances, fairness | `RunningIsLeft`, `EventuallySettled` |

`FingerprintHonest` has one exception, which is the code's.  The fingerprint is
taken with the snapshot and the model is asked about a later read of the row
(`crm_ai_assessment_runner.py:342`).  An edit between the two makes the recorded
hash one that no longer matches, and the row is selected again; unless another
edit, after the inference, brings the first text back: then the hash matches and
the assessment rests on the text in between, for good.

Bounds.  Three disturbances let an override, an edit and a crash meet in one
item; three attempts is the production value.  The liveness run keeps lease,
first back-off and `AgeCap` distinct (2, 1, 3); the safety run needs only an age
below and one above each limit, and takes them smaller to afford the third
disturbance.  One procurement is enough for properties of one row, because items
only meet in the batch, where one waits while another is processed; waiting is
what an item does at every step already.  The theorems hold for any number.

Fairness.  `WF(StartLive)`: systemd restarts the drain every 45 seconds.
`WF(RunnerStep)`: a run that is not killed goes on, every call has a timeout.
`WF(Tick)`: time passes.  Nothing is assumed of managers, edits or crashes.
`EventuallySettled` leaves out one case the code does not settle: a CRM row
without end date whose S7 deadline has passed is selected as open, skipped
after enrichment, and selected again, for ever.

### Proofs: `RoutingAssessmentProofs`

For every set of procurements, every bound and every choice of events:

* `TypeCorrect`: `TypeOK` is invariant, and inductive as it stands.
* `FingerprintIsHonest`: `FingerprintHonest` says nothing of what is in
  flight.  The strengthening `VersionsInOrder` dates everything along its way: a
  recorded or snapshot text is the text of the edit it was read at, and the
  inference read that edit or a later one.  So either it read that very edit, or
  the exception above has happened.
* `LiveClaims`: `ClaimsInOrder` says that what the selector saw still holds
  when the claim comes: nothing but the runner itself can make a selected row
  unclaimable, because edits and requests only enlarge the claim's WHERE
  clause.  It needs that a batch holds one snapshot per procurement.
* `ReviewHolds`, `ExhaustedStays`: action properties from the same invariant.
* `ExitsSettle`: `CommitCompletes` says that between commit and persistence the
  row is not RUNNING, so the exits behind the commit, which write no status,
  settle it too.  The earlier exits write one themselves (`ItemStepShape`).
* `OverridesLast`: `OverridesRecorded` says that a manual flag on a row never
  comes without the entry in `crm_manual_overrides`, and that what the item read
  there is still there; a commit that clears the flag has read before it was set.

Assumptions: `TimeAssumption`, `CountAssumption`, `GroupAssumption`,
`ModeAssumption` and `NoItemAssumption` (the value of `item` outside
`process_item` is no item), all evaluated by TLC in every run.  Liveness, and with it
`RunningIsLeft` and `EventuallySettled`, is model-checked only; TLAPS has no
support for fairness reasoning over ENABLED.

## 3. The drain: `RoutingDrain`

The timer's invocation is a loop around the runner, and the module is written so:
it extends `RoutingAssessment`, takes its steps, and keeps the loop's own state
in `drain` (phase, whether the hour is over, what the current `run_live` has
counted, why it stopped).

| Action | In `run_backlog_drain` |
|---|---|
| `DrainStart` | `main()` takes the lock; counters at zero |
| `DrainTimeout`, `TimeUp` | the look at the clock, between batches only; the hour cannot be over before the first batch |
| `DrainReclaim`, `DrainEmpty` | the look at the backlog, which reclaims first, and the end of it |
| `DrainBatch`, `DrainWork` | `run_live`, which reclaims and selects afresh; every way out of `process_item` is counted once (`Tally`) |
| `ZeroProgress`, `DrainAgain` | nothing counted ends the drain, anything else repeats it |
| `DrainDies` | the process is killed |

`Meanwhile` is the rest of the world of `RoutingAssessment`, except operators:
the drain has the advisory lock.

The run `drain` has one procurement, two attempts and two disturbances of every
kind, with `WF(DrainStart)`, `WF(DrainStep)`, `WF(TimeUp)` and `WF(Tick)`: the
timer starts drains, an unkilled drain goes on, clock and calendar advance.
`DrainTypeOK` ties the loop to the lock; `BackoffSpacesRetries` is what keeps
batch after batch from burning the attempts of a failing row; `DrainEnds` needs
the look at the clock, because a batch that only gave rows back counts as
progress (each counts as a failure) and is repeated without pause, although the
comment at `routing_drain.py:159` speaks of avoiding exactly that; `DrainSettles` is
`EventuallySettled` for a world that has nothing but drains.

Proofs, `RoutingDrainProofs`.  `StepKinds` and `KindsAreSteps` say what a step of
the drain is to the runner: a step of the runner, or one of the two `Pauses`, in
which the loop stops or goes back to the backlog between two items, a move no
plain run makes.  So the invariants of section 2 need only be shown to survive a
pause: `DrainIsHonest` and `DrainKeepsHolds` carry them over.  `DrainTypeCorrect`
rests on `LoopOK`, the agreement of loop and lock.  `DrainSpacesRetries` adds
`Rested`: a failed row in the batch has aged since, because selection asked for
it and only the runner sets an age back.  It supposes a positive back-off and
positive cap (the environment may set 0, and then retries are not spaced) and,
since the provers do not know `^`, that powers of two are positive.
`DrainEnds` and `DrainSettles` stay with TLC.

## 4. The GPU arbiter: `GpuArbiter`

`call_ollama_qwen` enters `acquire_gpu_inference`: an flock on one file, polled,
and a JSON state file rewritten at every grant and release (`write_state`: read,
open a temporary file, write, rename).  `set_queue_depths`, which the drain
calls, rewrites the same file without the lock, through the same temporary name
(`Publishers`).  Other callers of the language model go around the arbiter
(`Bypassers`, `InferDirect`, `DirectEnds`): the golden canary
(`golden_canary_runner.py:311,325`), `computer_tz_ai.py:77`,
`object_ai_classifier.py:33`, and `call_ollama_qwen` itself with
`acquire_gpu=False` (`ai_assessment_runner.py:261`).

`pc[c]` is where client `c` is, `job[c]` on whose behalf it writes; `state` and
`tmp` are the two files and `fd[c]` what an open descriptor refers to, which
matters because a rename moves the file under a writer's hand.  `slots` and
`cur` are what a client has read.  A write is four steps, any of which a crash,
another writer or a missing file may cut short; the failure handlers are
`GrantFails`, `ReleaseFails` and `PublishFails`.

| Run | Instance | Shows |
|---|---|---|
| `gpu` | 3 clients, 2 of them publish, 1 bypasses the lock, 1 crash, fairness | `LockedInferencesExclude`, `StateNamesHolder`, `SlotsCountGrants`, `AnswersAreKept`, `WaitersAreServed`, `ImplementsSlot` |
| `gpu_overlap` | 2 clients, 1 bypasses the lock | finds `OneInference` violated |

`OneInference` is the docstring of `gpu_arbiter.py`,
`MAX_CONCURRENT_GPU_INFERENCE_JOBS=1`, and false of the code, because of the
callers that bypass the lock.  What the arbiter does give is
`LockedInferencesExclude`: of two inferences at once one has not taken it.

Publications harm the other three only by overlapping.  `Begin`, the start of a
call of `write_state`, notes in the history whom an overlap with a publication
touches: both writers, and whoever is inside the lock (`crossed`, and `spoilt`
for good).  Outside of that, the file names the client that infers, the counter
counts, and a release that notes itself loses no answer; a publication between
two writes, or during an inference, does no harm, because it puts back what it
read.  Inside of it each of the three fails in the code: two writes of one
temporary file tear it, the later rename undoes the earlier entry, and a release
whose temporary file has been renamed away raises in the finally clause and
turns an answer into an error.  The exemptions name exactly these overlaps.

`GpuSlot` is what the arbiter promises its callers: a slot, free or held, that a
caller gets, uses and gives back, or gives up waiting for.  `ImplementsSlot` is
the refinement, with `Phase` as mapping: a client waits while it polls, has the
slot from the flock to its release, whatever becomes of the state file on the
way, and a crash gives the slot back.  A caller around the lock is outside of
the slot.  It is checked with the abstract liveness: a slot in use is given
back.

`CHECK_DEADLOCK FALSE`: jobs are bounded by `MaxJobs`, and when all are done the
system rests.  Three clients are one holder, one waiter or second writer and one
that overtakes or bypasses; three jobs let two publications and a grant meet.
Fairness is weak, per client: a client that is not killed polls, writes, and
gets an answer or an error from the model, whose call has a timeout.

Proofs, `GpuArbiterProofs`, for any clients, publishers, bypassers, jobs and
crashes: `GpuTypeCorrect` (the type invariant, which no run repeats);
`HoldersOnlyInside` (the strengthening `HolderInside`: whoever has passed the
lock and not left holds it) and from it `InferencesExclude`; and `HolderIsNamed`,
`GrantsAreCounted` and `NoAnswerIsLost` from `FileInOrder`.  That strengthening
says that a write no publication crosses is the only one under way (`Apart`), so
the temporary file is its own, what it renames is what it wrote, and what it
wrote rests on a state nobody has changed (`ClientInOrder`, `CountInOrder`); a
publisher that meets an inference writes alone, and puts its holder back.
`ArbiterIsOneSlot` is the refinement without its fairness: every step maps to a
step of the slot or a stutter.  The fairness half and `WaitersAreServed` are
model-checked only.

## 5. The opportunity store: `OpportunityStore`

`crm_procurement_category_opportunities` has four writers that know nothing of
each other.  Each statement is an action, because each is its own transaction.

| Process | Actions | Code |
|---|---|---|
| Runner | `PersistStart` (lock lookup), `Supersede`, `Upsert`, `PersistDies` | `persist_category_opportunities` |
| Lifecycle sync | `SyncOpportunities`, `SyncSource`, `SyncAudit` (the queries and the computation), `SyncWrite`, `SyncLog` (one row each), `SyncDies` | `sync_opportunities_lifecycle` |
| Daily reevaluation | `Reevaluate`, `ReevaluateWrite` | `run_v3_daily_medal_reevaluation.py`, `persist_current_effective_lineage` |
| Expert | `SaveExpert` | `save_expert_annotation` |
| Source | `SourceMoves` | the projection writer and `sync_awarded` |

`rows` is the table as a sequence, its index the id.  A key has procurement,
category, subcategory and track; the subcategory may be NULL (`NoSub`), and
`Conflict` says what ON CONFLICT makes of that: nothing.  What a sync has still
to write and to audit are sets, taken in the order of the ids (`IsFirst`), which
is the order of its query.  Two histories: `fresh` in a sync's record, nothing
it read has changed since; and `raced`, the transitions that a sync found missing
in the audit while another one had found them missing and not inserted them yet.
Nothing keeps two syncs apart: `sync_all_processed` gives the job lock back
(`crm_procurements_sync.py:489`) before it calls the lifecycle sync.

Abstractions.  One routing version.  Medals are ranks; the reevaluation picks
any medal that is not higher, which is what `_clamp_time_only` guarantees of the
score rules; the scores beside the medals and the history table are left out.
The output of an assessment is any short sequence of the procurement's keys,
repetitions included, because nothing in `build_opportunity_rows` removes them.
Persist is neither dry run nor shadow.  `max()` over equal stages takes the
first of a query without ORDER BY: any.  Left out: LIMIT 5000, the branch for a
procurement that is missing (no code deletes one), `TERMINAL_NO_RESULT` (no code
produces it).

| Run | Instance | Shows |
|---|---|---|
| `opp_store` | 2 procurements of one identity, one of them with a named and an unnamed subcategory, 2 syncs, 2 medals, 3 rows, 3 disturbances among stage moves, persists, crashes, a sync that begins beside another, reevaluations, annotations and failing lookups | `StoreTypeOK`, `DuplicatesSuppressed`, `AuditHasNoDuplicates`, `StatesFollowSource`, `AcceptedIsLastOutput`, `FirstMedalIsKept` |
| `opp_medal` | counterexample | of two sibling subcategories one gets the other's better medal, although time alone must not improve one |

`CHECK_DEADLOCK FALSE`: without rows or disturbances left the store rests.  Three
disturbances are two assessments and a crash between them, or a stage move
between an assessment and the death of the persist or sync that follows; an
output of two keys is what makes the first and the last upsert differ.  The
history of both procurements and the sync fits, since a sync costs no
disturbance unless it begins beside another.  Two assessments and an overlap are
the case that doubles an entry of the audit.  `MaxAudit` bounds the entries after
which no sync begins: two procurements of equal stage may take turns for ever.
The two syncs are symmetric.

No liveness is claimed.  The sync hangs off `sync_all_processed`, which the
production timer has ceased to call (`scripts/run_crm_sync.py:11`); what a sync
achieves when it does run is `StatesFollowSource` and `DuplicatesSuppressed`.

Proofs, `OpportunityStoreProofs`, for any procurements, keys, syncs and bounds.
All start from `Basics`: types, and whatever a persist or a sync has in hand is
about rows that exist, which holds because the table only grows
(`StoreTypeCorrect`).

* `FirstMedalStays` needs `NamedOnce`: a named key has one row, so an upsert
  finds that one and leaves its first medal.
* `AcceptedIsWhole` needs `OutputInHand`: from the supersede on, the accepted
  keys and those still to be written make up the output; neither a sync nor a
  reevaluation accepts or supersedes a row, and the runner is one.
* `SyncRepairsStates` and `SyncPicksOne` need `FreshHolds`: while nothing has
  changed since, what a sync has read, computed and written is right, and every
  row that is not right yet is among what it has to write.  `Chosen` is a choice
  of one procurement per identity, the furthest, which `max()` makes.
* `AuditStaysUnique` holds for any syncs, overlapping or not: what a sync has
  still to insert is not in the audit, and no other sync has it still to insert,
  unless the two raced for it (`AuditHolds`).  Without the exemption of `raced`
  it is false, see section 11: the look for an earlier entry and the insert are
  two transactions.

## 6. The projection: `ProjectionSync`

`run_v3_projection_sync` turns lots of the source into rows of `crm_procurements`
and lets them follow their stage.  A lot wanders through three source tables and
gets a new id in each; only its contract number, which may come late, ties its
rows together.

| Variable | In the code |
|---|---|
| `src`, `numbered`, `past` | the source tables each lot is in, the lots with a contract number, those past their end date |
| `rows` | `crm_procurements`: number or placeholder, the source row it points to, whether it was awarded, status |
| `sync[s]` | one run: what the CRM knew (`known`), what was awarded since it began (`news`), the tables read so far (`got`), the index (`idx`), what is still to write (`todo`) |
| `raced` | history: lots inserted by a run that was not alone |

A run is `SyncStart` (the lots the CRM knows), three `Pull`s, `Index` (one
read of the whole CRM, then everything is decided in memory), one `Insert` or
`Update` per row, each a transaction, and `SyncEnd`; `UpsertFails` and `SyncDies`
cut it short.  The awarded table is asked for what is new and for what the CRM
knows, by contract number or by id (`projection_writer.py:374`): a lot is known
by a row with its number, and by the id of its awarded source row even when the
row of the CRM has only a placeholder.  Ids of other tables are in the same list;
one that happens to be the id of a stranger's award makes that be pulled, and
`Admitted` drops it again.  Around it `SourceMoves`, `NumberAppears`, `DeadlinePasses` and
`Hold` (an operator's `manual_hold`).

Run `projection`: one lot, two runs of the sync that may overlap, three events.
Lots share no row and no decision, so one is enough; four rows are more than a
lot can get.  `NumberHasOneRow`: a number has two rows only when two syncs
overlapped.  `RowsFollowSource`: after a sync that nothing disturbed every
numbered lot has a row at its furthest table with the stage of that, however
broken the syncs before it were and also when they have left a number with two
rows; only an award the CRM knew neither by number nor by id is not pulled.
`StageNeverFallsBack`: an older stage overwrites a newer one only when
two syncs overlap.

Proofs, `ProjectionSyncProofs`, for any lots, syncs and events.  `Basics`: types,
no source row has two CRM rows (`Schema`), and the rows of an index are still
there under the same lot and number (`IndexHolds`); `ProjectionTypeCorrect`.

* `OneRowPerNumber`: a sync that believes to be alone is (`Alone`), its list has
  a number once (`OnePerNumber`), and not one it has inserted since its index
  (`InsertsOnce`).
* `StagesOnlyAdvance`: a lot with a number in the CRM will be pulled at the
  stage of its row or further on, wherever it moves between the three reads
  (`PullsAhead`), since lots move in the order of the reads; so what is written
  does not lie behind the row (`WritesAhead`, `WritesInOrder`).
* `CompleteSyncFollows`: while nothing was disturbed, the pulls hold what the
  source holds, and the row by which an award was known is there for the index to
  find (`PullsAll`); the furthest row of a lot is still to be written or has been
  (`WritesAll`).

Left out: the second contour, rows that fail the identity checks, columns that
only mirror the source, dry run.  Statuses other than the stage's and
`manual_hold` are not written by this code.

## 7. The document queue: `DocumentQueue`

`document_processing_queue` lies between the routing runner and the daemons.
Producers look a procurement up and write in a second statement; daemons claim a
batch with `FOR UPDATE SKIP LOCKED` and mark rows by id.

| Process | Actions | Code |
|---|---|---|
| `Raisers` | `Look`, `Insert`, `Raise`, `KeepsDepth` | `s13_v2_queue_producer.py` |
| `Resetters` | `Look`, `Insert`, `Reset` | `commercial_routing_v3/queue_producer.py` |
| `Resetters` | `Rank` | `_apply_ranked_priorities`, at the end of `produce_for_procurements` |
| both | `RollBack`, `Stops` | the except clauses; a producer that dies |
| `Workers` | `ClaimBatch`, `Begin`, `Mark`, `MarkFails`, `Crash`, `Restart` | `daemon.py` (S13_V2 branch), `backends/queue_repository.py` |

`job[w]` is what a daemon has claimed and what it has in hand; `broken` is a
connection in an aborted transaction, which refuses every later statement.
`begun`, `over`, `lost` and `raced` are history: they name the cause that a
property allows.  A row has the lane and the score its producer gave it: the
Raisers' `_ACTION_MAP`, or the lanes and priorities of the admission
(`dry_run_research_admission`), any of which an assessment may call for; the
admission rules themselves are left out (see 10).  `ClaimedBefore` is the ORDER
BY of the claim.  `Rank` writes the places of a ranking into the scores of what
one run of the producer wrote; what the ranking goes by is left open, since the
property only asks that the claim keeps its order.

| Run | Instance | Shows |
|---|---|---|
| `doc_queue` | 2 procurements, a producer of each kind, 2 daemons with batches of two, one lane, 2 depths, 4 events among requests, rollbacks, failing marks and crashes | `QueueTypeOK`, `OneHolder`, `OrphanHasCause`, `DuplicatesNeedRace`, `RequestIsResearched` |
| `doc_order` | counterexample: one `Resetter`, all four lanes | of two tasks of one lane the one ranked last is claimed first |

`CHECK_DEADLOCK FALSE`, because without requests the queue rests.  Four events
are two racing requests with a crash and a failed mark behind them, or three
requests, two of them under the daemon at work, and a crash.

`OneHolder`: a row has one daemon, unless it was re-opened under it.
`OrphanHasCause`: PROCESSING without a daemon comes of a crash or of a mark that
failed.  `DuplicatesNeedRace`.  `RequestIsResearched`, under `WF(Produce)` and
`WF(Work)`: a transaction ends, a daemon that is up goes on, systemd restarts one
that is not.  It needs no fairness among rows, because requests are bounded: a
stream of better rows could keep the last one waiting for ever.  A request made
while the row is held is not covered, because the late mark of the first daemon
ends it: the code has no ownership check.

Proofs, `DocumentQueueProofs`, for any procurements, producers, daemons, batch
size and events.  `QueueInv` relates what a daemon has in hand to its batch
(`InHand`), lets a producer write to the row it found (`WritesItsOwn`), and counts
the inserts under way against the bound on rows.  That a claim is never empty
rests on `ClaimedBefore` being an order, so that some row comes first
(`SomeRowIsFirst`).  `RowHasOneHolder`: a row with a daemon is PROCESSING unless it
was re-opened, and a claim takes PENDING rows only (`Engaged`).
`OrphansHaveACause` from the same invariant.  `DuplicatesComeOfRaces`:
`RacesAreNoted` says that whoever is about to insert a second row looked before
the first was written.  `RequestIsResearched` stays with TLC.

## 8. One task: `DocumentFiles`

What the daemon does with the files of one procurement: a pass reads a file page
by page, stores where the memory limit stopped it, and a later pass goes on
there.  Registry (`processed_documents`), match details and queue row are written
by separate statements whose errors are mostly swallowed, and a file with matches
is renamed before it is finalised, so it has two names.

**At this commit the pass does not get that far.**  Everything here goes through
`Downloader.registry`, which `downloader.py:28-67` does not assign;
`downloader.py.backup:60` does (`ProcessedRegistry`), so the attribute got lost when
the downloader was cut over to `state_repo`.  The first use for an identified
tender, `_file_is_resuming` (`task_pipeline.py:115`, called at line 204), stands
outside the per-file `try`, the `AttributeError` leaves `process_task_with_files`,
and `_process_s13v2_task` marks the whole task FAILED (`daemon.py:509-517`).  A tender
that `resolve_tender_id` does not find touches no registry, saves nothing, and
completes.  `Starts` has the three outcomes: the files are worked on, they are passed
by, or the daemon is one without a registry (`NoRegistry`).  What is stated about
passes is therefore stated about a daemon whose downloader has its registry, the
one the rest of the code is written for.

`reg` is the registry by name, `details` the matches with page and line, `run` the
daemon; `torn`, `blind` and `collapsed` are history: files hit by an accident,
files whose cursor a failing statement has falsified, matches taken for the stored
match of their line.  Actions follow the code: `Prefetch`, `NoRegistry`, `OpenFile`, `ReadPage`,
`OverLimit`, `Unreadable`, `MarkPartial`, `MarkErrorMemory`, `SavePart`,
`NoMatches`, `SomeMatches`, `Replace`, `Save`, `NoHeader`, `FileFails`,
`TaskDone`, `Crash`, `Reopen` (the producer of section 7).

`save_matches` reduces twice: of the matches of one save that show one text it takes
the first, whatever pages and lines the others are on (`First`,
`match_repository.py:115-142`), and of those it drops one whose line number has a
stored match anywhere in the tender (`Collapses`, lines 143-187).  `Shown` gives the
text of each page, any function.

Run `doc_files`: two files of three pages, hits on all pages of one, two of them
with the same text, and on the last of the other, two attempts per place, three
events.
`PagesAreAccounted`: what a page shows that the registry calls read is stored, for
this page or for another of the file with the same text, or is in hand, or was taken
for the stored match of its line, or an accident hit the file.
`GivenUpOnlyWhenStuck`: a file is given up for memory only after a pass that read
no page.  The two modules meet in the queue row: `task` here is the row's status
there; `Mark`'s choice of status there is `TaskDone` and `PrefetchFails` here.

Proofs, `DocumentFilesProofs`, for any number of files and pages, any hits and any
memory limit.  `NoPageIsForgotten`: `PassOK` says under which name a pass works
and that one that does not resume began at the first page, `BehindIsStored` that
the hits before the place where it began are accounted for; the pass itself has the
rest in hand.  At its end it stores, of each text in hand, the first match
(`InsertStores`); that there is a first is `FirstPage`, by the pigeonhole theorem of
the library.  `GivenUpWhereStuck`: by `Steady` the last interruption of a file
whose statements succeed lies nowhere but behind its cursor, so a second one at
the same place is a pass that read nothing.  It supposes `MaxResume > 1`; the
environment may set `MAX_RESUME_ATTEMPTS` to 1 (`resume_constants.py:25`), and then
the first interruption gives up.  `FilesTypeCorrect` from the same invariant.

Left out: archives, unsupported formats, the text itself.  A score is not
modelled: equal lines are taken to have equal scores.

## 9. The analytics snapshots: `AnalyticsCache`

One engine (`refresh_all`) for timer and button, two stores.  In the CRM a
generation becomes current by two statements; in the file store first the
snapshot file is replaced, then `meta.json`.  The page reads the current
generation and then the payload, without the lock.

| Variable | In the code |
|---|---|
| `kind` | the store `resolve_analytics_store` picks |
| `meta` | `crm_v3_analytics_generations` or `meta.json`: next id, current id, status of each generation and which computation it is |
| `snap` | the computation in `current_complete.json` |
| `lock`, `run[r]` | the advisory lock or flock, each refresh |
| `page`, `view` | the page between its two reads; the date it last showed and the payload it showed under it |
| `seen` | history: the computation the page showed last |
| `cool`, `cached` | the button in its cooldown, the payload the page keeps for 45 seconds |
| `builds`, `whole`, `scar` | history: computations, those completely written, an accident that cost the current snapshot |

A refresh is `Begin`, `StartGeneration`, `WriteRows`, `Publish` or
`ClearCurrent`, `Mark`, `Release`; `Raises` and `FailGeneration` are the except
clause, `Dies` the death of the process or of its connection, with which both
locks go.  `Load` is `_load_meta`, for which an unreadable file is no file.
`PayloadUnreadable` is the same for the snapshot file: the page shows an empty
payload under the date (`v3_analytics_precutover.py:274`) and keeps that, too,
until it expires or a button succeeds.

Run `analytics`: timer and button, both stores, four computations, three events.
Four computations let two good ones frame two bad ones.  `LastGoodSurvives`: the
last good snapshot is lost only between the two statements or by an unreadable
`meta.json`.  `PageShowsOneSnapshot`: the payload, unless it is the empty
one, is one finished computation's, in the CRM the one of the date, in the file
that one or a later one.  `PageNeverGoesBack` rests on the lock, and compares with
`seen`, so that an empty page in between does not hide a step back.

Proofs, `AnalyticsCacheProofs`, for any refreshes, both stores, any number of
computations and events: the invariant `CacheInv`.  Refreshes exclude each other
(`OneRuns`), so the one at work has the last computation (`InHand`).  `Snapshots`
orders date <= shown and last shown <= snapshot file in the file store and equates
date and shown in the CRM.  `Orderly` holds as long as no `meta.json` was read as absent: ids are new,
the one at work has a generation of its own, the current one is complete and
missing for a cause only.  `PageInCrm` says that the current generation is never
behind what the page has seen.  `LastGoodSnapshotSurvives`, `PageIsOneSnapshot` and
`PageOnlyAdvances` follow.

When a cooldown or a kept payload runs out is left open (`CoolsDown`,
`Expires`); the numbers of a snapshot are one value.

## 10. What is not modelled

* **Routing semantics** (prompts, scores, OKPD rules, medals from scores):
  deterministic tables; a model would repeat them.
* **Admission to the queue** (`document_lane_authority.py`,
  `research_queue_lifecycle.py`): decisions over one procurement without state of
  their own; `DocumentQueue` takes their outcome as any.
* **S7 branch of the daemon.**  `QueueManager` is in the middle of a refactoring
  and lacks methods its callers use; the completion guard belongs to that branch.
* **Legacy S7 assessment runner and legacy CRM sync.**  Superseded;
  `scripts/run_crm_sync.py` says the sync is not the production path.
* **Download, archives, parsing, network**: input and output.
* **Versions of expert annotations**: one transaction under an advisory lock.
* **Health, pages, canary, priority arithmetic**: read only, or one-way copies.

The models read a large repository selectively: most of its lines are user
interface, prompts, score tables, reports and one-off scripts, where order does
not matter.

## 11. Noticed while modelling

The runs `opp_medal` and `doc_order` show one disagreement each as a counterexample.
The others were met on the way; the models follow the code in each of them, and the properties
say what holds all the same.

* `processing_lease.py:15` calls STALE retryable; a row reclaimed on its last
  attempt is selected never again (`routing_eligibility.py:197`).
* The docstring at `routing_eligibility.py:95` says force bypasses only the
  COMPLETED skip; lines 162 to 165 let it take a row off the NEEDS_REVIEW hold.
* An edit that comes between snapshot and inference and is taken back after the
  inference leaves a fingerprint that matches and an assessment of the other text
  (section 2).
* A reassessment requested while the item is in the model is wiped by its commit.
* The attempt counter is never reset by a success, so a row reassessed often goes
  to NEEDS_REVIEW on its first failure.
* `commercial_routing_v3_schema.sql:89` promises "no silent state mutations"; a
  stage that flaps within one key, or a sync that dies before its audit, leaves
  none; two overlapping syncs audit twice, since the job lock is released before
  the lifecycle sync starts.
* A row without subcategory is inserted anew at every assessment
  (`opportunity_persistence.py:250`), with a new first medal
  (`medal_lineage.py:278` calls it immutable).
* To the lifecycle sync, whose query has no `end_date`, a row past its deadline is
  open, against the docstring of `source_lifecycle.py`.  An annotation saved
  between lock lookup and supersede does not stop it, and the lookup answers "no
  lock" when it fails.  Nothing on the production timer calls that sync
  (`scripts/run_crm_sync.py:11`), and it reads 5000 rows at most.
* `daemon.py:100` builds its maintenance without a backend, so the reset of stale
  tasks (`daemon_maintenance.py:29`) does nothing; and at this commit
  `backends/queue_repository.py:198` is not valid Python, so the daemon does not
  start.  The model takes the evident reading.
* `docs/archive/PARTIAL_PDF_FIX_REPORT.md:38` says a task with a half-read file is
  not completed; the S13_V2 branch completes it whatever became of its files.
* `tests/test_match_repository_dedup.py:7` says that cross-file collapsing cannot
  happen; the query before each insert de-duplicates over the whole tender.
* `task_pipeline.py:115` asks `downloader.registry`, which `Downloader`
  (`downloader.py:28`) never sets at this commit (`downloader.py.backup:60` does).
  The error is outside the per-file `try`, so a task that has downloaded a file
  fails as a whole: `NoRegistry` in section 8.
* The look and the insert of the S13 queue are two statements; that no unique
  constraint catches the second row is an assumption, since the table's DDL is not
  in the repository (the S7 table of that name has one,
  `tender_monitor_schema.sql:9469`).  `DocumentQueue` allows the second row; with a
  constraint its properties hold all the more.
* `opportunity_persistence.py:351` names a `logger` the module does not define.
  Outside a dry run, which is the default
  (`crm_ai_assessment_runner.py:1224`), the NameError comes after every upsert has
  been committed, and line 1237 makes the item FAILED although its opportunities
  are written.  `RoutingAssessment` has both ways out of `persist`, `Persist` and
  `Unexpected`; with persistence switched on only the second is ever taken.
* The first interruption of a file without registry row keeps no cursor: the
  UPDATE finds nothing.
* A lot projected without contract number keeps its placeholder for good
  (`projection_writer.py:442`), against `FALLBACK_TO_STABLE_IDENTITY_POLICY`
  (`projection.py:185`); the function for it has no caller in the writer.
* `REFRESH_FAILURE_DESTROYS_LAST_GOOD = False` (`v3_analytics_refresh.py:34`) and
  the comment "Atomic switch" (`v3_analytics_cache.py:274`): see `scar` in
  section 9.
* `queue_producer.py:345` says "HOLD/CLOSED are not executable queue rows"; a
  procurement found HOLD or CLOSED later leaves the row it has PENDING.
* `document_lane_authority.py:86` says current opportunities override stale flags;
  when none of them is actionable, or their load fails, the producer goes by the
  assessment after all, and a research action taken from them keeps the depth of
  the assessment.
* A deadline of today, 0 days, ranks as 9999 days, the least urgent
  (`document_priority.py:94`, `document_priority.py:127`).
* The claim ranks the lanes `awarded_recent` and `historical_awarded`
  (`backends/queue_repository.py:109`); producers write `awarded_follow_up` and
  `discovery_review`, which share the last place.
* `document_lane_authority.py:103` takes the opportunity with the lowest score
  among those of the best medal.

## 12. What is proved, what is checked, what is left

Every safety property of the passing runs, invariant or action property, is a
theorem.  Its hypotheses are the named assumptions of the modules, which TLC
evaluates, and where the section says so one more: a positive back-off (3), a
limit of at least two attempts (8).
Each of these draws the line behind which the property is false of the code.

Model-checked only:

* Liveness: `RunningIsLeft`, `EventuallySettled`, `DrainEnds`, `DrainSettles`,
  `WaitersAreServed`, `RequestIsResearched`, and the fairness half of
  `ImplementsSlot`.  They need ENABLED and well-founded descent under fairness,
  which the proof system does not reach here.
* The two counterexamples, `TimeNeverImproves` and `RankedFirstIsClaimedFirst`.

Left to do:

1. An abstract specification of the opportunity store (a persist that replaces
   the accepted set at once, a sync that repairs at once) and of the queue (a task
   is researched once per request), with the steps of the detailed ones mapped
   to them; `OutputInHand`, `FreshHolds` and `QueueInv` are the invariants they need.
2. Facts about the selection of the drain beyond one procurement: no eligible row
   is passed over for another one for ever.

Runs are kept few, one for each distinct question.
