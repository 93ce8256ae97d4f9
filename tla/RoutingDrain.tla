---------------------------- MODULE RoutingDrain ----------------------------
(***************************************************************************)
(* The backlog drain (routing_drain.py) around the routing runner: the     *)
(* timer's invocation looks at the backlog, and while some of it is        *)
(* eligible and time is left runs one batch after another.  Every look at  *)
(* the backlog, the drain's own and the one of run_live, reclaims first;   *)
(* the batch that is processed is selected afresh by run_live.             *)
(*                                                                         *)
(* The runner's steps are those of RoutingAssessment; this module decides  *)
(* which of them the loop takes, and keeps the loop's own state.           *)
(***************************************************************************)
EXTENDS RoutingAssessment

VARIABLE drain

drainVars == <<vars, drain>>

(* empty_after_allocate cannot happen: the batch is allocated from what was *)
(* counted.                                                                 *)
Stops == {"none", "max_runtime", "empty", "zero_progress"}

(* phase: between batches ("check") or inside run_live ("run").            *)
(* late: max_runtime_sec has elapsed.  ok, failed: what the current        *)
(* run_live has counted.                                                   *)
Drain == [phase : {"off", "check", "run"}, late : BOOLEAN, ok : Nat, failed : Nat, stop : Stops]

DrainInit ==
    /\ Init
    /\ drain = [phase |-> "off", late |-> FALSE, ok |-> 0, failed |-> 0, stop |-> "none"]

-----------------------------------------------------------------------------
DrainStart ==
    /\ StartLive
    /\ drain' = [drain EXCEPT !.phase = "check", !.late = FALSE, !.ok = 0,
                              !.failed = 0, !.stop = "none"]

(* The ceiling is an hour: it is not reached before the first batch. *)
TimeUp ==
    /\ drain.phase = "run" \/ (drain.phase = "check" /\ drain.ok + drain.failed > 0)
    /\ ~drain.late
    /\ drain' = [drain EXCEPT !.late = TRUE]
    /\ UNCHANGED vars

(* The loop breaks, main() unlocks. *)
Stop(reason) ==
    /\ drain' = [drain EXCEPT !.phase = "off", !.stop = reason]
    /\ pc' = "idle" /\ mode' = "none"
    /\ UNCHANGED <<row, infer, env, batch, item, budget>>

AtTop == drain.phase = "check" /\ pc = "reclaim"

(* The clock is looked at between batches only. *)
DrainTimeout == AtTop /\ drain.late /\ Stop("max_runtime")

(* Mutant: the next batch does not wait for the look at the clock. *)
DrainReclaim_NoClock == AtTop /\ Reclaim /\ UNCHANGED drain

DrainReclaim == AtTop /\ ~drain.late /\ Reclaim /\ UNCHANGED drain

Looking == drain.phase = "check" /\ pc = "fetch"

(* Mutant: only the active lane counts. *)
Backlog_ActiveOnly == {p \in Procs : Allocatable(p) /\ Lane(p) = "ACTIVE_OPEN"}

(* TOTAL_ROUTING_ELIGIBLE_BACKLOG: the active and the awarded lane. *)
Backlog == {p \in Procs : Allocatable(p)}

DrainEmpty == Looking /\ Backlog = {} /\ Stop("empty")

(* A batch can be allocated, so run_live is called; what it was is         *)
(* forgotten.                                                              *)
DrainBatch ==
    /\ Looking /\ Backlog # {}
    /\ drain' = [drain EXCEPT !.phase = "run", !.ok = 0, !.failed = 0]
    /\ pc' = "reclaim"
    /\ UNCHANGED <<row, infer, env, mode, batch, item, budget>>

(* process_item returns True exactly when it gets past the commit. *)
Succeeds == (Commit /\ ~item.v3) \/ Persist

Tally ==
    IF item = NoItem \/ item' # NoItem THEN UNCHANGED drain
    ELSE drain' = [drain EXCEPT
           !.ok     = IF Succeeds THEN @ + 1 ELSE @,
           !.failed = IF Succeeds THEN @ ELSE @ + 1]

DrainWork == drain.phase = "run" /\ (Reclaim \/ Fetch \/ ProcessItem) /\ Tally

BatchDone == drain.phase = "run" /\ pc = "next" /\ batch = {}

ZeroProgress == BatchDone /\ drain.ok = 0 /\ drain.failed = 0 /\ Stop("zero_progress")

DrainAgain ==
    /\ BatchDone /\ drain.ok + drain.failed > 0
    /\ drain' = [drain EXCEPT !.phase = "check"]
    /\ pc' = "reclaim"
    /\ UNCHANGED <<row, infer, env, mode, batch, item, budget>>

(* Mutant: the loop is thought to survive its process. *)
DrainDies_Survives == Crash /\ UNCHANGED drain

DrainDies == Crash /\ drain' = [drain EXCEPT !.phase = "off", !.stop = "none"]

DrainStep ==
    \/ DrainTimeout \/ DrainReclaim \/ DrainEmpty \/ DrainBatch
    \/ DrainWork \/ ZeroProgress \/ DrainAgain

(* The rest of the world, save operators: the drain has the lock. *)
Meanwhile ==
    /\ \/ Tick
       \/ \E p \in Procs :
             \/ SourceEdit(p) \/ StageChange(p) \/ DeadlineChange(p)
             \/ RequestReassess(p) \/ SaveExpert(p)
             \/ SaveOverride(p) \/ ApplyOverride(p) \/ SaveFails(p)
    /\ UNCHANGED drain

DrainNext == DrainStart \/ TimeUp \/ DrainStep \/ DrainDies \/ Meanwhile

DrainSpec == DrainInit /\ [][DrainNext]_drainVars

(* The timer starts drains, a drain that is not killed goes on, its clock  *)
(* and the calendar advance.                                               *)
FairDrainSpec ==
    /\ DrainSpec
    /\ WF_drainVars(DrainStart) /\ WF_drainVars(DrainStep)
    /\ WF_drainVars(TimeUp) /\ WF_drainVars(Tick /\ UNCHANGED drain)

-----------------------------------------------------------------------------
(* Types, and the loop agrees with the lock: a drain is between its batches *)
(* or in one exactly while its invocation holds the advisory lock.          *)
DrainTypeOK ==
    /\ TypeOK
    /\ drain \in Drain
    /\ drain.phase = "off" <=> pc = "idle"
    /\ drain.phase = "check" => pc \in {"reclaim", "fetch"}

(* A failed row is not hammered: however the batches of a drain follow one  *)
(* another, a row that failed is not claimed again before time has passed,  *)
(* because its back-off keeps it out of every selection until then.         *)
BackoffSpacesRetries ==
    [][\A p \in Procs :
         row[p].status = "FAILED" /\ row[p].age = 0
            => row'[p].status # "RUNNING"]_drainVars

(* Every drain ends, whatever the backlog does: by its clock if nothing     *)
(* else stops it.                                                           *)
DrainEnds == drain.phase # "off" ~> drain.phase = "off"

(* Under the drain as under plain runs, every procurement is settled once   *)
(* the disturbances end: stopping after a batch, early or late, loses none. *)
DrainSettles ==
    \A p \in Procs :
        <>[](Settled(p) \/ (Past(p) /\ ~source[p].endKnown))
=============================================================================
