---------------------------- MODULE AnalyticsCache ----------------------------
(***************************************************************************)
(* The snapshots behind the analytics page: V3AnalyticsRefreshService      *)
(* (timer and button), the two stores it writes to, read_dashboard.        *)
(*   - "crm": a table of generations, one of them is_current, and the rows *)
(*     of each; the switch is two statements, each a transaction.          *)
(*   - "file": meta.json, which names the current generation, and one      *)
(*     snapshot file; the switch replaces first the one, then the other.   *)
(*   - Refreshes exclude each other by a lock (advisory, or flock) that    *)
(*     goes with the process; the page reads without it, in two reads.     *)
(* A payload is told by the number of the computation it comes from; when  *)
(* a cooldown or a cached payload runs out is left open.                   *)
(***************************************************************************)
EXTENDS Naturals, FiniteSets

CONSTANTS
    Refreshers,
    Manual,     \* those that are a button, with a cooldown
    Kinds,
    MaxBuilds, Budget, Events

ASSUME AnalyticsAssumption ==
    /\ Manual \subseteq Refreshers /\ "free" \notin Refreshers
    /\ Kinds \subseteq {"crm", "file"} /\ MaxBuilds \in Nat /\ Budget \in Nat

VARIABLES
    kind,   \* the store resolve_analytics_store chose
    meta,   \* the generations, the current one and the next id
    snap,   \* whose payload current_complete.json holds
    builds, \* computations so far
    whole,  \* those whose rows were all handed to the store
    lock, run,
    cool,   \* the buttons in their cooldown
    cached, \* the payload the page keeps, and the generation it is for
    page,   \* the page between its two reads
    view,   \* the dashboard it showed last, possibly an empty one
    seen,   \* history: the computation it showed last
    scar,   \* history: something destroyed the last good snapshot
    budget

vars == <<kind, meta, snap, builds, whole, lock, run, cool, cached, page, view, seen, scar, budget>>

None == 0
Free == "free"
Empty == [next |-> 1, current |-> None, gens |-> <<>>]
NoRun == [at |-> "idle", gid |-> None, build |-> None]
NoView == [label |-> None, shown |-> None]

Init ==
    /\ kind \in Kinds /\ meta = Empty
    /\ snap = None /\ builds = 0 /\ whole = {}
    /\ lock = Free /\ run = [r \in Refreshers |-> NoRun]
    /\ cool = {} /\ cached = NoView /\ page = NoRun /\ view = NoView
    /\ seen = None /\ scar = FALSE /\ budget = Budget

(* An entry of the generations, new or written over.                        *)
Put(gens, g, entry) == [k \in DOMAIN gens \cup {g} |-> IF k = g THEN entry ELSE gens[k]]

Disturb(e) == e \in Events /\ budget > 0 /\ budget' = budget - 1

(* get_current_complete. *)
CurrentComplete(m) ==
    IF m.current \in DOMAIN m.gens /\ m.gens[m.current].status = "COMPLETE"
    THEN m.current ELSE None

(* Mutant: an attempt that ends leaves nothing current. *)
WithStatus_Resets(m, r, status) ==
    [m EXCEPT !.gens = Put(@, run[r].gid, [status |-> status, build |-> run[r].build]),
              !.current = None]

(* What an attempt writes about its generation.                             *)
WithStatus(m, r, status) ==
    [m EXCEPT !.gens = Put(@, run[r].gid, [status |-> status, build |-> run[r].build])]

(* _load_meta: a file that cannot be read counts as no file, and what is    *)
(* written back replaces it.  The table is only updated.                    *)
Load(m) ==
    \/ m = meta /\ UNCHANGED <<scar, budget>>
    \/ kind = "file" /\ m = Empty /\ Disturb("unreadable") /\ scar' = TRUE

Go(r, at) == run' = [run EXCEPT ![r].at = at]

-----------------------------------------------------------------------------
(* refresh_all. *)

(* Mutant: the engine is built without its lock. *)
LockTry_Always(r) == TRUE

LockTry(r) == lock = Free

Begin(r) ==
    /\ run[r].at = "idle" /\ r \notin cool /\ LockTry(r) /\ builds < MaxBuilds
    /\ lock' = r /\ Go(r, "start")
    /\ UNCHANGED <<kind, meta, snap, builds, whole, cool, cached, page, view, seen, scar, budget>>

StartGeneration(r) ==
    /\ run[r].at = "start"
    /\ \E m \in {meta, Empty} :
         /\ Load(m)
         /\ meta' = [m EXCEPT !.next = @ + 1,
                !.gens = Put(@, m.next, [status |-> "BUILDING", build |-> builds + 1])]
         /\ run' = [run EXCEPT ![r] = [at |-> "build", gid |-> m.next, build |-> builds + 1]]
    /\ builds' = builds + 1
    /\ UNCHANGED <<kind, snap, whole, lock, cool, cached, page, view, seen>>

(* The computation and write_rows.  In the CRM each row is committed, but   *)
(* the generation is not current yet; the file store keeps them in memory.  *)
WriteRows(r) ==
    /\ run[r].at = "build" /\ Go(r, "switch")
    /\ whole' = whole \cup {run[r].build}
    /\ UNCHANGED <<kind, meta, snap, builds, lock, cool, cached, page, view, seen, scar, budget>>

(* complete_generation, first half: the payload, or the current flag.       *)
Publish(r) ==
    /\ run[r].at = "switch" /\ Go(r, "mark") /\ kind = "file"
    /\ snap' = run[r].build
    /\ UNCHANGED <<kind, meta, builds, whole, lock, cool, cached, page, view, seen, scar, budget>>

ClearCurrent(r) ==
    /\ run[r].at = "switch" /\ Go(r, "mark") /\ kind = "crm"
    /\ meta' = [meta EXCEPT !.current = None]
    /\ UNCHANGED <<kind, snap, builds, whole, lock, cool, cached, page, view, seen, scar, budget>>

(* Second half.  Only the file store reads before it writes.  A button that *)
(* succeeds cools down.                                                     *)
Mark(r) ==
    /\ run[r].at = "mark" /\ Go(r, "release")
    /\ \E m \in {meta, Empty} :
         /\ IF kind = "file" THEN Load(m)
            ELSE m = meta /\ scar' = FALSE /\ UNCHANGED budget
         /\ meta' = [WithStatus(m, r, "COMPLETE") EXCEPT !.current = run[r].gid]
    /\ cool' = cool \cup ({r} \cap Manual)
    /\ UNCHANGED <<kind, snap, builds, whole, lock, cached, page, view, seen>>

FailGeneration(r) ==
    /\ run[r].at = "fail" /\ Go(r, "release")
    /\ \E m \in {meta, Empty} :
         Load(m) /\ meta' = WithStatus(m, r, "FAILED")
    /\ UNCHANGED <<kind, snap, builds, whole, lock, cool, cached, page, view, seen>>

(* Between the two statements no generation is current.                     *)
Halfway(r) == kind = "crm" /\ run[r].at = "mark"

(* A statement or a write raises: fail_generation, unless there is none to  *)
(* fail yet or it raised itself.                                            *)
Raises(r) ==
    /\ run[r].at \in {"start", "build", "switch", "mark", "fail"} /\ Disturb("error")
    /\ Go(r, IF run[r].at \in {"start", "fail"} THEN "release" ELSE "fail")
    /\ scar' = (scar \/ Halfway(r))
    /\ UNCHANGED <<kind, meta, snap, builds, whole, lock, cool, cached, page, view, seen>>

(* After its success the button has the page forget its payload.            *)
Release(r) ==
    /\ run[r].at = "release" /\ lock' = Free
    /\ run' = [run EXCEPT ![r] = NoRun]
    /\ cached' = IF r \in cool THEN NoView ELSE cached
    /\ UNCHANGED <<kind, meta, snap, builds, whole, cool, page, view, seen, scar, budget>>

(* The process dies, or its connection: the lock and the cooldown go with   *)
(* it.                                                                      *)
Dies(r) ==
    /\ run[r].at # "idle" /\ Disturb("crash")
    /\ lock' = Free /\ run' = [run EXCEPT ![r] = NoRun]
    /\ scar' = (scar \/ Halfway(r)) /\ cool' = cool \ {r}
    /\ UNCHANGED <<kind, meta, snap, builds, whole, cached, page, view, seen>>

(* MANUAL_REFRESH_COOLDOWN_SEC are over. *)
CoolsDown(r) ==
    /\ r \in cool /\ run[r].at = "idle" /\ cool' = cool \ {r}
    /\ UNCHANGED <<kind, meta, snap, builds, whole, lock, run, cached, page, view, seen, scar, budget>>

RefreshStep(r) ==
    \/ Begin(r) \/ StartGeneration(r) \/ WriteRows(r)
    \/ Publish(r) \/ ClearCurrent(r) \/ Mark(r)
    \/ FailGeneration(r) \/ Raises(r) \/ Release(r) \/ Dies(r) \/ CoolsDown(r)

-----------------------------------------------------------------------------
(* read_dashboard: the current generation, then the payload.  Without a     *)
(* current one, or with a meta.json it cannot read, the page says so and    *)
(* shows nothing.                                                           *)
ReadCurrent ==
    /\ page.at = "idle"
    /\ LET c == CurrentComplete(meta) IN
         page' = IF c = None THEN page
                 ELSE [at |-> "payload", gid |-> c, build |-> meta.gens[c].build]
    /\ UNCHANGED <<kind, meta, snap, builds, whole, lock, run, cool, cached, view, seen, scar, budget>>

(* Mutant: the page takes the payload of the attempt made last. *)
Payload_Latest(gid) == IF kind = "file" THEN snap ELSE builds

(* load_dashboard_payload: there is one file, whatever generation is asked  *)
(* for; in the CRM the rows of that generation.                             *)
Payload(gid) == IF kind = "file" THEN snap ELSE meta.gens[gid].build

(* The page keeps the payload of a file for 45 seconds.                     *)
ReadPayload ==
    /\ page.at = "payload" /\ page' = NoRun
    /\ view' = IF kind = "file" /\ cached.label = page.build THEN cached
               ELSE [label |-> page.build, shown |-> Payload(page.gid)]
    /\ cached' = IF kind = "file" THEN view' ELSE cached
    /\ seen' = IF view'.shown = None THEN seen ELSE view'.shown
    /\ UNCHANGED <<kind, meta, snap, builds, whole, lock, run, cool, scar, budget>>

(* A snapshot file that is gone or cannot be read is an empty payload, which*)
(* the page shows under the date, and keeps, like any other.                *)
PayloadUnreadable ==
    /\ page.at = "payload" /\ page' = NoRun
    /\ kind = "file" /\ cached.label # page.build
    /\ view' = [label |-> page.build, shown |-> None] /\ cached' = view'
    /\ Disturb("unreadable")
    /\ UNCHANGED <<kind, meta, snap, builds, whole, lock, run, cool, seen, scar>>

Expires ==
    /\ cached # NoView /\ cached' = NoView
    /\ UNCHANGED <<kind, meta, snap, builds, whole, lock, run, cool, page, view, seen, scar, budget>>

Next ==
    \/ \E r \in Refreshers : RefreshStep(r)
    \/ ReadCurrent \/ ReadPayload \/ PayloadUnreadable \/ Expires

Spec == Init /\ [][Next]_vars

-----------------------------------------------------------------------------
(* Once a refresh has completed there is a current snapshot, whatever       *)
(* refreshes fail or die afterwards, but for two accidents: a refresh that  *)
(* stops between the two statements of the CRM's "atomic switch", and a     *)
(* meta.json that could not be read when it was written again.              *)
LastGoodSurvives ==
    (\E g \in DOMAIN meta.gens : meta.gens[g].status = "COMPLETE") /\ ~scar
        => CurrentComplete(meta) # None \/ \E r \in Refreshers : Halfway(r)

(* The page reads without the lock, in two reads, while the switch is made  *)
(* of two writes that may be cut apart for good.  What it shows, unless the *)
(* file could not be read and it shows nothing, is still the work of one    *)
(* finished computation: in the CRM the one its date is from, in the file   *)
(* that one or a later one, never an earlier one.                           *)
PageShowsOneSnapshot ==
    view.shown # None =>
        /\ view.shown \in whole
        /\ IF kind = "crm" THEN view.shown = view.label ELSE view.shown >= view.label

(* A slow refresh never takes the place of one that began after it: however *)
(* often the page has shown nothing in between, what it shows never goes    *)
(* back to a computation before the last one it showed.                     *)
PageNeverGoesBack == [][view'.shown # None => view'.shown >= seen]_view
=============================================================================
