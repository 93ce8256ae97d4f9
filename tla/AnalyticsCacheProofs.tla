------------------------- MODULE AnalyticsCacheProofs -------------------------
(***************************************************************************)
(* Proofs about AnalyticsCache, for any number of refreshes, buttons and   *)
(* computations: what costs the last good snapshot, and that the page      *)
(* shows finished work that never goes back.                               *)
(***************************************************************************)
EXTENDS AnalyticsCache, TLAPS

Phases == {"idle", "start", "build", "switch", "mark", "fail", "release"}

(* An attempt that has a generation and is not through with it. *)
Working == {"build", "switch", "mark", "fail"}

Gen == [status : {"BUILDING", "COMPLETE", "FAILED"}, build : Nat]
Gens == UNION {[D -> Gen] : D \in SUBSET (Nat \ {None})}
Metas == [next : Nat \ {0}, current : Nat, gens : Gens]
Runs == [at : Phases, gid : Nat, build : Nat]
Pages == [at : {"idle", "payload"}, gid : Nat, build : Nat]
Views == [label : Nat, shown : Nat]

Typed ==
    /\ kind \in {"crm", "file"} /\ meta \in Metas
    /\ snap \in Nat /\ builds \in Nat /\ whole \subseteq 1..builds
    /\ run \in [Refreshers -> Runs]
    /\ page \in Pages /\ view \in Views /\ cached \in Views /\ seen \in Nat

(* Refreshes exclude each other. *)
OneRuns == \A r \in Refreshers : (run[r].at # "idle") <=> (lock = r)

(* So the attempt at work has the last computation. *)
InHand(r) ==
    /\ run[r].at \in Working => run[r].gid # None /\ run[r].build = builds /\ builds # 0
    /\ run[r].at \in {"switch", "mark"} => builds \in whole
    /\ kind = "file" /\ run[r].at = "mark" => snap = builds

(* What is complete, about to be shown or was shown last comes from a       *)
(* computation that finished, and in the file from none after the one it    *)
(* holds; the page shows that, or, from the file, nothing.                  *)
Snapshots ==
    /\ snap \in whole \cup {None}
    /\ \A g \in DOMAIN meta.gens :
          meta.gens[g].status = "COMPLETE" =>
              meta.gens[g].build \in whole /\ (kind = "file" => meta.gens[g].build <= snap)
    /\ page.at = "payload" => page.build \in whole /\ (kind = "file" => page.build <= snap)
    /\ seen \in whole \cup {None} /\ view.shown \in {None, seen}
    /\ IF kind = "file"
       THEN (view.shown # None => view.label <= view.shown) /\ seen <= snap /\ cached \in {NoView, view}
       ELSE view.label = view.shown /\ view.shown = seen

(* The accidents, and a switch that is on its way. *)
Spoiled == scar \/ \E r \in Refreshers : Halfway(r)

(* As long as no file was forgotten, ids are not used again, the attempt at *)
(* work has a generation of its own, the current one is complete and, with  *)
(* a complete one, missing for a cause only.                                *)
InOrder == kind = "crm" \/ ~scar

IdsAreNew == \A g \in DOMAIN meta.gens : g < meta.next

OwnsItsOwn(r) ==
    run[r].at \in Working =>
        /\ run[r].gid \in DOMAIN meta.gens
        /\ meta.gens[run[r].gid] = [status |-> "BUILDING", build |-> builds]

CurrentIsComplete ==
    meta.current # None =>
        meta.current \in DOMAIN meta.gens /\ meta.gens[meta.current].status = "COMPLETE"

SomeComplete == \E g \in DOMAIN meta.gens : meta.gens[g].status = "COMPLETE"

Orderly ==
    InOrder =>
        /\ IdsAreNew
        /\ \A r \in Refreshers : OwnsItsOwn(r)
        /\ CurrentIsComplete
        /\ meta.current = None /\ SomeComplete => Spoiled

(* In the CRM the page reads the rows of the generation it has seen, and    *)
(* the current one is never behind what the page has seen.                  *)
PageInCrm ==
    kind = "crm" =>
        /\ page.at = "payload" =>
              /\ page.gid \in DOMAIN meta.gens /\ meta.gens[page.gid].build = page.build
              /\ seen <= page.build
        /\ meta.current # None =>
              /\ seen <= meta.gens[meta.current].build
              /\ page.at = "payload" => page.build <= meta.gens[meta.current].build

CacheInv ==
    Typed /\ OneRuns /\ (\A r \in Refreshers : InHand(r)) /\ Snapshots /\ Orderly /\ PageInCrm
-----------------------------------------------------------------------------
(* Facts about the operators. *)
LEMMA MetaFields ==
    ASSUME NEW m \in Metas
    PROVE  /\ m.next \in Nat \ {0} /\ m.current \in Nat /\ m.gens \in Gens
           /\ \A g \in DOMAIN m.gens : g \in Nat \ {None} /\ m.gens[g] \in Gen
  <1>1. m.next \in Nat \ {0} /\ m.current \in Nat /\ m.gens \in Gens
    BY DEF Metas
  <1>2. PICK D \in SUBSET (Nat \ {None}) : m.gens \in [D -> Gen]
    BY <1>1 DEF Gens
  <1> QED BY <1>1, <1>2

(* What the generations are once g has an entry. *)
Extends(new, f, g, entry) ==
    /\ new \in Gens
    /\ DOMAIN new = DOMAIN f \cup {g}
    /\ new[g] = entry
    /\ \A k \in DOMAIN f \ {g} : new[k] = f[k]

LEMMA PutFields ==
    ASSUME NEW f \in Gens, NEW g \in Nat \ {None}, NEW entry \in Gen
    PROVE  Extends(Put(f, g, entry), f, g, entry)
  <1>1. PICK D \in SUBSET (Nat \ {None}) : f \in [D -> Gen]
    BY DEF Gens
  <1>2. Put(f, g, entry) \in [D \cup {g} -> Gen]
    BY <1>1 DEF Put
  <1>3. Put(f, g, entry) \in Gens
    BY <1>2 DEF Gens
  <1> QED BY <1>1, <1>2, <1>3 DEF Put, Extends

LEMMA EmptyIsMeta == Empty \in Metas /\ DOMAIN Empty.gens = {}
  <1>1. <<>> \in [{} -> Gen]
    OBVIOUS
  <1>2. <<>> \in Gens /\ DOMAIN <<>> = {}
    BY <1>1 DEF Gens
  <1> QED BY <1>2 DEF Empty, Metas, None

(* What was read, possibly nothing. *)
WasRead(m) ==
    \/ m = meta /\ (scar' = scar \/ kind = "crm")
    \/ m = Empty /\ kind = "file" /\ scar' = TRUE

(* An entry is made for g, and the generation c is current. *)
Entered(m, next, c, g, entry) ==
    /\ m \in Metas /\ WasRead(m)
    /\ meta' \in Metas /\ meta'.next = next /\ meta'.current = c
    /\ DOMAIN meta'.gens = DOMAIN m.gens \cup {g}
    /\ meta'.gens[g] = entry
    /\ \A k \in DOMAIN m.gens \ {g} : meta'.gens[k] = m.gens[k]

LEMMA Starts ==
    ASSUME Typed, NEW r \in Refreshers, StartGeneration(r)
    PROVE  \E m : /\ Entered(m, m.next + 1, m.current, m.next, [status |-> "BUILDING", build |-> builds + 1])
                  /\ run' = [run EXCEPT ![r] = [at |-> "build", gid |-> m.next, build |-> builds + 1]]
  <1>1. PICK m \in {meta, Empty} :
          /\ Load(m)
          /\ meta' = [m EXCEPT !.next = m.next + 1,
                !.gens = Put(m.gens, m.next, [status |-> "BUILDING", build |-> builds + 1])]
          /\ run' = [run EXCEPT ![r] = [at |-> "build", gid |-> m.next, build |-> builds + 1]]
    BY DEF StartGeneration
  <1>2. m \in Metas /\ WasRead(m)
    BY <1>1, EmptyIsMeta DEF Load, WasRead, Typed
  <1> DEFINE e == [status |-> "BUILDING", build |-> builds + 1]
  <1>3. e \in Gen
    BY DEF Gen, Typed
  <1>4. m.next \in Nat \ {None} /\ m.gens \in Gens
    BY <1>2, MetaFields DEF None
  <1>5. /\ Put(m.gens, m.next, e) \in Gens
        /\ DOMAIN Put(m.gens, m.next, e) = DOMAIN m.gens \cup {m.next}
        /\ Put(m.gens, m.next, e)[m.next] = e
        /\ \A k \in DOMAIN m.gens \ {m.next} : Put(m.gens, m.next, e)[k] = m.gens[k]
    <2>1. Extends(Put(m.gens, m.next, e), m.gens, m.next, e)
      BY <1>3, <1>4, PutFields
    <2> QED BY <2>1 DEF Extends
  <1>6. meta' = [m EXCEPT !.next = m.next + 1, !.gens = Put(m.gens, m.next, e)]
    BY <1>1
  <1> HIDE DEF e
  <1>7. /\ meta' \in Metas /\ meta'.next = m.next + 1 /\ meta'.current = m.current
        /\ meta'.gens = Put(m.gens, m.next, e)
    <2> DEFINE G == Put(m.gens, m.next, e)
    <2>1. m \in Metas /\ m.next + 1 \in Nat \ {0} /\ G \in Gens /\ meta' = [m EXCEPT !.next = m.next + 1, !.gens = G]
      BY <1>2, <1>4, <1>5, <1>6 DEF None
    <2> HIDE DEF G
    <2>2. meta' \in Metas
      BY <2>1 DEF Metas
    <2>3. meta'.next = m.next + 1 /\ meta'.current = m.current /\ meta'.gens = G
      BY <2>1 DEF Metas
    <2> QED BY <2>2, <2>3 DEF G
  <1>8. Entered(m, m.next + 1, m.current, m.next, e)
    BY <1>2, <1>5, <1>7 DEF Entered
  <1> QED BY <1>1, <1>8 DEF e

(* An attempt that ends, one way or the other. *)
LEMMA StatusFields ==
    ASSUME Typed, NEW r \in Refreshers, run[r].gid # None,
           NEW m \in Metas, NEW status \in {"COMPLETE", "FAILED"}
    PROVE  LET n == WithStatus(m, r, status) IN
           /\ n \in Metas /\ n.next = m.next /\ n.current = m.current
           /\ DOMAIN n.gens = DOMAIN m.gens \cup {run[r].gid}
           /\ n.gens[run[r].gid] = [status |-> status, build |-> run[r].build]
           /\ \A k \in DOMAIN m.gens \ {run[r].gid} : n.gens[k] = m.gens[k]
  <1> DEFINE e == [status |-> status, build |-> run[r].build]
  <1> DEFINE g == run[r].gid
  <1>1. e \in Gen /\ g \in Nat \ {None}
    BY DEF Gen, Typed, Runs
  <1>2. m.gens \in Gens
    BY MetaFields
  <1>3. WithStatus(m, r, status) = [m EXCEPT !.gens = Put(m.gens, g, e)]
    BY DEF WithStatus
  <1> HIDE DEF e, g
  <1>4. /\ Put(m.gens, g, e) \in Gens
        /\ DOMAIN Put(m.gens, g, e) = DOMAIN m.gens \cup {g}
        /\ Put(m.gens, g, e)[g] = e
        /\ \A k \in DOMAIN m.gens \ {g} : Put(m.gens, g, e)[k] = m.gens[k]
    <2>1. Extends(Put(m.gens, g, e), m.gens, g, e)
      BY <1>1, <1>2, PutFields
    <2> QED BY <2>1 DEF Extends
  <1>5. /\ [m EXCEPT !.gens = Put(m.gens, g, e)] \in Metas
        /\ [m EXCEPT !.gens = Put(m.gens, g, e)].next = m.next
        /\ [m EXCEPT !.gens = Put(m.gens, g, e)].current = m.current
        /\ [m EXCEPT !.gens = Put(m.gens, g, e)].gens = Put(m.gens, g, e)
    BY <1>4 DEF Metas
  <1> QED BY <1>3, <1>4, <1>5 DEF e, g

LEMMA Completes ==
    ASSUME Typed, NEW r \in Refreshers, InHand(r), Mark(r)
    PROVE  \E m : Entered(m, m.next, run[r].gid, run[r].gid, [status |-> "COMPLETE", build |-> builds])
  <1>0. run[r].gid \in Nat \ {None} /\ run[r].build = builds
    BY DEF Mark, InHand, Working, Typed, Runs
  <1>1. PICK m \in {meta, Empty} :
          /\ IF kind = "file" THEN Load(m)
             ELSE m = meta /\ scar' = FALSE /\ UNCHANGED budget
          /\ meta' = [WithStatus(m, r, "COMPLETE") EXCEPT !.current = run[r].gid]
    BY DEF Mark
  <1>2. m \in Metas /\ WasRead(m)
    BY <1>1, EmptyIsMeta DEF Load, WasRead, Typed
  <1> DEFINE n == WithStatus(m, r, "COMPLETE")
  <1>3. /\ n \in Metas /\ n.next = m.next
        /\ DOMAIN n.gens = DOMAIN m.gens \cup {run[r].gid}
        /\ n.gens[run[r].gid] = [status |-> "COMPLETE", build |-> builds]
        /\ \A k \in DOMAIN m.gens \ {run[r].gid} : n.gens[k] = m.gens[k]
    BY <1>0, <1>2, StatusFields
  <1>4. meta' = [n EXCEPT !.current = run[r].gid]
    BY <1>1
  <1> HIDE DEF n
  <1>5. meta' \in Metas /\ meta'.next = n.next /\ meta'.current = run[r].gid /\ meta'.gens = n.gens
    BY <1>0, <1>3, <1>4 DEF Metas
  <1> QED BY <1>2, <1>3, <1>5 DEF Entered

LEMMA Fails ==
    ASSUME Typed, NEW r \in Refreshers, InHand(r), FailGeneration(r)
    PROVE  \E m : Entered(m, m.next, m.current, run[r].gid, [status |-> "FAILED", build |-> builds])
  <1>0. run[r].gid \in Nat \ {None} /\ run[r].build = builds
    BY DEF FailGeneration, InHand, Working, Typed, Runs
  <1>1. PICK m \in {meta, Empty} : Load(m) /\ meta' = WithStatus(m, r, "FAILED")
    BY DEF FailGeneration
  <1>2. m \in Metas /\ WasRead(m)
    BY <1>1, EmptyIsMeta DEF Load, WasRead, Typed
  <1> DEFINE n == WithStatus(m, r, "FAILED")
  <1>3. /\ n \in Metas /\ n.next = m.next /\ n.current = m.current
        /\ DOMAIN n.gens = DOMAIN m.gens \cup {run[r].gid}
        /\ n.gens[run[r].gid] = [status |-> "FAILED", build |-> builds]
        /\ \A k \in DOMAIN m.gens \ {run[r].gid} : n.gens[k] = m.gens[k]
    BY <1>0, <1>2, StatusFields
  <1> HIDE DEF n
  <1>4. meta' = n
    BY <1>1 DEF n
  <1> QED BY <1>2, <1>3, <1>4 DEF Entered

LEMMA Goes ==
    ASSUME Typed, NEW r \in Refreshers, NEW at \in Phases, Go(r, at)
    PROVE  /\ run' \in [Refreshers -> Runs]
           /\ run'[r].at = at /\ run'[r].gid = run[r].gid /\ run'[r].build = run[r].build
           /\ \A s \in Refreshers \ {r} : run'[s] = run[s]
  BY DEF Go, Typed, Runs

LEMMA Alone ==
    ASSUME OneRuns, NEW r \in Refreshers, run[r].at # "idle", NEW s \in Refreshers \ {r}
    PROVE  run[s].at = "idle"
  BY DEF OneRuns

-----------------------------------------------------------------------------
(* The invariant, part by part. *)
LEMMA TypedStep ==
    ASSUME CacheInv, [Next]_vars PROVE Typed'
  <1> USE DEF CacheInv
  <1>0. CASE UNCHANGED vars
    BY <1>0 DEF Typed, vars
  <1>i. NoRun \in Runs /\ NoView \in Views /\ NoRun \in Pages
    BY DEF NoRun, NoView, Runs, Phases, Views, Pages, None
  <1>1. ASSUME NEW r \in Refreshers, Begin(r) PROVE Typed'
    <2>1. run' \in [Refreshers -> Runs]
      BY <1>1, Goes DEF Begin, Phases
    <2> QED BY <1>1, <2>1 DEF Begin, Typed
  <1>2. ASSUME NEW r \in Refreshers, StartGeneration(r) PROVE Typed'
    <2>1. PICK m : /\ Entered(m, m.next + 1, m.current, m.next, [status |-> "BUILDING", build |-> builds + 1])
                   /\ run' = [run EXCEPT ![r] = [at |-> "build", gid |-> m.next, build |-> builds + 1]]
      BY <1>2, Starts
    <2>2. m.next \in Nat /\ meta' \in Metas
      BY <2>1, MetaFields DEF Entered
    <2>3. run' \in [Refreshers -> Runs]
      BY <2>1, <2>2 DEF Typed, Runs, Phases
    <2> QED BY <1>2, <2>2, <2>3 DEF StartGeneration, Typed
  <1>3. ASSUME NEW r \in Refreshers, WriteRows(r) PROVE Typed'
    <2>1. run' \in [Refreshers -> Runs] /\ run[r].build = builds
      BY <1>3, Goes DEF WriteRows, Phases, InHand, Working
    <2>2. whole' = whole \cup {builds} /\ builds' = builds
      BY <1>3, <2>1 DEF WriteRows
    <2>3. builds \in 1..builds
      BY <1>3 DEF Typed, WriteRows, InHand, Working
    <2> QED BY <1>3, <2>1, <2>2, <2>3 DEF WriteRows, Typed
  <1>4. ASSUME NEW r \in Refreshers, Publish(r) PROVE Typed'
    <2>1. run' \in [Refreshers -> Runs] /\ run[r].build \in Nat
      BY <1>4, Goes DEF Publish, Phases, Typed, Runs
    <2> QED BY <1>4, <2>1 DEF Publish, Typed
  <1>5. ASSUME NEW r \in Refreshers, ClearCurrent(r) PROVE Typed'
    <2>1. run' \in [Refreshers -> Runs]
      BY <1>5, Goes DEF ClearCurrent, Phases
    <2>2. meta' \in Metas
      BY <1>5 DEF ClearCurrent, Typed, Metas, None
    <2> QED BY <1>5, <2>1, <2>2 DEF ClearCurrent, Typed
  <1>6. ASSUME NEW r \in Refreshers, Mark(r) \/ FailGeneration(r) PROVE Typed'
    <2>1. run' \in [Refreshers -> Runs]
      BY <1>6, Goes DEF Mark, FailGeneration, Phases
    <2>2. meta' \in Metas
      BY <1>6, Completes, Fails DEF Entered
    <2> QED BY <1>6, <2>1, <2>2 DEF Mark, FailGeneration, Typed
  <1>7. ASSUME NEW r \in Refreshers, Raises(r) PROVE Typed'
    <2>1. run' \in [Refreshers -> Runs]
      BY <1>7, Goes DEF Raises, Phases
    <2> QED BY <1>7, <2>1 DEF Raises, Typed
  <1>8. ASSUME NEW r \in Refreshers, Release(r) \/ Dies(r) \/ CoolsDown(r) PROVE Typed'
    BY <1>8, <1>i DEF Release, Dies, CoolsDown, Typed
  <1>9. CASE ReadCurrent
    <2>1. ASSUME CurrentComplete(meta) # None PROVE page' \in Pages
      <3>1. meta.current \in DOMAIN meta.gens /\ CurrentComplete(meta) = meta.current
        BY <2>1 DEF CurrentComplete
      <3>2. meta.current \in Nat /\ meta.gens[meta.current].build \in Nat
        BY <3>1, MetaFields DEF Gen, Typed
      <3> QED BY <1>9, <2>1, <3>1, <3>2 DEF ReadCurrent, Pages
    <2>2. page' \in Pages
      BY <1>9, <2>1 DEF ReadCurrent, Typed
    <2> QED BY <1>9, <2>2 DEF ReadCurrent, Typed
  <1>10. CASE ReadPayload
    <2>1. page.build \in Nat /\ page.at = "payload"
      BY <1>10 DEF Typed, Pages, ReadPayload
    <2>2. Payload(page.gid) \in Nat
      <3>1. CASE kind = "file"
        BY <3>1 DEF Payload, Typed
      <3>2. CASE kind = "crm"
        BY <2>1, <3>2 DEF Payload, PageInCrm
      <3> QED BY <3>1, <3>2 DEF Typed
    <2>3. view' \in Views
      BY <1>10, <2>1, <2>2 DEF ReadPayload, Typed, Views
    <2>4. cached' \in Views
      BY <1>10, <2>3 DEF ReadPayload, Typed
    <2>5. seen' \in Nat
      BY <1>10, <2>3 DEF ReadPayload, Typed, Views
    <2> QED BY <1>10, <1>i, <2>3, <2>4, <2>5 DEF ReadPayload, Typed
  <1>11. CASE Expires
    BY <1>11, <1>i DEF Expires, Typed
  <1>12. CASE PayloadUnreadable
    <2>1. view' \in Views
      BY <1>12 DEF PayloadUnreadable, Typed, Pages, Views, None
    <2> QED BY <1>12, <1>i, <2>1 DEF PayloadUnreadable, Typed
  <1> QED
    BY <1>0, <1>1, <1>2, <1>3, <1>4, <1>5, <1>6, <1>7, <1>8, <1>9, <1>10, <1>11, <1>12 DEF Next, RefreshStep

(* One step of an attempt that goes on, and one of an attempt that ends.    *)
GoesOn(r) ==
    /\ run[r].at # "idle" /\ run'[r].at # "idle" /\ lock' = lock
    /\ \A s \in Refreshers \ {r} : run'[s] = run[s]

Ends(r) ==
    /\ run[r].at # "idle" /\ run'[r].at = "idle" /\ lock' = Free
    /\ \A s \in Refreshers \ {r} : run'[s] = run[s]

LEMMA WorkGoesOn ==
    ASSUME CacheInv, NEW r \in Refreshers,
           \/ StartGeneration(r) \/ WriteRows(r) \/ Publish(r) \/ ClearCurrent(r)
           \/ Mark(r) \/ FailGeneration(r) \/ Raises(r)
    PROVE  GoesOn(r)
  <1> USE DEF CacheInv
  <1>1. CASE StartGeneration(r)
    BY <1>1 DEF StartGeneration, GoesOn, Typed
  <1>2. CASE ~StartGeneration(r)
    <2>1. /\ run[r].at # "idle" /\ lock' = lock
          /\ \E at \in Phases \ {"idle"} : Go(r, at)
      BY <1>2 DEF WriteRows, Publish, ClearCurrent, Mark, FailGeneration, Raises, Phases
    <2> QED BY <2>1, Goes DEF GoesOn
  <1> QED BY <1>1, <1>2

LEMMA HowItMoves ==
    ASSUME CacheInv, [Next]_vars
    PROVE  \/ \E r \in Refreshers : Begin(r) \/ GoesOn(r) \/ Ends(r)
           \/ UNCHANGED <<lock, run>>
  <1> USE DEF CacheInv
  <1>3. ASSUME NEW r \in Refreshers, Release(r) \/ Dies(r) PROVE Ends(r)
    BY <1>3 DEF Release, Dies, Ends, Typed, NoRun
  <1> QED
    BY <1>3, WorkGoesOn DEF Next, RefreshStep, vars, CoolsDown, ReadCurrent, ReadPayload, PayloadUnreadable, Expires

LEMMA OneRunsStep == ASSUME CacheInv, [Next]_vars PROVE OneRuns'
  <1> USE AnalyticsAssumption DEF CacheInv, Free
  <1>1. ASSUME NEW r \in Refreshers, Begin(r) PROVE OneRuns'
    <2>1. run'[r].at = "start" /\ \A s \in Refreshers \ {r} : run'[s] = run[s]
      BY <1>1, Goes DEF Begin, Phases
    <2>2. lock = Free /\ lock' = r
      BY <1>1 DEF Begin, LockTry
    <2> QED BY <2>1, <2>2 DEF OneRuns
  <1>2. ASSUME NEW r \in Refreshers, GoesOn(r) PROVE OneRuns'
    BY <1>2 DEF GoesOn, OneRuns
  <1>3. ASSUME NEW r \in Refreshers, Ends(r) PROVE OneRuns'
    BY <1>3 DEF Ends, OneRuns
  <1>4. CASE UNCHANGED <<lock, run>>
    BY <1>4 DEF OneRuns
  <1> QED BY <1>1, <1>2, <1>3, <1>4, HowItMoves

LEMMA InHandStep ==
    ASSUME CacheInv, [Next]_vars, NEW s \in Refreshers PROVE InHand(s)'
  <1> USE DEF CacheInv
  <1>k. kind' = kind
    BY DEF Next, RefreshStep, vars, Begin, StartGeneration, WriteRows, Publish, ClearCurrent, Mark,
           FailGeneration, Raises, Release, Dies, CoolsDown, ReadCurrent, ReadPayload, PayloadUnreadable, Expires
  <1>1. CASE run'[s].at \notin Working
    BY <1>1 DEF InHand, Working
  <1>2. ASSUME run'[s] = run[s], UNCHANGED <<builds, whole, snap>> PROVE InHand(s)'
    BY <1>2, <1>k DEF InHand
  <1>3. ASSUME NEW r \in Refreshers \ {s}, GoesOn(r) PROVE InHand(s)'
    <2>1. run'[s].at = "idle"
      BY <1>3, Alone DEF GoesOn
    <2> QED BY <1>1, <2>1 DEF Working
  <1>4. ASSUME NEW r \in Refreshers, Begin(r) \/ Ends(r) PROVE InHand(s)'
    <2>1. CASE s = r
      <3>1. run'[s].at \in {"idle", "start"}
        BY <1>4, <2>1, Goes DEF Begin, Ends, Phases
      <3> QED BY <1>1, <3>1 DEF Working
    <2>2. CASE s # r /\ Ends(r)
      <3>1. run'[s].at = "idle"
        BY <2>2, Alone DEF Ends
      <3> QED BY <1>1, <3>1 DEF Working
    <2>3. CASE s # r /\ Begin(r)
      BY <1>2, <2>3, Goes DEF Begin, Phases
    <2> QED BY <1>4, <2>1, <2>2, <2>3
  <1>5. CASE StartGeneration(s)
    <2>1. PICK m : /\ Entered(m, m.next + 1, m.current, m.next, [status |-> "BUILDING", build |-> builds + 1])
                   /\ run' = [run EXCEPT ![s] = [at |-> "build", gid |-> m.next, build |-> builds + 1]]
      BY <1>5, Starts
    <2>2. m.next # None
      BY <2>1, MetaFields DEF Entered, None
    <2>3. run'[s] = [at |-> "build", gid |-> m.next, build |-> builds + 1]
      BY <2>1 DEF Typed
    <2>4. builds' = builds + 1 /\ builds \in Nat
      BY <1>5 DEF StartGeneration, Typed
    <2> QED BY <2>2, <2>3, <2>4 DEF InHand
  <1>6. CASE WriteRows(s)
    <2>1. /\ run'[s].at = "switch" /\ run'[s].gid = run[s].gid /\ run'[s].build = run[s].build
          /\ run[s].at = "build" /\ builds' = builds /\ whole' = whole \cup {run[s].build}
      BY <1>6, Goes DEF WriteRows, Phases
    <2> QED BY <1>k, <2>1 DEF InHand, Working
  <1>7. CASE Publish(s) \/ ClearCurrent(s)
    <2>1. /\ run'[s].at = "mark" /\ run'[s].gid = run[s].gid /\ run'[s].build = run[s].build
          /\ run[s].at = "switch" /\ builds' = builds /\ whole' = whole
          /\ kind = "file" => snap' = run[s].build
      BY <1>7, Goes DEF Publish, ClearCurrent, Phases
    <2> QED BY <1>k, <2>1 DEF InHand, Working
  <1>8. CASE Mark(s) \/ FailGeneration(s)
    <2>1. run'[s].at = "release"
      BY <1>8, Goes DEF Mark, FailGeneration, Phases
    <2> QED BY <1>1, <2>1 DEF Working
  <1>9. CASE Raises(s)
    <2>1. PICK at \in {"release", "fail"} :
             /\ Go(s, at) /\ (at = "fail" => run[s].at \in Working) /\ builds' = builds
      BY <1>9 DEF Raises, Working
    <2>2. /\ run'[s].at = at /\ run'[s].gid = run[s].gid /\ run'[s].build = run[s].build
      BY <2>1, Goes DEF Phases
    <2> QED BY <1>1, <2>1, <2>2 DEF InHand, Working
  <1>10. ASSUME NEW r \in Refreshers,
                \/ StartGeneration(r) \/ WriteRows(r) \/ Publish(r) \/ ClearCurrent(r)
                \/ Mark(r) \/ FailGeneration(r) \/ Raises(r)
         PROVE  InHand(s)'
    BY <1>3, <1>5, <1>6, <1>7, <1>8, <1>9, <1>10, WorkGoesOn
  <1>11. ASSUME NEW r \in Refreshers, Release(r) \/ Dies(r) PROVE Ends(r)
    BY <1>11 DEF Release, Dies, Ends, Typed, NoRun
  <1>12. CASE UNCHANGED <<run, builds, whole, snap>>
    BY <1>2, <1>12
  <1> QED
    BY <1>4, <1>10, <1>11, <1>12 DEF Next, RefreshStep, vars, CoolsDown, ReadCurrent, ReadPayload, PayloadUnreadable, Expires

LEMMA KindStays == ASSUME [Next]_vars PROVE kind' = kind
  BY DEF Next, RefreshStep, vars, Begin, StartGeneration, WriteRows, Publish, ClearCurrent, Mark,
         FailGeneration, Raises, Release, Dies, CoolsDown, ReadCurrent, ReadPayload, PayloadUnreadable, Expires

(* Every complete generation is the work of a computation that finished. *)
LEMMA CompleteStaysFinished ==
    ASSUME CacheInv, NEW m, NEW next, NEW c, NEW g, NEW e, Entered(m, next, c, g, e),
           e.status = "COMPLETE" => e.build \in whole /\ (kind = "file" => e.build <= snap)
    PROVE  \A k \in DOMAIN meta'.gens :
              meta'.gens[k].status = "COMPLETE" =>
                  meta'.gens[k].build \in whole /\ (kind = "file" => meta'.gens[k].build <= snap)
  <1>1. \A k \in DOMAIN m.gens : m.gens[k].status = "COMPLETE" =>
                  m.gens[k].build \in whole /\ (kind = "file" => m.gens[k].build <= snap)
    BY EmptyIsMeta DEF Entered, WasRead, CacheInv, Snapshots
  <1> QED BY <1>1 DEF Entered

LEMMA SnapshotsStep == ASSUME CacheInv, [Next]_vars PROVE Snapshots'
  <1> USE DEF CacheInv
  <1>k. kind' = kind /\ snap \in Nat /\ whole \subseteq 1..builds /\ builds \in Nat
    BY KindStays DEF Typed
  <1>1. CASE UNCHANGED <<meta, snap, whole, page, view, seen>> /\ cached' \in {cached, NoView}
    BY <1>k, <1>1 DEF Snapshots
  <1>2. ASSUME NEW m, NEW next, NEW c, NEW g, NEW e, Entered(m, next, c, g, e),
               e.status = "COMPLETE" => e.build \in whole /\ (kind = "file" => e.build <= snap),
               UNCHANGED <<snap, whole, page, view, seen, cached>>
        PROVE  Snapshots'
    <2>1. \A k \in DOMAIN meta'.gens :
              meta'.gens[k].status = "COMPLETE" =>
                  meta'.gens[k].build \in whole /\ (kind = "file" => meta'.gens[k].build <= snap)
      BY <1>2, CompleteStaysFinished
    <2> QED BY <1>2, <1>k, <2>1 DEF Snapshots
  <1>3. ASSUME NEW r \in Refreshers, StartGeneration(r) PROVE Snapshots'
    <2>1. PICK m : Entered(m, m.next + 1, m.current, m.next, [status |-> "BUILDING", build |-> builds + 1])
      BY <1>3, Starts
    <2> QED BY <1>2, <1>3, <2>1 DEF StartGeneration
  <1>4. ASSUME NEW r \in Refreshers, WriteRows(r) PROVE Snapshots'
    BY <1>4, <1>k DEF WriteRows, Snapshots
  <1>5. ASSUME NEW r \in Refreshers, Publish(r) PROVE Snapshots'
    <2>1. snap' = builds /\ builds \in whole /\ snap <= builds
      BY <1>5, <1>k DEF Publish, InHand, Working, Snapshots, None
    <2>2. \A b \in whole : b <= builds
      BY <1>k
    <2>3. \A b \in whole : b \in Nat /\ b <= snap'
      BY <1>k, <2>1, <2>2
    <2>4. UNCHANGED <<meta, whole, page, view, seen, cached>>
      BY <1>5 DEF Publish
    <2>5. seen <= snap'
      <3>1. seen \in whole \/ seen = 0
        BY DEF Snapshots, None
      <3>2. seen \in Nat /\ snap' \in Nat
        BY <1>k, <2>1 DEF Typed
      <3> QED BY <2>3, <3>1, <3>2
    <2> QED BY <1>k, <2>1, <2>3, <2>4, <2>5 DEF Snapshots
  <1>6. ASSUME NEW r \in Refreshers, ClearCurrent(r) PROVE Snapshots'
    <2>1. meta'.gens = meta.gens
      BY <1>6 DEF ClearCurrent, Typed, Metas
    <2> QED BY <1>6, <1>k, <2>1 DEF ClearCurrent, Snapshots
  <1>7. ASSUME NEW r \in Refreshers, Mark(r) PROVE Snapshots'
    <2>1. PICK m : Entered(m, m.next, run[r].gid, run[r].gid, [status |-> "COMPLETE", build |-> builds])
      BY <1>7, Completes
    <2>2. builds \in whole /\ (kind = "file" => builds <= snap)
      BY <1>7, <1>k DEF Mark, InHand
    <2> QED BY <1>2, <1>7, <2>1, <2>2 DEF Mark
  <1>8. ASSUME NEW r \in Refreshers, FailGeneration(r) PROVE Snapshots'
    <2>1. PICK m : Entered(m, m.next, m.current, run[r].gid, [status |-> "FAILED", build |-> builds])
      BY <1>8, Fails
    <2> QED BY <1>2, <1>8, <2>1 DEF FailGeneration
  <1>9. CASE ReadCurrent
    <2>1. ASSUME CurrentComplete(meta) # None
          PROVE  page'.build \in whole /\ (kind = "file" => page'.build <= snap)
      <3>1. /\ meta.current \in DOMAIN meta.gens /\ meta.gens[meta.current].status = "COMPLETE"
            /\ CurrentComplete(meta) = meta.current
        BY <2>1 DEF CurrentComplete
      <3>2. page'.build = meta.gens[meta.current].build
        BY <1>9, <2>1, <3>1 DEF ReadCurrent
      <3> QED BY <3>1, <3>2 DEF Snapshots
    <2>2. page'.at = "payload" => page'.build \in whole /\ (kind = "file" => page'.build <= snap)
      BY <1>9, <2>1 DEF ReadCurrent
    <2> QED BY <1>9, <1>k, <2>2 DEF ReadCurrent, Snapshots
  <1>10. CASE ReadPayload
    <2>1. page.at = "payload" /\ page.build \in whole /\ page'.at = "idle" /\ page.build \in Nat
      BY <1>10 DEF ReadPayload, Snapshots, NoRun, Typed, Pages
    <2>2. CASE kind = "file"
      <3>1. snap \in whole /\ page.build <= snap
        BY <1>k, <2>1, <2>2 DEF Snapshots, None
      <3>2. cached' = view' /\ view' \in {cached, [label |-> page.build, shown |-> snap]}
        BY <1>10, <2>2 DEF ReadPayload, Payload
      <3>3. cached \in {NoView, view}
        BY <2>2 DEF Snapshots
      <3>4. /\ view'.shown # None => view'.label <= view'.shown
            /\ view'.shown \in {None, seen, snap}
        BY <1>k, <2>2, <3>1, <3>2, <3>3 DEF Snapshots, NoView, None
      <3>5. seen' = IF view'.shown = None THEN seen ELSE view'.shown
        BY <1>10 DEF ReadPayload
      <3>6. seen' \in whole \cup {None} /\ seen' <= snap /\ view'.shown \in {None, seen'}
        BY <1>k, <2>2, <3>1, <3>4, <3>5 DEF Snapshots
      <3> QED BY <1>10, <1>k, <2>1, <2>2, <3>2, <3>4, <3>6 DEF ReadPayload, Snapshots
    <2>3. CASE kind = "crm"
      <3>1. view' = [label |-> page.build, shown |-> page.build] /\ cached' = cached
        BY <1>10, <2>1, <2>3 DEF ReadPayload, Payload, PageInCrm
      <3>2. seen' = page.build
        BY <1>10, <1>k, <2>1, <3>1 DEF ReadPayload, None
      <3> QED BY <1>10, <1>k, <2>1, <2>3, <3>1, <3>2 DEF ReadPayload, Snapshots
    <2> QED BY <2>2, <2>3 DEF Typed
  <1>11. CASE Expires
    BY <1>1, <1>11 DEF Expires
  <1>12. ASSUME NEW r \in Refreshers, Begin(r) \/ Raises(r) \/ Release(r) \/ Dies(r) \/ CoolsDown(r)
         PROVE  Snapshots'
    BY <1>1, <1>12 DEF Begin, Raises, Release, Dies, CoolsDown
  <1>13. CASE UNCHANGED vars
    BY <1>1, <1>13 DEF vars
  <1>14. CASE PayloadUnreadable
    BY <1>14, <1>k DEF PayloadUnreadable, Snapshots, NoRun, None
  <1> QED
    BY <1>3, <1>4, <1>5, <1>6, <1>7, <1>8, <1>9, <1>10, <1>11, <1>12, <1>13, <1>14 DEF Next, RefreshStep

LEMMA SpoiledStays ==
    ASSUME CacheInv, [Next]_vars, Spoiled, \A r \in Refreshers : ~Mark(r)
    PROVE  Spoiled'
  <1> USE DEF CacheInv
  <1>1. CASE scar
    <2>1. scar'
      <3>1. ASSUME NEW r \in Refreshers, StartGeneration(r) \/ FailGeneration(r) PROVE scar'
        BY <1>1, <3>1 DEF StartGeneration, FailGeneration, Load
      <3>2. ASSUME NEW r \in Refreshers, Raises(r) \/ Dies(r) PROVE scar'
        BY <1>1, <3>2 DEF Raises, Dies
      <3>3. CASE UNCHANGED scar
        BY <1>1, <3>3
      <3> QED BY <3>1, <3>2, <3>3 DEF Next, RefreshStep, vars, Begin, WriteRows, Publish, ClearCurrent,
                 Release, CoolsDown, ReadCurrent, ReadPayload, PayloadUnreadable, Expires
    <2> QED BY <2>1 DEF Spoiled
  <1>2. ASSUME NEW r \in Refreshers, Halfway(r) PROVE Spoiled'
    <2>1. run[r].at = "mark" /\ kind = "crm" /\ kind' = "crm"
      BY <1>2, KindStays DEF Halfway
    <2>2. CASE run'[r] = run[r]
      <3>1. Halfway(r)'
        BY <2>1, <2>2 DEF Halfway
      <3> QED BY <3>1 DEF Spoiled
    <2>3. CASE run'[r] # run[r]
      <3>1. run'[r] = run[r] \/ Raises(r) \/ Dies(r)
        <4>1. ASSUME NEW s \in Refreshers \ {r}, Begin(s) \/ GoesOn(s) \/ Ends(s) PROVE run'[r] = run[r]
          BY <4>1, Goes DEF Begin, Phases, GoesOn, Ends
        <4>2. CASE \E s \in Refreshers \ {r} : RefreshStep(s)
          <5>1. PICK s \in Refreshers \ {r} : RefreshStep(s)
            BY <4>2
          <5>2. CASE Release(s) \/ Dies(s)
            BY <5>2 DEF Release, Dies, Typed
          <5>3. CASE CoolsDown(s)
            BY <5>3 DEF CoolsDown
          <5> QED BY <4>1, <5>1, <5>2, <5>3, WorkGoesOn DEF RefreshStep
        <4>3. CASE RefreshStep(r)
          BY <2>1, <4>3 DEF RefreshStep, Begin, StartGeneration, WriteRows, Publish, ClearCurrent,
             FailGeneration, Release, CoolsDown
        <4>4. CASE UNCHANGED run
          BY <4>4
        <4> QED BY <4>2, <4>3, <4>4 DEF Next, vars, ReadCurrent, ReadPayload, PayloadUnreadable, Expires
      <3>2. scar'
        BY <1>2, <2>3, <3>1 DEF Raises, Dies
      <3> QED BY <3>2 DEF Spoiled
    <2> QED BY <2>2, <2>3
  <1> QED BY <1>1, <1>2 DEF Spoiled

(* What is in order was in order one step earlier, and nothing was forgotten.*)
LEMMA WasInOrder == ASSUME CacheInv, [Next]_vars, InOrder' PROVE InOrder
  <1>1. CASE kind = "crm"
    BY <1>1 DEF InOrder
  <1>2. CASE kind # "crm"
    <2>1. ~scar'
      BY <1>2, KindStays DEF InOrder
    <2>2. kind = "file" /\ ~\E r \in Refreshers : Halfway(r)
      BY <1>2 DEF CacheInv, Typed, Halfway
    <2>3. ASSUME NEW r \in Refreshers, Mark(r) PROVE ~scar
      BY <2>1, <2>2, <2>3 DEF Mark, Load
    <2>4. ASSUME \A r \in Refreshers : ~Mark(r) PROVE ~scar
      <3>1. ~Spoiled'
        <4>1. \A r \in Refreshers : ~Halfway(r)'
          BY <1>2, KindStays DEF Halfway
        <4> QED BY <2>1, <4>1 DEF Spoiled
      <3>2. ~Spoiled
        BY <2>4, <3>1, SpoiledStays
      <3> QED BY <3>2 DEF Spoiled
    <2> QED BY <2>3, <2>4 DEF InOrder
  <1> QED BY <1>1, <1>2

LEMMA NothingForgotten ==
    ASSUME NEW m, NEW next, NEW c, NEW g, NEW e, Entered(m, next, c, g, e), kind' = kind, InOrder'
    PROVE  m = meta
  BY DEF Entered, WasRead, InOrder

LEMMA OrderlyStep == ASSUME CacheInv, [Next]_vars PROVE Orderly'
  <1> SUFFICES ASSUME InOrder'
               PROVE  /\ IdsAreNew' /\ (\A r \in Refreshers : OwnsItsOwn(r)') /\ CurrentIsComplete'
                      /\ meta'.current = None /\ SomeComplete' => Spoiled'
    BY DEF Orderly
  <1> USE DEF CacheInv
  <1>i. /\ IdsAreNew /\ (\A r \in Refreshers : OwnsItsOwn(r)) /\ CurrentIsComplete
        /\ meta.current = None /\ SomeComplete => Spoiled
        /\ meta \in Metas /\ kind' = kind
    BY WasInOrder, KindStays DEF Orderly, Typed
  <1> DEFINE Goal == /\ IdsAreNew' /\ (\A r \in Refreshers : OwnsItsOwn(r)') /\ CurrentIsComplete'
                     /\ meta'.current = None /\ SomeComplete' => Spoiled'
  <1>s. ASSUME UNCHANGED <<meta, builds>>, \A r \in Refreshers : ~Mark(r),
               \A s \in Refreshers :
                   run'[s].at \in Working => run[s].at \in Working /\ run'[s].gid = run[s].gid
        PROVE  Goal
    <2>1. IdsAreNew' /\ CurrentIsComplete' /\ meta'.current = meta.current /\ SomeComplete' = SomeComplete
      BY <1>i, <1>s DEF IdsAreNew, CurrentIsComplete, SomeComplete
    <2>2. \A r \in Refreshers : OwnsItsOwn(r)'
      BY <1>i, <1>s DEF OwnsItsOwn
    <2>3. Spoiled => Spoiled'
      BY <1>s, SpoiledStays
    <2> QED BY <1>i, <2>1, <2>2, <2>3
  <1>1. ASSUME NEW r \in Refreshers, Begin(r), \A s \in Refreshers : ~Mark(s) PROVE Goal
    <2>1. run'[r].at = "start" /\ \A s \in Refreshers \ {r} : run'[s] = run[s]
      BY <1>1, Goes DEF Begin, Phases
    <2> QED BY <1>1, <1>s, <2>1 DEF Begin, Working
  <1>2. ASSUME NEW r \in Refreshers, WriteRows(r) \/ Publish(r) \/ Raises(r), \A s \in Refreshers : ~Mark(s)
        PROVE  Goal
    <2>1. PICK at \in Phases : Go(r, at) /\ (at \in Working => run[r].at \in Working)
      BY <1>2 DEF WriteRows, Publish, Raises, Phases, Working
    <2>2. /\ run'[r].at = at /\ run'[r].gid = run[r].gid
          /\ \A s \in Refreshers \ {r} : run'[s] = run[s]
      BY <2>1, Goes
    <2> QED BY <1>2, <1>s, <2>1, <2>2 DEF WriteRows, Publish, Raises
  <1>3. ASSUME NEW r \in Refreshers, Release(r) \/ Dies(r), \A s \in Refreshers : ~Mark(s)
        PROVE  Goal
    <2>1. run'[r].at = "idle" /\ \A s \in Refreshers \ {r} : run'[s] = run[s]
      BY <1>3 DEF Release, Dies, Typed, NoRun
    <2> QED BY <1>3, <1>s, <2>1 DEF Release, Dies, Working
  <1>4. CASE UNCHANGED <<meta, builds, run>> /\ \A s \in Refreshers : ~Mark(s)
    BY <1>4, <1>s
  <1>5. ASSUME NEW r \in Refreshers, StartGeneration(r) PROVE Goal
    <2>1. PICK m : /\ Entered(m, m.next + 1, m.current, m.next, [status |-> "BUILDING", build |-> builds + 1])
                   /\ run' = [run EXCEPT ![r] = [at |-> "build", gid |-> m.next, build |-> builds + 1]]
      BY <1>5, Starts
    <2>2. m = meta
      BY <1>i, <2>1, NothingForgotten
    <2>3. /\ meta'.next = meta.next + 1 /\ meta'.current = meta.current
          /\ DOMAIN meta'.gens = DOMAIN meta.gens \cup {meta.next}
          /\ meta'.gens[meta.next] = [status |-> "BUILDING", build |-> builds + 1]
          /\ \A k \in DOMAIN meta.gens \ {meta.next} : meta'.gens[k] = meta.gens[k]
      BY <2>1, <2>2 DEF Entered
    <2>4. meta.next \in Nat \ {0} /\ meta.next \notin DOMAIN meta.gens
      BY <1>i, MetaFields DEF IdsAreNew
    <2>5. IdsAreNew'
      BY <1>i, <2>3, <2>4, MetaFields DEF IdsAreNew
    <2>6. CurrentIsComplete' /\ SomeComplete' = SomeComplete
      <3>1. CurrentIsComplete'
        BY <1>i, <2>3, <2>4 DEF CurrentIsComplete
      <3>2. SomeComplete' <=> SomeComplete
        BY <2>3, <2>4 DEF SomeComplete
      <3> QED BY <3>1, <3>2 DEF SomeComplete
    <2>7. ASSUME NEW s \in Refreshers PROVE OwnsItsOwn(s)'
      <3>1. CASE s = r
        <4>1. run'[r].gid = meta.next /\ builds' = builds + 1
          BY <1>5, <2>1, <2>2 DEF Typed, StartGeneration
        <4> QED BY <2>3, <3>1, <4>1 DEF OwnsItsOwn
      <3>2. CASE s # r
        <4>1. run[s].at = "idle" /\ run'[s] = run[s]
          BY <1>5, <2>1, <3>2, Alone DEF Typed, StartGeneration
        <4> QED BY <4>1 DEF OwnsItsOwn, Working
      <3> QED BY <3>1, <3>2
    <2>8. Spoiled => Spoiled'
      <3>1. \A s \in Refreshers : ~Mark(s)
        BY <1>5, Alone DEF StartGeneration, Mark
      <3> QED BY <3>1, SpoiledStays
    <2> QED BY <1>i, <2>3, <2>5, <2>6, <2>7, <2>8
  <1>6. ASSUME NEW r \in Refreshers, ClearCurrent(r) PROVE Goal
    <2>1. /\ meta'.gens = meta.gens /\ meta'.next = meta.next /\ meta'.current = None /\ builds' = builds
      BY <1>6, <1>i DEF ClearCurrent, Metas
    <2>2. /\ run'[r].at = "mark" /\ run'[r].gid = run[r].gid /\ run[r].at = "switch"
          /\ \A s \in Refreshers \ {r} : run'[s] = run[s]
      BY <1>6, Goes DEF ClearCurrent, Phases
    <2>3. Spoiled'
      BY <1>6, <1>i, <2>2 DEF Spoiled, Halfway, ClearCurrent
    <2>4. IdsAreNew' /\ CurrentIsComplete'
      BY <1>i, <2>1 DEF IdsAreNew, CurrentIsComplete
    <2>5. \A s \in Refreshers : OwnsItsOwn(s)'
      BY <1>i, <2>1, <2>2 DEF OwnsItsOwn, Working
    <2> QED BY <2>3, <2>4, <2>5
  <1>7. ASSUME NEW r \in Refreshers, Mark(r) PROVE Goal
    <2>1. PICK m : Entered(m, m.next, run[r].gid, run[r].gid, [status |-> "COMPLETE", build |-> builds])
      BY <1>7, Completes
    <2>2. m = meta
      BY <1>i, <2>1, NothingForgotten
    <2>3. /\ meta'.next = meta.next /\ meta'.current = run[r].gid
          /\ DOMAIN meta'.gens = DOMAIN meta.gens \cup {run[r].gid}
          /\ meta'.gens[run[r].gid] = [status |-> "COMPLETE", build |-> builds]
      BY <2>1, <2>2 DEF Entered
    <2>4. run[r].gid \in DOMAIN meta.gens /\ run[r].gid # None
      BY <1>7, <1>i DEF Mark, OwnsItsOwn, Working, InHand
    <2>5. IdsAreNew' /\ CurrentIsComplete' /\ meta'.current # None
      BY <1>i, <2>3, <2>4 DEF IdsAreNew, CurrentIsComplete
    <2>6. ASSUME NEW s \in Refreshers PROVE OwnsItsOwn(s)'
      <3>1. run'[s].at \in {"idle", "release"}
        BY <1>7, Goes, Alone DEF Mark, Phases
      <3> QED BY <3>1 DEF OwnsItsOwn, Working
    <2> QED BY <2>5, <2>6
  <1>8. ASSUME NEW r \in Refreshers, FailGeneration(r) PROVE Goal
    <2>1. PICK m : Entered(m, m.next, m.current, run[r].gid, [status |-> "FAILED", build |-> builds])
      BY <1>8, Fails
    <2>2. m = meta
      BY <1>i, <2>1, NothingForgotten
    <2>3. /\ meta'.next = meta.next /\ meta'.current = meta.current
          /\ DOMAIN meta'.gens = DOMAIN meta.gens \cup {run[r].gid}
          /\ meta'.gens[run[r].gid] = [status |-> "FAILED", build |-> builds]
          /\ \A k \in DOMAIN meta.gens \ {run[r].gid} : meta'.gens[k] = meta.gens[k]
      BY <2>1, <2>2 DEF Entered
    <2>4. run[r].gid \in DOMAIN meta.gens /\ meta.gens[run[r].gid].status = "BUILDING"
      BY <1>8, <1>i DEF FailGeneration, OwnsItsOwn, Working
    <2>5. IdsAreNew'
      BY <1>i, <2>3, <2>4 DEF IdsAreNew
    <2>6. CurrentIsComplete' /\ (SomeComplete' => SomeComplete)
      BY <1>i, <2>3, <2>4 DEF CurrentIsComplete, SomeComplete
    <2>7. ASSUME NEW s \in Refreshers PROVE OwnsItsOwn(s)'
      <3>1. run'[s].at \in {"idle", "release"}
        BY <1>8, Goes, Alone DEF FailGeneration, Phases
      <3> QED BY <3>1 DEF OwnsItsOwn, Working
    <2>8. Spoiled => Spoiled'
      <3>1. \A s \in Refreshers : ~Mark(s)
        BY <1>8, Alone DEF FailGeneration, Mark
      <3> QED BY <3>1, SpoiledStays
    <2> QED BY <1>i, <2>3, <2>5, <2>6, <2>7, <2>8
  <1> QED
    BY <1>1, <1>2, <1>3, <1>4, <1>5, <1>6, <1>7, <1>8
    DEF Next, RefreshStep, vars, CoolsDown, ReadCurrent, ReadPayload, PayloadUnreadable, Expires

LEMMA PageStep == ASSUME CacheInv, [Next]_vars PROVE PageInCrm'
  <1> SUFFICES ASSUME kind' = "crm" PROVE PageInCrm'
    BY DEF PageInCrm
  <1> USE DEF CacheInv
  <1>i. /\ kind = "crm" /\ kind' = "crm" /\ meta \in Metas /\ InOrder /\ InOrder'
        /\ page.at = "payload" =>
              /\ page.gid \in DOMAIN meta.gens /\ meta.gens[page.gid].build = page.build
              /\ seen <= page.build
        /\ meta.current # None =>
              /\ seen <= meta.gens[meta.current].build
              /\ page.at = "payload" => page.build <= meta.gens[meta.current].build
        /\ IdsAreNew /\ (\A r \in Refreshers : OwnsItsOwn(r)) /\ CurrentIsComplete
        /\ page.at = "payload" => page.build \in whole
        /\ seen \in whole \cup {None} /\ seen \in Nat /\ page.build \in Nat
        /\ whole \subseteq 1..builds /\ builds \in Nat
    BY KindStays DEF PageInCrm, InOrder, Orderly, Snapshots, Typed, Views, Pages
  <1>e. /\ seen <= builds
        /\ page.at = "payload" => page.build <= builds
    BY <1>i DEF None
  <1>1. CASE UNCHANGED <<meta, page, seen>>
    BY <1>1, <1>i DEF PageInCrm
  <1>2. ASSUME NEW r \in Refreshers, StartGeneration(r) PROVE PageInCrm'
    <2>1. PICK m : Entered(m, m.next + 1, m.current, m.next, [status |-> "BUILDING", build |-> builds + 1])
      BY <1>2, Starts
    <2>2. m = meta
      BY <1>i, <2>1, NothingForgotten
    <2>3. /\ meta'.current = meta.current
          /\ DOMAIN meta'.gens = DOMAIN meta.gens \cup {meta.next}
          /\ \A k \in DOMAIN meta.gens \ {meta.next} : meta'.gens[k] = meta.gens[k]
      BY <2>1, <2>2 DEF Entered
    <2>4. meta.next \notin DOMAIN meta.gens
      BY <1>i, MetaFields DEF IdsAreNew
    <2>5. UNCHANGED <<page, seen>>
      BY <1>2 DEF StartGeneration
    <2> QED BY <1>i, <2>3, <2>4, <2>5 DEF PageInCrm, CurrentIsComplete
  <1>3. ASSUME NEW r \in Refreshers, ClearCurrent(r) PROVE PageInCrm'
    <2>1. meta'.gens = meta.gens /\ meta'.current = None /\ UNCHANGED <<page, seen>>
      BY <1>3, <1>i DEF ClearCurrent, Metas
    <2> QED BY <1>i, <2>1 DEF PageInCrm
  <1>4. ASSUME NEW r \in Refreshers, NEW m, NEW next, NEW c, NEW e, Entered(m, next, c, run[r].gid, e),
               run[r].at \in Working, e.build = builds, UNCHANGED <<page, seen>>,
               c = run[r].gid \/ c = m.current
        PROVE  PageInCrm'
    <2>1. /\ m = meta /\ meta'.current = c
          /\ DOMAIN meta'.gens = DOMAIN meta.gens \cup {run[r].gid}
          /\ meta'.gens[run[r].gid] = e
          /\ \A k \in DOMAIN meta.gens \ {run[r].gid} : meta'.gens[k] = meta.gens[k]
      BY <1>4, <1>i, NothingForgotten DEF Entered
    <2>2. run[r].gid \in DOMAIN meta.gens /\ meta.gens[run[r].gid] = [status |-> "BUILDING", build |-> builds]
      BY <1>4, <1>i DEF OwnsItsOwn
    <2>3. \A k \in DOMAIN meta.gens : k \in DOMAIN meta'.gens /\ meta'.gens[k].build = meta.gens[k].build
      BY <1>4, <2>1, <2>2
    <2>4. page.at = "payload" => page.gid \in DOMAIN meta'.gens /\ meta'.gens[page.gid].build = page.build
      BY <1>i, <2>3
    <2>5. CASE c = run[r].gid
      BY <1>4, <1>i, <1>e, <2>1, <2>4, <2>5 DEF PageInCrm
    <2>6. CASE c = meta.current
      <3>1. c # None => c \in DOMAIN meta.gens /\ meta'.gens[c].build = meta.gens[c].build
        BY <1>i, <2>3, <2>6 DEF CurrentIsComplete
      <3> QED BY <1>4, <1>i, <2>1, <2>4, <2>6, <3>1 DEF PageInCrm
    <2> QED BY <1>4, <2>1, <2>5, <2>6
  <1>5. ASSUME NEW r \in Refreshers, Mark(r) PROVE PageInCrm'
    <2>1. PICK m : Entered(m, m.next, run[r].gid, run[r].gid, [status |-> "COMPLETE", build |-> builds])
      BY <1>5, Completes
    <2> QED BY <1>4, <1>5, <2>1 DEF Mark, Working
  <1>6. ASSUME NEW r \in Refreshers, FailGeneration(r) PROVE PageInCrm'
    <2>1. PICK m : Entered(m, m.next, m.current, run[r].gid, [status |-> "FAILED", build |-> builds])
      BY <1>6, Fails
    <2> QED BY <1>4, <1>6, <2>1 DEF FailGeneration, Working
  <1>7. CASE ReadCurrent
    <2>1. CASE CurrentComplete(meta) = None
      BY <1>1, <1>7, <2>1 DEF ReadCurrent
    <2>2. CASE CurrentComplete(meta) # None
      <3>1. meta.current \in DOMAIN meta.gens /\ CurrentComplete(meta) = meta.current /\ meta.current # None
        BY <2>2 DEF CurrentComplete
      <3>2. page' = [at |-> "payload", gid |-> meta.current, build |-> meta.gens[meta.current].build]
        BY <1>7, <2>2, <3>1 DEF ReadCurrent
      <3>3. UNCHANGED <<meta, seen>> /\ meta.gens[meta.current].build \in Nat
        BY <1>7, <1>i, <3>1, MetaFields DEF ReadCurrent, Gen
      <3> QED BY <1>i, <3>1, <3>2, <3>3 DEF PageInCrm
    <2> QED BY <2>1, <2>2
  <1>8. CASE ReadPayload
    <2>1. page.at = "payload" /\ page'.at = "idle" /\ meta' = meta
      BY <1>8 DEF ReadPayload, NoRun
    <2>2. view'.shown = page.build
      BY <1>8, <1>i, <2>1 DEF ReadPayload, Payload
    <2>3. seen' = page.build
      BY <1>8, <2>1, <2>2, <1>i DEF ReadPayload, None
    <2> QED BY <1>i, <2>1, <2>3 DEF PageInCrm
  <1> QED
    BY <1>1, <1>2, <1>3, <1>5, <1>6, <1>7, <1>8
    DEF Next, RefreshStep, vars, Begin, WriteRows, Publish, Raises, Release, Dies, CoolsDown, PayloadUnreadable, Expires

-----------------------------------------------------------------------------
LEMMA InvInit == ASSUME Init PROVE CacheInv
  <1>1. Typed
    <2>1. meta = Empty /\ kind \in {"crm", "file"}
      BY AnalyticsAssumption DEF Init
    <2>2. NoRun \in Runs /\ NoRun \in Pages /\ NoView \in Views
      BY DEF NoRun, NoView, Runs, Phases, Views, Pages, None
    <2> QED BY <2>1, <2>2, EmptyIsMeta DEF Init, Typed, None
  <1>2. DOMAIN meta.gens = {} /\ meta.current = None
    BY EmptyIsMeta DEF Init, Empty
  <1>3. OneRuns /\ \A r \in Refreshers : InHand(r) /\ OwnsItsOwn(r)
    BY AnalyticsAssumption DEF Init, OneRuns, InHand, OwnsItsOwn, NoRun, Free, Working
  <1>4. Snapshots
    BY <1>2 DEF Init, Snapshots, NoRun, NoView, None
  <1>5. Orderly
    BY <1>2, <1>3 DEF Orderly, IdsAreNew, CurrentIsComplete, SomeComplete
  <1>6. PageInCrm
    BY <1>2 DEF Init, PageInCrm, NoRun
  <1> QED BY <1>1, <1>3, <1>4, <1>5, <1>6 DEF CacheInv

LEMMA InvStep == ASSUME CacheInv, [Next]_vars PROVE CacheInv'
  BY TypedStep, OneRunsStep, InHandStep, SnapshotsStep, OrderlyStep, PageStep DEF CacheInv

LEMMA SpecInv == Spec => []CacheInv
  <1> QED BY InvInit, InvStep, PTL DEF Spec

(* PREVIOUS_COMPLETE_PRESERVED, REFRESH_FAILURE_DESTROYS_LAST_GOOD = false: *)
(* with a refresh that completed there is a current snapshot, whatever      *)
(* fails or dies afterwards, except in the middle of the CRM's switch, after*)
(* a stop there, and after a meta.json that was read as absent.             *)
THEOREM LastGoodSnapshotSurvives == Spec => []LastGoodSurvives
  <1>1. CacheInv => LastGoodSurvives
    <2>1. CASE InOrder
      BY <2>1 DEF CacheInv, Orderly, CurrentIsComplete, CurrentComplete, LastGoodSurvives, SomeComplete, Spoiled
    <2>2. CASE ~InOrder
      BY <2>2 DEF InOrder, LastGoodSurvives
    <2> QED BY <2>1, <2>2
  <1> QED BY <1>1, SpecInv, PTL

(* read_dashboard reads without the lock, in two reads, and the switch is   *)
(* two writes: what the page shows, if anything, is the work of one finished*)
(* computation, in the CRM of the generation it is dated by, in the file of *)
(* that one or a later one.                                                 *)
THEOREM PageIsOneSnapshot == Spec => []PageShowsOneSnapshot
  <1>1. CacheInv => PageShowsOneSnapshot
    BY DEF CacheInv, Snapshots, PageShowsOneSnapshot, Typed, Views
  <1> QED BY <1>1, SpecInv, PTL

(* The lock of refresh_all keeps a slow refresh from publishing over one    *)
(* that began after it: the page never goes back to an older computation    *)
(* than the last one it showed, not even after it has shown nothing.        *)
THEOREM PageOnlyAdvances == Spec => PageNeverGoesBack
  <1>1. CacheInv /\ [Next]_vars => [view'.shown # None => view'.shown >= seen]_view
    <2> SUFFICES ASSUME CacheInv, [Next]_vars, view' # view, view'.shown # None PROVE view'.shown >= seen
      OBVIOUS
    <2>1. ReadPayload
      BY DEF Next, RefreshStep, vars, Begin, StartGeneration, WriteRows, Publish, ClearCurrent, Mark,
             FailGeneration, Raises, Release, Dies, CoolsDown, ReadCurrent, PayloadUnreadable, Expires
    <2>2. page.at = "payload" /\ page.build \in whole /\ whole \subseteq 1..builds
      BY <2>1 DEF ReadPayload, CacheInv, Snapshots, Typed
    <2>3. seen \in Nat /\ snap \in Nat /\ page.build \in Nat
      BY DEF CacheInv, Typed, Pages
    <2>4. CASE kind = "file"
      <3>1. seen <= snap /\ cached \in {NoView, view} /\ page.build # None
        BY <2>2, <2>4 DEF CacheInv, Snapshots, None
      <3>2. view' \in {view, [label |-> page.build, shown |-> snap]}
        BY <2>1, <2>4, <3>1 DEF ReadPayload, Payload, NoView
      <3> QED BY <2>3, <3>1, <3>2
    <2>5. CASE kind = "crm"
      <3>1. view'.shown = page.build /\ seen <= page.build
        BY <2>1, <2>2, <2>5 DEF ReadPayload, Payload, CacheInv, PageInCrm
      <3> QED BY <2>3, <3>1
    <2> QED BY <2>4, <2>5 DEF CacheInv, Typed
  <1> QED BY <1>1, SpecInv, PTL DEF Spec, PageNeverGoesBack
=============================================================================
