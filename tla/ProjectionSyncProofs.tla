------------------------- MODULE ProjectionSyncProofs -------------------------
(***************************************************************************)
(* Proofs about ProjectionSync, for any lots, any number of syncs and any  *)
(* bounds: the types and the unique source, that a contract number has one *)
(* row, that a stage falls back only under an overlap, and what a complete *)
(* sync achieves.                                                          *)
(***************************************************************************)
EXTENDS ProjectionSync, TLAPS, SequenceTheorems

Pulled == [lot : Lots, stage : Stages, num : BOOLEAN]

Rests == [at : {"idle"}, fresh : BOOLEAN, known : SUBSET Lots]
Reads == [at : {"pull"}, fresh : BOOLEAN, alone : BOOLEAN, known : SUBSET Lots, news : SUBSET Lots,
          next : Stages, got : SUBSET Pulled]
Gathered == [at : {"index"}, fresh : BOOLEAN, alone : BOOLEAN, known : SUBSET Lots, news : SUBSET Lots,
             next : {Awarded + 1}, got : SUBSET Pulled]
Writes == [at : {"write"}, fresh : BOOLEAN, alone : BOOLEAN, known : SUBSET Lots, news : SUBSET Lots,
           idx : Seq(Row), todo : SUBSET Pulled]
Syncs == Rests \cup Reads \cup Gathered \cup Writes

Reading(s) == sync[s].at \in {"pull", "index"}
Writing(s) == sync[s].at = "write"

(* Types of the variables as a whole. *)
Typed ==
    /\ src \in [Lots -> SUBSET Stages]
    /\ numbered \subseteq Lots /\ past \subseteq Lots /\ raced \subseteq Lots
    /\ rows \in Seq(Row)
    /\ sync \in [Syncers -> Syncs]

(* A source row has one CRM row, and the row shows what its source is.      *)
Schema ==
    /\ \A i, j \in Ids : rows[i].lot = rows[j].lot /\ rows[i].prov = rows[j].prov => i = j
    /\ \A i \in Ids :
          /\ rows[i].prov = Awarded => rows[i].awd /\ rows[i].status \in {"manual_hold", "awarded"}
          /\ rows[i].prov = Waiting => rows[i].status \in {"manual_hold", "waiting"}

(* The index a sync decides by: its rows are still there, under the same    *)
(* lot and number.                                                          *)
IndexHolds(s) ==
    Writing(s) =>
        /\ Len(sync[s].idx) <= Len(rows)
        /\ \A i \in 1..Len(sync[s].idx) :
              sync[s].idx[i].lot = rows[i].lot /\ sync[s].idx[i].num = rows[i].num

Basics == Typed /\ Len(rows) <= MaxRows /\ Schema /\ \A s \in Syncers : IndexHolds(s)

-----------------------------------------------------------------------------
(* What a sync that does not act keeps of what it has in hand. *)
Keeps(x, m) ==
    /\ m \in Syncs
    /\ m.at = x.at /\ m.known = x.known
    /\ m.fresh => x.fresh
    /\ x.at # "idle" => (m.alone => x.alone) /\ x.news \subseteq m.news
    /\ x.at \in {"pull", "index"} => m.next = x.next /\ m.got = x.got
    /\ x.at = "write" => m.idx = x.idx /\ m.todo = x.todo

LEMMA KeepsAll == ASSUME NEW x \in Syncs PROVE Keeps(x, x)
  BY DEF Keeps

LEMMA KeepsFresh ==
    ASSUME NEW x \in Syncs, NEW m, m = [x EXCEPT !.fresh = FALSE] PROVE Keeps(x, m) /\ m.fresh = FALSE
  <1>1. CASE x \in Rests
    <2>1. m \in Rests
      BY <1>1 DEF Rests
    <2> QED BY <1>1, <2>1 DEF Rests, Keeps, Syncs
  <1>2. CASE x \in Reads
    <2>1. m \in Reads
      BY <1>2 DEF Reads
    <2> QED BY <1>2, <2>1 DEF Reads, Keeps, Syncs
  <1>3. CASE x \in Gathered
    <2>1. m \in Gathered
      BY <1>3 DEF Gathered
    <2> QED BY <1>3, <2>1 DEF Gathered, Keeps, Syncs
  <1>4. CASE x \in Writes
    <2>1. m \in Writes
      BY <1>4 DEF Writes
    <2> QED BY <1>4, <2>1 DEF Writes, Keeps, Syncs
  <1> QED BY <1>1, <1>2, <1>3, <1>4 DEF Syncs

LEMMA KeepsAlone ==
    ASSUME NEW x \in Syncs, x.at # "idle", NEW m, m = [x EXCEPT !.alone = FALSE] PROVE Keeps(x, m) /\ m.alone = FALSE
  <1>2. CASE x \in Reads
    <2>1. m \in Reads
      BY <1>2 DEF Reads
    <2> QED BY <1>2, <2>1 DEF Reads, Keeps, Syncs
  <1>3. CASE x \in Gathered
    <2>1. m \in Gathered
      BY <1>3 DEF Gathered
    <2> QED BY <1>3, <2>1 DEF Gathered, Keeps, Syncs
  <1>4. CASE x \in Writes
    <2>1. m \in Writes
      BY <1>4 DEF Writes
    <2> QED BY <1>4, <2>1 DEF Writes, Keeps, Syncs
  <1> QED BY <1>2, <1>3, <1>4 DEF Syncs, Rests

LEMMA KeepsNews ==
    ASSUME NEW x \in Syncs, x.at # "idle", NEW l \in Lots, NEW m, m = [x EXCEPT !.news = @ \cup {l}]
    PROVE  Keeps(x, m) /\ m.fresh = x.fresh /\ m.news = x.news \cup {l}
  <1>2. CASE x \in Reads
    <2>1. m \in Reads
      BY <1>2 DEF Reads
    <2> QED BY <1>2, <2>1 DEF Reads, Keeps, Syncs
  <1>3. CASE x \in Gathered
    <2>1. m \in Gathered
      BY <1>3 DEF Gathered
    <2> QED BY <1>3, <2>1 DEF Gathered, Keeps, Syncs
  <1>4. CASE x \in Writes
    <2>1. m \in Writes
      BY <1>4 DEF Writes
    <2> QED BY <1>4, <2>1 DEF Writes, Keeps, Syncs
  <1> QED BY <1>2, <1>3, <1>4 DEF Syncs, Rests

LEMMA KeepsOn == ASSUME NEW x, NEW y, NEW z, Keeps(x, y), Keeps(y, z) PROVE Keeps(x, z)
  BY DEF Keeps

(* A sync that misses a change. *)
LEMMA Misses ==
    ASSUME Typed, NEW t \in Syncers, sync'[t] = Stale[t]
    PROVE  Keeps(sync[t], sync'[t]) /\ sync'[t].fresh = FALSE
  <1>1. sync[t] \in Syncs /\ sync'[t] = [sync[t] EXCEPT !.fresh = FALSE]
    BY DEF Typed, Stale
  <1> QED BY <1>1, KeepsFresh

-----------------------------------------------------------------------------
(* The steps. *)
WriteStep(s, r) == Insert(s, r) \/ Update(s, r) \/ UpsertFails(s, r)

(* Each sync starts, reads, indexes, writes and ends on its own; the source *)
(* and the calendar move, and a row is held.                                *)
Outside == (\E l \in Lots : SourceMoves(l) \/ NumberAppears(l) \/ DeadlinePasses(l)) \/ \E i \in Ids : Hold(i)
Acts(s) == SyncStart(s) \/ Pull(s) \/ Index(s) \/ SyncEnd(s) \/ SyncDies(s) \/ \E r \in Pulled : WriteStep(s, r)

LEMMA Steps == ASSUME [Next]_vars PROVE UNCHANGED vars \/ Outside \/ \E s \in Syncers : Acts(s)
  <1>1. ASSUME NEW s \in Syncers, SyncStep(s) PROVE Acts(s)
    <2>1. ASSUME NEW l \in Lots, NEW k \in Stages, NEW n \in BOOLEAN PROVE [lot |-> l, stage |-> k, num |-> n] \in Pulled
      BY DEF Pulled
    <2> QED BY <1>1, <2>1 DEF SyncStep, Acts, WriteStep
  <1> QED BY <1>1 DEF Next, Outside

LEMMA SyncPhases ==
    ASSUME Typed, NEW s \in Syncers
    PROVE  /\ sync[s] \in Syncs /\ sync[s].known \subseteq Lots /\ sync[s].fresh \in BOOLEAN
           /\ sync[s].at \in {"idle", "pull", "index", "write"}
           /\ Running(s) => sync[s].news \subseteq Lots /\ sync[s].alone \in BOOLEAN
           /\ Reading(s) => sync[s].got \subseteq Pulled
           /\ sync[s].at = "pull" => sync[s].next \in Stages
           /\ sync[s].at = "index" => sync[s].next = Awarded + 1
           /\ Writing(s) => sync[s].idx \in Seq(Row) /\ sync[s].todo \subseteq Pulled
  <1>1. sync[s] \in Syncs
    BY DEF Typed
  <1> QED BY <1>1 DEF Syncs, Rests, Reads, Gathered, Writes, Running, Reading, Writing

LEMMA LeaveFields ==
    ASSUME NEW x \in Writes, NEW r, NEW m, m = [x EXCEPT !.todo = @ \ {r}]
    PROVE  /\ m \in Writes /\ m.fresh = x.fresh /\ m.alone = x.alone /\ m.known = x.known /\ m.news = x.news
           /\ m.idx = x.idx /\ m.todo = x.todo \ {r}
  <1>1. m \in Writes
    BY DEF Writes
  <1> QED BY <1>1 DEF Writes

(* What a write leaves of the sync. *)
LEMMA WriteSync ==
    ASSUME Typed, NEW s \in Syncers, NEW r, WriteStep(s, r)
    PROVE  /\ Writing(s) /\ r \in sync[s].todo
           /\ \A q \in sync[s].todo : q.lot = r.lot => r.stage <= q.stage
           /\ sync'[s] \in Writes /\ (sync'[s].fresh => sync[s].fresh) /\ sync'[s].alone = sync[s].alone
           /\ sync'[s].known = sync[s].known /\ sync'[s].news = sync[s].news
           /\ sync'[s].idx = sync[s].idx /\ sync'[s].todo = sync[s].todo \ {r}
           /\ UpsertFails(s, r) => ~sync'[s].fresh
           /\ \A t \in Syncers \ {s} : Keeps(sync[t], sync'[t]) /\ (sync'[t].fresh => UNCHANGED rows)
  <1>1. Writing(s) /\ r \in sync[s].todo /\ \A q \in sync[s].todo : q.lot = r.lot => r.stage <= q.stage
    BY DEF WriteStep, Insert, Update, UpsertFails, NextUp, Writing
  <1> DEFINE m == Leave(s, r)
  <1>2. sync[s] \in Writes /\ sync \in [Syncers -> Syncs]
    BY <1>1 DEF Typed, Writing, Syncs, Rests, Reads, Gathered
  <1>3. /\ m \in Writes /\ m.fresh = sync[s].fresh /\ m.alone = sync[s].alone /\ m.known = sync[s].known
        /\ m.news = sync[s].news /\ m.idx = sync[s].idx /\ m.todo = sync[s].todo \ {r}
    BY <1>2, LeaveFields DEF Leave
  <1> HIDE DEF m
  <1>4. CASE sync' = [sync EXCEPT ![s] = m] /\ UNCHANGED rows /\ ~UpsertFails(s, r)
    <2>1. sync'[s] = m /\ \A t \in Syncers \ {s} : sync'[t] = sync[t]
      BY <1>2, <1>4
    <2> QED BY <1>1, <1>2, <1>3, <1>4, <2>1, KeepsAll
  <1>5. CASE sync' = [Stale EXCEPT ![s] = m] /\ ~UpsertFails(s, r)
    <2>1. sync'[s] = m /\ \A t \in Syncers \ {s} : sync'[t] = Stale[t]
      BY <1>5 DEF Stale
    <2> QED BY <1>1, <1>3, <1>5, <2>1, Misses
  <1>6. CASE UpsertFails(s, r)
    <2>1. sync' = [sync EXCEPT ![s] = [m EXCEPT !.fresh = FALSE]] /\ UNCHANGED rows
      BY <1>6 DEF UpsertFails, m
    <2>2. sync'[s] = [m EXCEPT !.fresh = FALSE] /\ \A t \in Syncers \ {s} : sync'[t] = sync[t]
      BY <1>2, <2>1
    <2>3. m \in Syncs /\ m.at = "write"
      BY <1>3 DEF Syncs, Writes
    <2>4. sync'[s] \in Writes /\ sync'[s].alone = m.alone /\ sync'[s].news = m.news
      BY <1>3, <2>2 DEF Writes
    <2>5. Keeps(m, sync'[s]) /\ sync'[s].fresh = FALSE
      BY <2>2, <2>3, KeepsFresh
    <2>6. /\ sync'[s].known = m.known /\ sync'[s].idx = m.idx /\ sync'[s].todo = m.todo
      BY <2>3, <2>5 DEF Keeps
    <2> QED BY <1>1, <1>2, <1>3, <2>1, <2>2, <2>4, <2>5, <2>6, KeepsAll
  <1>7. ~UpsertFails(s, r) => (sync' = [sync EXCEPT ![s] = m] /\ UNCHANGED rows) \/ sync' = [Stale EXCEPT ![s] = m]
    <2>1. Insert(s, r) => (sync' = [sync EXCEPT ![s] = m] /\ UNCHANGED rows) \/ sync' = [Stale EXCEPT ![s] = m]
      BY DEF Insert, Wrote, m
    <2>2. Update(s, r) => (sync' = [sync EXCEPT ![s] = m] /\ UNCHANGED rows) \/ sync' = [Stale EXCEPT ![s] = m]
      BY DEF Update, Wrote, m
    <2> QED BY <2>1, <2>2 DEF WriteStep
  <1> QED BY <1>4, <1>5, <1>6, <1>7

LEMMA OutsideKeeps ==
    ASSUME Typed, Outside, NEW t \in Syncers
    PROVE  Keeps(sync[t], sync'[t]) /\ sync'[t].fresh = FALSE
  <1>1. CASE \E l \in Lots : NumberAppears(l) \/ DeadlinePasses(l)
    BY <1>1, Misses DEF NumberAppears, DeadlinePasses
  <1>2. CASE \E i \in Ids : Hold(i)
    BY <1>2, Misses DEF Hold
  <1>3. ASSUME NEW l \in Lots, SourceMoves(l) PROVE Keeps(sync[t], sync'[t]) /\ sync'[t].fresh = FALSE
    <2> DEFINE m == [sync[t] EXCEPT !.fresh = FALSE]
    <2>1. sync[t] \in Syncs
      BY DEF Typed
    <2>2. Keeps(sync[t], m) /\ m.fresh = FALSE
      BY <2>1, KeepsFresh
    <2>3. sync'[t] = m \/ (Running(t) /\ sync'[t] = [m EXCEPT !.news = @ \cup {l}])
      BY <1>3 DEF SourceMoves, Stale
    <2>4. m \in Syncs /\ (Running(t) => m.at # "idle")
      BY <2>2 DEF Keeps, Running
    <2> HIDE DEF m
    <2>5. CASE sync'[t] = m
      BY <2>2, <2>5
    <2>6. CASE Running(t) /\ sync'[t] = [m EXCEPT !.news = @ \cup {l}]
      <3>1. Keeps(m, sync'[t]) /\ sync'[t].fresh = m.fresh
        BY <2>4, <2>6, KeepsNews
      <3> QED BY <2>2, <3>1, KeepsOn
    <2> QED BY <2>3, <2>5, <2>6
  <1> QED BY <1>1, <1>2, <1>3 DEF Outside

(* The start of one sync tells the others that they are not alone. *)
LEMMA StartSync ==
    ASSUME Typed, NEW s \in Syncers, SyncStart(s)
    PROVE  /\ ~Running(s) /\ sync'[s] \in Reads
           /\ sync'[s].alone => \A u \in Syncers \ {s} : ~Running(u)
           /\ sync'[s].known = Known /\ sync'[s].news = {} /\ sync'[s].next = Open /\ sync'[s].got = {}
           /\ \A t \in Syncers \ {s} : Keeps(sync[t], sync'[t]) /\ (Running(t) => ~sync'[t].alone)
  <1> DEFINE b == \A u \in Syncers \ {s} : ~Running(u)
  <1>1. b \in BOOLEAN
    OBVIOUS
  <1>2. sync'[s] = [at |-> "pull", fresh |-> TRUE, alone |-> b,
                    known |-> Known, news |-> {}, next |-> Open, got |-> {}]
    BY DEF SyncStart
  <1> HIDE DEF b
  <1>3. sync'[s] \in Reads
    BY <1>1, <1>2 DEF Reads, Known, Open, Awarded, Stages
  <1>4. ASSUME NEW t \in Syncers \ {s} PROVE Keeps(sync[t], sync'[t]) /\ (Running(t) => ~sync'[t].alone)
    <2>1. sync'[t] = IF Running(t) THEN [sync[t] EXCEPT !.alone = FALSE] ELSE sync[t]
      BY <1>4 DEF SyncStart
    <2>2. sync[t] \in Syncs
      BY DEF Typed
    <2>3. CASE Running(t)
      <3>1. sync[t].at # "idle" /\ sync'[t] = [sync[t] EXCEPT !.alone = FALSE]
        BY <2>1, <2>3 DEF Running
      <3> QED BY <2>2, <3>1, KeepsAlone
    <2> QED BY <2>1, <2>2, <2>3, KeepsAll
  <1>5. sync'[s].alone => b
    BY <1>2
  <1> QED BY <1>2, <1>3, <1>4, <1>5 DEF SyncStart, b

LEMMA PullSync ==
    ASSUME Typed, NEW s \in Syncers, Pull(s)
    PROVE  /\ sync[s].at = "pull" /\ sync[s].next \in Stages /\ sync'[s] \in Reads \cup Gathered
           /\ sync'[s].fresh = sync[s].fresh /\ sync'[s].alone = sync[s].alone
           /\ sync'[s].known = sync[s].known /\ sync'[s].news = sync[s].news
           /\ sync'[s].next = sync[s].next + 1
           /\ sync'[s].got = sync[s].got \cup
                 {[lot |-> l, stage |-> sync[s].next, num |-> l \in numbered] : l \in Found(s, sync[s].next)}
           /\ \A t \in Syncers \ {s} : sync'[t] = sync[t]
  <1> DEFINE k == sync[s].next
             new == {[lot |-> l, stage |-> k, num |-> l \in numbered] : l \in Found(s, k)}
             m == [at |-> IF k = Awarded THEN "index" ELSE "pull", fresh |-> sync[s].fresh, alone |-> sync[s].alone,
                   known |-> sync[s].known, news |-> sync[s].news, next |-> k + 1, got |-> sync[s].got \cup new]
  <1>1. sync[s] \in Reads /\ sync \in [Syncers -> Syncs] /\ sync[s].at = "pull"
    BY DEF Pull, Typed, Syncs, Rests, Gathered, Writes
  <1>2. k \in Stages
    BY <1>1 DEF Reads
  <1>3. new \subseteq Pulled
    <2>1. ASSUME NEW l \in Found(s, k) PROVE [lot |-> l, stage |-> k, num |-> l \in numbered] \in Pulled
      <3>1. (l \in numbered) \in BOOLEAN
        OBVIOUS
      <3> QED BY <1>2, <3>1 DEF Found, Pulled
    <2> QED BY <2>1
  <1>4. sync' = [sync EXCEPT ![s] = m]
    BY DEF Pull
  <1>5. sync'[s] = m /\ \A t \in Syncers \ {s} : sync'[t] = sync[t]
    BY <1>1, <1>4
  <1> HIDE DEF new
  <1>6. m \in Reads \cup Gathered
    <2>1. CASE k = Awarded
      BY <1>1, <1>2, <1>3, <2>1 DEF Reads, Gathered
    <2>2. CASE k # Awarded
      <3>1. k + 1 \in Stages
        BY <1>2, <2>2 DEF Stages, Open, Awarded
      <3> QED BY <1>1, <1>2, <1>3, <2>2, <3>1 DEF Reads, Gathered
    <2> QED BY <2>1, <2>2
  <1> QED BY <1>1, <1>2, <1>5, <1>6 DEF new

LEMMA IndexSync ==
    ASSUME Typed, NEW s \in Syncers, Index(s)
    PROVE  /\ sync[s].at = "index" /\ sync'[s] \in Writes
           /\ sync'[s].fresh = sync[s].fresh /\ sync'[s].alone = sync[s].alone
           /\ sync'[s].known = sync[s].known /\ sync'[s].news = sync[s].news
           /\ sync'[s].idx = rows /\ sync'[s].todo = Dedupe({r \in sync[s].got : Admitted(s, rows, r)})
           /\ \A t \in Syncers \ {s} : sync'[t] = sync[t]
  <1> DEFINE D == Dedupe({r \in sync[s].got : Admitted(s, rows, r)})
  <1>1. sync[s] \in Gathered /\ sync \in [Syncers -> Syncs] /\ sync[s].at = "index" /\ rows \in Seq(Row)
    BY DEF Index, Typed, Syncs, Rests, Reads, Writes
  <1>2. D \subseteq Pulled
    BY <1>1 DEF Gathered, Dedupe
  <1>3. sync' = [sync EXCEPT ![s] = [at |-> "write", fresh |-> sync[s].fresh, alone |-> sync[s].alone,
              known |-> sync[s].known, news |-> sync[s].news, idx |-> rows, todo |-> D]]
    BY DEF Index
  <1>4. /\ sync'[s] = [at |-> "write", fresh |-> sync[s].fresh, alone |-> sync[s].alone,
              known |-> sync[s].known, news |-> sync[s].news, idx |-> rows, todo |-> D]
        /\ \A t \in Syncers \ {s} : sync'[t] = sync[t]
    BY <1>1, <1>3
  <1> HIDE DEF D
  <1>5. sync'[s] \in Writes
    BY <1>1, <1>2, <1>4 DEF Writes, Gathered
  <1> QED BY <1>1, <1>4, <1>5 DEF D

LEMMA EndSync ==
    ASSUME Typed, NEW s \in Syncers, SyncEnd(s) \/ SyncDies(s)
    PROVE  /\ sync'[s] \in Rests /\ (sync'[s].fresh => SyncEnd(s) /\ sync[s].fresh)
           /\ SyncEnd(s) => sync'[s].known = sync[s].known
           /\ \A t \in Syncers \ {s} : sync'[t] = sync[t]
  <1>1. sync \in [Syncers -> Syncs] /\ sync[s].fresh \in BOOLEAN /\ sync[s].known \subseteq Lots
    BY SyncPhases DEF Typed
  <1>2. CASE SyncEnd(s)
    BY <1>1, <1>2 DEF SyncEnd, Rests
  <1>3. CASE SyncDies(s) /\ ~SyncEnd(s)
    BY <1>1, <1>3 DEF SyncDies, Rests, NoSync
  <1> QED BY <1>2, <1>3

(* A sync acts, or keeps what it has. *)
LEMMA OthersKeep ==
    ASSUME Typed, [Next]_vars, NEW t \in Syncers, ~Acts(t)
    PROVE  Keeps(sync[t], sync'[t])
  <1>0. sync[t] \in Syncs
    BY DEF Typed
  <1>1. CASE UNCHANGED vars
    BY <1>0, <1>1, KeepsAll DEF vars
  <1>2. CASE Outside
    BY <1>2, OutsideKeeps
  <1>3. ASSUME NEW s \in Syncers, Acts(s) PROVE Keeps(sync[t], sync'[t])
    <2>1. t \in Syncers \ {s}
      BY <1>3
    <2>2. CASE SyncStart(s)
      BY <2>1, <2>2, StartSync
    <2>3. CASE Pull(s) \/ Index(s) \/ SyncEnd(s) \/ SyncDies(s)
      <3>1. sync'[t] = sync[t]
        BY <2>1, <2>3, PullSync, IndexSync, EndSync
      <3> QED BY <1>0, <3>1, KeepsAll
    <2>4. CASE \E r \in Pulled : WriteStep(s, r)
      BY <2>1, <2>4, WriteSync
    <2> QED BY <1>3, <2>2, <2>3, <2>4 DEF Acts
  <1> QED BY <1>1, <1>2, <1>3, Steps

-----------------------------------------------------------------------------
(* The rows. *)
LEMMA RowFields ==
    ASSUME Typed, NEW i \in Ids
    PROVE  /\ rows[i] \in Row /\ rows[i].lot \in Lots /\ rows[i].num \in BOOLEAN /\ rows[i].prov \in Stages
           /\ rows[i].awd \in BOOLEAN /\ rows[i].status \in Statuses
  <1>1. rows[i] \in Row
    BY DEF Typed, Ids
  <1> QED BY <1>1 DEF Row

LEMMA IdsAre == ASSUME Typed PROVE Ids = 1..Len(rows) /\ Len(rows) \in Nat
  BY DEF Typed, Ids

LEMMA StatusIs ==
    ASSUME NEW r \in Pulled
    PROVE  /\ Status(r) \in Statuses
           /\ r.stage = Awarded => Status(r) = "awarded"
           /\ r.stage = Waiting => Status(r) = "waiting"
  <1>1. CASE r.stage = Awarded
    BY <1>1 DEF Status, Statuses, Open, Waiting, Awarded
  <1>2. CASE r.stage = Waiting
    BY <1>2 DEF Status, Statuses, Open, Waiting, Awarded
  <1>3. CASE r.stage = Open
    BY <1>3 DEF Status, Statuses, Open, Waiting, Awarded
  <1> QED BY <1>1, <1>2, <1>3 DEF Pulled, Stages, Open, Waiting, Awarded

NewRow(r) == [lot |-> r.lot, num |-> r.num, prov |-> r.stage, awd |-> r.stage = Awarded, status |-> Status(r)]

LEMMA NewRowFields ==
    ASSUME NEW r \in Pulled
    PROVE  /\ NewRow(r) \in Row /\ NewRow(r).lot = r.lot /\ NewRow(r).num = r.num /\ NewRow(r).prov = r.stage
           /\ NewRow(r).status = Status(r) /\ (r.stage = Awarded => NewRow(r).awd)
  <1> DEFINE b == (r.stage = Awarded)
  <1>1. b \in BOOLEAN
    OBVIOUS
  <1>2. NewRow(r) = [lot |-> r.lot, num |-> r.num, prov |-> r.stage, awd |-> b, status |-> Status(r)]
    BY DEF NewRow
  <1>3. r.stage = Awarded => b
    OBVIOUS
  <1> HIDE DEF b
  <1>4. NewRow(r) \in Row
    BY <1>1, <1>2, StatusIs DEF Row, Pulled
  <1> QED BY <1>1, <1>2, <1>3, <1>4

LEMMA FollowedFields ==
    ASSUME NEW row \in Row, NEW r \in Pulled
    PROVE  /\ Followed(row, r) \in Row /\ Followed(row, r).lot = row.lot /\ Followed(row, r).num = row.num
           /\ Followed(row, r).prov = r.stage
           /\ Followed(row, r).status = IF row.status = "manual_hold" THEN row.status ELSE Status(r)
           /\ r.stage = Awarded \/ row.awd => Followed(row, r).awd
  <1> DEFINE b == (row.awd \/ r.stage = Awarded)
             st == IF row.status = "manual_hold" THEN row.status ELSE Status(r)
  <1>1. b \in BOOLEAN /\ st \in Statuses
    BY StatusIs DEF Row
  <1>2. Followed(row, r) = [lot |-> row.lot, num |-> row.num, prov |-> r.stage, awd |-> b, status |-> st]
    BY DEF Followed
  <1>3. r.stage = Awarded \/ row.awd => b
    OBVIOUS
  <1>5. st = IF row.status = "manual_hold" THEN row.status ELSE Status(r)
    OBVIOUS
  <1> HIDE DEF b, st
  <1>4. Followed(row, r) \in Row
    BY <1>1, <1>2 DEF Row, Pulled
  <1> QED BY <1>1, <1>2, <1>3, <1>4, <1>5

(* What a write does to the rows: nothing, a new row, or a row that follows.*)
Inserts(r) ==
    /\ Taken(r) = {}
    /\ rows' \in Seq(Row) /\ Len(rows') = Len(rows) + 1 /\ Len(rows') <= MaxRows
    /\ \A i \in Ids : rows'[i] = rows[i]
    /\ rows'[Len(rows) + 1] = NewRow(r)

Follows(i, r) ==
    /\ i \in Ids /\ Taken(r) \ {i} = {}
    /\ rows' \in Seq(Row) /\ Len(rows') = Len(rows)
    /\ \A j \in Ids : rows'[j] = IF j = i THEN Followed(rows[i], r) ELSE rows[j]

LEMMA InsertRows ==
    ASSUME Basics, NEW s \in Syncers, NEW r \in Pulled, Insert(s, r)
    PROVE  /\ Existing(sync[s].idx, r) = {}
           /\ \/ Taken(r) # {} /\ UNCHANGED <<rows, raced>>
              \/ Inserts(r) /\ raced' = IF sync[s].alone THEN raced ELSE raced \cup {r.lot}
  <1>1. rows \in Seq(Row) /\ NewRow(r) \in Row /\ MaxRows \in Nat
    BY NewRowFields, ProjectionAssumption DEF Basics, Typed
  <1>2. CASE Taken(r) # {}
    BY <1>2 DEF Insert
  <1>3. CASE Taken(r) = {}
    <2>1. rows' = Append(rows, NewRow(r)) /\ Len(rows) < MaxRows
      BY <1>3 DEF Insert, NewRow
    <2>2. /\ rows' \in Seq(Row) /\ Len(rows') = Len(rows) + 1 /\ Len(rows') <= MaxRows
          /\ \A i \in 1..Len(rows) : rows'[i] = rows[i]
          /\ rows'[Len(rows) + 1] = NewRow(r)
      BY <1>1, <2>1
    <2> QED BY <1>1, <1>3, <2>2 DEF Inserts, Insert, Ids
  <1> QED BY <1>2, <1>3 DEF Insert

LEMMA UpdateRows ==
    ASSUME Basics, NEW s \in Syncers, NEW r \in Pulled, Update(s, r)
    PROVE  \E i \in Existing(sync[s].idx, r) :
              /\ i \in 1..Len(sync[s].idx) /\ i \in Ids /\ rows[i].lot = r.lot
              /\ (Taken(r) \ {i} # {} /\ UNCHANGED rows) \/ Follows(i, r)
  <1>1. PICK i \in Existing(sync[s].idx, r) :
          IF Taken(r) \ {i} # {} THEN UNCHANGED rows ELSE rows' = [rows EXCEPT ![i] = Followed(rows[i], r)]
    BY DEF Update
  <1>2. Writing(s) /\ IndexHolds(s) /\ Typed
    BY WriteSync DEF Basics, WriteStep
  <1>3. sync[s].idx \in Seq(Row) /\ rows \in Seq(Row)
    BY <1>2, SyncPhases DEF Typed
  <1>4. i \in DOMAIN sync[s].idx /\ sync[s].idx[i].lot = r.lot
    BY <1>1 DEF Existing, Owners, SameSource, AwardedFrom
  <1>5. i \in 1..Len(sync[s].idx) /\ i \in Ids /\ rows[i].lot = r.lot
    BY <1>2, <1>3, <1>4 DEF IndexHolds, Ids
  <1>6. CASE Taken(r) \ {i} = {}
    <2>1. rows' = [rows EXCEPT ![i] = Followed(rows[i], r)]
      BY <1>1, <1>6
    <2>2. Followed(rows[i], r) \in Row
      BY <1>2, <1>5, RowFields, FollowedFields
    <2> DEFINE row == Followed(rows[i], r)
    <2>3. rows' = [rows EXCEPT ![i] = row] /\ row \in Row
      BY <2>1, <2>2
    <2> HIDE DEF row
    <2>4. rows' \in Seq(Row) /\ Len(rows') = Len(rows) /\ \A j \in Ids : rows'[j] = IF j = i THEN row ELSE rows[j]
      BY <1>3, <1>5, <2>3, ExceptSeq DEF Ids
    <2> QED BY <1>5, <1>6, <2>4 DEF Follows, row
  <1> QED BY <1>1, <1>5, <1>6

LEMMA HoldRows ==
    ASSUME Basics, NEW i \in Ids, Hold(i)
    PROVE  /\ rows' \in Seq(Row) /\ Len(rows') = Len(rows)
           /\ \A j \in Ids : /\ rows'[j].lot = rows[j].lot /\ rows'[j].num = rows[j].num
                             /\ rows'[j].prov = rows[j].prov /\ rows'[j].awd = rows[j].awd
                             /\ rows'[j].status \in {rows[j].status, "manual_hold"}
  <1>1. Typed /\ rows \in Seq(Row) /\ rows[i] \in Row
    BY RowFields DEF Basics, Typed
  <1> DEFINE row == [rows[i] EXCEPT !.status = "manual_hold"]
  <1>2. /\ row \in Row /\ row.lot = rows[i].lot /\ row.num = rows[i].num /\ row.prov = rows[i].prov
        /\ row.awd = rows[i].awd /\ row.status = "manual_hold"
    BY <1>1 DEF Row, Statuses
  <1>3. rows' = [rows EXCEPT ![i] = row]
    BY DEF Hold
  <1> HIDE DEF row
  <1>4. rows' \in Seq(Row) /\ Len(rows') = Len(rows) /\ \A j \in Ids : rows'[j] = IF j = i THEN row ELSE rows[j]
    BY <1>1, <1>2, <1>3, ExceptSeq DEF Ids
  <1> QED BY <1>2, <1>4

(* How the rows change at all. *)
LEMMA RowCases ==
    ASSUME Basics, [Next]_vars
    PROVE  \/ UNCHANGED rows
           \/ \E i \in Ids : Hold(i)
           \/ \E s \in Syncers, r \in Pulled : Insert(s, r) /\ Existing(sync[s].idx, r) = {} /\ Inserts(r)
           \/ \E s \in Syncers, r \in Pulled : Update(s, r) /\
                 \E i \in Existing(sync[s].idx, r) : i \in 1..Len(sync[s].idx) /\ rows[i].lot = r.lot /\ Follows(i, r)
  <1>1. CASE UNCHANGED vars
    BY <1>1 DEF vars
  <1>2. CASE Outside
    BY <1>2 DEF Outside, SourceMoves, NumberAppears, DeadlinePasses
  <1>3. ASSUME NEW s \in Syncers, NEW r \in Pulled, WriteStep(s, r)
        PROVE  \/ UNCHANGED rows
               \/ Insert(s, r) /\ Existing(sync[s].idx, r) = {} /\ Inserts(r)
               \/ Update(s, r) /\
                 \E i \in Existing(sync[s].idx, r) : i \in 1..Len(sync[s].idx) /\ rows[i].lot = r.lot /\ Follows(i, r)
    <2>1. UpsertFails(s, r) => UNCHANGED rows
      BY DEF UpsertFails
    <2>2. CASE Insert(s, r)
      BY <2>2, InsertRows
    <2>3. CASE Update(s, r)
      BY <2>3, UpdateRows
    <2> QED BY <1>3, <2>1, <2>2, <2>3 DEF WriteStep
  <1>4. ASSUME NEW s \in Syncers, SyncStart(s) \/ Pull(s) \/ Index(s) \/ SyncEnd(s) \/ SyncDies(s) PROVE UNCHANGED rows
    BY <1>4 DEF SyncStart, Pull, Index, SyncEnd, SyncDies
  <1> QED BY <1>1, <1>2, <1>3, <1>4, Steps DEF Acts

(* Rows are never deleted, nor do they change their lot or number.          *)
LEMMA RowsKept ==
    ASSUME Basics, [Next]_vars
    PROVE  /\ rows' \in Seq(Row) /\ Len(rows) <= Len(rows') /\ Len(rows') <= MaxRows /\ Ids \subseteq Ids'
           /\ \A i \in Ids : /\ rows'[i].lot = rows[i].lot /\ rows'[i].num = rows[i].num
                             /\ rows[i].awd => rows'[i].awd
  <1>1. /\ Typed /\ rows \in Seq(Row) /\ Len(rows) \in Nat /\ Ids = 1..Len(rows) /\ Len(rows) <= MaxRows
        /\ \A k \in Nat : Len(rows) <= k => Ids \subseteq 1..k
    BY IdsAre DEF Basics, Typed
  <1>2. CASE UNCHANGED rows
    BY <1>1, <1>2 DEF Ids
  <1>3. ASSUME NEW i \in Ids, Hold(i) PROVE rows' \in Seq(Row) /\ Len(rows') = Len(rows)
           /\ \A j \in Ids : /\ rows'[j].lot = rows[j].lot /\ rows'[j].num = rows[j].num
                             /\ rows[j].awd => rows'[j].awd
    BY <1>3, HoldRows
  <1>4. ASSUME NEW r \in Pulled, Inserts(r)
        PROVE  rows' \in Seq(Row) /\ Len(rows') = Len(rows) + 1 /\ Len(rows') <= MaxRows /\ \A j \in Ids : rows'[j] = rows[j]
    BY <1>4 DEF Inserts
  <1>5. ASSUME NEW r \in Pulled, NEW i, Follows(i, r)
        PROVE rows' \in Seq(Row) /\ Len(rows') = Len(rows)
           /\ \A j \in Ids : /\ rows'[j].lot = rows[j].lot /\ rows'[j].num = rows[j].num
                             /\ rows[j].awd => rows'[j].awd
    <2>1. rows[i] \in Row /\ i \in Ids
      BY <1>1, <1>5, RowFields DEF Follows
    <2>2. Followed(rows[i], r).lot = rows[i].lot /\ Followed(rows[i], r).num = rows[i].num
          /\ (rows[i].awd => Followed(rows[i], r).awd)
      BY <2>1, FollowedFields
    <2> QED BY <1>5, <2>1, <2>2 DEF Follows
  <1>6. CASE \E i \in Ids : Hold(i)
    BY <1>1, <1>3, <1>6 DEF Ids
  <1>7. CASE \E r \in Pulled : Inserts(r)
    BY <1>1, <1>4, <1>7 DEF Ids
  <1>8. CASE \E r \in Pulled : \E i : Follows(i, r)
    BY <1>1, <1>5, <1>8 DEF Ids
  <1> QED BY <1>2, <1>6, <1>7, <1>8, RowCases

LEMMA SchemaStep == ASSUME Basics, [Next]_vars PROVE Schema'
  <1>1. Typed /\ Schema /\ Ids = 1..Len(rows) /\ Len(rows) \in Nat
    BY IdsAre DEF Basics
  (* A row and another one have the same source, a row and its status. *)
  <1> DEFINE StatusOf(row) == /\ row.prov = Awarded => row.awd /\ row.status \in {"manual_hold", "awarded"}
                              /\ row.prov = Waiting => row.status \in {"manual_hold", "waiting"}
  <1>s. \A i \in Ids : StatusOf(rows[i])
    BY <1>1 DEF Schema
  <1>2. CASE UNCHANGED rows
    BY <1>1, <1>2 DEF Schema, Ids
  <1>3. CASE \E i \in Ids : Hold(i)
    <2>1. /\ Ids' = Ids
          /\ \A j \in Ids : /\ rows'[j].lot = rows[j].lot /\ rows'[j].prov = rows[j].prov /\ rows'[j].awd = rows[j].awd
                            /\ rows'[j].status \in {rows[j].status, "manual_hold"}
      <3>1. rows' \in Seq(Row) /\ Len(rows') = Len(rows)
        BY <1>3, HoldRows
      <3> QED BY <1>1, <1>3, <3>1, HoldRows DEF Ids
    <2> QED BY <1>1, <2>1 DEF Schema
  <1>4. ASSUME NEW r \in Pulled, Inserts(r) PROVE Schema'
    <2> DEFINE n == Len(rows) + 1
    <2>1. Ids' = Ids \cup {n} /\ n \notin Ids /\ (\A j \in Ids : rows'[j] = rows[j]) /\ rows'[n] = NewRow(r)
      <3>1. rows' \in Seq(Row) /\ Len(rows') = n
        BY <1>4 DEF Inserts
      <3>2. Ids' = 1..n
        BY <3>1 DEF Ids
      <3> QED BY <1>1, <1>4, <3>2 DEF Inserts
    <2>2. /\ NewRow(r).lot = r.lot /\ NewRow(r).prov = r.stage /\ StatusOf(NewRow(r))
      BY NewRowFields, StatusIs
    <2>3. \A j \in Ids : ~(rows[j].lot = r.lot /\ rows[j].prov = r.stage)
      BY <1>4 DEF Inserts, Taken
    <2> HIDE DEF n
    <2>4. \A i \in Ids' : StatusOf(rows'[i])
      BY <1>s, <2>1, <2>2
    <2>5. \A i, j \in Ids' : rows'[i].lot = rows'[j].lot /\ rows'[i].prov = rows'[j].prov => i = j
      BY <1>1, <2>1, <2>2, <2>3 DEF Schema
    <2> QED BY <2>4, <2>5 DEF Schema
  <1>5. ASSUME NEW r \in Pulled, NEW i \in Ids, rows[i].lot = r.lot, Follows(i, r) PROVE Schema'
    <2> DEFINE row == Followed(rows[i], r)
    <2>1. rows[i] \in Row /\ i \in Ids
      BY <1>1, RowFields
    <2>2. row.lot = r.lot /\ row.prov = r.stage /\ StatusOf(row)
      BY <1>5, <2>1, FollowedFields, StatusIs
    <2>3. \A j \in Ids \ {i} : ~(rows[j].lot = r.lot /\ rows[j].prov = r.stage)
      BY <1>5 DEF Follows, Taken
    <2>4. Ids' = Ids /\ \A j \in Ids : rows'[j] = IF j = i THEN row ELSE rows[j]
      BY <1>1, <1>5 DEF Follows, Ids
    <2> HIDE DEF row
    <2>5. \A j \in Ids' : StatusOf(rows'[j])
      BY <1>s, <2>2, <2>4
    <2>6. \A k, j \in Ids' : rows'[k].lot = rows'[j].lot /\ rows'[k].prov = rows'[j].prov => k = j
      BY <1>1, <2>2, <2>3, <2>4 DEF Schema
    <2> QED BY <2>5, <2>6 DEF Schema
  <1>6. ASSUME NEW r \in Pulled, NEW i, rows[i].lot = r.lot, Follows(i, r) PROVE Schema'
    BY <1>5, <1>6 DEF Follows
  <1> QED BY <1>2, <1>3, <1>4, <1>6, RowCases

LEMMA TypedStep == ASSUME Basics, [Next]_vars PROVE Typed'
  <1>1. Typed /\ rows' \in Seq(Row)
    BY RowsKept DEF Basics
  <1>2. sync' \in [Syncers -> Syncs]
    <2>1. \A t \in Syncers : sync'[t] \in Syncs
      <3> SUFFICES ASSUME NEW t \in Syncers PROVE sync'[t] \in Syncs
        OBVIOUS
      <3>1. CASE ~Acts(t)
        BY <1>1, <3>1, OthersKeep DEF Keeps
      <3>2. CASE Acts(t)
        BY <1>1, <3>2, StartSync, PullSync, IndexSync, EndSync, WriteSync DEF Acts, Syncs
      <3> QED BY <3>1, <3>2
    <2>2. sync \in [Syncers -> Syncs]
      BY <1>1 DEF Typed
    <2>3. ASSUME NEW s \in Syncers, NEW m PROVE [sync EXCEPT ![s] = m] = [t \in Syncers |-> IF t = s THEN m ELSE sync[t]]
      BY <2>2
    <2>4. ASSUME NEW s \in Syncers, NEW m PROVE [Stale EXCEPT ![s] = m] = [t \in Syncers |-> IF t = s THEN m ELSE Stale[t]]
      BY DEF Stale
    <2>5. sync' = [t \in Syncers |-> sync'[t]]
      <3>1. CASE UNCHANGED vars
        BY <2>2, <3>1 DEF vars
      <3>2. CASE Outside
        BY <3>2 DEF Outside, SourceMoves, NumberAppears, DeadlinePasses, Hold, Stale
      <3>3. ASSUME NEW s \in Syncers, SyncStart(s) PROVE sync' = [t \in Syncers |-> sync'[t]]
        BY <3>3 DEF SyncStart
      <3>4. ASSUME NEW s \in Syncers, Pull(s) \/ Index(s) \/ SyncEnd(s) \/ SyncDies(s) PROVE sync' = [t \in Syncers |-> sync'[t]]
        <4>1. \E m : sync' = [sync EXCEPT ![s] = m]
          BY <3>4 DEF Pull, Index, SyncEnd, SyncDies
        <4> QED BY <2>3, <4>1
      <3>5. ASSUME NEW s \in Syncers, NEW r, WriteStep(s, r) PROVE sync' = [t \in Syncers |-> sync'[t]]
        <4>1. \E m : sync' = [sync EXCEPT ![s] = m] \/ sync' = [Stale EXCEPT ![s] = m]
          <5>1. CASE Insert(s, r)
            BY <5>1 DEF Insert, Wrote
          <5>2. CASE Update(s, r)
            BY <5>2 DEF Update, Wrote
          <5>3. CASE UpsertFails(s, r)
            BY <5>3 DEF UpsertFails
          <5> QED BY <3>5, <5>1, <5>2, <5>3 DEF WriteStep
        <4> QED BY <2>3, <2>4, <4>1
      <3> QED BY <3>1, <3>2, <3>3, <3>4, <3>5, Steps DEF Acts
    <2> QED BY <2>1, <2>5
  <1>3. numbered' \subseteq Lots /\ past' \subseteq Lots /\ src' \in [Lots -> SUBSET Stages] /\ raced' \subseteq Lots
    <2>1. numbered \subseteq Lots /\ past \subseteq Lots /\ src \in [Lots -> SUBSET Stages] /\ raced \subseteq Lots
      BY <1>1 DEF Typed
    <2>2. CASE UNCHANGED vars
      BY <2>1, <2>2 DEF vars
    <2>3. CASE Outside
      <3>1. ASSUME NEW l \in Lots, SourceMoves(l) PROVE src' \in [Lots -> SUBSET Stages]
        <4>1. PICK S \in Moved(l) : src' = [src EXCEPT ![l] = S]
          BY <3>1 DEF SourceMoves
        <4>2. S \subseteq Stages
          BY <2>1, <4>1 DEF Moved
        <4> QED BY <2>1, <4>1, <4>2
      <3> QED BY <2>1, <2>3, <3>1 DEF Outside, SourceMoves, NumberAppears, DeadlinePasses, Hold
    <2>4. ASSUME NEW s \in Syncers, Acts(s) PROVE UNCHANGED <<numbered, past, src>> /\ raced' \subseteq Lots
      <3>1. CASE SyncStart(s) \/ Pull(s) \/ Index(s) \/ SyncEnd(s) \/ SyncDies(s)
        BY <2>1, <3>1 DEF SyncStart, Pull, Index, SyncEnd, SyncDies
      <3>2. ASSUME NEW r \in Pulled, WriteStep(s, r) PROVE UNCHANGED <<numbered, past, src>> /\ raced' \subseteq Lots
        <4>1. r.lot \in Lots
          BY DEF Pulled
        <4> QED BY <2>1, <3>2, <4>1 DEF WriteStep, Insert, Update, UpsertFails
      <3> QED BY <2>4, <3>1, <3>2 DEF Acts
    <2> QED BY <2>1, <2>2, <2>3, <2>4, Steps
  <1> QED BY <1>1, <1>2, <1>3 DEF Typed

LEMMA IndexStep == ASSUME Basics, [Next]_vars, NEW s \in Syncers PROVE IndexHolds(s)'
  <1>1. Typed /\ IndexHolds(s) /\ Ids = 1..Len(rows) /\ Len(rows) \in Nat /\ Len(rows') \in Nat /\ Len(rows) <= Len(rows')
    BY IdsAre, RowsKept DEF Basics
  <1>2. CASE Writing(s) /\ Writing(s)' /\ sync'[s].idx = sync[s].idx
    <2>1. sync[s].idx \in Seq(Row) /\ Len(sync[s].idx) \in Nat
      BY <1>1, <1>2, SyncPhases
    <2>2. Len(sync[s].idx) <= Len(rows) /\ \A i \in 1..Len(sync[s].idx) :
              sync[s].idx[i].lot = rows[i].lot /\ sync[s].idx[i].num = rows[i].num
      BY <1>1, <1>2 DEF IndexHolds
    <2>3. \A i \in 1..Len(sync[s].idx) : i \in Ids
      BY <1>1, <2>1, <2>2
    <2>4. \A i \in 1..Len(sync[s].idx) :
              sync[s].idx[i].lot = rows'[i].lot /\ sync[s].idx[i].num = rows'[i].num
      BY <2>2, <2>3, RowsKept
    <2>5. Len(sync[s].idx) <= Len(rows')
      BY <1>1, <2>1, <2>2
    <2> QED BY <1>2, <2>4, <2>5 DEF IndexHolds
  <1>3. CASE ~Acts(s)
    <2>1. Keeps(sync[s], sync'[s])
      BY <1>1, <1>3, OthersKeep
    <2> QED BY <1>2, <2>1 DEF Keeps, Writing, IndexHolds
  <1>4. CASE SyncStart(s) \/ Pull(s) \/ SyncEnd(s) \/ SyncDies(s)
    BY <1>1, <1>4, StartSync, PullSync, EndSync DEF IndexHolds, Writing, Rests, Reads, Gathered
  <1>5. CASE Index(s)
    <2>1. sync'[s].idx = rows /\ rows' = rows
      BY <1>1, <1>5, IndexSync DEF Index
    <2> QED BY <1>1, <2>1 DEF IndexHolds
  <1>6. CASE \E r \in Pulled : WriteStep(s, r)
    BY <1>1, <1>2, <1>6, WriteSync DEF Writing, Writes
  <1> QED BY <1>3, <1>4, <1>5, <1>6 DEF Acts

LEMMA BasicsStep == ASSUME Basics, [Next]_vars PROVE Basics'
  BY TypedStep, RowsKept, SchemaStep, IndexStep DEF Basics

LEMMA BasicsInit == ASSUME Init PROVE Basics
  <1>1. src \in [Lots -> SUBSET Stages]
    BY DEF Init
  <1>2. rows = <<>> /\ rows \in Seq(Row) /\ Len(rows) = 0 /\ Ids = {}
    BY DEF Init, Ids
  <1>3. NoSync \in Syncs /\ NoSync.at = "idle"
    BY DEF NoSync, Syncs, Rests
  <1>4. sync \in [Syncers -> Syncs] /\ \A s \in Syncers : ~Writing(s)
    BY <1>3 DEF Init, Writing
  <1> QED BY <1>1, <1>2, <1>4, ProjectionAssumption DEF Init, Basics, Typed, Schema, IndexHolds

(* crm_procurements_schema and the projection writer: for any number of     *)
(* lots and syncs a source row belongs to one CRM row, whoever wrote last,  *)
(* and a row that points to an award remembers it.                          *)
THEOREM ProjectionTypeCorrect == Spec => []ProjectionTypeOK
  <1>1. Basics => ProjectionTypeOK
    <2> SUFFICES ASSUME Basics PROVE ProjectionTypeOK
      OBVIOUS
    <2>1. \A i \in Ids : rows[i] \in Row
      BY RowFields DEF Basics
    <2>2. \A s \in Syncers : sync[s].at \in {"idle", "pull", "index", "write"}
      BY SyncPhases DEF Basics
    <2> QED BY <2>1, <2>2 DEF Basics, Schema, ProjectionTypeOK
  <1> QED BY <1>1, BasicsInit, BasicsStep, PTL DEF Spec

-----------------------------------------------------------------------------
(* One row per number. *)

(* A sync that believes to be alone is so. *)
Alone(s) == Running(s) /\ sync[s].alone => \A u \in Syncers \ {s} : ~Running(u)

(* Of what a sync has to write, one source row has the number of a lot.     *)
OnePerNumber(s) ==
    Writing(s) => \A q, r \in sync[s].todo : q.lot = r.lot /\ q.num /\ r.num => q = r

(* What a sync that is alone has inserted since its index, it does not      *)
(* insert again.                                                            *)
InsertsOnce(s) ==
    Writing(s) /\ sync[s].alone =>
        \A i \in Ids : i > Len(sync[s].idx) /\ rows[i].num =>
            \A r \in sync[s].todo : r.num => r.lot # rows[i].lot

OneRowInv ==
    Basics /\ NumberHasOneRow
    /\ \A s \in Syncers : Alone(s) /\ OnePerNumber(s) /\ InsertsOnce(s)

LEMMA ActsKeep ==
    ASSUME Typed, NEW s \in Syncers, Acts(s), NEW t \in Syncers \ {s} PROVE Keeps(sync[t], sync'[t])
  <1>0. sync[t] \in Syncs
    BY DEF Typed
  <1>1. CASE SyncStart(s)
    BY <1>1, StartSync
  <1>2. CASE Pull(s) \/ Index(s) \/ SyncEnd(s) \/ SyncDies(s)
    <2>1. sync'[t] = sync[t]
      BY <1>2, PullSync, IndexSync, EndSync
    <2> QED BY <1>0, <2>1, KeepsAll
  <1>3. CASE \E r \in Pulled : WriteStep(s, r)
    BY <1>3, WriteSync
  <1> QED BY <1>1, <1>2, <1>3 DEF Acts

(* A sync under way has started, or was under way, with the company it had. *)
LEMMA GoesOn ==
    ASSUME Typed, [Next]_vars, NEW s \in Syncers, Running(s)'
    PROVE  SyncStart(s) \/ (Running(s) /\ (sync'[s].alone => sync[s].alone))
  <1>1. CASE ~Acts(s)
    BY <1>1, OthersKeep DEF Keeps, Running
  <1>2. CASE Pull(s)
    BY <1>2, PullSync DEF Running
  <1>3. CASE Index(s)
    BY <1>3, IndexSync DEF Running
  <1>4. CASE SyncEnd(s) \/ SyncDies(s)
    BY <1>4, EndSync DEF Running, Rests
  <1>5. CASE \E r \in Pulled : WriteStep(s, r)
    BY <1>5, WriteSync DEF Running, Writing
  <1> QED BY <1>1, <1>2, <1>3, <1>4, <1>5 DEF Acts

LEMMA AloneStep ==
    ASSUME Typed, [Next]_vars, NEW s \in Syncers, Alone(s) PROVE Alone(s)'
  <1> SUFFICES ASSUME Running(s)', sync'[s].alone, NEW u \in Syncers \ {s}, Running(u)' PROVE FALSE
    BY DEF Alone
  <1>1. CASE SyncStart(s)
    <2>1. ~Running(u) /\ Keeps(sync[u], sync'[u])
      BY <1>1, StartSync
    <2> QED BY <2>1 DEF Keeps, Running
  <1>2. CASE Running(s) /\ sync[s].alone
    <2>1. ~Running(u)
      BY <1>2 DEF Alone
    <2>2. SyncStart(u)
      BY <2>1, GoesOn
    <2> QED BY <1>2, <2>2, StartSync
  <1> QED BY <1>1, <1>2, GoesOn

(* Where the todo of a sync comes from. *)
LEMMA TodoComes ==
    ASSUME Typed, [Next]_vars, NEW s \in Syncers, Writing(s)'
    PROVE  \/ Index(s)
           \/ /\ Writing(s) /\ sync'[s].todo \subseteq sync[s].todo /\ sync'[s].idx = sync[s].idx
              /\ sync'[s].alone => sync[s].alone
              /\ sync'[s].known = sync[s].known /\ (sync'[s].fresh => sync[s].fresh)
  <1>1. CASE ~Acts(s)
    BY <1>1, OthersKeep DEF Keeps, Writing
  <1>2. CASE SyncStart(s) \/ Pull(s) \/ SyncEnd(s) \/ SyncDies(s)
    BY <1>2, StartSync, PullSync, EndSync DEF Writing, Reads, Gathered, Rests
  <1>3. CASE \E r \in Pulled : WriteStep(s, r)
    BY <1>3, WriteSync
  <1> QED BY <1>1, <1>2, <1>3 DEF Acts

LEMMA DedupeOne ==
    ASSUME NEW R \in SUBSET Pulled, NEW q \in Dedupe(R), NEW r \in Dedupe(R), q.lot = r.lot, q.num, r.num
    PROVE  q = r
  <1>1. q \in Pulled /\ r \in Pulled /\ q.stage <= r.stage /\ r.stage <= q.stage
    BY DEF Dedupe
  <1>2. q.stage = r.stage /\ q.num = r.num
    BY <1>1 DEF Pulled, Stages, Open, Awarded
  <1> QED BY <1>1, <1>2 DEF Pulled

LEMMA OnePerNumberStep ==
    ASSUME Typed, [Next]_vars, NEW s \in Syncers, OnePerNumber(s) PROVE OnePerNumber(s)'
  <1> SUFFICES ASSUME Writing(s)', NEW q \in sync'[s].todo, NEW r \in sync'[s].todo, q.lot = r.lot, q.num, r.num
               PROVE  q = r
    BY DEF OnePerNumber
  <1>1. CASE Index(s)
    <2>1. {g \in sync[s].got : Admitted(s, rows, g)} \in SUBSET Pulled
      BY <1>1, SyncPhases DEF Index, Reading
    <2> QED BY <1>1, <2>1, IndexSync, DedupeOne
  <1>2. CASE Writing(s) /\ sync'[s].todo \subseteq sync[s].todo
    BY <1>2 DEF OnePerNumber
  <1> QED BY <1>1, <1>2, TodoComes

(* A sync that is alone is the only one to write. *)
LEMMA AloneWrites ==
    ASSUME Typed, NEW s \in Syncers, Running(s), sync[s].alone, Alone(s), NEW t \in Syncers, NEW r, WriteStep(t, r)
    PROVE  t = s
  BY WriteSync DEF Alone, Running, Writing

LEMMA InsertsOnceStep ==
    ASSUME Basics, [Next]_vars, NEW s \in Syncers, Alone(s), OnePerNumber(s), InsertsOnce(s) PROVE InsertsOnce(s)'
  <1>0. /\ Typed /\ IndexHolds(s) /\ Ids = 1..Len(rows) /\ Len(rows) \in Nat /\ rows' \in Seq(Row)
    BY IdsAre, RowsKept DEF Basics
  <1> SUFFICES ASSUME Writing(s)', sync'[s].alone, NEW i \in Ids', i > Len(sync'[s].idx), rows'[i].num,
                      NEW q \in sync'[s].todo, q.num, q.lot = rows'[i].lot
               PROVE  FALSE
    BY DEF InsertsOnce
  <1>1. CASE Index(s)
    <2>1. sync'[s].idx = rows /\ rows' = rows
      BY <1>0, <1>1, IndexSync DEF Index
    <2> QED BY <1>0, <2>1 DEF Ids
  <1>2. CASE Writing(s) /\ sync'[s].todo \subseteq sync[s].todo /\ sync'[s].idx = sync[s].idx /\ sync[s].alone
    <2>1. CASE i \in Ids
      <3>1. rows'[i].num = rows[i].num /\ rows'[i].lot = rows[i].lot
        BY <2>1, RowsKept
      <3> QED BY <1>2, <2>1, <3>1 DEF InsertsOnce
    <2>2. CASE i \notin Ids
      <3>1. ASSUME NEW t \in Syncers, NEW r \in Pulled, Insert(t, r), Inserts(r) PROVE FALSE
        <4>1. t = s
          BY <1>0, <1>2, <3>1, AloneWrites DEF WriteStep, Running, Writing
        <4>2. r \in sync[s].todo /\ sync'[s].todo = sync[s].todo \ {r}
          BY <1>0, <3>1, <4>1, WriteSync DEF WriteStep
        <4>3. i = Len(rows) + 1
          <5>1. Len(rows') = Len(rows) + 1
            BY <3>1 DEF Inserts
          <5> QED BY <1>0, <2>2, <5>1 DEF Ids
        <4>4. rows'[i].num = r.num /\ rows'[i].lot = r.lot
          BY <3>1, <4>3, NewRowFields DEF Inserts
        <4> QED BY <1>2, <4>2, <4>4 DEF OnePerNumber
      <3>2. CASE UNCHANGED rows \/ \E j \in Ids : Hold(j)
        <4>1. Len(rows') = Len(rows)
          BY <3>2, HoldRows
        <4> QED BY <1>0, <2>2, <4>1 DEF Ids
      <3>3. ASSUME NEW r, NEW j, Follows(j, r) PROVE FALSE
        BY <1>0, <2>2, <3>3 DEF Follows, Ids
      <3> QED BY <3>1, <3>2, <3>3, RowCases
    <2> QED BY <2>1, <2>2
  <1> QED BY <1>0, <1>1, <1>2, TodoComes

LEMMA OneRowStep ==
    ASSUME OneRowInv, [Next]_vars PROVE NumberHasOneRow'
  <1>0. /\ Typed /\ Basics /\ NumberHasOneRow /\ Ids = 1..Len(rows) /\ Len(rows) \in Nat
    BY IdsAre DEF OneRowInv, Basics
  <1>1. raced \subseteq raced'
    BY Steps DEF vars, Outside, Acts, WriteStep, SourceMoves, NumberAppears, DeadlinePasses, Hold, SyncStart, Pull, Index,
       SyncEnd, SyncDies, Insert, Update, UpsertFails
  <1>2. CASE Ids' = Ids
    <2>1. \A i \in Ids : rows'[i].lot = rows[i].lot /\ rows'[i].num = rows[i].num
      BY <1>0, RowsKept
    <2> QED BY <1>0, <1>1, <1>2, <2>1 DEF NumberHasOneRow
  <1>3. ASSUME NEW s \in Syncers, NEW r \in Pulled, Insert(s, r), Existing(sync[s].idx, r) = {}, Inserts(r)
        PROVE  NumberHasOneRow'
    <2> DEFINE n == Len(rows) + 1
    <2>1. Ids' = Ids \cup {n} /\ n \notin Ids /\ (\A j \in Ids : rows'[j] = rows[j]) /\ rows'[n] = NewRow(r)
      <3>1. rows' \in Seq(Row) /\ Len(rows') = n
        BY <1>3 DEF Inserts
      <3>2. Ids' = 1..n
        BY <3>1 DEF Ids
      <3> QED BY <1>0, <1>3, <3>2 DEF Inserts
    <2>2. NewRow(r).lot = r.lot /\ NewRow(r).num = r.num
      BY NewRowFields
    <2> HIDE DEF n
    <2>3. ASSUME NEW j \in Ids, rows[j].lot = r.lot, rows[j].num, r.num PROVE r.lot \in raced'
      <3>1. /\ Writing(s) /\ r \in sync[s].todo /\ IndexHolds(s) /\ sync[s].idx \in Seq(Row)
        BY <1>0, <1>3, WriteSync, SyncPhases DEF WriteStep, Basics
      <3>2. j > Len(sync[s].idx)
        <4>1. SUFFICES ASSUME ~(j > Len(sync[s].idx)) PROVE FALSE
          OBVIOUS
        <4>2. j \in 1..Len(sync[s].idx) /\ j \in DOMAIN sync[s].idx
          BY <1>0, <3>1, <4>1
        <4>3. sync[s].idx[j].lot = r.lot /\ sync[s].idx[j].num
          BY <2>3, <3>1, <4>2 DEF IndexHolds
        <4>4. j \in Owners(sync[s].idx, r)
          BY <2>3, <4>2, <4>3 DEF Owners
        <4> QED BY <1>3, <4>4 DEF Existing
      <3>3. ~sync[s].alone
        BY <2>3, <3>1, <3>2 DEF OneRowInv, InsertsOnce
      <3>4. raced' = raced \cup {r.lot}
        <4>1. Taken(r) = {}
          BY <1>3 DEF Inserts
        <4> QED BY <1>0, <1>3, <3>3, <4>1, InsertRows
      <3> QED BY <3>4
    <2> QED BY <1>0, <1>1, <2>1, <2>2, <2>3 DEF NumberHasOneRow
  <1>4. CASE UNCHANGED rows \/ \E j \in Ids : Hold(j)
    <2>1. Len(rows') = Len(rows) /\ rows' \in Seq(Row)
      BY <1>0, <1>4, HoldRows, RowsKept
    <2> QED BY <1>0, <1>2, <2>1 DEF Ids
  <1>5. ASSUME NEW r, NEW j, Follows(j, r) PROVE NumberHasOneRow'
    BY <1>0, <1>2, <1>5 DEF Follows, Ids
  <1> QED BY <1>0, <1>3, <1>4, <1>5, RowCases

LEMMA OneRowInit == ASSUME Init PROVE OneRowInv
  <1>1. Ids = {}
    BY DEF Init, Ids
  <1>2. \A s \in Syncers : sync[s].at = "idle"
    BY DEF Init, NoSync
  <1> QED BY <1>1, <1>2, BasicsInit DEF OneRowInv, NumberHasOneRow, Alone, OnePerNumber, InsertsOnce, Running, Writing

LEMMA OneRowInvStep == ASSUME OneRowInv, [Next]_vars PROVE OneRowInv'
  <1>1. Basics /\ Typed
    BY DEF OneRowInv, Basics
  <1>2. ASSUME NEW s \in Syncers PROVE (Alone(s) /\ OnePerNumber(s) /\ InsertsOnce(s))'
    BY <1>1, AloneStep, OnePerNumberStep, InsertsOnceStep DEF OneRowInv
  <1> QED BY <1>1, <1>2, BasicsStep, OneRowStep DEF OneRowInv

(* _upsert_one: although every insert rests on an index read before, two    *)
(* rows of one contract number come of two syncs that overlapped, in any    *)
(* number of syncs, moves and crashes.                                      *)
THEOREM OneRowPerNumber == Spec => []NumberHasOneRow
  <1>1. OneRowInv => NumberHasOneRow
    BY DEF OneRowInv
  <1> QED BY <1>1, OneRowInit, OneRowInvStep, PTL DEF Spec

-----------------------------------------------------------------------------
(* Stages. *)

(* The lot has been as far as this. *)
Reached(l, k) == \E m \in src[l] : k <= m

(* A number in the CRM, and what a sync has in hand, was in the source.     *)
RowsReached ==
    \A i \in Ids : Reached(rows[i].lot, rows[i].prov) /\ (rows[i].num => rows[i].lot \in numbered)

Hand(s) == IF Reading(s) THEN sync[s].got ELSE IF Writing(s) THEN sync[s].todo ELSE {}

HandReached(s) == \A r \in Hand(s) : Reached(r.lot, r.stage) /\ (r.num => r.lot \in numbered)

(* A sync that is alone will find a lot that has a number in the CRM where  *)
(* its row says it is, or further on.                                       *)
PullsAhead(s) ==
    Reading(s) /\ sync[s].alone =>
        \A i \in Ids : rows[i].num =>
            /\ rows[i].lot \in sync[s].known
            /\ \E k \in Stages :
                  /\ rows[i].prov <= k
                  /\ \/ k < sync[s].next /\ [lot |-> rows[i].lot, stage |-> k, num |-> TRUE] \in sync[s].got
                     \/ sync[s].next <= k /\ k \in src[rows[i].lot]

(* So what it has to write for the number does not lie behind the row.      *)
WritesAhead(s) ==
    Writing(s) /\ sync[s].alone =>
        \A r \in sync[s].todo : \A i \in Owners(sync[s].idx, r) : sync[s].idx[i].prov <= r.stage

(* A row is where the index has it, or this sync has written it, and it     *)
(* writes the stages of a lot in their order.                               *)
WritesInOrder(s) ==
    Writing(s) /\ sync[s].alone =>
        \A i \in 1..Len(sync[s].idx) :
            \/ rows[i].prov = sync[s].idx[i].prov
            \/ \A q \in sync[s].todo : q.lot = rows[i].lot => rows[i].prov <= q.stage

StageInv ==
    Basics /\ RowsReached
    /\ \A s \in Syncers : Alone(s) /\ HandReached(s) /\ PullsAhead(s) /\ WritesAhead(s) /\ WritesInOrder(s)

LEMMA ReachedStays ==
    ASSUME Typed, [Next]_vars, NEW l \in Lots, NEW k \in Stages, Reached(l, k) PROVE Reached(l, k)'
  <1>0. src \in [Lots -> SUBSET Stages]
    BY DEF Typed
  <1>1. CASE UNCHANGED src
    BY <1>1 DEF Reached
  <1>2. ASSUME NEW j \in Lots, SourceMoves(j) PROVE Reached(l, k)'
    <2>1. PICK S \in Moved(j) : src' = [src EXCEPT ![j] = S]
      BY <1>2 DEF SourceMoves
    <2>2. PICK m \in src[l] : k <= m
      BY DEF Reached
    <2>3. m \in Stages
      BY <1>0, <2>2
    <2>4. CASE j # l
      BY <1>0, <2>1, <2>2, <2>4 DEF Reached
    <2>5. CASE j = l /\ src[l] \subseteq S
      BY <1>0, <2>1, <2>2, <2>5 DEF Reached
    <2>6. ASSUME j = l, NEW d \in src[l], S = src[l] \ {d}, NEW n \in src[l], d < n PROVE Reached(l, k)'
      <3>1. src'[l] = S /\ d \in Stages /\ n \in Stages
        BY <1>0, <2>1, <2>6
      <3>2. n \in S /\ (m # d => m \in S)
        BY <2>2, <2>6, <3>1 DEF Stages, Open, Awarded
      <3>3. m = d => k <= n
        BY <2>2, <2>6, <3>1 DEF Stages, Open, Awarded
      <3> QED BY <2>2, <3>1, <3>2, <3>3 DEF Reached
    <2> QED BY <2>1, <2>4, <2>5, <2>6 DEF Moved
  <1>3. UNCHANGED src \/ \E j \in Lots : SourceMoves(j)
    BY Steps DEF vars, Outside, Acts, WriteStep, NumberAppears, DeadlinePasses, Hold, SyncStart, Pull, Index,
       SyncEnd, SyncDies, Insert, Update, UpsertFails
  <1> QED BY <1>1, <1>2, <1>3

LEMMA NumberedGrows == ASSUME [Next]_vars PROVE numbered \subseteq numbered'
  BY Steps DEF vars, Outside, Acts, WriteStep, SourceMoves, NumberAppears, DeadlinePasses, Hold, SyncStart, Pull, Index,
     SyncEnd, SyncDies, Insert, Update, UpsertFails

(* What is in hand was so, or has just been pulled. *)
LEMMA HandComes ==
    ASSUME Typed, [Next]_vars, NEW s \in Syncers, NEW r \in Hand(s)'
    PROVE  r \in Pulled /\ (r \in Hand(s) \/ (r.stage \in src[r.lot] /\ (r.num => r.lot \in numbered)))
  <1>1. CASE ~Acts(s)
    <2>1. Keeps(sync[s], sync'[s])
      BY <1>1, OthersKeep
    <2>2. r \in Hand(s)
      BY <2>1 DEF Keeps, Hand, Reading, Writing
    <2> QED BY <2>2, SyncPhases DEF Hand
  <1>2. CASE SyncStart(s) \/ SyncEnd(s) \/ SyncDies(s)
    BY <1>2, StartSync, EndSync DEF Hand, Reading, Writing, Reads, Rests
  <1>3. CASE Pull(s)
    <2> DEFINE k == sync[s].next
    <2>1. /\ sync[s].at = "pull" /\ k \in Stages /\ sync'[s] \in Reads \cup Gathered
          /\ sync'[s].got = sync[s].got \cup {[lot |-> l, stage |-> k, num |-> l \in numbered] : l \in Found(s, k)}
      BY <1>3, PullSync
    <2>2. r \in sync'[s].got /\ sync'[s].got \subseteq Pulled
      BY <2>1 DEF Hand, Reading, Writing, Reads, Gathered
    <2>3. CASE r \in sync[s].got
      BY <2>1, <2>2, <2>3 DEF Hand, Reading
    <2>4. CASE r \notin sync[s].got
      <3>1. PICK l \in Found(s, k) : r = [lot |-> l, stage |-> k, num |-> l \in numbered]
        BY <2>1, <2>2, <2>4
      <3>2. k \in src[l]
        BY <3>1 DEF Found
      <3> QED BY <2>2, <3>1, <3>2
    <2> QED BY <2>3, <2>4
  <1>4. CASE Index(s)
    <2>1. r \in sync[s].got
      BY <1>4, IndexSync DEF Hand, Reading, Writing, Writes, Dedupe
    <2>2. Reading(s)
      BY <1>4, IndexSync DEF Reading
    <2> QED BY <2>1, <2>2, SyncPhases DEF Hand
  <1>5. CASE \E q \in Pulled : WriteStep(s, q)
    <2>1. r \in sync[s].todo /\ Writing(s) /\ ~Reading(s)
      BY <1>5, WriteSync DEF Hand, Reading, Writing, Writes
    <2> QED BY <2>1, SyncPhases DEF Hand
  <1> QED BY <1>1, <1>2, <1>3, <1>4, <1>5 DEF Acts

LEMMA HandReachedStep ==
    ASSUME Typed, [Next]_vars, NEW s \in Syncers, HandReached(s) PROVE HandReached(s)'
  <1> SUFFICES ASSUME NEW r \in Hand(s)' PROVE Reached(r.lot, r.stage)' /\ (r.num => r.lot \in numbered')
    BY DEF HandReached
  <1>1. r \in Pulled /\ (r \in Hand(s) \/ (r.stage \in src[r.lot] /\ (r.num => r.lot \in numbered)))
    BY HandComes
  <1>2. r.lot \in Lots /\ r.stage \in Stages
    BY <1>1 DEF Pulled
  <1>3. Reached(r.lot, r.stage) /\ (r.num => r.lot \in numbered)
    <2>1. r.stage <= r.stage
      BY <1>2 DEF Stages, Open, Awarded
    <2> QED BY <1>1, <2>1 DEF HandReached, Reached
  <1> QED BY <1>2, <1>3, ReachedStays, NumberedGrows

LEMMA RowsReachedStep ==
    ASSUME StageInv, [Next]_vars PROVE RowsReached'
  <1>0. /\ Typed /\ Basics /\ Ids = 1..Len(rows) /\ Len(rows) \in Nat /\ numbered \subseteq numbered'
        /\ \A s \in Syncers : HandReached(s)
    BY IdsAre, NumberedGrows DEF StageInv, Basics
  <1>h. ASSUME NEW s \in Syncers, NEW r \in Pulled, WriteStep(s, r)
        PROVE  Reached(r.lot, r.stage)' /\ (r.num => r.lot \in numbered')
    <2>1. r \in Hand(s)
      BY <1>0, <1>h, WriteSync DEF Hand, Reading, Writing
    <2>2. Reached(r.lot, r.stage) /\ (r.num => r.lot \in numbered) /\ r.lot \in Lots /\ r.stage \in Stages
      BY <1>0, <2>1 DEF HandReached, Pulled
    <2> QED BY <1>0, <2>2, ReachedStays
  <1>k. ASSUME NEW i \in Ids, NEW l, NEW k, l = rows[i].lot, k = rows[i].prov
        PROVE  Reached(l, k)' /\ (rows[i].num => l \in numbered')
    <2>1. l \in Lots /\ k \in Stages /\ Reached(l, k) /\ (rows[i].num => l \in numbered)
      BY <1>0, <1>k, RowFields DEF StageInv, RowsReached
    <2> QED BY <1>0, <2>1, ReachedStays
  <1> SUFFICES ASSUME NEW i \in Ids', NEW l, NEW k, l = rows'[i].lot, k = rows'[i].prov
               PROVE  Reached(l, k)' /\ (rows'[i].num => l \in numbered')
    BY DEF RowsReached, Reached
  <1>1. CASE UNCHANGED rows
    BY <1>1, <1>k DEF Ids
  <1>2. CASE \E j \in Ids : Hold(j)
    <2>1. rows' \in Seq(Row) /\ Len(rows') = Len(rows)
      BY <1>0, <1>2, HoldRows
    <2>2. i \in Ids
      BY <1>0, <2>1 DEF Ids
    <2>3. l = rows[i].lot /\ k = rows[i].prov /\ rows'[i].num = rows[i].num
      BY <1>0, <1>2, <2>2, HoldRows
    <2> QED BY <1>k, <2>2, <2>3
  <1>3. ASSUME NEW s \in Syncers, NEW r \in Pulled, Insert(s, r), Inserts(r)
        PROVE  Reached(l, k)' /\ (rows'[i].num => l \in numbered')
    <2>1. rows' \in Seq(Row) /\ Len(rows') = Len(rows) + 1
      BY <1>3 DEF Inserts
    <2>2. CASE i \in Ids
      <3>1. rows'[i] = rows[i]
        BY <1>3, <2>2 DEF Inserts
      <3> QED BY <1>k, <2>2, <3>1
    <2>3. CASE i \notin Ids
      <3>1. i = Len(rows) + 1
        BY <1>0, <2>1, <2>3 DEF Ids
      <3>2. l = r.lot /\ k = r.stage /\ rows'[i].num = r.num
        BY <1>3, <3>1, NewRowFields DEF Inserts
      <3> QED BY <1>3, <1>h, <3>2 DEF WriteStep
    <2> QED BY <2>2, <2>3
  <1>4. ASSUME NEW s \in Syncers, NEW r \in Pulled, Update(s, r), NEW j, rows[j].lot = r.lot, Follows(j, r)
        PROVE  Reached(l, k)' /\ (rows'[i].num => l \in numbered')
    <2>1. rows' \in Seq(Row) /\ Len(rows') = Len(rows)
      BY <1>4 DEF Follows
    <2>2. i \in Ids
      BY <1>0, <2>1 DEF Ids
    <2>3. CASE i = j
      <3>1. rows'[i].lot = rows[i].lot /\ rows'[i].prov = r.stage /\ rows'[i].num = rows[i].num
        <4>1. rows'[i] = Followed(rows[i], r) /\ rows[i] \in Row
          BY <1>0, <1>4, <2>2, <2>3, RowFields DEF Follows
        <4> QED BY <4>1, FollowedFields
      <3>2. l = r.lot /\ k = r.stage
        BY <1>4, <2>3, <3>1
      <3>3. Reached(l, k)'
        BY <1>4, <1>h, <3>2 DEF WriteStep
      <3>4. rows[i].num => l \in numbered'
        BY <1>4, <1>k, <2>2, <2>3, <3>2
      <3> QED BY <3>1, <3>3, <3>4
    <2>4. CASE i # j
      <3>1. rows'[i] = rows[i]
        BY <1>4, <2>2, <2>4 DEF Follows
      <3> QED BY <1>k, <2>2, <3>1
    <2> QED BY <2>3, <2>4
  <1> QED BY <1>0, <1>1, <1>2, <1>3, <1>4, RowCases

(* Beside a sync that is alone and not writing, no row moves. *)
LEMMA RowsStand ==
    ASSUME Basics, [Next]_vars, NEW s \in Syncers, Alone(s), Running(s), sync[s].alone, ~Writing(s)
    PROVE  /\ Ids' = Ids
           /\ \A i \in Ids : /\ rows'[i].lot = rows[i].lot /\ rows'[i].num = rows[i].num
                             /\ rows'[i].prov = rows[i].prov
  <1>0. Typed /\ Ids = 1..Len(rows)
    BY IdsAre DEF Basics
  <1>1. CASE UNCHANGED rows
    BY <1>1 DEF Ids
  <1>2. CASE \E j \in Ids : Hold(j)
    <2>1. rows' \in Seq(Row) /\ Len(rows') = Len(rows)
      BY <1>2, HoldRows
    <2>2. Ids' = Ids
      BY <1>0, <2>1 DEF Ids
    <2> QED BY <1>2, <2>2, HoldRows
  <1>3. ASSUME NEW t \in Syncers, NEW r, WriteStep(t, r) PROVE FALSE
    <2>1. t = s
      BY <1>0, <1>3, AloneWrites
    <2> QED BY <1>0, <1>3, <2>1, WriteSync
  <1> QED BY <1>1, <1>2, <1>3, RowCases DEF WriteStep

LEMMA PullsAheadStep ==
    ASSUME StageInv, [Next]_vars, NEW s \in Syncers PROVE PullsAhead(s)'
  <1>0. /\ Typed /\ Basics /\ Alone(s) /\ PullsAhead(s) /\ RowsReached
        /\ src \in [Lots -> SUBSET Stages]
    BY DEF StageInv, Basics, Typed
  <1> SUFFICES ASSUME Reading(s)', sync'[s].alone, NEW i \in Ids', rows'[i].num,
                      NEW l, l = rows'[i].lot, NEW p, p = rows'[i].prov
               PROVE  /\ l \in sync'[s].known
                      /\ \E k \in Stages :
                            /\ p <= k
                            /\ \/ k < sync'[s].next /\ [lot |-> l, stage |-> k, num |-> TRUE] \in sync'[s].got
                               \/ sync'[s].next <= k /\ k \in src'[l]
    BY DEF PullsAhead
  <1>1. CASE SyncStart(s)
    <2>1. UNCHANGED <<rows, src>> /\ Ids' = Ids
      BY <1>1 DEF SyncStart, Ids
    <2>2. sync'[s].known = Known /\ sync'[s].next = Open
      BY <1>0, <1>1, StartSync
    <2>3. i \in Ids /\ l = rows[i].lot /\ p = rows[i].prov /\ rows[i].num /\ l \in Lots /\ p \in Stages
      BY <1>0, <2>1, RowFields
    <2>4. l \in numbered /\ Reached(l, p)
      BY <1>0, <2>3 DEF RowsReached
    <2>5. l \in Known
      BY <2>3, <2>4 DEF Known, Knows
    <2>6. PICK m \in src[l] : p <= m
      BY <2>4 DEF Reached
    <2>7. m \in Stages /\ Open <= m
      BY <1>0, <2>3 DEF Stages, Open, Awarded
    <2> QED BY <2>1, <2>2, <2>5, <2>6, <2>7
  (* From here on the sync was reading before. *)
  <1>2. ASSUME Reading(s), sync[s].alone
        PROVE  /\ i \in Ids /\ l = rows[i].lot /\ p = rows[i].prov /\ rows[i].num /\ l \in Lots /\ p \in Stages
               /\ l \in sync[s].known
               /\ \E k \in Stages :
                     /\ p <= k
                     /\ \/ k < sync[s].next /\ [lot |-> l, stage |-> k, num |-> TRUE] \in sync[s].got
                        \/ sync[s].next <= k /\ k \in src[l]
    <2>1. Running(s) /\ ~Writing(s)
      BY <1>2 DEF Reading, Running, Writing
    <2>2. i \in Ids /\ l = rows[i].lot /\ p = rows[i].prov /\ rows[i].num
      BY <1>0, <1>2, <2>1, RowsStand
    <2>3. l \in Lots /\ p \in Stages
      BY <1>0, <2>2, RowFields
    <2> QED BY <1>0, <1>2, <2>2, <2>3 DEF PullsAhead
  <1>3. CASE Pull(s)
    <2> DEFINE n == sync[s].next
    <2>1. /\ sync[s].at = "pull" /\ n \in Stages /\ sync'[s].alone = sync[s].alone
          /\ sync'[s].known = sync[s].known /\ sync'[s].next = n + 1
          /\ sync'[s].got = sync[s].got \cup {[lot |-> j, stage |-> n, num |-> j \in numbered] : j \in Found(s, n)}
      BY <1>0, <1>3, PullSync
    <2>2. Reading(s) /\ sync[s].alone /\ UNCHANGED src
      BY <1>3, <2>1 DEF Reading, Pull
    <2>3. i \in Ids /\ l = rows[i].lot /\ rows[i].num /\ l \in sync[s].known /\ l \in Lots
      BY <1>2, <2>2
    <2>4. l \in numbered
      BY <1>0, <2>3 DEF RowsReached
    <2>5. PICK k \in Stages :
                     /\ p <= k
                     /\ \/ k < n /\ [lot |-> l, stage |-> k, num |-> TRUE] \in sync[s].got
                        \/ n <= k /\ k \in src[l]
      BY <1>2, <2>2
    <2>6. CASE k < n /\ [lot |-> l, stage |-> k, num |-> TRUE] \in sync[s].got
      <3>1. k < n + 1
        BY <2>1, <2>6 DEF Stages, Open, Awarded
      <3> QED BY <2>1, <2>3, <2>5, <2>6, <3>1
    <2>7. CASE k = n /\ k \in src[l]
      <3>1. l \in Found(s, n)
        BY <2>3, <2>7 DEF Found
      <3>2. [lot |-> l, stage |-> n, num |-> l \in numbered] \in sync'[s].got
        BY <2>1, <3>1
      <3>3. (l \in numbered) = TRUE
        BY <2>4
      <3>4. [lot |-> l, stage |-> k, num |-> TRUE] \in sync'[s].got
        BY <2>7, <3>2, <3>3
      <3>5. k < n + 1
        BY <2>1, <2>7 DEF Stages, Open, Awarded
      <3> QED BY <2>1, <2>3, <2>5, <3>4, <3>5
    <2>8. CASE n < k /\ k \in src[l]
      <3>1. n + 1 <= k
        BY <2>1, <2>8 DEF Stages, Open, Awarded
      <3> QED BY <2>1, <2>2, <2>3, <2>5, <2>8, <3>1
    <2>9. n <= k => n = k \/ n < k
      BY <2>1 DEF Stages, Open, Awarded
    <2> QED BY <2>5, <2>6, <2>7, <2>8, <2>9
  <1>4. CASE ~Acts(s)
    <2>1. Keeps(sync[s], sync'[s])
      BY <1>0, <1>4, OthersKeep
    <2>2. /\ Reading(s) /\ sync[s].alone /\ sync'[s].known = sync[s].known
          /\ sync'[s].next = sync[s].next /\ sync'[s].got = sync[s].got
      BY <2>1 DEF Keeps, Reading
    <2>3. PICK k \in Stages :
                     /\ p <= k
                     /\ \/ k < sync[s].next /\ [lot |-> l, stage |-> k, num |-> TRUE] \in sync[s].got
                        \/ sync[s].next <= k /\ k \in src[l]
      BY <1>2, <2>2
    <2>4. CASE k < sync[s].next /\ [lot |-> l, stage |-> k, num |-> TRUE] \in sync[s].got
      BY <1>2, <2>2, <2>3, <2>4
    <2>5. CASE sync[s].next <= k /\ k \in src[l]
      <3>1. k <= k /\ l \in Lots /\ p \in Stages
        BY <1>2, <2>2 DEF Stages, Open, Awarded
      <3>2. Reached(l, k)'
        BY <1>0, <2>5, <3>1, ReachedStays DEF Reached
      <3>3. PICK m \in src'[l] : k <= m
        BY <3>2 DEF Reached
      <3>4. m \in Stages
        <4>1. src' \in [Lots -> SUBSET Stages]
          BY <1>0, TypedStep DEF Typed
        <4> QED BY <3>1, <3>3, <4>1
      <3>5. sync[s].next \in 1..4
        BY <1>0, <2>2, SyncPhases DEF Reading, Stages, Open, Awarded
      <3>6. p <= m /\ sync[s].next <= m
        BY <2>3, <2>5, <3>1, <3>3, <3>4, <3>5 DEF Stages, Open, Awarded
      <3> QED BY <1>2, <2>2, <3>3, <3>4, <3>6
    <2> QED BY <2>3, <2>4, <2>5
  <1>5. CASE Index(s) \/ SyncEnd(s) \/ SyncDies(s) \/ \E r \in Pulled : WriteStep(s, r)
    BY <1>0, <1>5, IndexSync, EndSync, WriteSync DEF Reading, Writes, Rests
  <1> QED BY <1>1, <1>3, <1>4, <1>5 DEF Acts

LEMMA WritesAheadStep ==
    ASSUME StageInv, [Next]_vars, NEW s \in Syncers PROVE WritesAhead(s)'
  <1>0. Typed /\ Basics /\ Alone(s) /\ PullsAhead(s) /\ WritesAhead(s)
    BY DEF StageInv, Basics
  <1> SUFFICES ASSUME Writing(s)', sync'[s].alone, NEW r \in sync'[s].todo, NEW i \in Owners(sync'[s].idx, r)
               PROVE  sync'[s].idx[i].prov <= r.stage
    BY DEF WritesAhead, Owners
  <1>1. CASE Index(s)
    <2> DEFINE E == {g \in sync[s].got : Admitted(s, rows, g)}
    <2>1. /\ sync[s].at = "index" /\ sync[s].alone /\ sync'[s].idx = rows /\ sync'[s].todo = Dedupe(E)
      BY <1>0, <1>1, IndexSync
    <2>2. Reading(s) /\ sync[s].next = 4 /\ sync[s].got \subseteq Pulled
      BY <1>0, <2>1, SyncPhases DEF Reading, Awarded
    <2>3. i \in Ids /\ rows[i].lot = r.lot /\ rows[i].num /\ r.num /\ r \in Pulled
      BY <2>1, <2>2 DEF Owners, Ids, Dedupe
    <2>4. PICK k \in Stages : rows[i].prov <= k /\ ((k < 4 /\ [lot |-> r.lot, stage |-> k, num |-> TRUE] \in sync[s].got) \/ 4 <= k)
      BY <1>0, <2>1, <2>2, <2>3 DEF PullsAhead
    <2> DEFINE q == [lot |-> r.lot, stage |-> k, num |-> TRUE]
    <2>5. q \in sync[s].got
      BY <2>4 DEF Stages, Open, Awarded
    <2>6. i \in Owners(rows, q)
      BY <2>3 DEF Owners, Ids
    <2>7. q \in E
      BY <2>5, <2>6 DEF Admitted, Existing
    <2>8. q.stage <= r.stage
      BY <2>1, <2>3, <2>7 DEF Dedupe
    <2>9. rows[i].prov \in Stages /\ r.stage \in Stages
      BY <1>0, <2>3, RowFields DEF Pulled
    <2> QED BY <2>1, <2>4, <2>8, <2>9 DEF Stages, Open, Awarded
  <1>2. CASE Writing(s) /\ sync'[s].todo \subseteq sync[s].todo /\ sync'[s].idx = sync[s].idx /\ sync[s].alone
    BY <1>0, <1>2 DEF WritesAhead
  <1> QED BY <1>0, <1>1, <1>2, TodoComes

LEMMA WritesInOrderStep ==
    ASSUME StageInv, [Next]_vars, NEW s \in Syncers PROVE WritesInOrder(s)'
  <1>0. Typed /\ Basics /\ Alone(s) /\ WritesInOrder(s) /\ IndexHolds(s) /\ Ids = 1..Len(rows) /\ Len(rows) \in Nat
    BY IdsAre DEF StageInv, Basics
  <1> SUFFICES ASSUME Writing(s)', sync'[s].alone, NEW i \in 1..Len(sync'[s].idx), NEW q \in sync'[s].todo,
                      q.lot = rows'[i].lot, rows'[i].prov # sync'[s].idx[i].prov
               PROVE  rows'[i].prov <= q.stage
    BY DEF WritesInOrder
  <1>1. CASE Index(s)
    BY <1>0, <1>1, IndexSync DEF Index
  <1>2. CASE Writing(s) /\ sync'[s].todo \subseteq sync[s].todo /\ sync'[s].idx = sync[s].idx /\ sync[s].alone
    <2>1. i \in Ids
      <3>1. Len(sync[s].idx) <= Len(rows) /\ sync[s].idx \in Seq(Row)
        BY <1>0, <1>2, SyncPhases DEF IndexHolds
      <3>2. Len(sync[s].idx) \in Nat
        BY <3>1
      <3> QED BY <1>0, <1>2, <3>1, <3>2
    <2>2. CASE rows'[i].prov = rows[i].prov
      <3>1. rows'[i].lot = rows[i].lot
        BY <1>0, <2>1, RowsKept
      <3> QED BY <1>0, <1>2, <2>2, <3>1 DEF WritesInOrder
    <2>3. ASSUME NEW t \in Syncers, NEW r \in Pulled, Update(t, r), NEW j, rows[j].lot = r.lot, Follows(j, r)
          PROVE  rows'[i].prov <= q.stage
      <3>1. CASE i # j
        BY <2>1, <2>2, <2>3, <3>1 DEF Follows
      <3>2. CASE i = j
        <4>1. t = s
          BY <1>0, <1>2, <2>3, AloneWrites DEF WriteStep, Running, Writing
        <4>2. rows'[i] = Followed(rows[i], r) /\ rows[i] \in Row
          BY <1>0, <2>1, <2>3, <3>2, RowFields DEF Follows
        <4>3. rows'[i].prov = r.stage /\ rows'[i].lot = r.lot
          BY <2>3, <3>2, <4>2, FollowedFields
        <4> QED BY <1>0, <1>2, <2>3, <4>1, <4>3, WriteSync DEF WriteStep
      <3> QED BY <3>1, <3>2
    <2>4. CASE UNCHANGED rows
      BY <2>2, <2>4
    <2>5. CASE \E j \in Ids : Hold(j)
      BY <1>0, <2>1, <2>2, <2>5, HoldRows
    <2>6. CASE \E r \in Pulled : Inserts(r)
      BY <2>1, <2>2, <2>6 DEF Inserts
    <2> QED BY <1>0, <2>3, <2>4, <2>5, <2>6, RowCases
  <1> QED BY <1>0, <1>1, <1>2, TodoComes

LEMMA FallsBackStep ==
    ASSUME StageInv, [Next]_vars, NEW i \in Ids, rows'[i].prov < rows[i].prov
    PROVE  \E s \in Syncers : Running(s) /\ ~sync[s].alone
  <1>0. /\ Typed /\ Basics /\ rows[i].prov \in Stages /\ rows[i].lot \in Lots
    BY RowFields DEF StageInv, Basics
  <1>1. rows'[i].prov # rows[i].prov
    BY <1>0 DEF Stages, Open, Awarded
  <1>2. PICK s \in Syncers, r \in Pulled : Update(s, r) /\
                 \E j \in Existing(sync[s].idx, r) : j \in 1..Len(sync[s].idx) /\ rows[j].lot = r.lot /\ Follows(j, r)
    <2>1. ~UNCHANGED rows
      BY <1>1
    <2>2. ~\E j \in Ids : Hold(j)
      BY <1>0, <1>1, HoldRows
    <2>3. ~\E q \in Pulled : Inserts(q)
      BY <1>1 DEF Inserts
    <2> QED BY <1>0, <2>1, <2>2, <2>3, RowCases
  <1>3. PICK j \in Existing(sync[s].idx, r) : j \in 1..Len(sync[s].idx) /\ rows[j].lot = r.lot /\ Follows(j, r)
    BY <1>2
  <1>4. i = j
    BY <1>1, <1>3 DEF Follows
  <1>5. rows'[i].prov = r.stage
    <2>1. rows'[i] = Followed(rows[i], r) /\ rows[i] \in Row
      BY <1>0, <1>3, <1>4, RowFields DEF Follows
    <2> QED BY <2>1, FollowedFields
  <1>6. Writing(s) /\ r \in sync[s].todo /\ sync[s].idx \in Seq(Row) /\ r.stage \in Stages
    BY <1>0, <1>2, WriteSync, SyncPhases DEF WriteStep, Pulled
  <1> SUFFICES ASSUME sync[s].alone PROVE FALSE
    BY <1>6 DEF Running, Writing
  <1>7. rows[i].prov = sync[s].idx[i].prov
    <2>1. ~(rows[i].prov <= r.stage)
      BY <1>0, <1>5, <1>6 DEF Stages, Open, Awarded
    <2> QED BY <1>3, <1>4, <1>6, <2>1 DEF StageInv, WritesInOrder
  <1>8. CASE i \in Owners(sync[s].idx, r)
    <2>1. sync[s].idx[i].prov <= r.stage
      BY <1>6, <1>8 DEF StageInv, WritesAhead
    <2> QED BY <1>0, <1>5, <1>6, <1>7, <2>1 DEF Stages, Open, Awarded
  <1>9. CASE i \in SameSource(sync[s].idx, r)
    BY <1>1, <1>5, <1>7, <1>9 DEF SameSource
  <1>10. CASE i \in AwardedFrom(sync[s].idx, r)
    <2>1. r.stage = Awarded
      BY <1>10 DEF AwardedFrom
    <2> QED BY <1>0, <1>5, <2>1 DEF Stages, Open, Awarded
  <1> QED BY <1>3, <1>4, <1>8, <1>9, <1>10 DEF Existing

LEMMA StageInvStep == ASSUME StageInv, [Next]_vars PROVE StageInv'
  <1>1. Basics /\ Typed /\ \A s \in Syncers : Alone(s) /\ HandReached(s)
    BY DEF StageInv, Basics
  <1>2. ASSUME NEW s \in Syncers PROVE (Alone(s) /\ HandReached(s) /\ PullsAhead(s) /\ WritesAhead(s) /\ WritesInOrder(s))'
    BY <1>1, AloneStep, HandReachedStep, PullsAheadStep, WritesAheadStep, WritesInOrderStep
  <1> QED BY <1>1, <1>2, BasicsStep, RowsReachedStep DEF StageInv

LEMMA StageInit == ASSUME Init PROVE StageInv
  <1>1. Ids = {}
    BY DEF Init, Ids
  <1>2. \A s \in Syncers : sync[s].at = "idle"
    BY DEF Init, NoSync
  <1> QED BY <1>1, <1>2, BasicsInit DEF StageInv, RowsReached, Alone, HandReached, Hand, PullsAhead, WritesAhead,
       WritesInOrder, Running, Reading, Writing

(* _dedupe_by_lifecycle and _upsert_one: however often the source moves     *)
(* while a sync reads it, a row is written back to an earlier stage only by *)
(* a sync that overlapped with another.                                     *)
THEOREM StagesOnlyAdvance == Spec => StageNeverFallsBack
  <1>1. StageInv /\ [Next]_vars =>
           \A i \in Ids : rows'[i].prov < rows[i].prov => \E s \in Syncers : Running(s) /\ ~sync[s].alone
    BY FallsBackStep
  <1>2. Init /\ [][Next]_vars => []StageInv
    BY StageInit, StageInvStep, PTL
  <1> QED BY <1>1, <1>2, PTL DEF Spec, StageNeverFallsBack

-----------------------------------------------------------------------------
(* What a complete sync achieves. *)

Wanted(s, l) == l \in numbered /\ (Top(l) # Awarded \/ l \in sync[s].known)
Best(l) == [lot |-> l, stage |-> Top(l), num |-> TRUE]

Following(l) ==
    \E i \in Ids :
        /\ rows[i].lot = l /\ rows[i].prov = Top(l)
        /\ rows[i].status \in {"manual_hold", Status(Best(l))}

SourceHolds == \A l \in Lots : src[l] # {}

(* As long as nobody has changed anything, what a sync has pulled is what   *)
(* the source holds, and the CRM has the rows by which it knew the lots.    *)
PullsAll(s) ==
    Reading(s) /\ sync[s].fresh =>
        /\ \A r \in sync[s].got : r.stage \in src[r.lot] /\ (r.num <=> r.lot \in numbered)
        /\ \A l \in Lots : Wanted(s, l) /\ Top(l) < sync[s].next => Best(l) \in sync[s].got
        /\ \A l \in numbered : l \in sync[s].known => \E i \in Ids : Knows(l, i)

(* And a lot's furthest row, and only that, is still to be written against  *)
(* rows as the index has them, or has been written.                         *)
WritesAll(s) ==
    Writing(s) /\ sync[s].fresh =>
        \A l \in Lots : Wanted(s, l) =>
            \/ /\ Best(l) \in sync[s].todo
               /\ \A q \in sync[s].todo : q.lot = l => q = Best(l)
               /\ \A i \in Ids : rows[i].lot = l =>
                     i \in DOMAIN sync[s].idx /\ sync[s].idx[i].prov = rows[i].prov
            \/ Following(l) /\ \A q \in sync[s].todo : q.lot # l

FollowInv ==
    StageInv /\ SourceHolds /\ RowsFollowSource /\ \A s \in Syncers : PullsAll(s) /\ WritesAll(s)

LEMMA TopIs ==
    ASSUME Typed, SourceHolds, NEW l \in Lots
    PROVE  Top(l) \in Stages /\ Top(l) \in src[l] /\ \A m \in src[l] : m <= Top(l)
  <1>1. src[l] \subseteq Stages /\ src[l] # {}
    BY DEF Typed, SourceHolds
  <1>2. \E x \in src[l] : \A y \in src[l] : x >= y
    <2>1. CASE 3 \in src[l]
      BY <1>1, <2>1 DEF Stages, Open, Awarded
    <2>2. CASE 3 \notin src[l] /\ 2 \in src[l]
      BY <1>1, <2>2 DEF Stages, Open, Awarded
    <2>3. CASE 3 \notin src[l] /\ 2 \notin src[l]
      BY <1>1, <2>3 DEF Stages, Open, Awarded
    <2> QED BY <2>1, <2>2, <2>3
  <1>3. Top(l) \in src[l] /\ \A y \in src[l] : Top(l) >= y
    BY <1>2 DEF Top, Max
  <1> QED BY <1>1, <1>3 DEF Stages, Open, Awarded

LEMMA SourceStep == ASSUME Typed, SourceHolds, [Next]_vars PROVE SourceHolds'
  <1>0. src \in [Lots -> SUBSET Stages]
    BY DEF Typed
  <1>1. CASE UNCHANGED src
    BY <1>1 DEF SourceHolds
  <1>2. ASSUME NEW j \in Lots, SourceMoves(j) PROVE SourceHolds'
    <2>1. PICK S \in Moved(j) : src' = [src EXCEPT ![j] = S]
      BY <1>2 DEF SourceMoves
    <2>2. S # {}
      <3>1. ASSUME NEW d \in src[j], NEW n \in src[j], d < n PROVE n \in src[j] \ {d}
        BY <1>0, <3>1 DEF Stages, Open, Awarded
      <3> QED BY <2>1, <3>1 DEF Moved
    <2> QED BY <1>0, <2>1, <2>2 DEF SourceHolds
  <1>3. UNCHANGED src \/ \E j \in Lots : SourceMoves(j)
    BY Steps DEF vars, Outside, Acts, WriteStep, NumberAppears, DeadlinePasses, Hold, SyncStart, Pull, Index,
       SyncEnd, SyncDies, Insert, Update, UpsertFails
  <1> QED BY <1>1, <1>2, <1>3

(* While a sync stays fresh the source stands still, and so do the rows     *)
(* unless it writes them itself.                                            *)
LEMMA FreshIsQuiet ==
    ASSUME Typed, [Next]_vars, NEW s \in Syncers, sync'[s].fresh
    PROVE  UNCHANGED <<src, numbered, past>> /\ (~Acts(s) => UNCHANGED rows)
  <1>1. ~Outside
    BY OutsideKeeps
  <1>2. CASE UNCHANGED vars
    BY <1>2 DEF vars
  <1>3. ASSUME NEW t \in Syncers, Acts(t) PROVE UNCHANGED <<src, numbered, past>> /\ (t # s => UNCHANGED rows)
    <2>1. CASE SyncStart(t) \/ Pull(t) \/ Index(t) \/ SyncEnd(t) \/ SyncDies(t)
      BY <2>1 DEF SyncStart, Pull, Index, SyncEnd, SyncDies
    <2>2. ASSUME NEW r \in Pulled, WriteStep(t, r) PROVE UNCHANGED <<src, numbered, past>> /\ (t # s => UNCHANGED rows)
      <3>1. UNCHANGED <<src, numbered, past>>
        BY <2>2 DEF WriteStep, Insert, Update, UpsertFails
      <3>2. t # s => UNCHANGED rows
        BY <2>2, WriteSync
      <3> QED BY <3>1, <3>2
    <2> QED BY <1>3, <2>1, <2>2 DEF Acts
  <1> QED BY <1>1, <1>2, <1>3, Steps

LEMMA PullsAllStep ==
    ASSUME FollowInv, [Next]_vars, NEW s \in Syncers PROVE PullsAll(s)'
  <1>0. Typed /\ Basics /\ PullsAll(s) /\ SourceHolds
    BY DEF FollowInv, StageInv, Basics
  <1> SUFFICES ASSUME Reading(s)', sync'[s].fresh PROVE PullsAll(s)'
    BY DEF PullsAll
  <1>q. UNCHANGED <<src, numbered, past>>
    BY <1>0, FreshIsQuiet
  <1>1. CASE SyncStart(s)
    <2>1. sync'[s].known = Known /\ sync'[s].next = Open /\ sync'[s].got = {} /\ UNCHANGED rows
      BY <1>0, <1>1, StartSync DEF SyncStart
    <2>2. \A l \in Lots : ~(Top(l) < Open)
      BY <1>0, TopIs DEF Stages, Open, Awarded
    <2>3. \A l \in numbered : l \in Known => \E i \in Ids : Knows(l, i)
      BY DEF Known
    <2> QED BY <1>q, <2>1, <2>2, <2>3 DEF PullsAll, Top, Ids, Knows
  <1>2. CASE Pull(s)
    <2> DEFINE n == sync[s].next
    <2>1. /\ sync[s].at = "pull" /\ n \in Stages /\ sync[s].fresh
          /\ sync'[s].known = sync[s].known /\ sync'[s].next = n + 1
          /\ sync'[s].got = sync[s].got \cup {[lot |-> j, stage |-> n, num |-> j \in numbered] : j \in Found(s, n)}
      BY <1>0, <1>2, PullSync
    <2>2. Reading(s) /\ UNCHANGED rows
      BY <1>2, <2>1 DEF Reading, Pull
    <2>3. \A r \in sync'[s].got : r.stage \in src[r.lot] /\ (r.num <=> r.lot \in numbered)
      <3>1. \A r \in sync[s].got : r.stage \in src[r.lot] /\ (r.num <=> r.lot \in numbered)
        BY <1>0, <2>1, <2>2 DEF PullsAll
      <3>2. ASSUME NEW j \in Found(s, n), NEW b \in BOOLEAN, b <=> j \in numbered,
                   NEW r, r = [lot |-> j, stage |-> n, num |-> b]
            PROVE  r.stage \in src[r.lot] /\ (r.num <=> r.lot \in numbered)
        BY <3>2 DEF Found
      <3>3. ASSUME NEW j \in Found(s, n), NEW r, r = [lot |-> j, stage |-> n, num |-> j \in numbered]
            PROVE  r.stage \in src[r.lot] /\ (r.num <=> r.lot \in numbered)
        <4> DEFINE b == j \in numbered
        <4>1. b \in BOOLEAN /\ (b <=> j \in numbered) /\ r = [lot |-> j, stage |-> n, num |-> b]
          BY <3>3
        <4> HIDE DEF b
        <4> QED BY <3>2, <4>1
      <3> QED BY <2>1, <3>1, <3>3
    <2>4. ASSUME NEW l \in Lots, Wanted(s, l), Top(l) < n + 1 PROVE Best(l) \in sync'[s].got
      <3>1. Top(l) \in Stages /\ Top(l) \in src[l]
        BY <1>0, TopIs
      <3>2. CASE Top(l) < n
        BY <1>0, <2>1, <2>2, <2>4, <3>2 DEF PullsAll
      <3>3. CASE Top(l) = n
        <4>1. l \in Found(s, n)
          BY <2>4, <3>1, <3>3 DEF Found, Wanted
        <4>2. [lot |-> l, stage |-> n, num |-> l \in numbered] \in sync'[s].got
          BY <2>1, <4>1
        <4>3. (l \in numbered) = TRUE
          BY <2>4 DEF Wanted
        <4>4. [lot |-> l, stage |-> n, num |-> TRUE] \in sync'[s].got
          BY <4>2, <4>3
        <4> QED BY <3>3, <4>4 DEF Best
      <3> QED BY <2>1, <2>4, <3>1, <3>2, <3>3 DEF Stages, Open, Awarded
    <2>5. \A l \in numbered : l \in sync[s].known => \E i \in Ids : Knows(l, i)
      BY <1>0, <2>1, <2>2 DEF PullsAll
    <2> HIDE DEF n
    <2> QED BY <1>q, <2>1, <2>2, <2>3, <2>4, <2>5 DEF PullsAll, Wanted, Best, Top, Ids, Knows
  <1>3. CASE ~Acts(s)
    <2>1. Keeps(sync[s], sync'[s]) /\ UNCHANGED rows
      BY <1>0, <1>3, OthersKeep, FreshIsQuiet
    <2>2. /\ Reading(s) /\ sync[s].fresh /\ sync'[s].known = sync[s].known
          /\ sync'[s].next = sync[s].next /\ sync'[s].got = sync[s].got
      BY <2>1 DEF Keeps, Reading
    <2> QED BY <1>0, <1>q, <2>1, <2>2 DEF PullsAll, Wanted, Best, Top, Ids, Knows
  <1>4. CASE Index(s) \/ SyncEnd(s) \/ SyncDies(s) \/ \E r \in Pulled : WriteStep(s, r)
    BY <1>0, <1>4, IndexSync, EndSync, WriteSync DEF Reading, Writes, Rests
  <1> QED BY <1>1, <1>2, <1>3, <1>4 DEF Acts

LEMMA BestIs ==
    ASSUME Typed, SourceHolds, NEW l \in Lots
    PROVE  /\ Best(l) \in Pulled /\ Best(l).lot = l /\ Best(l).stage = Top(l) /\ Best(l).num
  BY TopIs DEF Best, Pulled

(* A row of a lot that nobody touches follows as it did. *)
LEMMA StillFollowing ==
    ASSUME NEW l \in Lots, Following(l), UNCHANGED <<src, past>>, Ids \subseteq Ids',
           \A i \in Ids : rows[i].lot = l => rows'[i] = rows[i]
    PROVE  Following(l)'
  <1>1. PICK i \in Ids : /\ rows[i].lot = l /\ rows[i].prov = Top(l)
                         /\ rows[i].status \in {"manual_hold", Status(Best(l))}
    BY DEF Following
  <1>2. rows'[i] = rows[i] /\ i \in Ids'
    BY <1>1
  <1>3. Top(l)' = Top(l) /\ Best(l)' = Best(l) /\ Status(Best(l))' = Status(Best(l))
    BY DEF Top, Best, Status
  <1> QED BY <1>1, <1>2, <1>3 DEF Following

(* The index of a fresh sync leads it to write every lot it is to write.    *)
LEMMA IndexFollows ==
    ASSUME FollowInv, NEW s \in Syncers, Index(s), sync[s].fresh, NEW l \in Lots, Wanted(s, l),
           NEW D, D = Dedupe({r \in sync[s].got : Admitted(s, rows, r)})
    PROVE  Best(l) \in D /\ \A q \in D : q.lot = l => q = Best(l)
  <1> DEFINE E == {r \in sync[s].got : Admitted(s, rows, r)}
  <1>0. Typed /\ PullsAll(s) /\ SourceHolds
    BY DEF FollowInv, StageInv, Basics
  <1>1. Reading(s) /\ sync[s].next = 4 /\ sync[s].got \subseteq Pulled
    BY <1>0, SyncPhases DEF Index, Reading, Awarded
  <1>2. Top(l) \in Stages /\ Top(l) < 4
    BY <1>0, TopIs DEF Stages, Open, Awarded
  <1>3. Best(l) \in sync[s].got /\ l \in numbered
    BY <1>0, <1>1, <1>2 DEF PullsAll, Wanted
  <1>4. Best(l).lot = l /\ Best(l).stage = Top(l) /\ Best(l).num
    BY <1>0, BestIs
  <1>5. Top(l) = Awarded => Existing(rows, Best(l)) # {}
    <2> SUFFICES ASSUME Top(l) = Awarded PROVE Existing(rows, Best(l)) # {}
      OBVIOUS
    <2>1. PICK i \in Ids : Knows(l, i)
      BY <1>0, <1>1, <1>3 DEF PullsAll, Wanted
    <2>2. CASE rows[i].num
      <3>1. i \in Owners(rows, Best(l))
        BY <1>4, <2>1, <2>2 DEF Owners, Knows, Ids
      <3> QED BY <3>1 DEF Existing
    <2>3. CASE rows[i].prov = Awarded
      <3>1. i \in SameSource(rows, Best(l))
        BY <1>4, <2>1, <2>3 DEF SameSource, Knows, Ids
      <3> QED BY <3>1 DEF Existing
    <2>4. CASE rows[i].awd
      <3>1. i \in AwardedFrom(rows, Best(l))
        BY <1>4, <2>1, <2>4 DEF AwardedFrom, Knows, Ids
      <3> QED BY <3>1 DEF Existing
    <2> QED BY <2>1, <2>2, <2>3, <2>4 DEF Knows
  <1>6. Best(l) \in E
    BY <1>3, <1>4, <1>5 DEF Admitted
  <1>7. ASSUME NEW q \in E, q.lot = l PROVE q \in Pulled /\ q.num /\ q.stage <= Top(l)
    <2>1. q \in Pulled /\ q.stage \in src[l] /\ q.num
      BY <1>0, <1>1, <1>3, <1>7 DEF PullsAll
    <2> QED BY <1>0, <2>1, TopIs
  <1>8. Best(l) \in D
    BY <1>4, <1>6, <1>7 DEF Dedupe
  <1>9. ASSUME NEW q \in D, q.lot = l PROVE q = Best(l)
    <2>1. q \in E /\ (\A g \in E : g.lot = q.lot /\ g.num => (q.num => g.stage <= q.stage))
      BY DEF Dedupe
    <2>2. q \in Pulled /\ q.num /\ q.stage <= Top(l) /\ Top(l) <= q.stage
      BY <1>4, <1>6, <1>7, <1>9, <2>1
    <2>3. q.stage = Top(l)
      BY <1>2, <2>2 DEF Pulled, Stages, Open, Awarded
    <2>4. q.num = TRUE
      BY <2>2 DEF Pulled
    <2> QED BY <1>9, <2>2, <2>3, <2>4 DEF Pulled, Best
  <1> QED BY <1>8, <1>9

(* A fresh sync that writes the furthest row of a lot leaves it followed:   *)
(* the row is new, or follows, or another one had been there.               *)
LEMMA WriteFollows ==
    ASSUME FollowInv, [Next]_vars, NEW s \in Syncers, NEW r \in Pulled, Insert(s, r) \/ Update(s, r),
           UNCHANGED <<src, past>>, NEW l \in Lots, r = Best(l),
           \A i \in Ids : rows[i].lot = l => i \in DOMAIN sync[s].idx /\ sync[s].idx[i].prov = rows[i].prov
    PROVE  Following(l)'
  <1>0. /\ Typed /\ Basics /\ SourceHolds /\ RowsReached /\ Schema /\ IndexHolds(s) /\ rows' \in Seq(Row)
        /\ Ids = 1..Len(rows) /\ Len(rows) \in Nat /\ rows \in Seq(Row)
    BY RowsKept, IdsAre DEF FollowInv, StageInv, Basics, Typed
  <1>1. r.lot = l /\ r.stage = Top(l) /\ r.num /\ Top(l) \in Stages
    BY <1>0, BestIs, TopIs
  <1>2. Top(l)' = Top(l) /\ Best(l)' = Best(l) /\ Status(Best(l))' = Status(Best(l))
    BY DEF Top, Best, Status
  <1>w. ASSUME NEW i \in Ids', rows'[i].lot = l, rows'[i].prov = Top(l), rows'[i].status \in {"manual_hold", Status(r)}
        PROVE  Following(l)'
    BY <1>2, <1>w DEF Following
  <1>3. ASSUME Inserts(r) PROVE Following(l)'
    <2> DEFINE n == Len(rows) + 1
    <2>1. n \in Ids'
      BY <1>0, <1>3 DEF Inserts, Ids
    <2>2. rows'[n].lot = l /\ rows'[n].prov = Top(l) /\ rows'[n].status = Status(r)
      BY <1>1, <1>3, NewRowFields DEF Inserts
    <2> QED BY <1>w, <2>1, <2>2
  <1>4. ASSUME NEW i \in Ids, rows[i].lot = l, Follows(i, r) PROVE Following(l)'
    <2>1. i \in Ids'
      BY <1>0, <1>4 DEF Follows, Ids
    <2>2. rows'[i] = Followed(rows[i], r) /\ rows[i] \in Row
      BY <1>0, <1>4, RowFields DEF Follows
    <2>3. rows'[i].lot = l /\ rows'[i].prov = Top(l) /\ rows'[i].status \in {"manual_hold", Status(r)}
      BY <1>1, <1>4, <2>2, FollowedFields
    <2> QED BY <1>w, <2>1, <2>3
  <1>5. ASSUME NEW j \in Taken(r), UNCHANGED rows, Top(l) # Open PROVE Following(l)'
    <2>1. j \in Ids /\ j \in Ids' /\ rows[j].lot = l /\ rows[j].prov = Top(l)
      BY <1>1, <1>5 DEF Taken, Ids
    <2>2. Top(l) = Waiting \/ Top(l) = Awarded
      BY <1>1, <1>5 DEF Stages, Open, Waiting, Awarded
    <2>3. rows[j].status \in {"manual_hold", Status(r)}
      BY <1>0, <1>1, <2>1, <2>2, StatusIs DEF Schema
    <2> QED BY <1>5, <1>w, <2>1, <2>3
  <1>6. CASE Insert(s, r)
    <2>1. Existing(sync[s].idx, r) = {} /\ (Taken(r) # {} \/ Inserts(r))
      BY <1>0, <1>6, InsertRows
    <2>2. Taken(r) = {}
      <3> SUFFICES ASSUME NEW j \in Taken(r) PROVE FALSE
        OBVIOUS
      <3>1. j \in Ids /\ rows[j].lot = l /\ rows[j].prov = r.stage
        BY <1>1 DEF Taken
      <3>2. j \in DOMAIN sync[s].idx /\ sync[s].idx[j].prov = r.stage
        BY <3>1
      <3>3. Writing(s) /\ sync[s].idx \in Seq(Row)
        BY <1>0, <1>6, WriteSync, SyncPhases DEF WriteStep
      <3>4. sync[s].idx[j].lot = r.lot
        BY <1>0, <1>1, <3>1, <3>2, <3>3 DEF IndexHolds
      <3>5. j \in SameSource(sync[s].idx, r)
        BY <3>2, <3>4 DEF SameSource
      <3> QED BY <2>1, <3>5 DEF Existing
    <2> QED BY <1>3, <2>1, <2>2
  <1>7. CASE Update(s, r)
    <2>1. PICK i \in Ids : rows[i].lot = l /\ ((Taken(r) \ {i} # {} /\ UNCHANGED rows) \/ Follows(i, r))
      BY <1>0, <1>1, <1>7, UpdateRows
    <2>2. CASE Follows(i, r)
      BY <1>4, <2>1, <2>2
    <2>3. CASE Taken(r) \ {i} # {} /\ UNCHANGED rows
      <3>1. PICK j \in Taken(r) : j # i
        BY <2>3
      <3>2. j \in Ids /\ rows[j].lot = l /\ rows[j].prov = Top(l)
        BY <1>1 DEF Taken
      <3>3. Top(l) # Open
        <4> SUFFICES ASSUME Top(l) = Open PROVE FALSE
          OBVIOUS
        <4>1. rows[i].prov \in Stages /\ Reached(l, rows[i].prov)
          BY <1>0, <2>1, RowFields DEF RowsReached
        <4>2. PICK m \in src[l] : rows[i].prov <= m
          BY <4>1 DEF Reached
        <4>3. m <= Open /\ m \in Stages
          BY <1>0, <4>2, TopIs DEF Typed
        <4>4. rows[i].prov = Open
          BY <4>1, <4>2, <4>3 DEF Stages, Open, Awarded
        <4> QED BY <1>0, <2>1, <3>1, <3>2, <4>4 DEF Schema
      <3> QED BY <1>5, <2>3, <3>1, <3>3
    <2> QED BY <2>1, <2>2, <2>3
  <1> QED BY <1>6, <1>7

LEMMA WritesAllStep ==
    ASSUME FollowInv, [Next]_vars, NEW s \in Syncers PROVE WritesAll(s)'
  <1>0. Typed /\ Basics /\ WritesAll(s) /\ SourceHolds /\ IndexHolds(s) /\ Ids \subseteq Ids'
    BY RowsKept DEF FollowInv, StageInv, Basics
  <1> SUFFICES ASSUME Writing(s)', sync'[s].fresh, NEW l \in Lots, Wanted(s, l)'
               PROVE  \/ /\ Best(l)' \in sync'[s].todo
                         /\ \A q \in sync'[s].todo : q.lot = l => q = Best(l)'
                         /\ \A i \in Ids' : rows'[i].lot = l =>
                               i \in DOMAIN sync'[s].idx /\ sync'[s].idx[i].prov = rows'[i].prov
                      \/ Following(l)' /\ \A q \in sync'[s].todo : q.lot # l
    BY DEF WritesAll
  <1>q. UNCHANGED <<src, numbered, past>> /\ Top(l)' = Top(l) /\ Best(l)' = Best(l)
    BY <1>0, FreshIsQuiet DEF Top, Best
  <1>1. CASE Index(s)
    <2>1. /\ sync'[s].fresh = sync[s].fresh /\ sync'[s].known = sync[s].known /\ sync'[s].idx = rows
          /\ sync'[s].todo = Dedupe({r \in sync[s].got : Admitted(s, rows, r)}) /\ UNCHANGED rows
      BY <1>0, <1>1, IndexSync DEF Index
    <2>2. sync[s].fresh /\ Wanted(s, l)
      BY <1>q, <2>1 DEF Wanted
    <2>3. Best(l) \in sync'[s].todo /\ \A q \in sync'[s].todo : q.lot = l => q = Best(l)
      BY <1>1, <2>1, <2>2, IndexFollows
    <2> QED BY <1>q, <2>1, <2>3 DEF Ids
  <1>2. CASE ~Acts(s)
    <2>1. Keeps(sync[s], sync'[s]) /\ UNCHANGED rows
      BY <1>0, <1>2, OthersKeep, FreshIsQuiet
    <2>2. /\ Writing(s) /\ sync[s].fresh /\ sync'[s].known = sync[s].known
          /\ sync'[s].todo = sync[s].todo /\ sync'[s].idx = sync[s].idx
      BY <2>1 DEF Keeps, Writing
    <2>3. Wanted(s, l)
      BY <1>q, <2>2 DEF Wanted
    <2>4. Following(l) => Following(l)'
      BY <1>0, <1>q, <2>1, StillFollowing
    <2> QED BY <1>0, <1>q, <2>1, <2>2, <2>3, <2>4 DEF WritesAll, Ids
  <1>3. ASSUME NEW r \in Pulled, WriteStep(s, r)
        PROVE  \/ /\ Best(l) \in sync'[s].todo
                  /\ \A q \in sync'[s].todo : q.lot = l => q = Best(l)
                  /\ \A i \in Ids' : rows'[i].lot = l =>
                               i \in DOMAIN sync'[s].idx /\ sync'[s].idx[i].prov = rows'[i].prov
               \/ Following(l)' /\ \A q \in sync'[s].todo : q.lot # l
    <2>1. /\ Writing(s) /\ r \in sync[s].todo /\ sync[s].fresh /\ sync'[s].known = sync[s].known
          /\ sync'[s].idx = sync[s].idx /\ sync'[s].todo = sync[s].todo \ {r} /\ ~UpsertFails(s, r)
      BY <1>0, <1>3, WriteSync
    <2>2. Wanted(s, l) /\ (Insert(s, r) \/ Update(s, r))
      BY <1>3, <1>q, <2>1 DEF Wanted, WriteStep
    <2>3. CASE r.lot = l
      <3>1. /\ r = Best(l) /\ \A q \in sync[s].todo : q.lot = l => q = Best(l)
            /\ \A i \in Ids : rows[i].lot = l => i \in DOMAIN sync[s].idx /\ sync[s].idx[i].prov = rows[i].prov
        BY <1>0, <2>1, <2>2, <2>3 DEF WritesAll
      <3>2. Following(l)'
        BY <1>q, <2>2, <3>1, WriteFollows
      <3> QED BY <2>1, <3>1, <3>2
    <2>4. CASE r.lot # l
      <3>1. (\A i \in Ids : rows[i].lot = l => rows'[i] = rows[i]) /\ (\A i \in Ids' \ Ids : rows'[i].lot # l)
        <4>1. CASE UNCHANGED rows
          BY <4>1 DEF Ids
        <4>2. CASE Inserts(r)
          <5>1. Ids' \ Ids = {Len(rows) + 1} /\ rows'[Len(rows) + 1].lot = r.lot
            <6>1. rows' \in Seq(Row) /\ Len(rows') = Len(rows) + 1 /\ rows'[Len(rows) + 1] = NewRow(r)
              BY <4>2 DEF Inserts
            <6>2. Ids = 1..Len(rows) /\ Len(rows) \in Nat /\ Ids' = 1..(Len(rows) + 1)
              BY <1>0, <6>1, IdsAre DEF Ids
            <6>3. Ids' \ Ids = {Len(rows) + 1}
              BY <6>2
            <6> QED BY <6>1, <6>3, NewRowFields
          <5> QED BY <2>4, <4>2, <5>1 DEF Inserts
        <4>3. ASSUME NEW i \in Ids, rows[i].lot = r.lot, Follows(i, r)
              PROVE  (\A j \in Ids : rows[j].lot = l => rows'[j] = rows[j]) /\ Ids' = Ids
          BY <1>0, <2>4, <4>3, IdsAre DEF Follows, Ids
        <4>4. CASE Insert(s, r)
          BY <1>0, <4>1, <4>2, <4>4, InsertRows
        <4>5. CASE Update(s, r)
          <5>1. UNCHANGED rows \/ \E i \in Ids : rows[i].lot = r.lot /\ Follows(i, r)
            BY <1>0, <4>5, UpdateRows
          <5> QED BY <4>1, <4>3, <5>1
        <4> QED BY <2>2, <4>4, <4>5
      <3>2. CASE Following(l) /\ \A q \in sync[s].todo : q.lot # l
        <4>1. Following(l)'
          BY <1>0, <1>q, <3>1, <3>2, StillFollowing
        <4> QED BY <2>1, <3>2, <4>1
      <3>3. CASE /\ Best(l) \in sync[s].todo
                 /\ \A q \in sync[s].todo : q.lot = l => q = Best(l)
                 /\ \A i \in Ids : rows[i].lot = l =>
                       i \in DOMAIN sync[s].idx /\ sync[s].idx[i].prov = rows[i].prov
        <4>1. Best(l) \in sync'[s].todo
          BY <1>0, <2>1, <2>4, <3>3, BestIs
        <4>2. \A i \in Ids' : rows'[i].lot = l => i \in Ids /\ rows[i].lot = l /\ rows'[i] = rows[i]
          <5>1. \A i \in Ids : rows'[i].lot = rows[i].lot
            BY <1>0, RowsKept
          <5> QED BY <3>1, <5>1
        <4> QED BY <2>1, <3>3, <4>1, <4>2
      <3> QED BY <1>0, <2>1, <2>2, <3>2, <3>3 DEF WritesAll
    <2> QED BY <2>3, <2>4
  <1>4. CASE SyncStart(s) \/ Pull(s) \/ SyncEnd(s) \/ SyncDies(s)
    BY <1>0, <1>4, StartSync, PullSync, EndSync DEF Writing, Reads, Gathered, Rests
  <1> QED BY <1>q, <1>1, <1>2, <1>3, <1>4 DEF Acts

LEMMA FollowStep ==
    ASSUME FollowInv, [Next]_vars PROVE RowsFollowSource'
  <1>0. Typed /\ Basics /\ SourceHolds /\ RowsFollowSource /\ Ids \subseteq Ids' /\ numbered \subseteq Lots
    BY RowsKept DEF FollowInv, StageInv, Basics, Typed
  <1> SUFFICES ASSUME NEW s \in Syncers, ~Running(s)', sync'[s].fresh, NEW l \in numbered', Wanted(s, l)'
               PROVE  Following(l)'
    BY DEF RowsFollowSource, UpToDate, Following, Wanted, Best
  <1>q. UNCHANGED <<src, numbered, past>> /\ Top(l)' = Top(l) /\ l \in Lots
    BY <1>0, FreshIsQuiet DEF Top
  <1>1. CASE ~Acts(s)
    <2>1. Keeps(sync[s], sync'[s]) /\ UNCHANGED rows
      BY <1>0, <1>1, OthersKeep, FreshIsQuiet
    <2>2. ~Running(s) /\ sync[s].fresh /\ sync'[s].known = sync[s].known
      BY <2>1 DEF Keeps, Running
    <2>3. Following(l)
      BY <1>0, <1>q, <2>2 DEF RowsFollowSource, UpToDate, Following, Wanted, Best
    <2> QED BY <1>0, <1>q, <2>1, <2>3, StillFollowing
  <1>2. CASE SyncEnd(s)
    <2>1. Writing(s) /\ sync[s].todo = {} /\ sync'[s].known = sync[s].known /\ UNCHANGED rows /\ sync[s].fresh
      BY <1>0, <1>2, EndSync DEF SyncEnd, Writing
    <2>2. Wanted(s, l)
      BY <1>q, <2>1 DEF Wanted
    <2>3. Following(l)
      BY <1>q, <2>1, <2>2 DEF FollowInv, WritesAll
    <2> QED BY <1>0, <1>q, <2>1, <2>3, StillFollowing
  <1>3. CASE SyncDies(s) /\ ~SyncEnd(s)
    BY <1>0, <1>3, EndSync
  <1>4. CASE SyncStart(s) \/ Pull(s) \/ Index(s)
    BY <1>0, <1>4, StartSync, PullSync, IndexSync DEF Running, Reads, Gathered, Writes
  <1>5. CASE \E r \in Pulled : WriteStep(s, r)
    BY <1>0, <1>5, WriteSync DEF Running, Writes
  <1> QED BY <1>1, <1>2, <1>3, <1>4, <1>5 DEF Acts

(* run_v3_projection_sync: whatever earlier runs that died, failed in a row *)
(* or overlapped have left, a run that ends without an error, with nobody   *)
(* changing anything meanwhile, leaves every numbered lot with a row that   *)
(* points to its furthest source row and has the stage of that, but for     *)
(* awards that the CRM knew neither by number nor by id.                    *)
THEOREM CompleteSyncFollows == Spec => []RowsFollowSource
  <1>1. Init => FollowInv
    <2> SUFFICES ASSUME Init PROVE FollowInv
      OBVIOUS
    <2>1. \A s \in Syncers : sync[s].at = "idle" /\ ~sync[s].fresh
      BY DEF Init, NoSync
    <2>2. SourceHolds
      <3> SUFFICES ASSUME NEW l \in Lots PROVE src[l] # {}
        BY DEF SourceHolds
      <3>1. src[l] \in {{k} : k \in Stages}
        BY DEF Init
      <3>2. PICK k \in Stages : src[l] = {k}
        BY <3>1
      <3> QED BY <3>2
    <2> QED BY <2>1, <2>2, StageInit DEF FollowInv, RowsFollowSource, UpToDate, PullsAll, WritesAll, Reading, Writing
  <1>2. FollowInv /\ [Next]_vars => FollowInv'
    <2> SUFFICES ASSUME FollowInv, [Next]_vars PROVE FollowInv'
      OBVIOUS
    <2>1. Typed /\ SourceHolds /\ StageInv
      BY DEF FollowInv, StageInv, Basics
    <2> QED BY <2>1, StageInvStep, SourceStep, FollowStep, PullsAllStep, WritesAllStep DEF FollowInv
  <1>3. FollowInv => RowsFollowSource
    BY DEF FollowInv
  <1> QED BY <1>1, <1>2, <1>3, PTL DEF Spec
=============================================================================
