------------------------ MODULE OpportunityStoreProofs ------------------------
(***************************************************************************)
(* Proofs about OpportunityStore, for any procurements, opportunities,     *)
(* number of syncs and bounds: the types, what a persist that is not cut   *)
(* short leaves accepted, that a first medal is kept, what a sync that     *)
(* read what is still true leaves behind, and that only a race of two      *)
(* syncs audits a transition twice.                                        *)
(***************************************************************************)
EXTENDS OpportunityStore, TLAPS, FiniteSetTheorems, SequenceTheorems

Ids == DOMAIN rows
Phases == {"open", "expired", "waiting", "awarded"}
Happened == {"OPEN", "WAITING_SOURCE_OUTCOME", "AWARDED"}
States == {"ACTIVE", "WAITING_SOURCE_OUTCOME", "FOLLOW_UP_AWARDED", "CLOSED", "ARCHIVED",
           "STALE_SOURCE", "SUPPRESSED", "REVIEW_REQUIRED"}

Persists ==
    [at : {"idle"}] \cup [at : {"supersede", "upsert"}, proc : Procs, todo : Seq(Keys), out : SUBSET Keys]

Opps == UNION {[D -> [state : States, event : Happened, key : Keys]] : D \in SUBSET Nat}
Seen == UNION {[P -> Happened] : P \in SUBSET Procs}
Writes == [id : Nat, event : Happened, state : States]
Moved == [id : Nat, from : States \X Happened, to : States \X Happened]

Rests == [at : {"idle"}, fresh : BOOLEAN]
Reads == [at : {"source"}, fresh : BOOLEAN, opps : Opps]
Computes == [at : {"audit"}, fresh : BOOLEAN, opps : Opps, seen : Seen]
Updates == [at : {"write"}, fresh : BOOLEAN, writes : SUBSET Writes, log : SUBSET Moved]
Logs == [at : {"log"}, fresh : BOOLEAN, log : SUBSET Moved]
Syncs == Rests \cup Reads \cup Computes \cup Updates \cup Logs

(* Types of the variables as a whole. *)
Typed ==
    /\ rows \in Seq(Row)
    /\ source \in [Procs -> Phases]
    /\ expert \subseteq Procs /\ budget \in 0..Budget
    /\ persist \in Persists
    /\ sync \in [Syncers -> Syncs]
    /\ reev \in Seq([key : Keys, medal : Medals])
    /\ audit \in Seq(Moved)

(* A persist writes what it has left within the bound, and for its own      *)
(* procurement.                                                             *)
PersistHolds ==
    /\ Len(rows) <= MaxRows
    /\ persist.at # "idle" =>
          /\ Len(rows) + Len(persist.todo) <= MaxRows
          /\ \A k \in Range(persist.todo) : k.proc = persist.proc
    /\ persist.at = "upsert" => persist.todo # <<>>

(* What a sync has in hand is about rows that exist. *)
InHand(s) ==
    /\ sync[s].at \in {"source", "audit"} =>
          /\ DOMAIN sync[s].opps # {} /\ DOMAIN sync[s].opps \subseteq Ids
          /\ \A i \in DOMAIN sync[s].opps : sync[s].opps[i].key = rows[i].key
    /\ sync[s].at = "audit" =>
          DOMAIN sync[s].seen = {sync[s].opps[i].key.proc : i \in DOMAIN sync[s].opps}
    /\ sync[s].at = "write" => sync[s].writes # {} /\ \A w \in sync[s].writes : w.id \in Ids
    /\ sync[s].at \in {"write", "log"} => \A t \in sync[s].log : t.id \in Ids
    /\ sync[s].at = "log" => sync[s].log # {}

Basics ==
    /\ Typed
    /\ PersistHolds
    /\ \A s \in Syncers : InHand(s)
    /\ \A t \in Range(audit) : t.id \in Ids

-----------------------------------------------------------------------------
(* Sequences.                                                              *)

LEMMA SeqOfFunction ==
    ASSUME NEW S, NEW n \in Nat, NEW f \in [1..n -> S]
    PROVE  f \in Seq(S) /\ Len(f) = n /\ DOMAIN f = 1..n
  <1>1. f \in Seq(S)
    BY SeqDef
  <1> QED BY <1>1, LenProperties

LEMMA IdsAreNumbers ==
    ASSUME Typed
    PROVE  /\ Len(rows) \in Nat /\ Ids = 1..Len(rows) /\ Ids \subseteq Nat
           /\ \A i \in Ids : rows[i] \in Row
  BY LenProperties, ElementOfSeq DEF Typed, Ids

LEMMA SplitSeq ==
    ASSUME NEW S, NEW q \in Seq(S), q # <<>>
    PROVE  /\ Head(q) \in S /\ Head(q) \in Range(q) /\ Tail(q) \in Seq(S)
           /\ Len(Tail(q)) = Len(q) - 1 /\ Len(q) \in Nat \ {0}
           /\ Range(q) = {Head(q)} \cup Range(Tail(q))
  <1>1. /\ Head(q) \in S /\ Tail(q) \in Seq(S) /\ Len(Tail(q)) = Len(q) - 1
        /\ \A i \in 1..Len(Tail(q)) : Tail(q)[i] = q[i + 1]
    BY HeadTailProperties
  <1>2. Len(q) \in Nat \ {0} /\ DOMAIN q = 1..Len(q) /\ DOMAIN Tail(q) = 1..Len(Tail(q)) /\ Head(q) = q[1]
    BY <1>1, EmptySeq, LenProperties
  <1>3. ASSUME NEW i \in 1..Len(q) PROVE q[i] \in {Head(q)} \cup Range(Tail(q))
    <2>1. CASE i = 1
      BY <1>2, <2>1
    <2>2. CASE i # 1
      <3>1. i - 1 \in 1..Len(Tail(q)) /\ q[i] = Tail(q)[i - 1]
        BY <1>1, <1>2, <2>2
      <3> QED BY <1>2, <3>1 DEF Range
    <2> QED BY <2>1, <2>2
  <1>4. ASSUME NEW i \in 1..Len(Tail(q)) PROVE Tail(q)[i] \in Range(q)
    <2>1. i + 1 \in DOMAIN q /\ Tail(q)[i] = q[i + 1]
      BY <1>1, <1>2
    <2> QED BY <2>1 DEF Range
  <1>5. Head(q) \in Range(q)
    <2>1. 1 \in DOMAIN q
      BY <1>2
    <2> QED BY <1>2, <2>1 DEF Range
  <1> QED BY <1>1, <1>2, <1>3, <1>4, <1>5 DEF Range

LEMMA LongerSeq ==
    ASSUME NEW S, NEW q \in Seq(S), NEW e \in S
    PROVE  /\ Append(q, e) \in Seq(S) /\ Len(Append(q, e)) = Len(q) + 1
           /\ DOMAIN Append(q, e) = DOMAIN q \cup {Len(q) + 1} /\ Len(q) + 1 \notin DOMAIN q
           /\ Append(q, e)[Len(q) + 1] = e
           /\ \A i \in DOMAIN q : Append(q, e)[i] = q[i]
           /\ Range(Append(q, e)) = Range(q) \cup {e}
  <1> DEFINE a == Append(q, e)
  <1>1. /\ a \in Seq(S) /\ Len(a) = Len(q) + 1 /\ a[Len(q) + 1] = e
        /\ \A i \in 1..Len(q) : a[i] = q[i]
    BY AppendProperties
  <1>2. DOMAIN q = 1..Len(q) /\ DOMAIN a = 1..Len(a) /\ Len(q) \in Nat
    BY <1>1, LenProperties
  <1> HIDE DEF a
  <1>3. DOMAIN a = DOMAIN q \cup {Len(q) + 1} /\ Len(q) + 1 \notin DOMAIN q
    BY <1>1, <1>2
  <1>4. Range(a) = Range(q) \cup {e}
    BY <1>1, <1>2, <1>3 DEF Range
  <1> QED BY <1>1, <1>2, <1>3, <1>4 DEF a


-----------------------------------------------------------------------------
(* What each writer does to the table.                                     *)

(* The same rows, with what a writer may not touch. *)
Rewrites ==
    /\ rows' \in Seq(Row) /\ Ids' = Ids /\ Len(rows') = Len(rows)
    /\ \A i \in Ids : rows'[i].key = rows[i].key /\ rows'[i].initial = rows[i].initial

LEMMA RowByRow ==
    ASSUME Typed, rows' \in [Ids -> Row] PROVE rows' \in Seq(Row) /\ Ids' = Ids /\ Len(rows') = Len(rows)
  <1>1. Len(rows) \in Nat /\ Ids = 1..Len(rows)
    BY IdsAreNumbers
  <1> QED BY <1>1, SeqOfFunction DEF Ids

LEMMA NoRowWritten == ASSUME Typed, UNCHANGED rows PROVE Rewrites
  BY DEF Typed, Rewrites, Ids

LEMMA SupersedeRows ==
    ASSUME Typed, Supersede
    PROVE  /\ Rewrites
           /\ \A i \in Ids :
                 /\ rows'[i].status = IF rows[i].key.proc = persist.proc THEN "SUPERSEDED" ELSE rows[i].status
                 /\ rows'[i].state = rows[i].state /\ rows'[i].event = rows[i].event
  <1>1. rows' = [i \in Ids |->
                   IF i \in RowsOf(persist.proc) THEN [rows[i] EXCEPT !.status = "SUPERSEDED"] ELSE rows[i]]
    BY DEF Supersede, Ids
  <1>2. ASSUME NEW i \in Ids
        PROVE  /\ rows[i] \in Row /\ [rows[i] EXCEPT !.status = "SUPERSEDED"] \in Row
               /\ rows'[i].key = rows[i].key /\ rows'[i].initial = rows[i].initial
               /\ rows'[i].status = IF rows[i].key.proc = persist.proc THEN "SUPERSEDED" ELSE rows[i].status
               /\ rows'[i].state = rows[i].state /\ rows'[i].event = rows[i].event
    <2>1. rows[i] \in Row
      BY IdsAreNumbers
    <2>2. rows'[i] = IF rows[i].key.proc = persist.proc THEN [rows[i] EXCEPT !.status = "SUPERSEDED"] ELSE rows[i]
      BY <1>1 DEF RowsOf, Ids
    <2> QED BY <2>1, <2>2 DEF Row
  <1>3. rows' \in [Ids -> Row]
    BY <1>1, <1>2
  <1> QED BY <1>2, <1>3, RowByRow DEF Rewrites

LEMMA UpsertRows ==
    ASSUME Typed, NEW k \in Keys, NEW m \in Medals, rows' = Upserted(k, m)
    PROVE  \/ /\ Rewrites
              /\ \E i \in Ids : Conflict(i, k)
              /\ \A i \in Ids :
                    /\ rows'[i].status = IF Conflict(i, k) THEN "CURRENT" ELSE rows[i].status
                    /\ rows'[i].state = rows[i].state /\ rows'[i].event = rows[i].event
           \/ /\ \A i \in Ids : ~Conflict(i, k)
              /\ NewRow(k, m) \in Row /\ rows' = Append(rows, NewRow(k, m))
  <1>1. CASE \E i \in Ids : Conflict(i, k)
    <2>1. rows' = [i \in Ids |->
             IF Conflict(i, k) THEN [rows[i] EXCEPT !.status = "CURRENT", !.medal = m] ELSE rows[i]]
      BY <1>1 DEF Upserted, Ids
    <2>2. ASSUME NEW i \in Ids
          PROVE  /\ rows[i] \in Row /\ [rows[i] EXCEPT !.status = "CURRENT", !.medal = m] \in Row
                 /\ rows'[i].key = rows[i].key /\ rows'[i].initial = rows[i].initial
                 /\ rows'[i].status = IF Conflict(i, k) THEN "CURRENT" ELSE rows[i].status
                 /\ rows'[i].state = rows[i].state /\ rows'[i].event = rows[i].event
      <3>1. rows[i] \in Row
        BY IdsAreNumbers
      <3>2. rows'[i] = IF Conflict(i, k) THEN [rows[i] EXCEPT !.status = "CURRENT", !.medal = m] ELSE rows[i]
        BY <2>1
      <3> QED BY <3>1, <3>2 DEF Row
    <2>3. rows' \in [Ids -> Row]
      BY <2>1, <2>2
    <2> QED BY <1>1, <2>2, <2>3, RowByRow DEF Rewrites
  <1>2. CASE ~ \E i \in Ids : Conflict(i, k)
    <2>1. NewRow(k, m) \in Row
      BY DEF NewRow, Row
    <2> QED BY <1>2, <2>1 DEF Upserted, Ids
  <1> QED BY <1>1, <1>2

LEMMA WriteRows ==
    ASSUME Typed, NEW i \in Ids, NEW w \in Writes,
           rows' = [rows EXCEPT ![i].state = w.state, ![i].event = w.event]
    PROVE  /\ Rewrites
           /\ rows'[i].state = w.state /\ rows'[i].event = w.event
           /\ \A j \in Ids :
                 /\ rows'[j].status = rows[j].status
                 /\ j # i => rows'[j] = rows[j]
  <1> DEFINE r == [rows[i] EXCEPT !.state = w.state, !.event = w.event]
  <1>1. rows[i] \in Row /\ rows \in [Ids -> Row]
    BY IdsAreNumbers, LenProperties DEF Typed
  <1>2. rows' = [rows EXCEPT ![i] = r]
    BY <1>1
  <1>3. w.state \in States /\ w.event \in Happened
    BY DEF Writes
  <1>4. /\ r \in Row /\ r.state = w.state /\ r.event = w.event /\ r.status = rows[i].status
        /\ r.key = rows[i].key /\ r.initial = rows[i].initial
    BY <1>1, <1>3 DEF Row, States, Happened
  <1> HIDE DEF r
  <1>5. rows' \in [Ids -> Row]
    BY <1>1, <1>2, <1>4
  <1> QED BY <1>1, <1>2, <1>4, <1>5, RowByRow DEF Rewrites

LEMMA ReevaluateRows ==
    ASSUME Typed, ReevaluateWrite
    PROVE  /\ Rewrites
           /\ \A i \in Ids :
                 /\ rows'[i].status = rows[i].status
                 /\ rows'[i].state = rows[i].state /\ rows'[i].event = rows[i].event
  <1>1. reev # <<>> /\ Head(reev).medal \in Medals
    <2>1. Head(reev) \in [key : Keys, medal : Medals]
      BY SplitSeq DEF Typed, ReevaluateWrite
    <2> QED BY <2>1 DEF ReevaluateWrite
  <1> DEFINE m == Head(reev).medal
  <1>2. rows' = [i \in Ids |-> IF Current(i) /\ SameLine(rows[i].key, Head(reev).key)
                               THEN [rows[i] EXCEPT !.medal = m] ELSE rows[i]]
    BY DEF ReevaluateWrite, Ids
  <1>3. ASSUME NEW i \in Ids
        PROVE  /\ rows'[i] \in Row
               /\ rows'[i].key = rows[i].key /\ rows'[i].initial = rows[i].initial
               /\ rows'[i].status = rows[i].status
               /\ rows'[i].state = rows[i].state /\ rows'[i].event = rows[i].event
    <2>1. rows[i] \in Row /\ m \in Medals
      BY <1>1, IdsAreNumbers
    <2>2. rows'[i] = rows[i] \/ rows'[i] = [rows[i] EXCEPT !.medal = m]
      BY <1>2
    <2> HIDE DEF m
    <2> QED BY <2>1, <2>2 DEF Row
  <1>4. rows' \in [Ids -> Row]
    BY <1>2, <1>3
  <1> QED BY <1>3, <1>4, RowByRow DEF Rewrites

-----------------------------------------------------------------------------
(* Where a process stands says what it has in hand.                        *)

LEMMA SyncPhases ==
    ASSUME Typed, NEW s \in Syncers
    PROVE  /\ sync[s].at = "idle" => sync[s] \in Rests
           /\ sync[s].at = "source" => sync[s] \in Reads
           /\ sync[s].at = "audit" => sync[s] \in Computes
           /\ sync[s].at = "write" => sync[s] \in Updates
           /\ sync[s].at = "log" => sync[s] \in Logs
           /\ sync[s].at \in {"idle", "source", "audit", "write", "log"}
           /\ sync[s].fresh \in BOOLEAN
  <1>1. sync[s] \in Syncs
    BY DEF Typed
  <1>2. /\ sync[s].at = "idle" => sync[s] \in Rests
        /\ sync[s].at = "source" => sync[s] \in Reads
        /\ sync[s].at = "audit" => sync[s] \in Computes
        /\ sync[s].at = "write" => sync[s] \in Updates
        /\ sync[s].at = "log" => sync[s] \in Logs
        /\ sync[s].at \in {"idle", "source", "audit", "write", "log"}
    BY <1>1 DEF Syncs, Rests, Reads, Computes, Updates, Logs
  <1>3. CASE sync[s] \in Rests
    BY <1>2, <1>3 DEF Rests
  <1>4. CASE sync[s] \in Reads
    BY <1>2, <1>4 DEF Reads
  <1>5. CASE sync[s] \in Computes
    BY <1>2, <1>5 DEF Computes
  <1>6. CASE sync[s] \in Updates
    BY <1>2, <1>6 DEF Updates
  <1>7. CASE sync[s] \in Logs
    BY <1>2, <1>7 DEF Logs
  <1> QED BY <1>1, <1>3, <1>4, <1>5, <1>6, <1>7 DEF Syncs

LEMMA PersistPhases ==
    ASSUME Typed
    PROVE  /\ persist.at \in {"idle", "supersede", "upsert"}
           /\ persist.at # "idle" =>
                 persist \in [at : {"supersede", "upsert"}, proc : Procs, todo : Seq(Keys), out : SUBSET Keys]
  BY DEF Typed, Persists

(* What a sync that does not act keeps of what it has in hand. *)
Keeps(x, m) ==
    /\ m \in Syncs /\ m.at = x.at
    /\ m.fresh => x.fresh
    /\ x.at \in {"source", "audit"} => m.opps = x.opps
    /\ x.at = "audit" => m.seen = x.seen
    /\ x.at = "write" => m.writes = x.writes
    /\ x.at \in {"write", "log"} => m.log = x.log

LEMMA KeepsAll == ASSUME NEW x \in Syncs PROVE Keeps(x, x)
  BY DEF Keeps

LEMMA Misses ==
    ASSUME NEW x \in Syncs, NEW m, m = [x EXCEPT !.fresh = FALSE] PROVE Keeps(x, m) /\ m.fresh = FALSE
  <1>1. CASE x \in Rests
    <2>1. m \in Rests
      BY <1>1 DEF Rests
    <2> QED BY <1>1, <2>1 DEF Rests, Keeps, Syncs
  <1>2. CASE x \in Reads
    <2>1. m \in Reads
      BY <1>2 DEF Reads
    <2> QED BY <1>2, <2>1 DEF Reads, Keeps, Syncs
  <1>3. CASE x \in Computes
    <2>1. m \in Computes
      BY <1>3 DEF Computes
    <2> QED BY <1>3, <2>1 DEF Computes, Keeps, Syncs
  <1>4. CASE x \in Updates
    <2>1. m \in Updates
      BY <1>4 DEF Updates
    <2> QED BY <1>4, <2>1 DEF Updates, Keeps, Syncs
  <1>5. CASE x \in Logs
    <2>1. m \in Logs
      BY <1>5 DEF Logs
    <2> QED BY <1>5, <2>1 DEF Logs, Keeps, Syncs
  <1> QED BY <1>1, <1>2, <1>3, <1>4, <1>5 DEF Syncs

-----------------------------------------------------------------------------
(* The steps of a sync.                                                    *)

LEMMA OpportunitiesStep ==
    ASSUME Typed, NEW s \in Syncers, SyncOpportunities(s)
    PROVE  /\ sync[s].at = "idle" /\ sync' = [sync EXCEPT ![s] = sync'[s]]
           /\ sync'[s] \in Reads /\ DOMAIN sync'[s].opps = ToSync /\ ToSync # {}
           /\ \A i \in ToSync : sync'[s].opps[i].key = rows[i].key
           /\ UNCHANGED <<rows, source, audit>>
  <1> DEFINE o == [i \in ToSync |-> [state |-> rows[i].state, event |-> rows[i].event, key |-> rows[i].key]]
             m == [at |-> "source", fresh |-> TRUE, opps |-> o]
  <1>1. sync' = [sync EXCEPT ![s] = m]
    BY DEF SyncOpportunities
  <1>2. ToSync \subseteq Ids /\ ToSync \subseteq Nat
    BY IdsAreNumbers DEF ToSync, Ids
  <1>3. o \in [ToSync -> [state : States, event : Happened, key : Keys]]
    <2>1. ASSUME NEW i \in ToSync
          PROVE  rows[i].state \in States /\ rows[i].event \in Happened /\ rows[i].key \in Keys
      BY <1>2, IdsAreNumbers DEF Row, States, Happened
    <2> QED BY <2>1
  <1>4. o \in Opps
    BY <1>2, <1>3 DEF Opps
  <1>5. DOMAIN o = ToSync /\ \A i \in ToSync : o[i].key = rows[i].key
    OBVIOUS
  <1> HIDE DEF o
  <1>6. m \in Reads /\ m.opps = o
    BY <1>4 DEF Reads
  <1>7. sync'[s] = m
    BY <1>1 DEF Typed
  <1>8. sync[s].at = "idle" /\ ToSync # {} /\ UNCHANGED <<rows, source, audit>>
    BY DEF SyncOpportunities
  <1> HIDE DEF m
  <1> QED BY <1>1, <1>5, <1>6, <1>7, <1>8

LEMMA SourceStep ==
    ASSUME Basics, NEW s \in Syncers, SyncSource(s)
    PROVE  /\ sync[s].at = "source" /\ sync' = [sync EXCEPT ![s] = sync'[s]]
           /\ sync'[s] \in Computes /\ sync'[s].opps = sync[s].opps /\ sync'[s].fresh = sync[s].fresh
           /\ DOMAIN sync'[s].seen = {sync[s].opps[i].key.proc : i \in DOMAIN sync[s].opps}
           /\ \A p \in DOMAIN sync'[s].seen : sync'[s].seen[p] = SyncEvent(source[p])
           /\ UNCHANGED <<rows, source, audit>>
  <1> DEFINE o == sync[s].opps
             P == {o[i].key.proc : i \in DOMAIN o}
             v == [p \in P |-> SyncEvent(source[p])]
             m == [at |-> "audit", fresh |-> sync[s].fresh, opps |-> o, seen |-> v]
  <1>0. sync[s].at = "source" /\ sync[s] \in Reads /\ Typed
    BY SyncPhases DEF SyncSource, Basics
  <1>1. sync' = [sync EXCEPT ![s] = m]
    BY DEF SyncSource
  <1>2. o \in Opps /\ sync[s].fresh \in BOOLEAN
    BY <1>0, SyncPhases DEF Reads
  <1>3. P \subseteq Procs
    <2>1. ASSUME NEW i \in DOMAIN o PROVE o[i].key \in Keys
      BY <1>2 DEF Opps
    <2> QED BY <2>1, StoreAssumption
  <1>4. \A p \in P : SyncEvent(source[p]) \in Happened
    <2>1. ASSUME NEW stage \in Phases PROVE SyncEvent(stage) \in Happened
      BY DEF Phases, SyncEvent, CanonicalEvent, Happened
    <2>2. \A p \in P : source[p] \in Phases
      BY <1>0, <1>3 DEF Typed
    <2> QED BY <2>1, <2>2
  <1>5. v \in Seen /\ DOMAIN v = P /\ \A p \in P : v[p] = SyncEvent(source[p])
    <2> HIDE DEF P
    <2>1. v \in [P -> Happened]
      BY <1>4
    <2> QED BY <1>3, <2>1 DEF Seen
  <1> HIDE DEF v, P, o
  <1>6. m \in Computes /\ m.opps = o /\ m.seen = v /\ m.fresh = sync[s].fresh
    BY <1>2, <1>5 DEF Computes
  <1>7. sync'[s] = m
    BY <1>0, <1>1 DEF Typed
  <1>8. UNCHANGED <<rows, source, audit>>
    BY DEF SyncSource
  <1> HIDE DEF m
  <1> QED BY <1>0, <1>1, <1>5, <1>6, <1>7, <1>8 DEF o, P

LEMMA DecisionType == ASSUME NEW k, NEW event PROVE Decision(k, event) \in States
  BY DEF Decision, States

LEMMA WriteType ==
    ASSUME Basics, NEW s \in Syncers, sync[s].at = "audit", NEW D, NEW i \in DOMAIN sync[s].opps
    PROVE  /\ Write(s, D, i) \in Writes /\ Write(s, D, i).id = i /\ i \in Ids
           /\ Transition(s, Write(s, D, i)) \in Moved /\ Transition(s, Write(s, D, i)).id = i
  <1> DEFINE w == Write(s, D, i)
             k == sync[s].opps[i].key
             e == sync[s].seen[k.proc]
             d == IF k.proc \in D THEN Decision(k, e) ELSE "STALE_SOURCE"
  <1>1. sync[s] \in Computes /\ InHand(s) /\ Typed
    BY SyncPhases DEF Basics
  <1>2. sync[s].opps \in Opps /\ sync[s].seen \in Seen
    BY <1>1 DEF Computes
  <1>3. i \in Ids /\ i \in Nat /\ k.proc \in DOMAIN sync[s].seen
    BY <1>1, IdsAreNumbers DEF InHand
  <1>4. e \in Happened
    BY <1>2, <1>3 DEF Seen
  <1>5. d \in States
    BY DecisionType DEF States
  <1>6. w = [id |-> i, event |-> e, state |-> d]
    BY DEF Write
  <1>7. sync[s].opps[i].state \in States /\ sync[s].opps[i].event \in Happened
    BY <1>2 DEF Opps
  <1> HIDE DEF w, k, e, d
  <1>8. w \in Writes /\ w.id = i /\ w.state \in States /\ w.event \in Happened
    BY <1>3, <1>4, <1>5, <1>6 DEF Writes
  <1>9. Transition(s, w) \in Moved /\ Transition(s, w).id = i
    <2> DEFINE f == <<sync[s].opps[i].state, sync[s].opps[i].event>>
               g == <<w.state, w.event>>
    <2>1. Transition(s, w) = [id |-> i, from |-> f, to |-> g]
      BY <1>8 DEF Transition
    <2>2. f \in States \X Happened /\ g \in States \X Happened
      BY <1>7, <1>8
    <2> HIDE DEF f, g
    <2> QED BY <1>3, <2>1, <2>2 DEF Moved
  <1> QED BY <1>3, <1>8, <1>9 DEF w

LEMMA AuditStep ==
    ASSUME Basics, NEW s \in Syncers, SyncAudit(s)
    PROVE  /\ sync[s].at = "audit" /\ sync' = [sync EXCEPT ![s] = sync'[s]]
           /\ sync'[s] \in Updates /\ sync'[s].fresh = sync[s].fresh
           /\ \E D \in Dominants(sync[s].seen) :
                 sync'[s].writes = {Write(s, D, i) : i \in DOMAIN sync[s].opps}
           /\ sync'[s].writes # {} /\ \A w \in sync'[s].writes : w.id \in Ids
           /\ \A t \in sync'[s].log : t.id \in Ids /\ t \notin Range(audit)
           /\ UNCHANGED <<rows, source, audit>>
  <1>0. sync[s].at = "audit" /\ Typed /\ InHand(s) /\ sync[s].fresh \in BOOLEAN
    BY SyncPhases DEF SyncAudit, Basics
  <1>1. PICK D \in Dominants(sync[s].seen) :
          LET writes == {Write(s, D, i) : i \in DOMAIN sync[s].opps}
          IN sync' = [sync EXCEPT ![s] =
                         [at |-> "write", fresh |-> sync[s].fresh, writes |-> writes,
                          log |-> {t \in {Transition(s, w) : w \in writes} : Logged(t)}]]
    BY DEF SyncAudit
  <1> DEFINE W == {Write(s, D, i) : i \in DOMAIN sync[s].opps}
             L == {t \in {Transition(s, w) : w \in W} : Logged(t)}
             m == [at |-> "write", fresh |-> sync[s].fresh, writes |-> W, log |-> L]
  <1>2. sync' = [sync EXCEPT ![s] = m]
    BY <1>1
  <1>3. W \in SUBSET Writes /\ W # {} /\ \A w \in W : w.id \in Ids
    <2>1. \A i \in DOMAIN sync[s].opps : Write(s, D, i) \in Writes /\ Write(s, D, i).id \in Ids
      BY <1>0, WriteType
    <2>2. DOMAIN sync[s].opps # {}
      BY <1>0 DEF InHand
    <2> QED BY <2>1, <2>2
  <1>4. L \in SUBSET Moved /\ \A t \in L : t.id \in Ids /\ t \notin Range(audit)
    <2> SUFFICES ASSUME NEW t \in L PROVE t \in Moved /\ t.id \in Ids /\ t \notin Range(audit)
      OBVIOUS
    <2>1. PICK i \in DOMAIN sync[s].opps : t = Transition(s, Write(s, D, i))
      OBVIOUS
    <2>2. t \notin Range(audit)
      BY DEF Logged
    <2> HIDE DEF L
    <2> QED BY <1>0, <2>1, <2>2, WriteType
  <1>5. \E X \in Dominants(sync[s].seen) : W = {Write(s, X, i) : i \in DOMAIN sync[s].opps}
    BY <1>1
  <1> HIDE DEF W, L
  <1>6. m \in Updates /\ m.writes = W /\ m.log = L /\ m.fresh = sync[s].fresh
    BY <1>0, <1>3, <1>4 DEF Updates
  <1>7. sync'[s] = m
    BY <1>0, <1>2 DEF Typed
  <1>8. UNCHANGED <<rows, source, audit>>
    BY DEF SyncAudit
  <1> HIDE DEF m
  <1> QED BY <1>0, <1>2, <1>3, <1>4, <1>5, <1>6, <1>7, <1>8

LEMMA WriteStep ==
    ASSUME Basics, NEW s \in Syncers, SyncWrite(s)
    PROVE  /\ sync[s].at = "write" /\ UNCHANGED <<source, audit>>
           /\ \A r \in Syncers \ {s} : sync'[r] = [sync[r] EXCEPT !.fresh = FALSE]
           /\ DOMAIN sync' = Syncers
           /\ sync'[s].fresh = sync[s].fresh
           /\ \E w \in sync[s].writes :
                 /\ w \in Writes /\ w.id \in Ids
                 /\ rows' = [rows EXCEPT ![w.id].state = w.state, ![w.id].event = w.event]
                 /\ \/ /\ sync'[s] \in Updates /\ sync'[s].log = sync[s].log
                       /\ sync'[s].writes = sync[s].writes \ {w} /\ sync'[s].writes # {}
                    \/ /\ sync'[s] \in Rests /\ sync[s].writes \ {w} = {}
                    \/ /\ sync'[s] \in Logs /\ sync[s].writes \ {w} = {}
                       /\ sync'[s].log = sync[s].log /\ sync[s].log # {}
  <1>0. sync[s].at = "write" /\ sync[s] \in Updates /\ Typed /\ InHand(s) /\ sync[s].fresh \in BOOLEAN
    BY SyncPhases DEF SyncWrite, Basics
  <1>1. PICK w \in sync[s].writes :
          LET left == sync[s].writes \ {w} IN
          /\ rows' = [rows EXCEPT ![w.id].state = w.state, ![w.id].event = w.event]
          /\ sync' = [r \in Syncers |->
                IF r # s THEN [sync[r] EXCEPT !.fresh = FALSE]
                ELSE IF left # {} THEN [sync[s] EXCEPT !.writes = left] ELSE AfterWrites(s)]
    BY DEF SyncWrite
  <1> DEFINE left == sync[s].writes \ {w}
  <1>2. w \in Writes /\ w.id \in Ids /\ sync[s].writes \in SUBSET Writes /\ sync[s].log \in SUBSET Moved
    BY <1>0 DEF Updates, InHand
  <1>3. CASE left # {}
    <2>1. sync'[s] = [sync[s] EXCEPT !.writes = left]
      BY <1>1, <1>3
    <2>2. left \in SUBSET Writes
      BY <1>2
    <2> HIDE DEF left
    <2>3. sync'[s] \in Updates /\ sync'[s].log = sync[s].log /\ sync'[s].writes = left /\ sync'[s].fresh = sync[s].fresh
      BY <1>0, <2>1, <2>2 DEF Updates
    <2> QED BY <1>0, <1>1, <1>2, <1>3, <2>3 DEF SyncWrite, left
  <1>4. CASE left = {} /\ sync[s].log = {}
    <2>1. sync'[s] = [at |-> "idle", fresh |-> sync[s].fresh]
      BY <1>1, <1>4 DEF AfterWrites, NoSync
    <2>2. sync'[s] \in Rests /\ sync'[s].fresh = sync[s].fresh
      BY <1>0, <2>1 DEF Rests
    <2> QED BY <1>0, <1>1, <1>2, <1>4, <2>2 DEF SyncWrite
  <1>5. CASE left = {} /\ sync[s].log # {}
    <2>1. sync'[s] = [at |-> "log", fresh |-> sync[s].fresh, log |-> sync[s].log]
      BY <1>1, <1>5 DEF AfterWrites
    <2>2. sync'[s] \in Logs /\ sync'[s].fresh = sync[s].fresh /\ sync'[s].log = sync[s].log
      BY <1>0, <1>2, <2>1 DEF Logs
    <2> QED BY <1>0, <1>1, <1>2, <1>5, <2>2 DEF SyncWrite
  <1> QED BY <1>3, <1>4, <1>5

LEMMA LogStep ==
    ASSUME Basics, NEW s \in Syncers, SyncLog(s)
    PROVE  /\ sync[s].at = "log" /\ sync' = [sync EXCEPT ![s] = sync'[s]]
           /\ sync'[s].fresh = sync[s].fresh
           /\ UNCHANGED <<rows, source>>
           /\ \E t \in sync[s].log :
                 /\ t \in Moved /\ t.id \in Ids /\ audit' = Append(audit, t)
                 /\ \/ sync'[s] \in Rests
                    \/ sync'[s] \in Logs /\ sync'[s].log = sync[s].log \ {t} /\ sync'[s].log # {}
  <1>0. sync[s].at = "log" /\ sync[s] \in Logs /\ Typed /\ InHand(s) /\ sync[s].fresh \in BOOLEAN
    BY SyncPhases DEF SyncLog, Basics
  <1>1. PICK t \in sync[s].log :
          LET left == sync[s].log \ {t} IN
          /\ audit' = Append(audit, t)
          /\ sync' = [sync EXCEPT ![s] =
                IF left = {} THEN NoSync(sync[s].fresh) ELSE [sync[s] EXCEPT !.log = left]]
    BY DEF SyncLog
  <1> DEFINE left == sync[s].log \ {t}
             m == IF left = {} THEN NoSync(sync[s].fresh) ELSE [sync[s] EXCEPT !.log = left]
  <1>2. t \in Moved /\ t.id \in Ids /\ left \in SUBSET Moved
    BY <1>0 DEF Logs, InHand
  <1>3. sync' = [sync EXCEPT ![s] = m] /\ sync'[s] = m
    BY <1>0, <1>1 DEF Typed
  <1>4. /\ m.fresh = sync[s].fresh
        /\ m \in Rests \/ (m \in Logs /\ m.log = left /\ left # {})
    <2> HIDE DEF left
    <2>1. CASE left = {}
      BY <1>0, <2>1 DEF NoSync, Rests
    <2>2. CASE left # {}
      BY <1>0, <1>2, <2>2 DEF Logs
    <2> QED BY <2>1, <2>2
  <1>5. UNCHANGED <<rows, source>>
    BY DEF SyncLog
  <1> HIDE DEF m
  <1> QED BY <1>0, <1>1, <1>2, <1>3, <1>4, <1>5

-----------------------------------------------------------------------------
(* Steps seen from the table and from a sync that does not act.            *)

LEMMA UpsertHead ==
    ASSUME Basics, Upsert
    PROVE  /\ persist.at = "upsert" /\ persist.todo \in Seq(Keys) /\ persist.todo # <<>>
           /\ persist.proc \in Procs /\ persist.out \in SUBSET Keys
           /\ Head(persist.todo) \in Keys /\ Head(persist.todo).proc = persist.proc
  <1>1. persist.at = "upsert" /\ persist.todo # <<>>
        /\ persist \in [at : {"supersede", "upsert"}, proc : Procs, todo : Seq(Keys), out : SUBSET Keys]
    BY PersistPhases DEF Upsert, Basics, PersistHolds
  <1>2. persist.todo \in Seq(Keys) /\ persist.proc \in Procs /\ persist.out \in SUBSET Keys
    BY <1>1
  <1>3. Head(persist.todo) \in Keys /\ Head(persist.todo) \in Range(persist.todo)
    BY <1>1, <1>2, SplitSeq
  <1> QED BY <1>1, <1>2, <1>3 DEF Basics, PersistHolds

LEMMA UpsertGrows ==
    ASSUME Basics, Upsert
    PROVE  \E m \in Medals :
              LET k == Head(persist.todo) IN
              \/ /\ Rewrites
                 /\ \E i \in Ids : Conflict(i, k)
                 /\ \A i \in Ids :
                       /\ rows'[i].status = IF Conflict(i, k) THEN "CURRENT" ELSE rows[i].status
                       /\ rows'[i].state = rows[i].state /\ rows'[i].event = rows[i].event
              \/ /\ \A i \in Ids : ~Conflict(i, k)
                 /\ rows' \in Seq(Row) /\ Len(rows') = Len(rows) + 1
                 /\ Ids' = Ids \cup {Len(rows) + 1} /\ Len(rows) + 1 \notin Ids
                 /\ rows'[Len(rows) + 1] = NewRow(k, m)
                 /\ \A i \in Ids : rows'[i] = rows[i]
  <1>1. PICK m \in Medals : rows' = Upserted(Head(persist.todo), m)
    BY DEF Upsert
  <1> DEFINE k == Head(persist.todo)
  <1>2. k \in Keys /\ Typed
    BY UpsertHead DEF Basics
  <1> HIDE DEF k
  <1>3. rows' = Upserted(k, m)
    BY <1>1 DEF k
  <1>4. CASE NewRow(k, m) \in Row /\ rows' = Append(rows, NewRow(k, m)) /\ \A i \in Ids : ~Conflict(i, k)
    <2> DEFINE a == Append(rows, NewRow(k, m))
    <2>1. /\ a \in Seq(Row) /\ Len(a) = Len(rows) + 1
          /\ DOMAIN a = DOMAIN rows \cup {Len(rows) + 1} /\ Len(rows) + 1 \notin DOMAIN rows
          /\ a[Len(rows) + 1] = NewRow(k, m) /\ \A i \in DOMAIN rows : a[i] = rows[i]
      BY <1>2, <1>4, LongerSeq DEF Typed
    <2> HIDE DEF a
    <2>2. rows' = a
      BY <1>4 DEF a
    <2> QED BY <1>4, <2>1, <2>2 DEF Ids, k
  <1>5. CASE /\ Rewrites
             /\ \E i \in Ids : Conflict(i, k)
             /\ \A i \in Ids :
                   /\ rows'[i].status = IF Conflict(i, k) THEN "CURRENT" ELSE rows[i].status
                   /\ rows'[i].state = rows[i].state /\ rows'[i].event = rows[i].event
    BY <1>5 DEF k
  <1> QED BY <1>2, <1>3, <1>4, <1>5, UpsertRows

(* The table grows by an upsert only, and no step touches what a row is     *)
(* about or its first medal.                                                *)
LEMMA RowsKept ==
    ASSUME Basics, [Next]_vars
    PROVE  /\ Rewrites \/ (Upsert /\ Len(rows') = Len(rows) + 1)
           /\ rows' \in Seq(Row) /\ Ids \subseteq Ids'
           /\ \A i \in Ids : rows'[i].key = rows[i].key /\ rows'[i].initial = rows[i].initial
  <1>0. Typed
    BY DEF Basics
  <1>1. CASE UNCHANGED rows
    BY <1>0, <1>1, NoRowWritten DEF Rewrites
  <1>2. CASE Supersede
    BY <1>0, <1>2, SupersedeRows DEF Rewrites
  <1>3. CASE Upsert
    BY <1>0, <1>3, UpsertGrows DEF Rewrites
  <1>4. ASSUME NEW s \in Syncers, SyncWrite(s) PROVE Rewrites
    <2>1. PICK w \in sync[s].writes : w \in Writes /\ w.id \in Ids
             /\ rows' = [rows EXCEPT ![w.id].state = w.state, ![w.id].event = w.event]
      BY <1>4, WriteStep
    <2> QED BY <1>0, <2>1, WriteRows
  <1>5. CASE ReevaluateWrite
    BY <1>0, <1>5, ReevaluateRows DEF Rewrites
  <1>6. \/ UNCHANGED rows \/ Supersede \/ Upsert \/ ReevaluateWrite
        \/ \E s \in Syncers : SyncWrite(s)
    <2>1. CASE UNCHANGED vars
      BY <2>1 DEF vars
    <2>2. CASE Next
      BY <2>2 DEF Next, SourceMoves, SaveExpert, PersistStart, PersistDies, SyncStep, SyncDies,
         SyncOpportunities, SyncSource, SyncAudit, SyncLog, Reevaluate
    <2> QED BY <2>1, <2>2
  <1>7. Rewrites => /\ rows' \in Seq(Row) /\ Ids \subseteq Ids'
                    /\ \A i \in Ids : rows'[i].key = rows[i].key /\ rows'[i].initial = rows[i].initial
    BY DEF Rewrites
  <1> QED BY <1>1, <1>2, <1>3, <1>4, <1>5, <1>6, <1>7

Acts(s) == SyncStep(s) \/ SyncDies(s)

(* Nothing that a sync reads has changed. *)
Quiet ==
    /\ Rewrites /\ UNCHANGED source
    /\ \A i \in Ids :
          /\ rows'[i].status = rows[i].status
          /\ rows'[i].state = rows[i].state /\ rows'[i].event = rows[i].event

LEMMA OthersKeep ==
    ASSUME Basics, [Next]_vars, NEW s \in Syncers, ~Acts(s)
    PROVE  Keeps(sync[s], sync'[s]) /\ (sync'[s].fresh => Quiet)
  <1>0. Typed /\ sync[s] \in Syncs
    BY DEF Basics, Typed
  <1>1. CASE sync'[s] = [sync[s] EXCEPT !.fresh = FALSE]
    BY <1>0, <1>1, Misses
  <1>2. CASE sync'[s] = sync[s] /\ Quiet
    BY <1>0, <1>2, KeepsAll
  <1>3. UNCHANGED <<rows, source>> => Quiet
    BY <1>0, NoRowWritten DEF Quiet
  <1>4. CASE UNCHANGED vars
    BY <1>2, <1>3, <1>4 DEF vars
  <1>5. CASE (\E p \in Procs : SourceMoves(p)) \/ Supersede \/ Upsert
    BY <1>1, <1>5 DEF SourceMoves, Supersede, Upsert, Outdated
  <1>6. CASE (\E p \in Procs : SaveExpert(p) \/ PersistStart(p)) \/ PersistDies \/ Reevaluate
    BY <1>2, <1>3, <1>6 DEF SaveExpert, PersistStart, PersistDies, Reevaluate
  <1>7. CASE ReevaluateWrite
    <2>1. Quiet
      BY <1>0, <1>7, ReevaluateRows DEF Quiet, ReevaluateWrite
    <2> QED BY <1>2, <1>7, <2>1 DEF ReevaluateWrite
  <1>8. ASSUME NEW r \in Syncers \ {s}, SyncWrite(r) PROVE sync'[s] = [sync[s] EXCEPT !.fresh = FALSE]
    BY <1>8, WriteStep
  <1>9. ASSUME NEW r \in Syncers \ {s},
               SyncOpportunities(r) \/ SyncSource(r) \/ SyncAudit(r) \/ SyncLog(r) \/ SyncDies(r)
        PROVE  sync'[s] = sync[s] /\ UNCHANGED <<rows, source>>
    BY <1>0, <1>9 DEF SyncOpportunities, SyncSource, SyncAudit, SyncLog, SyncDies, Typed
  <1>10. CASE \E r \in Syncers \ {s} : Acts(r)
    BY <1>1, <1>2, <1>3, <1>8, <1>9, <1>10 DEF Acts, SyncStep
  <1>11. CASE Next
    <2>1. \/ (\E p \in Procs : SourceMoves(p)) \/ Supersede \/ Upsert
          \/ (\E p \in Procs : SaveExpert(p) \/ PersistStart(p)) \/ PersistDies \/ Reevaluate
          \/ ReevaluateWrite
          \/ \E r \in Syncers \ {s} : Acts(r)
      BY <1>11 DEF Next, Acts
    <2> QED BY <2>1, <1>5, <1>6, <1>7, <1>10
  <1> QED BY <1>4, <1>11

LEMMA DieStep ==
    ASSUME Typed, NEW s \in Syncers, SyncDies(s)
    PROVE  sync'[s] \in Rests /\ ~sync'[s].fresh /\ UNCHANGED <<rows, source, audit>>
  <1>1. sync'[s] = [at |-> "idle", fresh |-> FALSE]
    BY DEF SyncDies, Typed, NoSync
  <1>2. sync'[s] \in Rests /\ ~sync'[s].fresh
    BY <1>1 DEF Rests
  <1>3. UNCHANGED <<rows, source, audit>>
    BY DEF SyncDies
  <1> QED BY <1>2, <1>3

-----------------------------------------------------------------------------
(* Types, and what a process has in hand.                                  *)

LEMMA SyncTypeStep == ASSUME Basics, [Next]_vars PROVE sync' \in [Syncers -> Syncs]
  <1>0. Typed
    BY DEF Basics
  <1>1. ASSUME NEW s \in Syncers PROVE sync'[s] \in Syncs
    <2>1. CASE ~Acts(s)
      BY <2>1, OthersKeep DEF Keeps
    <2>2. CASE SyncOpportunities(s)
      BY <1>0, <2>2, OpportunitiesStep DEF Syncs
    <2>3. CASE SyncSource(s)
      BY <2>3, SourceStep DEF Syncs
    <2>4. CASE SyncAudit(s)
      BY <2>4, AuditStep DEF Syncs
    <2>5. CASE SyncWrite(s)
      BY <2>5, WriteStep DEF Syncs
    <2>6. CASE SyncLog(s)
      BY <2>6, LogStep DEF Syncs
    <2>7. CASE SyncDies(s)
      BY <1>0, <2>7, DieStep DEF Syncs
    <2> QED BY <2>1, <2>2, <2>3, <2>4, <2>5, <2>6, <2>7 DEF Acts, SyncStep
  <1>2. sync' = [s \in Syncers |-> sync'[s]]
    <2>1. CASE UNCHANGED sync
      BY <1>0, <2>1 DEF Typed
    <2>2. CASE Outdated(Syncers)
      BY <2>2 DEF Outdated
    <2>3. ASSUME NEW s \in Syncers, SyncOpportunities(s) \/ SyncSource(s) \/ SyncAudit(s) \/ SyncLog(s)
          PROVE  sync' = [t \in Syncers |-> sync'[t]]
      <3>1. sync' = [sync EXCEPT ![s] = sync'[s]]
        BY <1>0, <2>3, OpportunitiesStep, SourceStep, AuditStep, LogStep
      <3> QED BY <1>0, <3>1 DEF Typed
    <2>4. ASSUME NEW s \in Syncers, SyncWrite(s) PROVE sync' = [t \in Syncers |-> sync'[t]]
      <3>1. PICK w \in sync[s].writes :
              sync' = [r \in Syncers |->
                IF r # s THEN [sync[r] EXCEPT !.fresh = FALSE]
                ELSE IF sync[s].writes \ {w} # {} THEN [sync[s] EXCEPT !.writes = sync[s].writes \ {w}]
                ELSE AfterWrites(s)]
        BY <2>4 DEF SyncWrite
      <3> QED BY <3>1
    <2>5. ASSUME NEW s \in Syncers, SyncDies(s) PROVE sync' = [t \in Syncers |-> sync'[t]]
      BY <1>0, <2>5 DEF SyncDies, Typed
    <2>6. CASE Next
      BY <2>1, <2>2, <2>3, <2>4, <2>5, <2>6 DEF Next, SyncStep, SourceMoves, SaveExpert, PersistStart,
         Supersede, Upsert, PersistDies, Reevaluate, ReevaluateWrite
    <2> QED BY <2>1, <2>6 DEF vars
  <1> QED BY <1>1, <1>2

LEMMA PersistTypeStep == ASSUME Basics, [Next]_vars PROVE persist' \in Persists /\ PersistHolds'
  <1>0. Typed /\ PersistHolds /\ Len(rows) \in Nat
    BY IdsAreNumbers DEF Basics
  <1>1. ASSUME NEW p \in Procs, PersistStart(p) PROVE persist' \in Persists /\ PersistHolds'
    <2>1. PICK out \in Outputs(p) :
             /\ Len(rows) + Len(out) <= MaxRows
             /\ persist' = [at |-> "supersede", proc |-> p, todo |-> out, out |-> Range(out)]
      BY <1>1 DEF PersistStart
    <2>2. PICK n \in 0..MaxOutput : out \in [1..n -> {k \in Keys : k.proc = p}]
      BY DEF Outputs, SeqOf
    <2>3. n \in Nat
      BY StoreAssumption
    <2>4. out \in Seq({k \in Keys : k.proc = p}) /\ DOMAIN out = 1..n
      BY <2>2, <2>3, SeqOfFunction
    <2>5. out \in Seq(Keys)
      BY <2>4, SeqMonotonic
    <2>6. Range(out) \in SUBSET Keys /\ \A k \in Range(out) : k.proc = p
      BY <2>2, <2>4 DEF Range
    <2>7. persist' \in Persists
      BY <2>1, <2>5, <2>6 DEF Persists
    <2>8. persist'.at = "supersede" /\ persist'.todo = out /\ persist'.proc = p
      BY <2>1
    <2>9. rows' = rows
      BY <1>1 DEF PersistStart
    <2> QED BY <1>0, <2>1, <2>6, <2>7, <2>8, <2>9 DEF PersistHolds
  <1>2. NoPersist \in Persists /\ NoPersist.at = "idle"
    BY DEF NoPersist, Persists
  <1>3. CASE Supersede
    <2>1. persist.at = "supersede" /\ Len(rows') = Len(rows)
      BY <1>0, <1>3, SupersedeRows DEF Supersede, Rewrites
    <2>2. persist \in [at : {"supersede", "upsert"}, proc : Procs, todo : Seq(Keys), out : SUBSET Keys]
      BY <1>0, <2>1, PersistPhases
    <2>3. CASE persist.todo = <<>>
      BY <1>0, <1>2, <1>3, <2>1, <2>3 DEF Supersede, PersistHolds
    <2>4. CASE persist.todo # <<>>
      <3>1. persist' = [persist EXCEPT !.at = "upsert"]
        BY <1>3, <2>4 DEF Supersede
      <3>2. /\ persist' \in [at : {"supersede", "upsert"}, proc : Procs, todo : Seq(Keys), out : SUBSET Keys]
            /\ persist'.at = "upsert" /\ persist'.proc = persist.proc /\ persist'.todo = persist.todo
        BY <2>2, <3>1
      <3> QED BY <1>0, <2>1, <2>4, <3>2 DEF PersistHolds, Persists
    <2> QED BY <2>3, <2>4
  <1>4. CASE Upsert
    <2>1. /\ persist.at = "upsert" /\ persist.todo \in Seq(Keys) /\ persist.todo # <<>>
      BY <1>4, UpsertHead
    <2>2. persist \in [at : {"supersede", "upsert"}, proc : Procs, todo : Seq(Keys), out : SUBSET Keys]
      BY <1>0, <2>1, PersistPhases
    <2>3. Len(rows') \in Nat /\ Len(rows') <= Len(rows) + 1 /\ Len(persist.todo) \in Nat \ {0}
          /\ Tail(persist.todo) \in Seq(Keys) /\ Len(Tail(persist.todo)) = Len(persist.todo) - 1
          /\ Range(Tail(persist.todo)) \subseteq Range(persist.todo)
      BY <1>0, <1>4, <2>1, RowsKept, SplitSeq DEF Rewrites
    <2>4. Len(rows') <= MaxRows /\ Len(rows') + Len(Tail(persist.todo)) <= MaxRows
      BY <1>0, <2>1, <2>3, StoreAssumption DEF PersistHolds
    <2>5. CASE Len(persist.todo) = 1
      BY <1>2, <1>4, <2>4, <2>5 DEF Upsert, PersistHolds
    <2>6. CASE Len(persist.todo) # 1
      <3> DEFINE left == Tail(persist.todo)
      <3>1. persist' = [persist EXCEPT !.todo = left]
        BY <1>4, <2>6 DEF Upsert
      <3>2. left \in Seq(Keys) /\ left # <<>>
        <4>1. left \in Seq(Keys) /\ Len(left) = Len(persist.todo) - 1
          BY <2>3
        <4>2. Len(left) # 0
          BY <2>3, <2>6, <4>1
        <4>3. Len(<<>>) = 0
          BY EmptySeq
        <4> QED BY <4>1, <4>2, <4>3
      <3> HIDE DEF left
      <3>3. /\ persist' \in [at : {"supersede", "upsert"}, proc : Procs, todo : Seq(Keys), out : SUBSET Keys]
            /\ persist'.at = "upsert" /\ persist'.proc = persist.proc /\ persist'.todo = left
        <4> DEFINE T == [at : {"supersede", "upsert"}, proc : Procs, todo : Seq(Keys), out : SUBSET Keys]
        <4>1. persist' \in T
          BY <2>2, <3>1, <3>2
        <4>2. persist'.at = persist.at /\ persist'.proc = persist.proc /\ persist'.todo = left
          BY <2>2, <3>1
        <4> QED BY <2>1, <4>1, <4>2
      <3> QED BY <1>0, <2>1, <2>3, <2>4, <3>2, <3>3 DEF PersistHolds, Persists, left
    <2> QED BY <2>5, <2>6
  <1>5. CASE PersistDies
    BY <1>0, <1>2, <1>5 DEF PersistDies, PersistHolds
  <1>6. CASE UNCHANGED persist /\ Len(rows') = Len(rows)
    BY <1>0, <1>6 DEF Typed, PersistHolds
  <1>7. \/ (\E p \in Procs : PersistStart(p)) \/ Supersede \/ Upsert \/ PersistDies
        \/ UNCHANGED persist /\ ~Upsert
    <2>1. CASE UNCHANGED vars
      BY <2>1 DEF vars
    <2>2. CASE Next
      BY <2>2 DEF Next, SyncStep, SourceMoves, SaveExpert, SyncOpportunities, SyncSource, SyncAudit, SyncWrite,
         SyncLog, SyncDies, Reevaluate, ReevaluateWrite
    <2> QED BY <2>1, <2>2
  <1>8. ~Upsert => Len(rows') = Len(rows)
    BY RowsKept DEF Rewrites
  <1> QED BY <1>1, <1>3, <1>4, <1>5, <1>6, <1>7, <1>8

LEMMA ReevaluateType ==
    ASSUME Typed, Reevaluate PROVE reev' \in Seq([key : Keys, medal : Medals])
  <1> DEFINE S == {i \in Ids : Current(i)}
  <1>0. PICK ids \in SetToSeqs(S) : \E fall \in [DOMAIN ids -> Medals] :
           reev' = [n \in DOMAIN ids |-> [key |-> rows[ids[n]].key, medal |-> fall[n]]]
    BY DEF Reevaluate, Ids
  <1>1. PICK fall \in [DOMAIN ids -> Medals] :
           reev' = [n \in DOMAIN ids |-> [key |-> rows[ids[n]].key, medal |-> fall[n]]]
    BY <1>0
  <1>2. Cardinality(S) \in Nat
    <2>1. IsFiniteSet(Ids)
      BY IdsAreNumbers, FS_Interval
    <2> QED BY <2>1, FS_Subset, FS_CardinalityType
  <1>3. ids \in [1..Cardinality(S) -> S]
    BY <1>0 DEF SetToSeqs
  <1>4. ASSUME NEW n \in 1..Cardinality(S)
        PROVE  [key |-> rows[ids[n]].key, medal |-> fall[n]] \in [key : Keys, medal : Medals]
    <2>1. ids[n] \in Ids /\ n \in DOMAIN ids
      BY <1>3, <1>4
    <2>2. rows[ids[n]].key \in Keys /\ fall[n] \in Medals
      BY <2>1, IdsAreNumbers DEF Row
    <2> QED BY <2>2
  <1>5. reev' \in [1..Cardinality(S) -> [key : Keys, medal : Medals]]
    BY <1>1, <1>3, <1>4
  <1> HIDE DEF S
  <1> QED BY <1>2, <1>5, SeqOfFunction

LEMMA TypedStep == ASSUME Basics, [Next]_vars PROVE Typed'
  <1>0. Typed /\ Budget \in Nat
    BY StoreAssumption DEF Basics
  <1>1. rows' \in Seq(Row) /\ sync' \in [Syncers -> Syncs] /\ persist' \in Persists
    BY RowsKept, SyncTypeStep, PersistTypeStep
  <1>2. source' \in [Procs -> Phases]
    <2>1. ASSUME NEW p \in Procs, SourceMoves(p) PROVE source' \in [Procs -> Phases]
      BY <1>0, <2>1 DEF SourceMoves, Typed, Phases
    <2>2. CASE ~ \E p \in Procs : SourceMoves(p)
      BY <1>0, <2>2 DEF Next, vars, SyncStep, SaveExpert, PersistStart, Supersede, Upsert, PersistDies,
         SyncOpportunities, SyncSource, SyncAudit, SyncWrite, SyncLog, SyncDies, Reevaluate, ReevaluateWrite, Typed
    <2> QED BY <2>1, <2>2
  <1>3. expert' \subseteq Procs
    <2>1. ASSUME NEW p \in Procs, SaveExpert(p) PROVE expert' \subseteq Procs
      BY <1>0, <2>1 DEF SaveExpert, Typed
    <2>2. CASE ~ \E p \in Procs : SaveExpert(p)
      BY <1>0, <2>2 DEF Next, vars, SyncStep, SourceMoves, PersistStart, Supersede, Upsert, PersistDies,
         SyncOpportunities, SyncSource, SyncAudit, SyncWrite, SyncLog, SyncDies, Reevaluate, ReevaluateWrite, Typed
    <2> QED BY <2>1, <2>2
  <1>4. budget' \in 0..Budget
    <2>1. budget' = budget \/ (budget > 0 /\ budget' = budget - 1)
      BY DEF Next, vars, SyncStep, SourceMoves, SaveExpert, PersistStart, Supersede, Upsert, PersistDies,
         SyncOpportunities, SyncSource, SyncAudit, SyncWrite, SyncLog, SyncDies, Reevaluate, ReevaluateWrite, Disturb
    <2> QED BY <1>0, <2>1 DEF Typed
  <1>5. reev' \in Seq([key : Keys, medal : Medals])
    <2>1. CASE Reevaluate
      BY <1>0, <2>1, ReevaluateType
    <2>2. CASE ReevaluateWrite
      BY <1>0, <2>2, SplitSeq DEF ReevaluateWrite, Typed
    <2>3. CASE ~Reevaluate /\ ~ReevaluateWrite
      BY <1>0, <2>3 DEF Next, vars, SyncStep, SourceMoves, SaveExpert, PersistStart, Supersede, Upsert,
         PersistDies, SyncOpportunities, SyncSource, SyncAudit, SyncWrite, SyncLog, SyncDies, Typed
    <2> QED BY <2>1, <2>2, <2>3
  <1>6. audit' \in Seq(Moved)
    <2>1. ASSUME NEW s \in Syncers, SyncLog(s) PROVE audit' \in Seq(Moved)
      <3>1. PICK t \in sync[s].log : t \in Moved /\ audit' = Append(audit, t)
        BY <2>1, LogStep
      <3> QED BY <1>0, <3>1, LongerSeq DEF Typed
    <2>2. CASE ~ \E s \in Syncers : SyncLog(s)
      BY <1>0, <2>2 DEF Next, vars, SyncStep, SourceMoves, SaveExpert, PersistStart, Supersede, Upsert,
         PersistDies, SyncOpportunities, SyncSource, SyncAudit, SyncWrite, SyncDies, Reevaluate, ReevaluateWrite, Typed
    <2> QED BY <2>1, <2>2
  <1> QED BY <1>1, <1>2, <1>3, <1>4, <1>5, <1>6 DEF Typed

(* Who appends to the audit. *)
LEMMA AuditGrows ==
    ASSUME Typed, [Next]_vars
    PROVE  audit' = audit \/ \E s \in Syncers : SyncLog(s)
  BY DEF Next, vars, SyncStep, SourceMoves, SaveExpert, PersistStart, Supersede, Upsert,
     PersistDies, SyncOpportunities, SyncSource, SyncAudit, SyncWrite, SyncDies, Reevaluate, ReevaluateWrite

LEMMA InHandStep == ASSUME Basics, [Next]_vars, NEW s \in Syncers PROVE InHand(s)'
  <1>0. Typed /\ Typed' /\ InHand(s)
    BY TypedStep DEF Basics
  <1>1. Ids \subseteq Ids' /\ \A i \in Ids : rows'[i].key = rows[i].key
    BY RowsKept
  <1>2. CASE ~Acts(s)
    BY <1>0, <1>1, <1>2, OthersKeep DEF Keeps, InHand
  <1>3. CASE SyncOpportunities(s)
    BY <1>0, <1>3, OpportunitiesStep DEF Reads, InHand, ToSync, Ids
  <1>4. CASE SyncSource(s)
    <2>1. /\ sync[s].at = "source" /\ sync'[s].at = "audit" /\ sync'[s].opps = sync[s].opps
          /\ DOMAIN sync'[s].seen = {sync[s].opps[i].key.proc : i \in DOMAIN sync[s].opps}
      BY <1>4, SourceStep DEF Computes
    <2> QED BY <1>0, <1>1, <2>1 DEF InHand
  <1>5. CASE SyncAudit(s)
    BY <1>1, <1>5, AuditStep DEF Updates, InHand
  <1>6. CASE SyncWrite(s)
    <2>1. /\ sync[s].at = "write"
          /\ \/ sync'[s].at = "write" /\ sync'[s].log = sync[s].log
                /\ sync'[s].writes \subseteq sync[s].writes /\ sync'[s].writes # {}
             \/ sync'[s].at = "idle"
             \/ sync'[s].at = "log" /\ sync'[s].log = sync[s].log /\ sync[s].log # {}
      BY <1>6, WriteStep DEF Updates, Rests, Logs
    <2> QED BY <1>0, <1>1, <2>1 DEF InHand
  <1>7. CASE SyncLog(s)
    <2>1. /\ sync[s].at = "log"
          /\ \/ sync'[s].at = "idle"
             \/ sync'[s].at = "log" /\ sync'[s].log \subseteq sync[s].log /\ sync'[s].log # {}
      BY <1>7, LogStep DEF Rests, Logs
    <2> QED BY <1>0, <1>1, <2>1 DEF InHand
  <1>8. CASE SyncDies(s)
    BY <1>0, <1>8, DieStep DEF Rests, InHand
  <1> QED BY <1>2, <1>3, <1>4, <1>5, <1>6, <1>7, <1>8 DEF Acts, SyncStep

LEMMA BasicsInit == Init => Basics
  <1> SUFFICES ASSUME Init PROVE Basics
    OBVIOUS
  <1>1. rows = <<>> /\ audit = <<>> /\ reev = <<>> /\ persist = NoPersist /\ expert = {} /\ budget = Budget
    BY DEF Init
  <1>2. Len(<<>>) = 0 /\ DOMAIN <<>> = {}
    BY EmptySeq
  <1>3. rows \in Seq(Row) /\ audit \in Seq(Moved) /\ reev \in Seq([key : Keys, medal : Medals])
    BY <1>1, EmptySeq
  <1>4. \A s \in Syncers : sync[s] = [at |-> "idle", fresh |-> FALSE]
    BY DEF Init, NoSync
  <1>5. sync \in [Syncers -> Syncs]
    <2>1. [at |-> "idle", fresh |-> FALSE] \in Syncs
      BY DEF Syncs, Rests
    <2> QED BY <2>1 DEF Init, NoSync
  <1>6. persist \in Persists /\ persist.at = "idle"
    BY <1>1 DEF NoPersist, Persists
  <1>7. source \in [Procs -> Phases] /\ budget \in 0..Budget
    BY <1>1, StoreAssumption DEF Init, Phases
  <1>8. Typed
    BY <1>1, <1>3, <1>5, <1>6, <1>7 DEF Typed
  <1>9. PersistHolds
    BY <1>1, <1>2, <1>6, StoreAssumption DEF PersistHolds
  <1>10. \A s \in Syncers : InHand(s)
    BY <1>4 DEF InHand
  <1>11. Range(audit) = {}
    BY <1>1, <1>2 DEF Range
  <1> QED BY <1>8, <1>9, <1>10, <1>11 DEF Basics

LEMMA BasicsStep == ASSUME Basics, [Next]_vars PROVE Basics'
  <1>0. Typed /\ Typed' /\ PersistHolds' /\ \A s \in Syncers : InHand(s)'
    BY TypedStep, PersistTypeStep, InHandStep DEF Basics
  <1>1. ASSUME NEW t \in Range(audit)' PROVE t.id \in Ids'
    <2>1. CASE audit' = audit
      BY <1>1, <2>1, RowsKept DEF Basics, Range
    <2>2. ASSUME NEW s \in Syncers, SyncLog(s) PROVE t.id \in Ids'
      <3>1. PICK u \in sync[s].log : u \in Moved /\ u.id \in Ids /\ audit' = Append(audit, u)
        BY <2>2, LogStep
      <3>2. Range(audit') = Range(audit) \cup {u}
        BY <1>0, <3>1, LongerSeq DEF Typed
      <3> QED BY <1>1, <3>1, <3>2, RowsKept DEF Basics
    <2> QED BY <1>0, <2>1, <2>2, AuditGrows
  <1> QED BY <1>0, <1>1 DEF Basics

LEMMA BasicsHold == Spec => []Basics
  <1> QED BY BasicsInit, BasicsStep, PTL DEF Spec

(* Types.  Whatever is still to be written is about rows that exist: the    *)
(* table only grows, so a sync that writes by an id it read long ago, and   *)
(* an entry of the audit, always mean a row.                                *)
THEOREM StoreTypeCorrect == Spec => []StoreTypeOK
  <1>1. Basics => StoreTypeOK
    <2> SUFFICES ASSUME Basics PROVE StoreTypeOK
      OBVIOUS
    <2>1. Typed /\ PersistHolds /\ \A s \in Syncers : InHand(s) /\ sync[s].at \in {"idle", "source", "audit", "write", "log"}
      BY SyncPhases DEF Basics
    <2>2. persist.at \in {"idle", "supersede", "upsert"}
      BY <2>1, PersistPhases
    <2> QED BY <2>1, <2>2 DEF Basics, StoreTypeOK, Typed, PersistHolds, InHand, Ids, Phases
  <1> QED BY <1>1, BasicsHold, PTL

-----------------------------------------------------------------------------
(* The unique constraint, as far as it sees.                               *)

NamedOnce == \A i, j \in Ids : rows[i].key = rows[j].key /\ rows[i].key.sub # NoSub => i = j

LEMMA NamedStep == ASSUME Basics, NamedOnce, [Next]_vars PROVE NamedOnce'
  <1>1. CASE Rewrites
    BY <1>1 DEF Rewrites, NamedOnce
  <1>2. CASE ~Rewrites
    <2>0. Upsert
      BY <1>2, RowsKept
    <2> DEFINE k == Head(persist.todo)
               n == Len(rows) + 1
    <2>1. PICK m \in Medals :
            /\ \A i \in Ids : ~Conflict(i, k)
            /\ Ids' = Ids \cup {n} /\ n \notin Ids
            /\ rows'[n] = NewRow(k, m)
            /\ \A i \in Ids : rows'[i] = rows[i]
      BY <1>2, <2>0, UpsertGrows
    <2>2. rows'[n].key = k
      BY <2>1 DEF NewRow
    <2>3. \A i \in Ids : ~(rows[i].key = k /\ k.sub # NoSub)
      BY <2>1 DEF Conflict
    <2> HIDE DEF k, n
    <2>4. ASSUME NEW i \in Ids', NEW j \in Ids', rows'[i].key = rows'[j].key, rows'[i].key.sub # NoSub
          PROVE  i = j
      <3>1. CASE i \in Ids /\ j \in Ids
        BY <2>1, <2>4, <3>1 DEF NamedOnce
      <3>2. CASE i = n /\ j \in Ids
        BY <2>1, <2>2, <2>3, <2>4, <3>2
      <3>3. CASE j = n /\ i \in Ids
        BY <2>1, <2>2, <2>3, <2>4, <3>3
      <3> QED BY <2>1, <3>1, <3>2, <3>3
    <2> QED BY <2>4 DEF NamedOnce
  <1> QED BY <1>1, <1>2

(* persist_category_opportunities: an opportunity with a subcategory never  *)
(* gets a second row, whatever was superseded, persisted again or left by a *)
(* persist that died; and no reassessment, sync or reevaluation touches the *)
(* medal a row was first given.                                             *)
THEOREM FirstMedalStays == Spec => FirstMedalIsKept
  <1> DEFINE Inv == Basics /\ NamedOnce
             Kept == /\ \A i, j \in DOMAIN rows' : rows'[i].key = rows'[j].key /\ rows'[i].key.sub # NoSub => i = j
                     /\ \A i \in DOMAIN rows : rows'[i].initial = rows[i].initial
  <1>1. Init => Inv
    <2>1. Init => Ids = {}
      BY EmptySeq DEF Init, Ids
    <2> QED BY <2>1, BasicsInit DEF NamedOnce
  <1>2. Inv /\ [Next]_vars => Inv'
    BY BasicsStep, NamedStep
  <1>3. Inv /\ [Next]_vars => [Kept]_vars
    <2> SUFFICES ASSUME Inv, [Next]_vars PROVE Kept
      OBVIOUS
    <2>1. NamedOnce'
      BY NamedStep
    <2>2. \A i \in Ids : rows'[i].initial = rows[i].initial
      BY RowsKept
    <2> QED BY <2>1, <2>2 DEF NamedOnce, Ids
  <1>4. Spec => [][Kept]_vars
    <2> HIDE DEF Inv, Kept
    <2> QED BY <1>1, <1>2, <1>3, PTL DEF Spec
  <1> QED BY <1>4 DEF FirstMedalIsKept

-----------------------------------------------------------------------------
(* What a persist makes CURRENT.                                           *)

Accepted(p) == {rows[i].key : i \in {i \in Ids : rows[i].key.proc = p /\ rows[i].status = "CURRENT"}}

(* Before the first upsert all of the output is still to be written, then   *)
(* what is accepted and what is to be written make the output.              *)
OutputInHand ==
    /\ persist.at = "supersede" => Range(persist.todo) = persist.out
    /\ persist.at = "upsert" => Accepted(persist.proc) \cup Range(persist.todo) = persist.out

LEMMA SupersedeAccepts == ASSUME Typed, Supersede, NEW p, p = persist.proc PROVE Accepted(p)' = {}
  <1>1. Ids' = Ids /\ \A i \in Ids : rows'[i].key = rows[i].key
    BY SupersedeRows DEF Rewrites
  <1>2. \A i \in Ids : rows[i].key.proc = p => rows'[i].status = "SUPERSEDED"
    BY SupersedeRows
  <1>3. {i \in Ids' : rows'[i].key.proc = p /\ rows'[i].status = "CURRENT"} = {}
    BY <1>1, <1>2
  <1> QED BY <1>3 DEF Accepted

LEMMA UpsertAccepts ==
    ASSUME Basics, Upsert, NEW p, p = persist.proc
    PROVE  Accepted(p)' = Accepted(p) \cup {Head(persist.todo)}
  <1> DEFINE k == Head(persist.todo)
             n == Len(rows) + 1
  <1>0. k.proc = p
    BY UpsertHead
  <1>1. PICK m \in Medals :
          \/ /\ Rewrites
             /\ \E i \in Ids : Conflict(i, k)
             /\ \A i \in Ids : rows'[i].status = IF Conflict(i, k) THEN "CURRENT" ELSE rows[i].status
          \/ /\ Ids' = Ids \cup {n} /\ n \notin Ids
             /\ rows'[n] = NewRow(k, m)
             /\ \A i \in Ids : rows'[i] = rows[i]
    BY UpsertGrows
  <1> HIDE DEF k, n
  <1>2. CASE /\ Rewrites
             /\ \E i \in Ids : Conflict(i, k)
             /\ \A i \in Ids : rows'[i].status = IF Conflict(i, k) THEN "CURRENT" ELSE rows[i].status
    <2>1. Ids' = Ids /\ \A i \in Ids : rows'[i].key = rows[i].key
      BY <1>2 DEF Rewrites
    <2>2. ASSUME NEW i \in Ids, rows[i].key.proc = p, rows'[i].status = "CURRENT"
          PROVE  rows[i].key \in Accepted(p) \cup {k}
      BY <1>2, <2>2 DEF Accepted, Conflict
    <2>3. PICK i \in Ids : Conflict(i, k)
      BY <1>2
    <2>4. rows[i].key = k /\ rows'[i].status = "CURRENT"
      BY <1>2, <2>3 DEF Conflict
    <2>5. ASSUME NEW j \in Ids, rows[j].key.proc = p, rows[j].status = "CURRENT"
          PROVE  rows[j].key \in Accepted(p)'
      <3>1. rows'[j].status = "CURRENT"
        BY <1>2, <2>5
      <3> QED BY <2>1, <2>5, <3>1 DEF Accepted
    <2>6. k \in Accepted(p)'
      BY <1>0, <2>1, <2>4 DEF Accepted
    <2>7. Accepted(p)' \subseteq Accepted(p) \cup {k}
      BY <2>1, <2>2 DEF Accepted
    <2>8. Accepted(p) \subseteq Accepted(p)'
      BY <2>5 DEF Accepted
    <2> QED BY <2>6, <2>7, <2>8 DEF k
  <1>3. CASE /\ Ids' = Ids \cup {n} /\ n \notin Ids
             /\ rows'[n] = NewRow(k, m)
             /\ \A i \in Ids : rows'[i] = rows[i]
    <2>1. rows'[n].key = k /\ rows'[n].status = "CURRENT"
      BY <1>3 DEF NewRow
    <2>2. Accepted(p)' \subseteq Accepted(p) \cup {k}
      BY <1>3, <2>1 DEF Accepted
    <2>3. Accepted(p) \subseteq Accepted(p)'
      BY <1>3 DEF Accepted
    <2>4. k \in Accepted(p)'
      BY <1>0, <1>3, <2>1 DEF Accepted
    <2> QED BY <2>2, <2>3, <2>4 DEF k
  <1> QED BY <1>1, <1>2, <1>3

(* Syncs and reevaluations accept nothing and give nothing up. *)
LEMMA OthersAccept ==
    ASSUME Basics, [Next]_vars, ~Supersede, ~Upsert, NEW p PROVE Accepted(p)' = Accepted(p)
  <1>0. Typed
    BY DEF Basics
  <1>1. Rewrites
    BY RowsKept
  <1>2. \A i \in Ids : rows'[i].status = rows[i].status
    <2>1. CASE UNCHANGED rows
      BY <2>1
    <2>2. ASSUME NEW s \in Syncers, SyncWrite(s) PROVE \A i \in Ids : rows'[i].status = rows[i].status
      <3>1. PICK w \in sync[s].writes : w \in Writes /\ w.id \in Ids
               /\ rows' = [rows EXCEPT ![w.id].state = w.state, ![w.id].event = w.event]
        BY <2>2, WriteStep
      <3> QED BY <1>0, <3>1, WriteRows
    <2>3. CASE ReevaluateWrite
      BY <1>0, <2>3, ReevaluateRows
    <2>4. UNCHANGED rows \/ ReevaluateWrite \/ \E s \in Syncers : SyncWrite(s)
      BY DEF Next, vars, SourceMoves, SaveExpert, PersistStart, PersistDies, SyncStep, SyncDies,
         SyncOpportunities, SyncSource, SyncAudit, SyncLog, Reevaluate
    <2> QED BY <2>1, <2>2, <2>3, <2>4
  <1> QED BY <1>1, <1>2 DEF Rewrites, Accepted

(* The last statement of a persist leaves its output accepted. *)
LEMMA LastStatement ==
    ASSUME Basics, OutputInHand, Supersede \/ Upsert, persist' = NoPersist, NEW p, p = persist.proc
    PROVE  Accepted(p)' = persist.out
  <1>0. Typed
    BY DEF Basics
  <1>1. CASE Supersede
    <2>1. persist.at = "supersede"
      BY <1>1 DEF Supersede
    <2>2. persist.todo = <<>>
      <3> SUFFICES ASSUME persist.todo # <<>> PROVE FALSE
        OBVIOUS
      <3>1. persist' = [persist EXCEPT !.at = "upsert"]
        BY <1>1 DEF Supersede
      <3>2. persist \in [at : {"supersede", "upsert"}, proc : Procs, todo : Seq(Keys), out : SUBSET Keys]
        BY <1>0, <2>1, PersistPhases
      <3>3. persist'.at = "upsert"
        BY <3>1, <3>2
      <3> QED BY <3>3 DEF NoPersist
    <2>3. Range(persist.todo) = {}
      BY <2>2, EmptySeq DEF Range
    <2> QED BY <1>0, <1>1, <2>1, <2>3, SupersedeAccepts DEF OutputInHand
  <1>2. CASE Upsert
    <2>1. persist.at = "upsert" /\ persist.todo \in Seq(Keys) /\ persist.todo # <<>>
      BY <1>2, UpsertHead
    <2>2. Len(persist.todo) = 1
      <3> SUFFICES ASSUME Len(persist.todo) # 1 PROVE FALSE
        OBVIOUS
      <3>1. persist' = [persist EXCEPT !.todo = Tail(persist.todo)]
        BY <1>2 DEF Upsert
      <3>2. persist \in [at : {"supersede", "upsert"}, proc : Procs, todo : Seq(Keys), out : SUBSET Keys]
        BY <1>0, <2>1, PersistPhases
      <3>3. persist'.at = "upsert"
        BY <2>1, <3>1, <3>2
      <3> QED BY <3>3 DEF NoPersist
    <2>3. Range(persist.todo) = {Head(persist.todo)}
      <3> DEFINE t == Tail(persist.todo)
      <3>1. t \in Seq(Keys) /\ Len(t) = 0
        BY <2>1, <2>2, SplitSeq
      <3>2. DOMAIN t = {}
        <4> HIDE DEF t
        <4>1. DOMAIN t = 1..Len(t)
          BY <3>1, LenProperties
        <4> QED BY <3>1, <4>1
      <3>3. Range(Tail(persist.todo)) = {}
        BY <3>2 DEF Range
      <3> QED BY <2>1, <3>3, SplitSeq
    <2> QED BY <1>2, <2>1, <2>3, UpsertAccepts DEF OutputInHand
  <1> QED BY <1>1, <1>2

LEMMA OutputStep == ASSUME Basics, OutputInHand, [Next]_vars PROVE OutputInHand'
  <1>0. Typed
    BY DEF Basics
  <1>n. NoPersist.at = "idle"
    BY DEF NoPersist
  <1>1. ASSUME NEW p \in Procs, PersistStart(p) PROVE OutputInHand'
    BY <1>1 DEF PersistStart, OutputInHand
  <1>2. CASE Supersede /\ persist' # NoPersist
    <2>1. persist.at = "supersede" /\ persist' = [persist EXCEPT !.at = "upsert"]
      BY <1>2 DEF Supersede
    <2>2. persist \in [at : {"supersede", "upsert"}, proc : Procs, todo : Seq(Keys), out : SUBSET Keys]
      BY <1>0, <2>1, PersistPhases
    <2>3. /\ persist'.at = "upsert" /\ persist'.proc = persist.proc /\ persist'.todo = persist.todo
          /\ persist'.out = persist.out
      BY <2>1, <2>2
    <2> DEFINE p == persist.proc
    <2>4. Accepted(persist.proc)' = {}
      <3> SUFFICES ASSUME NEW q, q = persist.proc PROVE Accepted(q)' = {}
        BY <2>3 DEF Accepted
      <3> QED BY <1>0, <1>2, SupersedeAccepts
    <2> QED BY <2>1, <2>3, <2>4 DEF OutputInHand
  <1>3. CASE Upsert /\ persist' # NoPersist
    <2>1. persist.at = "upsert" /\ persist.todo \in Seq(Keys) /\ persist.todo # <<>>
      BY <1>3, UpsertHead
    <2>2. persist \in [at : {"supersede", "upsert"}, proc : Procs, todo : Seq(Keys), out : SUBSET Keys]
      BY <1>0, <2>1, PersistPhases
    <2>3. persist' = [persist EXCEPT !.todo = Tail(persist.todo)]
      BY <1>3 DEF Upsert
    <2>4. /\ persist'.at = "upsert" /\ persist'.proc = persist.proc /\ persist'.todo = Tail(persist.todo)
          /\ persist'.out = persist.out
      BY <2>1, <2>2, <2>3
    <2>5. Accepted(persist.proc)' = Accepted(persist.proc) \cup {Head(persist.todo)}
      <3> SUFFICES ASSUME NEW q, q = persist.proc PROVE Accepted(q)' = Accepted(q) \cup {Head(persist.todo)}
        BY <2>4 DEF Accepted
      <3> QED BY <1>3, UpsertAccepts
    <2>6. Range(persist.todo) = {Head(persist.todo)} \cup Range(Tail(persist.todo))
      BY <2>1, SplitSeq
    <2> QED BY <2>1, <2>4, <2>5, <2>6 DEF OutputInHand
  <1>4. CASE persist' = NoPersist
    BY <1>4, <1>n DEF OutputInHand
  <1>5. CASE UNCHANGED persist /\ ~Supersede /\ ~Upsert
    <2>1. Accepted(persist.proc)' = Accepted(persist.proc)
      <3> SUFFICES ASSUME NEW q, q = persist.proc PROVE Accepted(q)' = Accepted(q)
        BY <1>5 DEF Accepted
      <3> QED BY <1>5, OthersAccept
    <2> QED BY <1>5, <2>1 DEF OutputInHand
  <1>6. \/ (\E p \in Procs : PersistStart(p)) \/ Supersede \/ Upsert \/ PersistDies
        \/ UNCHANGED persist
    BY DEF Next, vars, SyncStep, SourceMoves, SaveExpert, SyncOpportunities, SyncSource, SyncAudit, SyncWrite,
       SyncLog, SyncDies, Reevaluate, ReevaluateWrite
  <1>7. PersistDies => persist' = NoPersist
    BY DEF PersistDies
  <1> QED BY <1>1, <1>2, <1>3, <1>4, <1>5, <1>6, <1>7

(* persist_category_opportunities: what the CRM shows as accepted for a     *)
(* procurement after a persist that nothing cut short is the output of that *)
(* assessment, all of it and nothing else, although the supersede and each  *)
(* upsert commit apart and syncs, reevaluations and earlier persists that   *)
(* died write the same rows.                                                *)
THEOREM AcceptedIsWhole == Spec => AcceptedIsLastOutput
  <1> DEFINE Inv == Basics /\ OutputInHand
             Whole == persist.at # "idle" /\ persist' = NoPersist /\ budget' = budget =>
                {rows'[i].key : i \in {j \in DOMAIN rows' : rows'[j].key.proc = persist.proc /\ rows'[j].status = "CURRENT"}}
                  = persist.out
  <1>1. Init => Inv
    BY BasicsInit DEF Init, NoPersist, OutputInHand
  <1>2. Inv /\ [Next]_vars => Inv'
    BY BasicsStep, OutputStep
  <1>3. Inv /\ [Next]_vars => [Whole]_vars
    <2> SUFFICES ASSUME Inv, [Next]_vars, persist.at # "idle", persist' = NoPersist, budget' = budget,
                        NEW p, p = persist.proc
                 PROVE  {rows'[i].key : i \in {j \in DOMAIN rows' : rows'[j].key.proc = p /\ rows'[j].status = "CURRENT"}}
                           = persist.out
      OBVIOUS
    <2>1. persist' # persist
      BY DEF NoPersist
    <2>2. ~PersistDies
      <3>1. budget \in Nat
        BY StoreAssumption DEF Basics, Typed
      <3> QED BY <3>1 DEF PersistDies, Disturb
    <2>3. ASSUME NEW q \in Procs PROVE ~PersistStart(q)
      BY DEF PersistStart
    <2>4. Supersede \/ Upsert
      BY <2>1, <2>2, <2>3 DEF Next, vars, SyncStep, SourceMoves, SaveExpert, SyncOpportunities, SyncSource, SyncAudit,
         SyncWrite, SyncLog, SyncDies, Reevaluate, ReevaluateWrite
    <2>5. Accepted(p)' = persist.out
      BY <2>4, LastStatement
    <2> QED BY <2>5 DEF Accepted, Ids
  <1>4. Spec => [][Whole]_vars
    <2> HIDE DEF Inv, Whole
    <2> QED BY <1>1, <1>2, <1>3, PTL DEF Spec
  <1> QED BY <1>4, PTL DEF AcceptedIsLastOutput

-----------------------------------------------------------------------------
(* A sync that read what is still true.                                    *)

Rank(p) == Priority(SyncEvent(source[p]))
Twins(p) == {q \in Present : Identity[q] = Identity[p]}

(* D has the dominant procurement of every identity that has CURRENT rows.  *)
Chosen(D) ==
    /\ D \subseteq Present
    /\ \A p \in Present : \E d \in D : D \cap Twins(p) = {d} /\ \A q \in Twins(d) : Rank(q) <= Rank(d)

(* w has the state and the event that row i should have, if D dominates. *)
Says(D, i, w) ==
    LET k == rows[i].key IN
    /\ w.event = SyncEvent(source[k.proc])
    /\ w.state = IF k.proc \in D THEN Decision(k, w.event) ELSE "STALE_SOURCE"

(* While nothing has changed since, what a sync has read, computed and      *)
(* written is right, and what it has not yet written it still has in hand.  *)
FreshHolds(s) ==
    sync[s].fresh =>
        /\ sync[s].at \in {"source", "audit"} => DOMAIN sync[s].opps = ToSync
        /\ sync[s].at = "audit" => \A p \in DOMAIN sync[s].seen : sync[s].seen[p] = SyncEvent(source[p])
        /\ sync[s].at = "write" => \E D : Chosen(D)
              /\ (\A w \in sync[s].writes : w.id \in ToSync /\ Says(D, w.id, w))
              /\ \A i \in ToSync : (\E w \in sync[s].writes : w.id = i) \/ Says(D, i, rows[i])
        /\ sync[s].at \in {"log", "idle"} => \E D : Chosen(D) /\ \A i \in ToSync : Says(D, i, rows[i])

(* The same rows are CURRENT and the source has not moved. *)
Stable ==
    /\ Rewrites /\ UNCHANGED source
    /\ \A i \in Ids : rows'[i].status = rows[i].status

LEMMA StableHolds ==
    ASSUME Stable
    PROVE  /\ ToSync' = ToSync /\ ToSync \subseteq Ids /\ Present' = Present
           /\ \A D : Chosen(D) => Chosen(D)'
           /\ \A D, w : \A i \in Ids : Says(D, i, w) => Says(D, i, w)'
  <1>1. Ids' = Ids /\ source' = source
        /\ \A i \in Ids : rows'[i].key = rows[i].key /\ rows'[i].status = rows[i].status
    BY DEF Stable, Rewrites
  <1>2. ToSync' = ToSync /\ ToSync \subseteq Ids
    BY <1>1 DEF ToSync, Current, Ids
  <1>3. Present' = Present
    BY <1>1 DEF Present, RowsOf, Current, Ids
  <1>4. ASSUME NEW D, Chosen(D) PROVE Chosen(D)'
    BY <1>1, <1>3, <1>4 DEF Chosen, Twins, Rank
  <1>5. ASSUME NEW D, NEW w, NEW i \in Ids, Says(D, i, w) PROVE Says(D, i, w)'
    BY <1>1, <1>5 DEF Says
  <1> QED BY <1>2, <1>3, <1>4, <1>5

LEMMA PresentAre ==
    ASSUME Typed PROVE Present = {rows[i].key.proc : i \in ToSync}
  <1>1. \A i \in Ids : rows[i].key \in Keys
    BY IdsAreNumbers DEF Row
  <1> QED BY <1>1, StoreAssumption DEF Present, RowsOf, ToSync, Ids

LEMMA FreshStep == ASSUME Basics, [Next]_vars, NEW s \in Syncers, FreshHolds(s) PROVE FreshHolds(s)'
  <1>0. Typed /\ InHand(s)
    BY DEF Basics
  <1>1. CASE ~Acts(s)
    <2> SUFFICES ASSUME sync'[s].fresh PROVE FreshHolds(s)'
      BY DEF FreshHolds
    <2>1. Keeps(sync[s], sync'[s]) /\ Quiet /\ sync[s].fresh
      BY <1>1, OthersKeep DEF Keeps
    <2>2. Stable
      BY <2>1 DEF Quiet, Stable
    <2>3. ASSUME NEW D, NEW i \in Ids, Says(D, i, rows[i]) PROVE Says(D, i, rows[i])'
      BY <2>1, <2>3 DEF Quiet, Rewrites, Says
    <2>4. CASE sync[s].at \in {"source", "audit"}
      BY <2>1, <2>2, <2>4, StableHolds DEF Keeps, FreshHolds, Stable
    <2>5. CASE sync[s].at = "write"
      <3>1. PICK D : Chosen(D)
              /\ (\A w \in sync[s].writes : w.id \in ToSync /\ Says(D, w.id, w))
              /\ \A i \in ToSync : (\E w \in sync[s].writes : w.id = i) \/ Says(D, i, rows[i])
        BY <2>1, <2>5 DEF FreshHolds
      <3>2. sync'[s].at = "write" /\ sync'[s].writes = sync[s].writes
        BY <2>1, <2>5 DEF Keeps
      <3>3. Chosen(D)' /\ ToSync' = ToSync /\ ToSync \subseteq Ids
        BY <2>2, <3>1, StableHolds
      <3>4. \A w \in sync[s].writes : w.id \in ToSync /\ Says(D, w.id, w)'
        <4> SUFFICES ASSUME NEW w \in sync[s].writes, NEW i \in Ids, i = w.id PROVE Says(D, i, w)'
          BY <3>1, <3>3 DEF Says
        <4> QED BY <2>2, <3>1, StableHolds
      <3>5. \A i \in ToSync : (\E w \in sync[s].writes : w.id = i) \/ Says(D, i, rows[i])'
        BY <2>3, <3>1, <3>3
      <3> QED BY <3>2, <3>3, <3>4, <3>5 DEF FreshHolds
    <2>6. CASE sync[s].at \in {"log", "idle"}
      <3>1. PICK D : Chosen(D) /\ \A i \in ToSync : Says(D, i, rows[i])
        BY <2>1, <2>6 DEF FreshHolds
      <3>2. Chosen(D)' /\ ToSync' = ToSync /\ ToSync \subseteq Ids
        BY <2>2, <3>1, StableHolds
      <3>3. \A i \in ToSync : Says(D, i, rows[i])'
        BY <2>3, <3>1, <3>2
      <3>4. sync'[s].at \in {"log", "idle"}
        BY <2>1, <2>6 DEF Keeps
      <3> QED BY <3>2, <3>3, <3>4 DEF FreshHolds
    <2> QED BY <1>0, <2>4, <2>5, <2>6, SyncPhases
  <1>2. CASE SyncOpportunities(s)
    BY <1>0, <1>2, OpportunitiesStep DEF Reads, FreshHolds, ToSync, Current
  <1>3. CASE SyncSource(s)
    BY <1>0, <1>3, SourceStep DEF Basics, Computes, FreshHolds, ToSync, Current
  <1>4. CASE SyncAudit(s)
    <2> SUFFICES ASSUME sync'[s].fresh PROVE FreshHolds(s)'
      BY DEF FreshHolds
    <2>1. /\ sync[s].at = "audit" /\ sync'[s].at = "write" /\ sync[s].fresh /\ UNCHANGED <<rows, source>>
      BY <1>4, AuditStep DEF Updates
    <2>2. PICK D \in Dominants(sync[s].seen) :
             sync'[s].writes = {Write(s, D, i) : i \in DOMAIN sync[s].opps}
      BY <1>4, AuditStep
    <2> DEFINE seen == sync[s].seen
    <2>3. DOMAIN sync[s].opps = ToSync /\ \A p \in DOMAIN seen : seen[p] = SyncEvent(source[p])
      BY <2>1 DEF FreshHolds
    <2>4. DOMAIN seen = Present /\ \A i \in ToSync : sync[s].opps[i].key = rows[i].key
      <3>1. /\ \A i \in DOMAIN sync[s].opps : sync[s].opps[i].key = rows[i].key
            /\ DOMAIN seen = {sync[s].opps[i].key.proc : i \in DOMAIN sync[s].opps}
        BY <1>0, <2>1 DEF InHand
      <3>2. DOMAIN seen = {rows[i].key.proc : i \in ToSync}
        BY <2>3, <3>1
      <3> QED BY <1>0, <2>3, <3>1, <3>2, PresentAre
    <2>5. Chosen(D)
      <3>1. \A p \in Present : Rivals(seen, p) = Twins(p) /\ Priority(seen[p]) = Rank(p)
        BY <2>3, <2>4 DEF Rivals, Twins, Rank
      <3>2. D \subseteq Present
        BY <2>2, <2>4 DEF Dominants
      <3>3. ASSUME NEW d \in D, Leads(seen, d) PROVE \A q \in Twins(d) : Rank(q) <= Rank(d)
        BY <3>1, <3>2, <3>3 DEF Leads, Twins
      <3> QED BY <2>2, <2>4, <3>1, <3>2, <3>3 DEF Dominants, Chosen
    <2>6. ASSUME NEW i \in ToSync PROVE Write(s, D, i).id = i /\ Says(D, i, Write(s, D, i))
      <3>1. rows[i].key.proc \in DOMAIN seen
        BY <1>0, <2>4, PresentAre
      <3>2. seen[rows[i].key.proc] = SyncEvent(source[rows[i].key.proc])
        BY <2>3, <3>1
      <3> QED BY <2>4, <3>2 DEF Write, Says
    <2>7. /\ \A w \in sync'[s].writes : w.id \in ToSync /\ Says(D, w.id, w)
          /\ \A i \in ToSync : \E w \in sync'[s].writes : w.id = i
      BY <2>2, <2>3, <2>6
    <2>8. Chosen(D)' /\ ToSync' = ToSync /\ \A w : \A i : Says(D, i, w) => Says(D, i, w)'
      BY <2>1, <2>5 DEF Chosen, Twins, Rank, Present, RowsOf, Current, ToSync, Says
    <2>9. \A w \in sync'[s].writes : w.id \in ToSync /\ Says(D, w.id, w)'
      <3> SUFFICES ASSUME NEW w \in sync'[s].writes, NEW i, i = w.id PROVE Says(D, i, w)'
        BY <2>7 DEF Says
      <3> QED BY <2>7, <2>8
    <2> QED BY <2>1, <2>7, <2>8, <2>9 DEF FreshHolds
  <1>5. CASE SyncWrite(s)
    <2> SUFFICES ASSUME sync'[s].fresh PROVE FreshHolds(s)'
      BY DEF FreshHolds
    <2>1. sync[s].at = "write" /\ sync[s].fresh /\ UNCHANGED source
      BY <1>5, WriteStep
    <2>2. PICK w \in sync[s].writes :
             /\ w \in Writes /\ w.id \in Ids
             /\ rows' = [rows EXCEPT ![w.id].state = w.state, ![w.id].event = w.event]
             /\ \/ /\ sync'[s] \in Updates
                   /\ sync'[s].writes = sync[s].writes \ {w}
                \/ /\ sync'[s] \in Rests \cup Logs /\ sync[s].writes \ {w} = {}
      BY <1>5, WriteStep
    <2>3. /\ Rewrites /\ rows'[w.id].state = w.state /\ rows'[w.id].event = w.event
          /\ \A j \in Ids : rows'[j].status = rows[j].status /\ (j # w.id => rows'[j] = rows[j])
      BY <1>0, <2>2, WriteRows
    <2>4. Stable
      BY <2>1, <2>3 DEF Stable
    <2>5. PICK D : Chosen(D)
            /\ (\A v \in sync[s].writes : v.id \in ToSync /\ Says(D, v.id, v))
            /\ \A i \in ToSync : (\E v \in sync[s].writes : v.id = i) \/ Says(D, i, rows[i])
      BY <2>1 DEF FreshHolds
    <2>6. Chosen(D)' /\ ToSync' = ToSync /\ ToSync \subseteq Ids
      BY <2>4, <2>5, StableHolds
    <2>7. \A v \in sync[s].writes : v.id \in ToSync /\ Says(D, v.id, v)'
      <3> SUFFICES ASSUME NEW v \in sync[s].writes, NEW i \in Ids, i = v.id PROVE Says(D, i, v)'
        BY <2>5, <2>6 DEF Says
      <3> QED BY <2>4, <2>5, StableHolds
    <2>8. ASSUME NEW i \in ToSync PROVE (\E v \in sync[s].writes \ {w} : v.id = i) \/ Says(D, i, rows[i])'
      <3>1. CASE i = w.id
        BY <2>3, <2>7, <3>1 DEF Says
      <3>2. CASE i # w.id /\ Says(D, i, rows[i])
        BY <2>1, <2>3, <2>6, <3>2 DEF Says
      <3> QED BY <2>5, <3>1, <3>2
    <2>9. CASE sync'[s] \in Updates /\ sync'[s].writes = sync[s].writes \ {w}
      BY <2>6, <2>7, <2>8, <2>9 DEF Updates, FreshHolds
    <2>10. CASE sync'[s] \in Rests \cup Logs /\ sync[s].writes \ {w} = {}
      BY <2>6, <2>8, <2>10 DEF Rests, Logs, FreshHolds
    <2> QED BY <2>2, <2>9, <2>10
  <1>6. CASE SyncLog(s)
    <2> SUFFICES ASSUME sync'[s].fresh PROVE FreshHolds(s)'
      BY DEF FreshHolds
    <2>1. /\ sync[s].at = "log" /\ sync'[s].at \in {"log", "idle"} /\ sync[s].fresh /\ UNCHANGED <<rows, source>>
      BY <1>6, LogStep DEF Rests, Logs
    <2>2. PICK D : Chosen(D) /\ \A i \in ToSync : Says(D, i, rows[i])
      BY <2>1 DEF FreshHolds
    <2>3. Chosen(D)' /\ \A i \in ToSync' : Says(D, i, rows[i])'
      BY <2>1, <2>2 DEF Chosen, Twins, Rank, Present, RowsOf, Current, ToSync, Says
    <2> QED BY <2>1, <2>3 DEF FreshHolds
  <1>7. CASE SyncDies(s)
    BY <1>0, <1>7, DieStep DEF FreshHolds
  <1> QED BY <1>1, <1>2, <1>3, <1>4, <1>5, <1>6, <1>7 DEF Acts, SyncStep

FreshInv == Basics /\ \A s \in Syncers : FreshHolds(s)

LEMMA FreshInvHolds == Spec => []FreshInv
  <1>1. Init => FreshInv
    BY BasicsInit DEF Init, NoSync, FreshInv, FreshHolds
  <1>2. FreshInv /\ [Next]_vars => FreshInv'
    BY BasicsStep, FreshStep DEF FreshInv
  <1> QED BY <1>1, <1>2, PTL DEF Spec

(* What the table says when a sync is up to date. *)
LEMMA UpToDateRows ==
    ASSUME FreshInv, UpToDate
    PROVE  \E D : Chosen(D) /\ \A i \in ToSync : Says(D, i, rows[i])
  BY DEF FreshInv, FreshHolds, UpToDate

LEMMA RankIsNumber == \A p : Rank(p) \in Int
  BY DEF Rank, Priority

(* Who dominates is alone in its identity and no one there is further. *)
LEMMA ChosenLead ==
    ASSUME NEW D, Chosen(D), NEW p \in D
    PROVE  /\ p \in Present /\ D \cap Twins(p) = {p}
           /\ \A q \in Twins(p) : Rank(q) <= Rank(p)
  <1>1. p \in Present /\ p \in Twins(p)
    BY DEF Chosen, Twins
  <1>2. PICK d \in D : D \cap Twins(p) = {d} /\ \A q \in Twins(d) : Rank(q) <= Rank(d)
    BY <1>1 DEF Chosen
  <1>3. d = p
    BY <1>1, <1>2
  <1> QED BY <1>1, <1>2, <1>3

(* sync_opportunities_lifecycle: whatever new rows, writes from a stale     *)
(* reading and syncs that died had left in the table, when a sync completes *)
(* and neither the rows nor the source have moved since it read them, each  *)
(* accepted row says what its source calls for.                             *)
THEOREM SyncRepairsStates == Spec => []StatesFollowSource
  <1>1. FreshInv => StatesFollowSource
    <2> SUFFICES ASSUME FreshInv, UpToDate, NEW i \in Ids, Current(i) PROVE RightState(i)
      BY DEF StatesFollowSource, Ids
    <2> DEFINE p == rows[i].key.proc
    <2>0. Typed
      BY DEF FreshInv, Basics
    <2>1. PICK D : Chosen(D) /\ \A j \in ToSync : Says(D, j, rows[j])
      BY UpToDateRows
    <2>2. i \in ToSync
      BY DEF ToSync, Ids
    <2>3. p \in Present
      BY <2>0, <2>2, PresentAre
    <2>4. rows[i].event = SyncEvent(source[p])
      BY <2>1, <2>2 DEF Says
    <2>5. CASE p \in D
      <3>1. rows[i].state = Decision(rows[i].key, rows[i].event)
        BY <2>1, <2>2, <2>5 DEF Says
      <3>2. \A q \in Twins(p) : Rank(q) <= Rank(p)
        BY <2>1, <2>5, ChosenLead
      <3>3. Above(p) = {}
        BY <3>2, RankIsNumber DEF Above, Twins, Rank
      <3> QED BY <2>4, <3>1, <3>3 DEF RightState
    <2>6. CASE p \notin D
      <3>1. rows[i].state = "STALE_SOURCE"
        BY <2>1, <2>2, <2>6 DEF Says
      <3>2. PICK d \in D : D \cap Twins(p) = {d} /\ \A q \in Twins(d) : Rank(q) <= Rank(d)
        BY <2>1, <2>3 DEF Chosen
      <3>3. d \in Present /\ d # p /\ Identity[d] = Identity[p] /\ p \in Twins(d)
        BY <2>3, <2>6, <3>2 DEF Twins
      <3>4. Rank(p) <= Rank(d)
        BY <3>2, <3>3
      <3>5. d \in Above(p) \cup Equal(p)
        BY <3>3, <3>4, RankIsNumber DEF Above, Equal, Rank
      <3> QED BY <2>4, <3>1, <3>5 DEF RightState
    <2> QED BY <2>5, <2>6
  <1> QED BY <1>1, FreshInvHolds, PTL

(* "Pick dominant procurement per stable identity key to prevent            *)
(* duplicates": once such a sync has ended no two procurements of one       *)
(* contract are live, and the live one is never behind the other.           *)
THEOREM SyncPicksOne == Spec => []DuplicatesSuppressed
  <1>1. FreshInv => DuplicatesSuppressed
    <2> SUFFICES ASSUME FreshInv, UpToDate,
                        NEW p \in Procs, NEW q \in Procs, p # q, Identity[p] = Identity[q], Live(p)
                 PROVE  /\ ~Live(q)
                        /\ \A i \in RowsOf(q) : Current(i) =>
                              Priority(SyncEvent(source[q])) <= Priority(SyncEvent(source[p]))
      BY DEF DuplicatesSuppressed
    <2>1. PICK D : Chosen(D) /\ \A j \in ToSync : Says(D, j, rows[j])
      BY UpToDateRows
    <2>2. ASSUME NEW r \in Procs, Live(r) PROVE r \in D
      BY <2>1, <2>2 DEF Live, RowsOf, ToSync, Says
    <2>3. p \in D /\ D \cap Twins(p) = {p} /\ \A r \in Twins(p) : Rank(r) <= Rank(p)
      BY <2>1, <2>2, ChosenLead
    <2>4. ~Live(q)
      <3> SUFFICES ASSUME Live(q) PROVE FALSE
        OBVIOUS
      <3>1. q \in D
        BY <2>2
      <3>2. q \in Twins(p)
        BY <3>1, <2>1 DEF Chosen, Twins
      <3> QED BY <2>3, <3>1, <3>2
    <2>5. ASSUME NEW i \in RowsOf(q), Current(i) PROVE Rank(q) <= Rank(p)
      <3>1. q \in Twins(p)
        BY <2>5 DEF Twins, Present
      <3> QED BY <2>3, <3>1
    <2> QED BY <2>4, <2>5 DEF Rank
  <1> QED BY <1>1, FreshInvHolds, PTL

-----------------------------------------------------------------------------
(* The audit.                                                              *)

(* The transitions a sync has still to audit. *)
Owes(s) == IF sync[s].at \in {"write", "log"} THEN sync[s].log ELSE {}

(* What two syncs have still to audit, or one of them what is audited       *)
(* already, they have found missing together.                               *)
AuditHolds ==
    /\ AuditHasNoDuplicates
    /\ \A s \in Syncers : Owes(s) \cap Range(audit) \subseteq raced
    /\ \A r, s \in Syncers : r # s => Owes(r) \cap Owes(s) \subseteq raced

(* A look notes with whom it races. *)
LEMMA RacedOfLook ==
    ASSUME Typed, NEW s \in Syncers, SyncAudit(s)
    PROVE  /\ raced \subseteq raced'
           /\ \A r \in Syncers \ {s} : sync'[s].log \cap Owes(r) \subseteq raced'
  <1>1. PICK D \in Dominants(sync[s].seen) :
           LET writes == {Write(s, D, i) : i \in DOMAIN sync[s].opps}
               log == {t \in {Transition(s, w) : w \in writes} : Logged(t)}
           IN /\ sync' = [sync EXCEPT ![s] =
                             [at |-> "write", fresh |-> sync[s].fresh, writes |-> writes, log |-> log]]
              /\ raced' = raced \cup (log \cap Pending(Syncers \ {s}))
    BY DEF SyncAudit
  <1> DEFINE W == {Write(s, D, i) : i \in DOMAIN sync[s].opps}
             L == {t \in {Transition(s, w) : w \in W} : Logged(t)}
             m == [at |-> "write", fresh |-> sync[s].fresh, writes |-> W, log |-> L]
  <1>2. sync' = [sync EXCEPT ![s] = m] /\ raced' = raced \cup (L \cap Pending(Syncers \ {s}))
    BY <1>1
  <1>3. sync'[s].log = L
    BY <1>2 DEF Typed
  <1>4. \A r \in Syncers \ {s} : Owes(r) \subseteq Pending(Syncers \ {s})
    BY DEF Owes, Pending
  <1> HIDE DEF L
  <1> QED BY <1>2, <1>3, <1>4

LEMMA RacedStep ==
    ASSUME Typed, [Next]_vars PROVE raced' = raced \/ \E s \in Syncers : SyncAudit(s)
  BY DEF Next, vars, SyncStep, SourceMoves, SaveExpert, PersistStart, Supersede, Upsert,
     PersistDies, SyncOpportunities, SyncSource, SyncWrite, SyncLog, SyncDies, Reevaluate, ReevaluateWrite

(* Only the look adds to what a sync has still to audit; an insert takes    *)
(* out what it inserts.                                                     *)
LEMMA OwesStep ==
    ASSUME Basics, [Next]_vars, NEW s \in Syncers, ~SyncAudit(s)
    PROVE  Owes(s)' \subseteq Owes(s)
  <1>0. Typed
    BY DEF Basics
  <1>1. CASE ~Acts(s)
    <2>1. Keeps(sync[s], sync'[s])
      BY <1>1, OthersKeep
    <2> QED BY <2>1 DEF Keeps, Owes
  <1>2. CASE SyncOpportunities(s)
    BY <1>0, <1>2, OpportunitiesStep DEF Reads, Owes
  <1>3. CASE SyncSource(s)
    BY <1>3, SourceStep DEF Computes, Owes
  <1>4. CASE SyncWrite(s)
    BY <1>4, WriteStep DEF Updates, Rests, Logs, Owes
  <1>5. CASE SyncLog(s)
    BY <1>5, LogStep DEF Rests, Logs, Owes
  <1>6. CASE SyncDies(s)
    BY <1>0, <1>6, DieStep DEF Rests, Owes
  <1> QED BY <1>1, <1>2, <1>3, <1>4, <1>5, <1>6 DEF Acts, SyncStep

LEMMA LookedFor ==
    ASSUME Basics, AuditHolds, NEW s \in Syncers, SyncAudit(s), [Next]_vars
    PROVE  AuditHolds'
  <1>0. /\ Typed /\ audit' = audit /\ raced \subseteq raced'
        /\ sync' = [sync EXCEPT ![s] = sync'[s]]
        /\ \A t \in sync'[s].log : t \notin Range(audit)
        /\ \A r \in Syncers \ {s} : sync'[s].log \cap Owes(r) \subseteq raced'
    <2>1. raced \subseteq raced' /\ \A r \in Syncers \ {s} : sync'[s].log \cap Owes(r) \subseteq raced'
      BY RacedOfLook DEF Basics
    <2> QED BY <2>1, AuditStep DEF Basics
  <1>1. \A r \in Syncers \ {s} : Owes(r)' = Owes(r)
    BY <1>0 DEF Owes, Typed
  <1>2. Owes(s)' \subseteq sync'[s].log
    BY DEF Owes
  <1>3. AuditHasNoDuplicates'
    BY <1>0 DEF AuditHolds, AuditHasNoDuplicates
  <1>4. ASSUME NEW r \in Syncers PROVE Owes(r)' \cap Range(audit') \subseteq raced'
    BY <1>0, <1>1, <1>2 DEF AuditHolds
  <1>5. ASSUME NEW q \in Syncers, NEW r \in Syncers, q # r PROVE Owes(q)' \cap Owes(r)' \subseteq raced'
    BY <1>0, <1>1, <1>2, <1>5 DEF AuditHolds
  <1> QED BY <1>3, <1>4, <1>5 DEF AuditHolds

LEMMA Inserted ==
    ASSUME Basics, AuditHolds, NEW s \in Syncers, SyncLog(s), [Next]_vars, raced' = raced
    PROVE  AuditHolds'
  <1>0. Typed
    BY DEF Basics
  <1>1. PICK t \in sync[s].log :
           /\ sync[s].at = "log"
           /\ t \in Moved /\ audit' = Append(audit, t)
           /\ \/ sync'[s] \in Rests
              \/ sync'[s] \in Logs /\ sync'[s].log = sync[s].log \ {t}
    BY LogStep
  <1>2. t \in Owes(s) /\ Owes(s)' \subseteq Owes(s) \ {t}
    BY <1>1 DEF Owes, Rests, Logs
  <1>4. \A r \in Syncers \ {s} : Owes(r)' = Owes(r)
    <2>1. sync' = [sync EXCEPT ![s] = sync'[s]]
      BY LogStep
    <2> QED BY <1>0, <2>1 DEF Owes, Typed
  <1>5. /\ DOMAIN audit' = DOMAIN audit \cup {Len(audit) + 1} /\ Len(audit) + 1 \notin DOMAIN audit
        /\ audit'[Len(audit) + 1] = t
        /\ \A i \in DOMAIN audit : audit'[i] = audit[i]
        /\ Range(audit') = Range(audit) \cup {t}
    BY <1>0, <1>1, LongerSeq DEF Typed
  <1>6. \A i \in DOMAIN audit : audit[i] \in Range(audit)
    BY DEF Range
  <1>7. t \in Range(audit) => t \in raced
    BY <1>2 DEF AuditHolds
  <1>8. AuditHasNoDuplicates'
    <2> SUFFICES ASSUME NEW i \in DOMAIN audit', NEW j \in DOMAIN audit', audit'[i] = audit'[j], i # j
                 PROVE  audit'[i] \in raced
      BY DEF AuditHasNoDuplicates
    <2>1. CASE i \in DOMAIN audit /\ j \in DOMAIN audit
      BY <1>5, <2>1 DEF AuditHolds, AuditHasNoDuplicates
    <2>2. CASE i \notin DOMAIN audit \/ j \notin DOMAIN audit
      <3>1. audit'[i] = t /\ t \in Range(audit)
        BY <1>5, <1>6, <2>2
      <3> QED BY <1>7, <3>1
    <2> QED BY <2>1, <2>2
  <1>9. ASSUME NEW r \in Syncers PROVE Owes(r)' \cap Range(audit') \subseteq raced'
    <2>1. Owes(r)' \cap Range(audit) \subseteq raced
      BY <1>2, <1>4 DEF AuditHolds
    <2>2. t \in Owes(r)' => t \in raced
      BY <1>2, <1>4 DEF AuditHolds
    <2> QED BY <1>5, <2>1, <2>2
  <1>10. ASSUME NEW q \in Syncers, NEW r \in Syncers, q # r PROVE Owes(q)' \cap Owes(r)' \subseteq raced'
    BY <1>2, <1>4, <1>10 DEF AuditHolds
  <1> QED BY <1>8, <1>9, <1>10 DEF AuditHolds

LEMMA AuditStaysStep ==
    ASSUME Basics, AuditHolds, [Next]_vars PROVE AuditHolds'
  <1>0. Typed
    BY DEF Basics
  <1>1. CASE \E s \in Syncers : SyncAudit(s)
    BY <1>1, LookedFor
  <1>2. CASE ~ \E s \in Syncers : SyncAudit(s)
    <2>1. raced' = raced
      BY <1>0, <1>2, RacedStep
    <2>2. CASE \E s \in Syncers : SyncLog(s)
      BY <2>1, <2>2, Inserted
    <2>3. CASE audit' = audit
      <3>1. \A s \in Syncers : Owes(s)' \subseteq Owes(s)
        BY <1>2, OwesStep
      <3> QED BY <2>1, <2>3, <3>1 DEF AuditHolds, AuditHasNoDuplicates
    <2> QED BY <1>0, <2>2, <2>3, AuditGrows
  <1> QED BY <1>1, <1>2

(* "Audit must not duplicate": over any number of reassessments, crashes in *)
(* the middle of the writes and syncs, overlapping or not, a transition is  *)
(* in the audit twice only if two syncs found it missing before either had  *)
(* inserted it: the look and the insert are two transactions.               *)
THEOREM AuditStaysUnique == Spec => []AuditHasNoDuplicates
  <1> DEFINE Inv == Basics /\ AuditHolds
  <1>1. Init => Inv
    <2> SUFFICES ASSUME Init PROVE AuditHolds
      BY BasicsInit
    <2>1. audit = <<>> /\ \A s \in Syncers : sync[s].at = "idle"
      BY DEF Init, NoSync
    <2>2. Range(audit) = {} /\ DOMAIN audit = {} /\ \A s \in Syncers : Owes(s) = {}
      BY <2>1, EmptySeq DEF Range, Owes
    <2> QED BY <2>2 DEF AuditHolds, AuditHasNoDuplicates
  <1>2. Inv /\ [Next]_vars => Inv'
    BY BasicsStep, AuditStaysStep
  <1>3. Inv => AuditHasNoDuplicates
    BY DEF AuditHolds
  <1>4. Spec => []Inv
    BY <1>1, <1>2, PTL DEF Spec
  <1> QED BY <1>3, <1>4, PTL
=============================================================================
