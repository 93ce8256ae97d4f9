------------------------- MODULE DocumentQueueProofs -------------------------
(***************************************************************************)
(* Proofs about DocumentQueue, for any procurements, producers and daemons *)
(* and any bounds: the types, that a row has one daemon until it is        *)
(* re-opened under it, that a row is left behind for a cause only, and     *)
(* where two rows of one procurement come from.                            *)
(***************************************************************************)
EXTENDS DocumentQueue, TLAPS, FiniteSetTheorems, SequenceTheorems

Writing(q) == prod[q].at = "write"
Writers == {q \in Producers : Writing(q)}

(* A producer that writes for a procurement it has not found. *)
Inserting(q) == Writing(q) /\ prod[q].found = 0

Jobs == [at : {"idle", "batch", "down"}, todo : SUBSET Nat, on : Nat, broken : BOOLEAN]
Between == [at : {"idle"}, tasks : SUBSET Procs]
Request == {r \in Row : r.status = "PENDING"}
Statement == [at : {"write"}, tasks : SUBSET Procs, task : Request, found : Nat, seen : Depths \cup {0}]

(* Types of the variables as a whole. *)
Typed ==
    /\ rows \in Seq(Row)
    /\ job \in [Workers -> Jobs]
    /\ prod \in [Producers -> Between \cup Statement]
    /\ begun \subseteq Ids /\ over \subseteq Ids /\ lost \subseteq Ids
    /\ raced \subseteq Procs /\ budget \in Nat

(* What a daemon has in hand exists, and it has something exactly while it  *)
(* is in a batch.                                                           *)
InHand(w) ==
    /\ (job[w].at = "batch") <=> (Claims(job[w]) # {})
    /\ Claims(job[w]) \subseteq Ids
    /\ job[w].on \notin job[w].todo /\ 0 \notin job[w].todo

(* A producer writes to the row it has found, which is of its procurement.  *)
WritesItsOwn(q) ==
    Writing(q) /\ prod[q].found # 0 =>
        prod[q].found \in Ids /\ rows[prod[q].found].proc = prod[q].task.proc

QueueInv ==
    /\ Typed
    /\ Len(rows) + Cardinality(Writers) <= MaxRows
    /\ \A w \in Workers : InHand(w)
    /\ \A q \in Producers : WritesItsOwn(q)
    /\ \A i \in over : Holders(i) # {}

(* Who is about to insert a second row knew of no other, and is one of two. *)
RacesAreNoted ==
    /\ \A q \in Producers, i \in Ids :
          Inserting(q) /\ rows[i].proc = prod[q].task.proc => rows[i].proc \in raced
    /\ \A q, r \in Producers :
          q # r /\ Inserting(q) /\ Inserting(r) /\ prod[q].task.proc = prod[r].task.proc
              => prod[q].task.proc \in raced
-----------------------------------------------------------------------------
(* Facts about the operators. *)

LEMMA SeqOfFunction ==
    ASSUME NEW S, NEW n \in Nat, NEW f \in [1..n -> S]
    PROVE  f \in Seq(S) /\ Len(f) = n /\ DOMAIN f = 1..n
  <1>1. f \in Seq(S)
    BY SeqDef
  <1>2. Len(f) \in Nat /\ DOMAIN f = 1..Len(f)
    BY <1>1, LenProperties
  <1> QED BY <1>1, <1>2

LEMMA IdsAreNumbers ==
    ASSUME Typed
    PROVE  /\ Len(rows) \in Nat /\ Ids = 1..Len(rows) /\ 0 \notin Ids
           /\ \A i \in Ids : rows[i] \in Row
  BY LenProperties, ElementOfSeq DEF Typed, Ids

(* A table changed row by row is a table with the same ids. *)
LEMMA Rewritten ==
    ASSUME Typed, rows' \in [Ids -> Row] PROVE rows' \in Seq(Row) /\ Ids' = Ids /\ Len(rows') = Len(rows)
  <1>1. Len(rows) \in Nat /\ Ids = 1..Len(rows)
    BY IdsAreNumbers
  <1> QED BY <1>1, SeqOfFunction DEF Ids

LEMMA TaskType ==
    ASSUME NEW q \in Producers, NEW p \in Procs, NEW t \in Tasks(q, p)
    PROVE  t \in Row /\ t.proc = p /\ t.status = "PENDING"
  <1>1. \A lane \in Lanes : Scores[lane] \subseteq Nat
    BY QueueAssumption DEF Scores
  <1>2. \A d \in Depths : MapScore(d) \in Nat
    BY DEF MapScore
  <1>3. CASE q \in Raisers
    BY <1>2, <1>3 DEF Tasks, Task, Row
  <1>4. CASE q \notin Raisers
    <2>1. PICK lane \in Lanes : t \in {Task(q, p, d, lane, score) : d \in Depths, score \in Scores[lane]}
      BY <1>4 DEF Tasks
    <2> QED BY <1>1, <2>1 DEF Task, Row
  <1> QED BY <1>3, <1>4

LEMMA StatementType ==
    ASSUME Typed, NEW q \in Producers, Writing(q) PROVE prod[q] \in Statement /\ prod[q].task \in Row /\ prod[q].task.status = "PENDING"
  BY DEF Typed, Between, Statement, Request, Writing

(* When a procurement is done its producer is between two. *)
LEMMA AfterDone ==
    ASSUME Typed, NEW q \in Producers, Writing(q), NEW b \in BOOLEAN, Done(q, b)
    PROVE  /\ prod' \in [Producers -> Between \cup Statement]
           /\ ~Writing(q)'
           /\ \A r \in Producers \ {q} : prod'[r] = prod[r]
  <1>1. prod[q].task.proc \in Procs /\ prod[q].tasks \subseteq Procs
    BY StatementType DEF Statement, Request, Row
  <1>2. prod'[q] \in Between
    BY <1>1 DEF Typed, Done, Between
  <1> QED BY <1>2 DEF Typed, Done, Writing, Between

(* A history of ids stays one while rows only come. *)
LEMMA AfterReopened ==
    ASSUME Typed, NEW S \in SUBSET Ids, Reopened(S)
    PROVE  begun' \subseteq Ids /\ over' \subseteq Ids /\ lost' \subseteq Ids
  BY DEF Typed, Reopened

-----------------------------------------------------------------------------
(* The invariant, part by part: types. *)
LEMMA TypedStep == ASSUME QueueInv, [Next]_vars PROVE Typed'
  <1> USE QueueAssumption DEF QueueInv
  <1>i. /\ Len(rows) \in Nat /\ Ids = 1..Len(rows) /\ 0 \notin Ids
        /\ \A i \in Ids : rows[i] \in Row
    BY IdsAreNumbers
  <1>0. CASE UNCHANGED vars
    BY <1>0 DEF Typed, vars, history, Ids
  <1>1. ASSUME NEW q \in Producers, NEW p \in Procs, Look(q, p) PROVE Typed'
    <2>1. PICK t \in Tasks(q, p), i \in IF Found(p) = {} THEN {0} ELSE Found(p) :
            prod' = [prod EXCEPT ![q] = [at |-> "write", tasks |-> @.tasks, task |-> t, found |-> i,
                                         seen |-> IF i = 0 THEN 0 ELSE rows[i].depth]]
      BY <1>1 DEF Look
    <2>2. t \in Request /\ i \in Nat /\ (i # 0 => i \in Ids)
      BY <1>i, <2>1, TaskType DEF Found, Request
    <2>3. (IF i = 0 THEN 0 ELSE rows[i].depth) \in Depths \cup {0}
      BY <1>i, <2>2 DEF Row
    <2>4. prod[q].tasks \subseteq Procs
      BY DEF Typed, Between, Statement
    <2>5. prod' \in [Producers -> Between \cup Statement]
      BY <2>1, <2>2, <2>3, <2>4 DEF Typed, Statement
    <2> QED BY <1>1, <2>5 DEF Look, Disturb, Typed, Ids
  <1>2. ASSUME NEW q \in Producers, Insert(q) PROVE Typed'
    <2>1. Writing(q) /\ prod[q].task \in Row
      BY <1>2, StatementType DEF Insert, Writing
    <2>2. rows' \in Seq(Row) /\ Len(rows') = Len(rows) + 1
      BY <1>2, <2>1, AppendProperties DEF Insert, Typed
    <2>3. Ids' = 1..(Len(rows) + 1)
      BY <2>2, LenProperties DEF Ids
    <2>4. prod' \in [Producers -> Between \cup Statement]
      BY <1>2, <2>1, AfterDone DEF Insert
    <2> QED BY <1>2, <1>i, <2>2, <2>3, <2>4 DEF Insert, Typed
  <1>3. ASSUME NEW q \in Producers, Raise(q) \/ Reset(q) PROVE Typed'
    <2>1. Writing(q) /\ prod[q].task \in Row /\ prod[q].found \in Ids
      BY <1>3, StatementType DEF Raise, Reset, Writing, WritesItsOwn
    <2>2. rows[prod[q].found].worker \in Workers \cup {Nobody}
      BY <1>i, <2>1 DEF Row
    <2>3. [prod[q].task EXCEPT !.worker = rows[prod[q].found].worker] \in Row
      BY <2>1, <2>2 DEF Row
    <2>4. rows' \in [Ids -> Row]
      BY <1>3, <1>i, <2>1, <2>3 DEF Raise, Reset, Typed, Ids
    <2>5. rows' \in Seq(Row) /\ Ids' = Ids
      BY <2>4, Rewritten
    <2>6. prod' \in [Producers -> Between \cup Statement]
      BY <1>3, <2>1, AfterDone DEF Raise, Reset
    <2>7. begun' \subseteq Ids /\ over' \subseteq Ids /\ lost' \subseteq Ids
      BY <1>3, <2>1, AfterReopened DEF Raise, Reset
    <2> QED BY <1>3, <2>5, <2>6, <2>7 DEF Raise, Reset, Typed
  <1>4. ASSUME NEW q \in Producers, KeepsDepth(q) \/ RollBack(q) PROVE Typed'
    <2>1. prod' \in [Producers -> Between \cup Statement]
      BY <1>4, AfterDone DEF KeepsDepth, RollBack, Writing
    <2>2. CASE KeepsDepth(q)
      BY <2>1, <2>2 DEF KeepsDepth, history, Typed, Ids
    <2>3. CASE RollBack(q)
      BY <2>1, <2>3 DEF RollBack, Disturb, history, Typed, Ids
    <2> QED BY <1>4, <2>2, <2>3
  <1>5. ASSUME NEW q \in Producers, Stops(q) PROVE Typed'
    BY <1>5 DEF Stops, Disturb, history, Typed, Ids, NoRequest, Between
  <1>6. ASSUME NEW q \in Producers, Rank(q) PROVE Typed'
    <2>1. PICK place \in Bijection(prod[q].tasks, 1..Cardinality(prod[q].tasks)) :
             rows' = [i \in Ids |-> IF rows[i].proc \in prod[q].tasks
                                 THEN [rows[i] EXCEPT !.score = place[rows[i].proc]] ELSE rows[i]]
      BY <1>6 DEF Rank
    <2>2. prod[q].tasks \subseteq Procs
      BY DEF Typed, Between, Statement
    <2>3. Cardinality(prod[q].tasks) \in Nat
      BY <2>2, FS_Subset, FS_CardinalityType
    <2>4. \A p \in prod[q].tasks : place[p] \in Nat
      BY <2>1, <2>3 DEF Bijection, Injection
    <2>5. rows' \in [Ids -> Row]
      <3>1. ASSUME NEW i \in Ids, rows[i].proc \in prod[q].tasks
            PROVE  [rows[i] EXCEPT !.score = place[rows[i].proc]] \in Row
        <4>1. rows[i] \in Row /\ place[rows[i].proc] \in Nat
          BY <1>i, <2>4, <3>1
        <4> HIDE DEF QueueInv
        <4> QED BY <4>1 DEF Row
      <3>2. \A i \in Ids : rows[i] \in Row
        BY <1>i
      <3> QED BY <2>1, <3>1, <3>2
    <2>6. rows' \in Seq(Row) /\ Ids' = Ids
      BY <2>5, Rewritten
    <2> QED BY <1>6, <2>6 DEF Rank, history, Typed, NoRequest, Between
  <1>7. ASSUME NEW w \in Workers, ClaimBatch(w) PROVE Typed'
    <2>1. PICK S \in SUBSET Ids :
            /\ rows' = [i \in Ids |-> IF i \in S
                          THEN [rows[i] EXCEPT !.status = "PROCESSING", !.worker = w] ELSE rows[i]]
            /\ job' = [job EXCEPT ![w].at = "batch", ![w].todo = S]
            /\ lost' = lost \ S
      BY <1>7 DEF ClaimBatch, Pending
    <2>2. rows' \in [Ids -> Row]
      <3>1. ASSUME NEW i \in Ids PROVE [rows[i] EXCEPT !.status = "PROCESSING", !.worker = w] \in Row
        <4>1. rows[i] \in Row
          BY <1>i
        <4> HIDE DEF QueueInv
        <4> QED BY <4>1 DEF Row
      <3>2. \A i \in Ids : rows[i] \in Row
        BY <1>i
      <3> QED BY <2>1, <3>1, <3>2
    <2>3. rows' \in Seq(Row) /\ Ids' = Ids
      BY <2>2, Rewritten
    <2>4. job' \in [Workers -> Jobs]
      <3>1. job \in [Workers -> Jobs] /\ S \in SUBSET Nat
        BY <1>i DEF Typed
      <3>2. job' = [job EXCEPT ![w].at = "batch", ![w].todo = S]
        BY <2>1
      <3> HIDE DEF QueueInv
      <3>3. [job[w] EXCEPT !.at = "batch", !.todo = S] \in Jobs
        <4>1. job[w] \in Jobs
          BY <3>1
        <4> HIDE DEF QueueInv
        <4> QED BY <3>1, <4>1 DEF Jobs
      <3>4. job' = [job EXCEPT ![w] = [job[w] EXCEPT !.at = "batch", !.todo = S]]
        BY <3>1, <3>2
      <3> QED BY <3>1, <3>3, <3>4
    <2> QED BY <1>7, <2>1, <2>3, <2>4 DEF ClaimBatch, Typed
  <1>8. ASSUME NEW w \in Workers, NEW i \in Ids, Begin(w, i) PROVE Typed'
    <2>1. job' \in [Workers -> Jobs]
      BY <1>8, <1>i DEF Begin, Typed, Jobs
    <2> QED BY <1>8, <2>1 DEF Begin, Typed, Ids
  <1>9. ASSUME NEW w \in Workers, NEW status \in Ended, Mark(w, status) PROVE Typed'
    <2>1. job[w].on \in Ids /\ job[w] \in Jobs
      BY <1>9, <1>i DEF Mark, InHand, Claims, Typed
    <2>2. rows' \in [Ids -> Row]
      <3>1. rows[job[w].on] \in Row /\ status \in Ended /\ (\A i \in Ids : rows[i] \in Row)
        BY <1>9, <1>i, <2>1
      <3>2. [rows[job[w].on] EXCEPT !.status = status] \in Row
        <4> HIDE DEF QueueInv
        <4> QED BY <3>1 DEF Row
      <3>3. rows' = [rows EXCEPT ![job[w].on] = [rows[job[w].on] EXCEPT !.status = status]]
        BY <1>9, <2>1 DEF Mark
      <3>4. rows \in [Ids -> Row]
        BY <1>i, <3>1 DEF Typed, Ids
      <3> QED BY <2>1, <3>2, <3>3, <3>4
    <2>3. rows' \in Seq(Row) /\ Ids' = Ids
      BY <2>2, Rewritten
    <2>4. job' \in [Workers -> Jobs]
      BY <1>9, <2>1 DEF Mark, NextInBatch, Idle, Typed, Jobs
    <2> QED BY <1>9, <2>3, <2>4 DEF Mark, LetGo, Typed
  <1>10. ASSUME NEW w \in Workers, MarkFails(w) PROVE Typed'
    <2>1. job[w].on \in Ids /\ job[w] \in Jobs
      BY <1>10, <1>i DEF MarkFails, InHand, Claims, Typed
    <2>2. job' \in [Workers -> Jobs]
      BY <1>10, <2>1 DEF MarkFails, NextInBatch, Idle, Typed, Jobs
    <2> QED BY <1>10, <2>1, <2>2 DEF MarkFails, LetGo, Disturb, Typed, Ids
  <1>11. ASSUME NEW w \in Workers, Crash(w) PROVE Typed'
    <2>1. job' \in [Workers -> Jobs] /\ Claims(job[w]) \subseteq Ids
      BY <1>11 DEF Crash, Down, InHand, Typed, Jobs
    <2> QED BY <1>11, <2>1 DEF Crash, LetGo, Disturb, Typed, Ids
  <1>12. ASSUME NEW w \in Workers, Restart(w) PROVE Typed'
    <2>1. job' \in [Workers -> Jobs]
      BY <1>12 DEF Restart, Idle, Typed, Jobs
    <2> QED BY <1>12, <2>1 DEF Restart, history, Typed, Ids
  <1> QED
    BY <1>0, <1>1, <1>2, <1>3, <1>4, <1>5, <1>6, <1>7, <1>8, <1>9, <1>10, <1>11, <1>12
    DEF Next, Produce, Work, Process

(* Rows only come, one at a time, and stay with their procurement. *)
LEMMA RowsStay ==
    ASSUME QueueInv, [Next]_vars
    PROVE  /\ \/ Len(rows') = Len(rows) /\ Ids' = Ids
              \/ \E q \in Producers : Insert(q) /\ Len(rows') = Len(rows) + 1
           /\ Ids \subseteq Ids'
           /\ \A i \in Ids : rows'[i].proc = rows[i].proc
  <1> USE DEF QueueInv
  <1>i. /\ Len(rows) \in Nat /\ Ids = 1..Len(rows)
        /\ Len(rows') \in Nat /\ Ids' = 1..Len(rows')
        /\ rows \in Seq(Row)
    BY TypedStep, IdsAreNumbers, LenProperties DEF Typed, Ids
  <1>s. Ids' = Ids => Len(rows') = Len(rows)
    BY <1>i
  <1>1. ASSUME NEW q \in Producers, Insert(q)
        PROVE  /\ Len(rows') = Len(rows) + 1
               /\ Ids \subseteq Ids'
               /\ \A i \in Ids : rows'[i].proc = rows[i].proc
    <2>1. prod[q].task \in Row /\ rows' = Append(rows, prod[q].task)
      BY <1>1, StatementType DEF Insert, Writing
    <2>2. Len(rows') = Len(rows) + 1 /\ \A i \in 1..Len(rows) : rows'[i] = rows[i]
      BY <1>i, <2>1, AppendProperties
    <2> QED BY <1>i, <2>2
  <1>2. ASSUME NEW q \in Producers, Raise(q) \/ Reset(q)
        PROVE  Ids' = Ids /\ \A i \in Ids : rows'[i].proc = rows[i].proc
    <2>1. prod[q].found \in Ids /\ rows[prod[q].found].proc = prod[q].task.proc
      BY <1>2 DEF Raise, Reset, WritesItsOwn, Writing
    <2>2. prod[q].task \in Row
      BY <1>2, StatementType DEF Raise, Reset, Writing
    <2>3. PICK t : t.proc = prod[q].task.proc /\ rows' = [rows EXCEPT ![prod[q].found] = t]
      BY <1>2, <2>2 DEF Raise, Reset, Row
    <2> QED BY <1>i, <2>1, <2>3 DEF Ids
  <1>3. ASSUME NEW q \in Producers, Rank(q)
        PROVE  Ids' = Ids /\ \A i \in Ids : rows'[i].proc = rows[i].proc
    <2>1. PICK place : rows' = [i \in Ids |-> IF rows[i].proc \in prod[q].tasks
                                 THEN [rows[i] EXCEPT !.score = place[rows[i].proc]] ELSE rows[i]]
      BY <1>3 DEF Rank
    <2> QED BY <1>i, <2>1, ElementOfSeq DEF Ids, Row
  <1>4. ASSUME NEW w \in Workers, ClaimBatch(w)
        PROVE  Ids' = Ids /\ \A i \in Ids : rows'[i].proc = rows[i].proc
    <2>1. PICK S \in SUBSET Ids :
             rows' = [i \in Ids |-> IF i \in S
                          THEN [rows[i] EXCEPT !.status = "PROCESSING", !.worker = w] ELSE rows[i]]
      BY <1>4 DEF ClaimBatch, Pending
    <2>2. \A i \in Ids : rows[i] \in Row
      BY IdsAreNumbers
    <2>3. Ids' = Ids
      BY <2>1 DEF Ids
    <2>4. \A i \in Ids : rows'[i].proc = rows[i].proc
      BY <2>1, <2>2 DEF Row
    <2> QED BY <2>3, <2>4
  <1>5. ASSUME NEW w \in Workers, NEW status \in Ended, Mark(w, status)
        PROVE  Ids' = Ids /\ \A i \in Ids : rows'[i].proc = rows[i].proc
    <2>1. rows' = [rows EXCEPT ![job[w].on].status = status]
      BY <1>5 DEF Mark
    <2>2. Ids' = Ids
      BY <2>1 DEF Ids
    <2>3. \A i \in Ids : rows[i] \in Row
      BY IdsAreNumbers
    <2>4. \A i \in Ids : rows'[i] = IF i = job[w].on THEN [rows[i] EXCEPT !.status = status] ELSE rows[i]
      BY <2>1 DEF Ids
    <2> QED BY <2>2, <2>3, <2>4 DEF Row
  <1>6. CASE UNCHANGED rows
    BY <1>6 DEF Ids
  <1>7. (\E q \in Producers : Insert(q) \/ Raise(q) \/ Reset(q) \/ Rank(q))
        \/ (\E w \in Workers : ClaimBatch(w) \/ \E status \in Ended : Mark(w, status))
        \/ UNCHANGED rows
    BY DEF Next, vars, Produce, Work, Process, Look, KeepsDepth, RollBack, Stops, Begin, MarkFails, Crash, Restart
  <1> QED BY <1>s, <1>1, <1>2, <1>3, <1>4, <1>5, <1>6, <1>7

(* A look takes a place in the table, the write that follows fills it. *)
LEMMA RoomStep ==
    ASSUME QueueInv, [Next]_vars PROVE Len(rows') + Cardinality(Writers') <= MaxRows
  <1> USE QueueAssumption DEF QueueInv
  <1>i. Len(rows) \in Nat /\ IsFiniteSet(Writers) /\ Cardinality(Writers) \in Nat
    <2>1. Writers \in SUBSET Producers
      BY DEF Writers
    <2> QED BY <2>1, IdsAreNumbers, FS_Subset, FS_CardinalityType
  <1>s. Len(rows') = Len(rows) \/ \E q \in Producers : Insert(q) /\ Len(rows') = Len(rows) + 1
    BY RowsStay
  <1>1. ASSUME NEW q \in Producers, NEW p \in Procs, Look(q, p)
        PROVE  Len(rows') + Cardinality(Writers') <= MaxRows
    <2>1. ~Writing(q) /\ Len(rows) + Cardinality(Writers) < MaxRows /\ rows' = rows
      BY <1>1 DEF Look, Writing, Writers
    <2>2. Writers' = Writers \cup {q}
      BY <1>1, <2>1 DEF Look, Writing, Writers, Typed
    <2>3. Cardinality(Writers') = Cardinality(Writers) + 1
      BY <1>i, <2>1, <2>2, FS_AddElement DEF Writers
    <2> QED BY <1>i, <2>1, <2>3 DEF Typed
  <1>2. ASSUME NEW q \in Producers, Writing(q), NEW b \in BOOLEAN, Done(q, b)
        PROVE  Cardinality(Writers') = Cardinality(Writers) - 1
    <2>1. Writers' = Writers \ {q} /\ q \in Writers
      BY <1>2, AfterDone DEF Writing, Writers
    <2> QED BY <1>i, <2>1, FS_RemoveElement
  <1>3. ASSUME NEW q \in Producers, Insert(q)
        PROVE  Len(rows') + Cardinality(Writers') <= MaxRows
    <2>1. Writing(q) /\ Done(q, TRUE) /\ prod[q].task \in Row
      BY <1>3, StatementType DEF Insert, Writing
    <2>2. Cardinality(Writers') = Cardinality(Writers) - 1
      BY <2>1, <1>2
    <2>3. Len(rows') = Len(rows) + 1
      BY <1>3, <2>1, AppendProperties DEF Insert, Typed
    <2> QED BY <1>i, <2>2, <2>3
  <1>4. ASSUME NEW q \in Producers, Raise(q) \/ Reset(q) \/ KeepsDepth(q) \/ RollBack(q)
        PROVE  Cardinality(Writers') <= Cardinality(Writers)
    <2>1. Writing(q) /\ \E b \in BOOLEAN : Done(q, b)
      BY <1>4 DEF Raise, Reset, KeepsDepth, RollBack, Writing
    <2> QED BY <1>i, <1>2, <2>1
  <1>5. ASSUME NEW q \in Producers, Stops(q) \/ Rank(q)
        PROVE  Cardinality(Writers') <= Cardinality(Writers)
    <2>1. Writers' \subseteq Writers
      BY <1>5 DEF Stops, Rank, NoRequest, Writing, Writers, Typed
    <2> QED BY <1>i, <2>1, FS_Subset
  <1>6. CASE UNCHANGED prod
    BY <1>6, <1>i, <1>s, <1>3 DEF Writers, Writing
  <1>7. (\E q \in Producers : \/ Insert(q) \/ Raise(q) \/ Reset(q) \/ KeepsDepth(q) \/ RollBack(q)
                              \/ Stops(q) \/ Rank(q) \/ \E p \in Procs : Look(q, p))
        \/ UNCHANGED prod
    BY DEF Next, vars, history, Produce, Work, Process, ClaimBatch, Begin, Mark, MarkFails, Crash, Restart
  <1>8. Cardinality(Writers') <= Cardinality(Writers) /\ Len(rows') = Len(rows)
        => Len(rows') + Cardinality(Writers') <= MaxRows
    <2>1. IsFiniteSet(Writers') /\ Cardinality(Writers') \in Nat
      <3>1. Writers' \in SUBSET Producers
        BY DEF Writers
      <3> QED BY <3>1, FS_Subset, FS_CardinalityType
    <2> QED BY <1>i, <2>1
  <1>9. CASE \E q \in Producers : Insert(q)
    BY <1>3, <1>9
  <1>10. CASE (\A q \in Producers : ~Insert(q)) /\ ~UNCHANGED prod
    BY <1>s, <1>1, <1>4, <1>5, <1>7, <1>8, <1>10
  <1> QED BY <1>6, <1>9, <1>10

-----------------------------------------------------------------------------
(* Batches.  The order of a claim is one, so a claim of a table with        *)
(* pending rows is never empty.                                             *)
Earlier(i) == {k \in Pending : ClaimedBefore(k, i)}

LEMMA ClaimOrder ==
    ASSUME Typed, NEW i \in Ids, NEW k \in Ids, NEW l \in Ids,
           ClaimedBefore(l, k), ClaimedBefore(k, i)
    PROVE  ClaimedBefore(l, i) /\ ~ClaimedBefore(k, k)
  <1>1. /\ rows[i].score \in Nat /\ rows[k].score \in Nat /\ rows[l].score \in Nat
        /\ i \in Nat /\ k \in Nat /\ l \in Nat
    BY IdsAreNumbers DEF Row
  <1>2. \A lane : LaneRank(lane) \in Nat
    BY DEF LaneRank
  <1> QED BY <1>1, <1>2 DEF ClaimedBefore

LEMMA SomeRowIsFirst ==
    ASSUME Typed, Pending # {}
    PROVE  \E i \in Pending : Cardinality(Earlier(i)) = 0
  <1>1. IsFiniteSet(Pending)
    <2>1. IsFiniteSet(Ids)
      BY IdsAreNumbers, FS_Interval
    <2>2. Pending \in SUBSET Ids
      BY DEF Pending
    <2> QED BY <2>1, <2>2, FS_Subset
  <1> DEFINE T == {Earlier(i) : i \in Pending}
  <1>2. T # {} /\ T \subseteq FiniteSubsetsOf(Pending)
    <2>1. \A i : Earlier(i) \in SUBSET Pending
      BY DEF Earlier
    <2> QED BY <1>1, <2>1, FS_Subset DEF FiniteSubsetsOf
  <1>3. PICK E \in T : \A F \in T : ~(<<F, E>> \in StrictSubsetOrdering(Pending))
    BY <1>2, FS_StrictSubsetOrderingWellFounded, WFMin
  <1>4. PICK i \in Pending : E = Earlier(i)
    BY <1>3
  <1>5. ASSUME NEW k \in Earlier(i) PROVE FALSE
    <2>1. k \in Pending /\ ClaimedBefore(k, i) /\ Earlier(k) \in T
      BY <1>5 DEF Earlier
    <2>2. Earlier(k) \subseteq Earlier(i) /\ k \notin Earlier(k)
      BY <1>4, <2>1, ClaimOrder DEF Earlier, Pending
    <2>3. <<Earlier(k), Earlier(i)>> \in StrictSubsetOrdering(Pending)
      BY <1>5, <2>2 DEF Earlier, StrictSubsetOrdering
    <2> QED BY <1>3, <1>4, <2>1, <2>3
  <1> QED BY <1>4, <1>5, FS_EmptySet

-----------------------------------------------------------------------------
(* What the steps of a daemon do to what it holds. *)
OthersStay(w) == \A v \in Workers \ {w} : job'[v] = job[v]

(* A daemon ends its business with the rows in S. *)
GivesUp(w, S) ==
    /\ S \subseteq Claims(job[w]) /\ Claims(job'[w]) = Claims(job[w]) \ S
    /\ OthersStay(w) /\ LetGo(w, S)

LEMMA Taking ==
    ASSUME QueueInv, NEW w \in Workers, ClaimBatch(w)
    PROVE  \E S \in SUBSET Pending :
              /\ rows' = [i \in Ids |-> IF i \in S
                            THEN [rows[i] EXCEPT !.status = "PROCESSING", !.worker = w] ELSE rows[i]]
              /\ lost' = lost \ S
              /\ Claims(job[w]) = {} /\ Claims(job'[w]) = S
              /\ InHand(w)' /\ OthersStay(w)
  <1> DEFINE S == {i \in Pending : Cardinality({k \in Pending : ClaimedBefore(k, i)}) < BatchSize}
  <1>1. /\ rows' = [i \in Ids |-> IF i \in S
                      THEN [rows[i] EXCEPT !.status = "PROCESSING", !.worker = w] ELSE rows[i]]
        /\ lost' = lost \ S
        /\ job' = [job EXCEPT ![w].at = "batch", ![w].todo = S]
        /\ job[w].at = "idle" /\ Pending # {}
    BY DEF ClaimBatch
  <1>2. S \in SUBSET Pending /\ S \subseteq Ids
    BY DEF Pending
  <1>3. S # {}
    <2>1. PICK i \in Pending : Cardinality(Earlier(i)) = 0
      BY <1>1, SomeRowIsFirst DEF QueueInv
    <2> QED BY <2>1, QueueAssumption DEF Earlier
  <1>4. job \in [Workers -> Jobs] /\ InHand(w) /\ 0 \notin Ids
    BY IdsAreNumbers DEF QueueInv, Typed
  <1>5. Claims(job[w]) = {} /\ job[w].on = 0
    BY <1>1, <1>4 DEF InHand, Claims
  <1> HIDE DEF S
  <1>6. job'[w].at = "batch" /\ job'[w].todo = S /\ job'[w].on = 0 /\ OthersStay(w)
    BY <1>1, <1>4, <1>5 DEF Jobs, OthersStay
  <1>7. Claims(job'[w]) = S
    BY <1>6 DEF Claims
  <1>8. Ids' = Ids
    BY <1>1 DEF Ids
  <1>9. InHand(w)'
    BY <1>2, <1>3, <1>4, <1>6, <1>7, <1>8 DEF InHand
  <1> QED BY <1>1, <1>2, <1>5, <1>6, <1>7, <1>9

LEMMA Beginning ==
    ASSUME QueueInv, NEW w \in Workers, NEW i \in Ids, Begin(w, i)
    PROVE  Claims(job'[w]) = Claims(job[w]) /\ InHand(w)' /\ OthersStay(w)
  <1>1. job \in [Workers -> Jobs] /\ InHand(w) /\ 0 \notin Ids
    BY IdsAreNumbers DEF QueueInv, Typed
  <1>2. /\ job[w].at = "batch" /\ job[w].on = 0 /\ i \in job[w].todo /\ rows' = rows
        /\ job' = [job EXCEPT ![w].on = i, ![w].todo = job[w].todo \ {i}]
    BY DEF Begin
  <1>3. job'[w].at = "batch" /\ job'[w].on = i /\ job'[w].todo = job[w].todo \ {i} /\ OthersStay(w)
    BY <1>1, <1>2 DEF Jobs, OthersStay
  <1>4. Claims(job'[w]) = Claims(job[w])
    BY <1>1, <1>2, <1>3 DEF Claims
  <1> QED BY <1>1, <1>2, <1>3, <1>4 DEF InHand, Ids

LEMMA NextClaims ==
    ASSUME NEW j \in Jobs, j.on # 0, j.on \notin j.todo, 0 \notin j.todo, j.at = "batch"
    PROVE  /\ Claims(NextInBatch(j)) = Claims(j) \ {j.on}
           /\ (NextInBatch(j).at = "batch") <=> (Claims(NextInBatch(j)) # {})
           /\ NextInBatch(j).on = 0 /\ NextInBatch(j).todo = j.todo
  <1>1. CASE j.todo = {}
    BY <1>1 DEF NextInBatch, Idle, Claims
  <1>2. CASE j.todo # {}
    BY <1>2 DEF NextInBatch, Claims, Jobs
  <1> QED BY <1>1, <1>2

LEMMA Marking ==
    ASSUME QueueInv, NEW w \in Workers,
           (\E status \in Ended : Mark(w, status)) \/ MarkFails(w)
    PROVE  /\ job[w].on \in Ids /\ job[w].on \in Claims(job[w])
           /\ GivesUp(w, {job[w].on}) /\ InHand(w)'
  <1>1. job \in [Workers -> Jobs] /\ InHand(w) /\ 0 \notin Ids
    BY IdsAreNumbers DEF QueueInv, Typed
  <1>2. job[w].at = "batch" /\ job[w].on # 0
    BY DEF Mark, MarkFails
  <1>3. PICK j \in Jobs : /\ j.at = "batch" /\ j.on = job[w].on /\ j.todo = job[w].todo
                          /\ job' = [job EXCEPT ![w] = NextInBatch(j)]
    <2>1. CASE \E status \in Ended : Mark(w, status)
      <3>1. job' = [job EXCEPT ![w] = NextInBatch(job[w])]
        BY <2>1 DEF Mark
      <3> QED BY <1>1, <1>2, <3>1
    <2>2. CASE MarkFails(w)
      <3>1. job' = [job EXCEPT ![w] = NextInBatch([job[w] EXCEPT !.broken = TRUE])]
        BY <2>2 DEF MarkFails
      <3>2. job[w] \in Jobs
        BY <1>1
      <3>3. /\ [job[w] EXCEPT !.broken = TRUE] \in Jobs
            /\ [job[w] EXCEPT !.broken = TRUE].at = job[w].at
            /\ [job[w] EXCEPT !.broken = TRUE].on = job[w].on
            /\ [job[w] EXCEPT !.broken = TRUE].todo = job[w].todo
        BY <3>2 DEF Jobs
      <3> QED BY <1>2, <3>1, <3>3
    <2> QED BY <2>1, <2>2
  <1>4. job'[w] = NextInBatch(j) /\ OthersStay(w)
    BY <1>1, <1>3 DEF OthersStay
  <1>5. j.on \notin j.todo /\ 0 \notin j.todo /\ Claims(j) = Claims(job[w])
    BY <1>1, <1>3 DEF InHand, Claims
  <1>6. /\ Claims(job'[w]) = Claims(job[w]) \ {job[w].on}
        /\ (job'[w].at = "batch") <=> (Claims(job'[w]) # {})
        /\ job'[w].on = 0 /\ job'[w].todo = job[w].todo
    BY <1>2, <1>3, <1>4, <1>5, NextClaims
  <1>7. LetGo(w, {job[w].on}) /\ Ids' = Ids
    BY DEF Mark, MarkFails, Ids
  <1>8. job[w].on \in Claims(job[w])
    BY <1>2 DEF Claims
  <1> QED BY <1>1, <1>4, <1>6, <1>7, <1>8 DEF InHand, GivesUp

LEMMA Crashing ==
    ASSUME QueueInv, NEW w \in Workers, Crash(w)
    PROVE  GivesUp(w, Claims(job[w])) /\ InHand(w)'
  <1>1. job \in [Workers -> Jobs] /\ InHand(w)
    BY DEF QueueInv, Typed
  <1>2. job'[w] = Down /\ OthersStay(w)
    BY <1>1 DEF Crash, OthersStay
  <1>3. Claims(job'[w]) = {} /\ job'[w].at = "down" /\ job'[w].on = 0 /\ job'[w].todo = {}
    BY <1>2 DEF Claims, Down
  <1> QED BY <1>2, <1>3 DEF GivesUp, InHand, Crash

LEMMA Restarting ==
    ASSUME QueueInv, NEW w \in Workers, Restart(w)
    PROVE  Claims(job'[w]) = Claims(job[w]) /\ InHand(w)' /\ OthersStay(w)
  <1>1. job \in [Workers -> Jobs] /\ InHand(w)
    BY DEF QueueInv, Typed
  <1>2. job'[w] = Idle(FALSE) /\ job[w].at = "down" /\ OthersStay(w)
    BY <1>1 DEF Restart, OthersStay
  <1>3. Claims(job'[w]) = {} /\ job'[w].at = "idle" /\ job'[w].on = 0 /\ job'[w].todo = {}
    BY <1>2 DEF Claims, Idle
  <1> QED BY <1>1, <1>2, <1>3 DEF InHand

LEMMA InHandStep ==
    ASSUME QueueInv, [Next]_vars, NEW v \in Workers PROVE InHand(v)'
  <1>1. Ids \subseteq Ids' /\ InHand(v)
    BY RowsStay DEF QueueInv
  <1>2. CASE job'[v] = job[v]
    BY <1>1, <1>2 DEF InHand
  <1>3. (\E w \in Workers : Work(w) \/ Crash(w)) \/ UNCHANGED job
    BY DEF Next, vars, Produce, Look, Insert, Raise, KeepsDepth, Reset, Rank, RollBack, Stops
  <1>4. ASSUME NEW w \in Workers, Work(w) \/ Crash(w) PROVE InHand(v)'
    <2>1. InHand(w)' /\ OthersStay(w)
      BY <1>4, Taking, Beginning, Marking, Crashing, Restarting DEF Work, Process, GivesUp
    <2> QED BY <1>2, <2>1 DEF OthersStay
  <1> QED BY <1>2, <1>3, <1>4

LEMMA WritesItsOwnStep ==
    ASSUME QueueInv, [Next]_vars, NEW r \in Producers PROVE WritesItsOwn(r)'
  <1>i. /\ Ids \subseteq Ids' /\ (\A i \in Ids : rows'[i].proc = rows[i].proc)
        /\ WritesItsOwn(r) /\ prod \in [Producers -> Between \cup Statement]
    BY RowsStay DEF QueueInv, Typed
  <1>1. CASE prod'[r] = prod[r]
    BY <1>i, <1>1 DEF WritesItsOwn, Writing
  <1>2. CASE ~Writing(r)'
    BY <1>2 DEF WritesItsOwn
  <1>3. ASSUME NEW q \in Producers, NEW p \in Procs, Look(q, p), prod'[r] # prod[r] PROVE WritesItsOwn(r)'
    <2>1. PICK t \in Tasks(q, p), i \in IF Found(p) = {} THEN {0} ELSE Found(p) :
            prod' = [prod EXCEPT ![q] = [at |-> "write", tasks |-> prod[q].tasks, task |-> t, found |-> i,
                                         seen |-> IF i = 0 THEN 0 ELSE rows[i].depth]]
      BY <1>3 DEF Look
    <2>2. r = q /\ prod'[r].task = t /\ prod'[r].found = i
      BY <1>3, <1>i, <2>1
    <2>3. t.proc = p
      BY <2>1, TaskType
    <2>4. i # 0 => i \in Ids /\ rows[i].proc = p
      BY <2>1 DEF Found
    <2> QED BY <1>i, <2>2, <2>3, <2>4 DEF WritesItsOwn
  <1>4. ASSUME NEW q \in Producers, NEW b \in BOOLEAN, Writing(q), Done(q, b), prod'[r] # prod[r] PROVE ~Writing(r)'
    BY <1>4, AfterDone DEF QueueInv
  <1>5. ASSUME NEW q \in Producers, Rank(q) \/ Stops(q), prod'[r] # prod[r] PROVE ~Writing(r)'
    BY <1>5, <1>i DEF Rank, Stops, NoRequest, Writing
  <1>6. ASSUME NEW q \in Producers, Insert(q) \/ Raise(q) \/ KeepsDepth(q) \/ Reset(q) \/ RollBack(q)
        PROVE  Writing(q) /\ \E b \in BOOLEAN : Done(q, b)
    BY <1>6 DEF Insert, Raise, KeepsDepth, Reset, RollBack, Writing
  <1>7. (\E q \in Producers : Produce(q) \/ RollBack(q) \/ Stops(q) \/ \E p \in Procs : Look(q, p)) \/ UNCHANGED prod
    BY DEF Next, vars, Work, Process, ClaimBatch, Begin, Mark, MarkFails, Crash, Restart, history
  <1> QED BY <1>1, <1>2, <1>3, <1>4, <1>5, <1>6, <1>7 DEF Produce

-----------------------------------------------------------------------------
(* What a step does to the holders of a row. *)
LEMMA HoldersAfterGivingUp ==
    ASSUME NEW w \in Workers, NEW S, GivesUp(w, S), NEW i
    PROVE  Holders(i)' = IF i \in S THEN Holders(i) \ {w} ELSE Holders(i)
  <1>1. \A v \in Workers : (i \in Claims(job'[v])) <=> (i \in Claims(job[v]) /\ ~(v = w /\ i \in S))
    BY DEF GivesUp, OthersStay
  <1> QED BY <1>1 DEF Holders

LEMMA HoldersAfterTaking ==
    ASSUME NEW w \in Workers, NEW S, OthersStay(w), Claims(job[w]) = {}, Claims(job'[w]) = S, NEW i
    PROVE  Holders(i)' = IF i \in S THEN Holders(i) \cup {w} ELSE Holders(i)
  <1>1. \A v \in Workers : (i \in Claims(job'[v])) <=> (i \in Claims(job[v]) \/ (v = w /\ i \in S))
    BY DEF OthersStay
  <1> QED BY <1>1 DEF Holders

LEMMA HoldersStay ==
    ASSUME QueueInv, [Next]_vars, NEW i,
           \A w \in Workers : /\ ~ClaimBatch(w) /\ ~MarkFails(w) /\ ~Crash(w)
                              /\ \A status \in Ended : ~Mark(w, status)
    PROVE  Holders(i)' = Holders(i)
  <1>1. \A v \in Workers : Claims(job'[v]) = Claims(job[v])
    <2>1. UNCHANGED job \/ \E w \in Workers : Restart(w) \/ \E k \in Ids : Begin(w, k)
      BY DEF Next, vars, Work, Process, Produce, Look, Insert, Raise, KeepsDepth, Reset, Rank, RollBack, Stops
    <2> QED BY <2>1, Beginning, Restarting DEF OthersStay
  <1> QED BY <1>1 DEF Holders

(* A row is noted as re-opened under its daemons until the last of them     *)
(* lets go of it.                                                           *)
LEMMA OverStep ==
    ASSUME QueueInv, [Next]_vars, NEW i \in over' PROVE Holders(i)' # {}
  <1>o. i \in over => Holders(i) # {}
    BY DEF QueueInv
  <1>1. ASSUME NEW w \in Workers, ClaimBatch(w) PROVE Holders(i)' # {}
    <2>1. PICK S : OthersStay(w) /\ Claims(job[w]) = {} /\ Claims(job'[w]) = S
      BY <1>1, Taking
    <2>2. over' = over
      BY <1>1 DEF ClaimBatch
    <2> QED BY <1>o, <2>1, <2>2, HoldersAfterTaking
  <1>2. ASSUME NEW w \in Workers, NEW S, GivesUp(w, S) PROVE Holders(i)' # {}
    <2>1. i \in over /\ ~(i \in S /\ Holders(i) \subseteq {w})
      BY <1>2 DEF GivesUp, LetGo
    <2> QED BY <1>o, <1>2, <2>1, HoldersAfterGivingUp
  <1>3. CASE \A w \in Workers : /\ ~ClaimBatch(w) /\ ~MarkFails(w) /\ ~Crash(w)
                                /\ \A status \in Ended : ~Mark(w, status)
    <2>1. Holders(i)' = Holders(i)
      BY <1>3, HoldersStay
    <2>2. i \in over \/ Holders(i) # {}
      BY <1>3 DEF Next, vars, history, Work, Process, Produce, Look, Insert, Raise, KeepsDepth, Reset,
                  Rank, RollBack, Stops, Reopened, Begin, Restart
    <2> QED BY <1>o, <2>1, <2>2
  <1> QED BY <1>1, <1>2, <1>3, Marking, Crashing

LEMMA InvInit == ASSUME Init PROVE QueueInv
  <1>1. Typed
    BY QueueAssumption DEF Init, Typed, Idle, Jobs, NoRequest, Between, Ids
  <1>2. Writers = {} /\ Len(rows) = 0
    BY DEF Init, Writers, Writing, NoRequest
  <1>3. Len(rows) + Cardinality(Writers) <= MaxRows
    BY <1>2, FS_EmptySet, QueueAssumption
  <1>4. \A w \in Workers : InHand(w)
    BY DEF Init, InHand, Idle, Claims
  <1>5. \A q \in Producers : WritesItsOwn(q)
    BY DEF Init, WritesItsOwn, Writing, NoRequest
  <1>6. over = {}
    BY DEF Init
  <1> QED BY <1>1, <1>3, <1>4, <1>5, <1>6 DEF QueueInv

LEMMA InvStep == ASSUME QueueInv, [Next]_vars PROVE QueueInv'
  BY TypedStep, RoomStep, InHandStep, WritesItsOwnStep, OverStep DEF QueueInv

LEMMA InvIsType == ASSUME QueueInv PROVE QueueTypeOK
  <1>1. Cardinality(Writers) \in Nat
    <2>1. Writers \in SUBSET Producers
      BY DEF Writers
    <2> QED BY <2>1, QueueAssumption, FS_Subset, FS_CardinalityType
  <1>2. Len(rows) \in Nat /\ \A i \in Ids : rows[i] \in Row
    BY IdsAreNumbers DEF QueueInv
  <1>3. Len(rows) <= MaxRows
    BY <1>1, <1>2, QueueAssumption DEF QueueInv
  <1>4. \A w \in Workers : job[w].at \in {"idle", "batch", "down"}
    BY DEF QueueInv, Typed, Jobs
  <1>5. \A q \in Producers : prod[q].at \in {"idle", "write"}
    BY DEF QueueInv, Typed, Between, Statement
  <1> QED BY <1>2, <1>3, <1>4, <1>5 DEF QueueTypeOK, QueueInv, InHand, Typed

(* Types; a daemon has rows in hand exactly while it is in a batch, each of *)
(* them in the table; a row nobody holds is not one re-opened under         *)
(* somebody; a look that is going to insert has a place for its row         *)
(* (claim_batch, _process_s13v2_task, produce_for_procurements).            *)
THEOREM QueueTypeCorrect == Spec => []QueueTypeOK
  <1>1. Init => QueueInv
    BY InvInit
  <1>2. QueueInv /\ [Next]_vars => QueueInv'
    BY InvStep
  <1>3. QueueInv => QueueTypeOK
    BY InvIsType
  <1> QED BY <1>1, <1>2, <1>3, PTL DEF Spec

-----------------------------------------------------------------------------
(* One daemon for a row.  A claim takes rows that are PENDING, which a row  *)
(* with a daemon is not unless it was re-opened under it.                   *)
Engaged(i, w) == Holders(i) = {w} /\ rows[i].status = "PROCESSING" /\ rows[i].worker = w

LEMMA SameRowEngaged ==
    ASSUME QueueInv, OneHolder, NEW i \in Ids, i \notin over, NEW w \in Holders(i)',
           Holders(i)' = Holders(i),
           rows'[i].status = rows[i].status, rows'[i].worker = rows[i].worker
    PROVE  Engaged(i, w)'
  BY DEF OneHolder, Engaged

LEMMA NoHolderOutside ==
    ASSUME QueueInv, NEW i, i \notin Ids PROVE Holders(i) = {}
  BY DEF QueueInv, InHand, Holders

LEMMA EngagedStep ==
    ASSUME QueueInv, OneHolder, [Next]_vars,
           NEW i \in Ids', i \notin over', NEW v \in Holders(i)'
    PROVE  Engaged(i, v)'
  <1>i. /\ Len(rows) \in Nat /\ Ids = 1..Len(rows) /\ rows \in Seq(Row)
        /\ \A k \in Ids : rows[k] \in Row
        /\ job \in [Workers -> Jobs]
    BY IdsAreNumbers DEF QueueInv, Typed
  <1>1. ASSUME NEW w \in Workers, ClaimBatch(w) PROVE Engaged(i, v)'
    <2>1. PICK S \in SUBSET Pending :
              /\ rows' = [k \in Ids |-> IF k \in S
                            THEN [rows[k] EXCEPT !.status = "PROCESSING", !.worker = w] ELSE rows[k]]
              /\ Claims(job[w]) = {} /\ Claims(job'[w]) = S /\ OthersStay(w)
      BY <1>1, Taking
    <2>2. Holders(i)' = IF i \in S THEN Holders(i) \cup {w} ELSE Holders(i)
      <3>1. Claims(job[w]) = {} /\ Claims(job'[w]) = S /\ OthersStay(w)
        BY <2>1
      <3> QED BY <3>1, HoldersAfterTaking
    <2>3. over' = over /\ i \in Ids
      BY <1>1, <2>1 DEF ClaimBatch, Ids
    <2>4. CASE i \in S
      <3>1. rows[i].status = "PENDING" /\ rows[i] \in Row
        BY <1>i, <2>1, <2>4 DEF Pending
      <3>2. Holders(i) = {}
        BY <2>3, <3>1 DEF OneHolder
      <3>3. rows'[i] = [rows[i] EXCEPT !.status = "PROCESSING", !.worker = w]
        BY <2>1, <2>3, <2>4
      <3>4. rows'[i].status = "PROCESSING" /\ rows'[i].worker = w
        BY <3>1, <3>3 DEF Row
      <3> QED BY <2>2, <2>4, <3>2, <3>4 DEF Engaged
    <2>5. CASE i \notin S
      BY <2>1, <2>2, <2>3, <2>5, SameRowEngaged
    <2> QED BY <2>4, <2>5
  <1>2. ASSUME NEW w \in Workers, NEW S, GivesUp(w, S), S \subseteq Ids, Ids' = Ids,
               \A k \in Ids \ S : rows'[k] = rows[k]
        PROVE  Engaged(i, v)'
    <2>1. Holders(i)' = IF i \in S THEN Holders(i) \ {w} ELSE Holders(i)
      BY <1>2, HoldersAfterGivingUp
    <2>2. i \in S => w \in Holders(i)
      BY <1>2 DEF GivesUp, Holders
    <2>3. CASE i \in S /\ Holders(i) \subseteq {w}
      BY <2>1, <2>3
    <2>4. CASE i \in S /\ ~(Holders(i) \subseteq {w})
      <3>1. i \notin over
        BY <1>2, <2>4 DEF GivesUp, LetGo
      <3> QED BY <1>2, <2>2, <2>4, <3>1 DEF OneHolder
    <2>5. CASE i \notin S
      <3>1. i \notin over /\ i \in Ids
        BY <1>2, <2>5 DEF GivesUp, LetGo
      <3> QED BY <1>2, <2>1, <2>5, <3>1, SameRowEngaged
    <2> QED BY <2>3, <2>4, <2>5
  <1>3. ASSUME NEW w \in Workers, (\E status \in Ended : Mark(w, status)) \/ MarkFails(w)
        PROVE  Engaged(i, v)'
    <2>1. job[w].on \in Ids /\ GivesUp(w, {job[w].on})
      BY <1>3, Marking
    <2>2. Ids' = Ids /\ \A k \in Ids \ {job[w].on} : rows'[k] = rows[k]
      BY <1>3 DEF Mark, MarkFails, Ids
    <2> QED BY <1>2, <2>1, <2>2
  <1>4. ASSUME NEW w \in Workers, Crash(w) PROVE Engaged(i, v)'
    <2>1. GivesUp(w, Claims(job[w])) /\ Claims(job[w]) \subseteq Ids
      BY <1>4, Crashing DEF QueueInv, InHand
    <2> QED BY <1>2, <1>4, <2>1 DEF Crash, Ids
  <1>5. CASE \A w \in Workers : /\ ~ClaimBatch(w) /\ ~MarkFails(w) /\ ~Crash(w)
                                /\ \A status \in Ended : ~Mark(w, status)
    <2>1. Holders(i)' = Holders(i)
      BY <1>5, HoldersStay
    <2>2. i \in Ids
      BY <2>1, NoHolderOutside
    <2>3. ASSUME NEW q \in Producers, Insert(q) PROVE Engaged(i, v)'
      <3>1. prod[q].task \in Row /\ rows' = Append(rows, prod[q].task) /\ over' = over
        BY <2>3, StatementType DEF Insert, Writing, QueueInv
      <3>2. rows'[i] = rows[i]
        BY <1>i, <2>2, <3>1, AppendProperties
      <3> QED BY <2>1, <2>2, <3>1, <3>2, SameRowEngaged
    <2>4. ASSUME NEW q \in Producers, Raise(q) \/ Reset(q) PROVE Engaged(i, v)'
      <3>1. over' = over \cup {k \in {prod[q].found} : Holders(k) # {}}
        BY <2>4 DEF Raise, Reset, Reopened
      <3>2. i # prod[q].found
        BY <2>1, <3>1
      <3>3. rows'[i] = rows[i]
        BY <2>2, <2>4, <3>2 DEF Raise, Reset, Ids
      <3> QED BY <2>1, <2>2, <3>1, <3>3, SameRowEngaged
    <2>5. ASSUME NEW q \in Producers, Rank(q) PROVE Engaged(i, v)'
      <3>1. PICK place : rows' = [k \in Ids |-> IF rows[k].proc \in prod[q].tasks
                                   THEN [rows[k] EXCEPT !.score = place[rows[k].proc]] ELSE rows[k]]
        BY <2>5 DEF Rank
      <3>2. rows[i] \in Row
        BY <1>i, <2>2
      <3>3. rows'[i] = rows[i] \/ rows'[i] = [rows[i] EXCEPT !.score = place[rows[i].proc]]
        BY <2>2, <3>1
      <3>4. rows'[i].status = rows[i].status /\ rows'[i].worker = rows[i].worker
        BY <3>2, <3>3 DEF Row
      <3>5. over' = over
        BY <2>5 DEF Rank, history
      <3> QED BY <2>1, <2>2, <3>4, <3>5, SameRowEngaged
    <2>6. CASE UNCHANGED <<rows, over>>
      BY <2>1, <2>2, <2>6, SameRowEngaged
    <2>7. (\E q \in Producers : Insert(q) \/ Raise(q) \/ Reset(q) \/ Rank(q)) \/ UNCHANGED <<rows, over>>
      BY <1>5 DEF Next, vars, history, Work, Process, Produce, Look, KeepsDepth, RollBack, Stops, Begin, Restart
    <2> QED BY <2>3, <2>4, <2>5, <2>6, <2>7
  <1> QED BY <1>1, <1>3, <1>4, <1>5

LEMMA OneHolderStep == ASSUME QueueInv, OneHolder, [Next]_vars PROVE OneHolder'
  <1>1. \A i \in Ids' : i \notin over' => \A v \in Holders(i)' : Engaged(i, v)'
    BY EngagedStep
  <1> QED BY <1>1 DEF OneHolder, Engaged

(* FOR UPDATE SKIP LOCKED gives a row to one daemon; nobody looks at the    *)
(* claim again.  A row that was not re-opened under its daemon has that one *)
(* only, is PROCESSING, and names it.                                       *)
THEOREM RowHasOneHolder == Spec => []OneHolder
  <1>1. Init => QueueInv /\ OneHolder
    <2>1. Init => Ids = {}
      BY DEF Init, Ids
    <2> QED BY <2>1, InvInit DEF OneHolder
  <1>2. (QueueInv /\ OneHolder) /\ [Next]_vars => (QueueInv /\ OneHolder)'
    BY InvStep, OneHolderStep
  <1> QED BY <1>1, <1>2, PTL DEF Spec

-----------------------------------------------------------------------------
(* What is left behind. *)
LEMMA OrphanStep ==
    ASSUME QueueInv, OrphanHasCause, [Next]_vars,
           NEW i \in Ids', rows'[i].status = "PROCESSING", Holders(i)' = {}
    PROVE  i \in lost'
  <1>i. /\ Len(rows) \in Nat /\ Ids = 1..Len(rows) /\ rows \in Seq(Row)
        /\ \A k \in Ids : rows[k] \in Row
        /\ job \in [Workers -> Jobs]
    BY IdsAreNumbers DEF QueueInv, Typed
  <1>s. ASSUME i \in Ids, rows'[i].status = rows[i].status, Holders(i) = {}, lost' = lost
        PROVE  i \in lost'
    BY <1>s DEF OrphanHasCause
  <1>1. ASSUME NEW w \in Workers, ClaimBatch(w) PROVE i \in lost'
    <2>1. PICK S \in SUBSET Pending :
              /\ rows' = [k \in Ids |-> IF k \in S
                            THEN [rows[k] EXCEPT !.status = "PROCESSING", !.worker = w] ELSE rows[k]]
              /\ lost' = lost \ S
              /\ Claims(job[w]) = {} /\ Claims(job'[w]) = S /\ OthersStay(w)
      BY <1>1, Taking
    <2>2. Holders(i)' = IF i \in S THEN Holders(i) \cup {w} ELSE Holders(i)
      <3>1. Claims(job[w]) = {} /\ Claims(job'[w]) = S /\ OthersStay(w)
        BY <2>1
      <3> QED BY <3>1, HoldersAfterTaking
    <2>3. i \notin S /\ Holders(i) = {}
      BY <2>2
    <2>4. i \in Ids /\ rows'[i] = rows[i]
      BY <2>1, <2>3 DEF Ids
    <2>5. lost' = lost \ S
      BY <2>1
    <2> QED BY <2>3, <2>4, <2>5 DEF OrphanHasCause
  <1>2. ASSUME NEW w \in Workers, NEW status \in Ended, Mark(w, status) PROVE i \in lost'
    <2>1. job[w].on \in Ids /\ GivesUp(w, {job[w].on})
      BY <1>2, Marking
    <2>2. rows' = [rows EXCEPT ![job[w].on].status = status]
      BY <1>2 DEF Mark
    <2>3. i \in Ids /\ rows[job[w].on] \in Row /\ status # "PROCESSING"
      BY <1>i, <2>1, <2>2 DEF Ids, Ended
    <2>4. i # job[w].on /\ rows'[i] = rows[i]
      BY <2>2, <2>3 DEF Row, Ids
    <2>5. Holders(i) = {}
      BY <2>1, <2>4, HoldersAfterGivingUp
    <2> QED BY <1>2, <2>3, <2>4, <2>5 DEF OrphanHasCause, Mark
  <1>3. ASSUME NEW w \in Workers, NEW S, GivesUp(w, S), rows' = rows, lost' = lost \cup S PROVE i \in lost'
    <2>1. CASE i \in S
      BY <1>3, <2>1
    <2>2. CASE i \notin S
      BY <1>3, <2>2, HoldersAfterGivingUp DEF OrphanHasCause, Ids
    <2> QED BY <2>1, <2>2
  <1>4. ASSUME NEW w \in Workers, MarkFails(w) \/ Crash(w) PROVE i \in lost'
    BY <1>3, <1>4, Marking, Crashing DEF MarkFails, Crash
  <1>5. CASE \A w \in Workers : /\ ~ClaimBatch(w) /\ ~MarkFails(w) /\ ~Crash(w)
                                /\ \A status \in Ended : ~Mark(w, status)
    <2>1. Holders(i) = {}
      BY <1>5, HoldersStay
    <2>2. ASSUME NEW q \in Producers, Insert(q) PROVE i \in lost'
      <3>1. /\ prod[q].task \in Row /\ prod[q].task.status = "PENDING"
            /\ rows' = Append(rows, prod[q].task) /\ lost' = lost
        BY <2>2, StatementType DEF Insert, Writing, QueueInv
      <3>2. /\ Ids' = 1..(Len(rows) + 1) /\ rows'[Len(rows) + 1] = prod[q].task
            /\ \A k \in 1..Len(rows) : rows'[k] = rows[k]
        BY <1>i, <3>1, AppendProperties, LenProperties DEF Ids
      <3>3. i \in Ids /\ rows'[i] = rows[i]
        BY <1>i, <3>1, <3>2
      <3> QED BY <1>s, <2>1, <3>1, <3>3
    <2>3. ASSUME NEW q \in Producers, Raise(q) \/ Reset(q) PROVE i \in lost'
      <3>1. lost' = lost \ {prod[q].found} /\ i \in Ids
        BY <2>3 DEF Raise, Reset, Reopened, Ids
      <3>2. prod[q].task \in Row /\ prod[q].task.status = "PENDING"
        BY <2>3, StatementType DEF Raise, Reset, Writing, QueueInv
      <3>3. PICK t : t.status = "PENDING" /\ rows' = [rows EXCEPT ![prod[q].found] = t]
        BY <2>3, <3>2 DEF Raise, Reset, Row
      <3>4. i # prod[q].found /\ rows'[i] = rows[i]
        BY <3>1, <3>3 DEF Ids
      <3> QED BY <2>1, <3>1, <3>4 DEF OrphanHasCause
    <2>4. ASSUME NEW q \in Producers, Rank(q) PROVE i \in lost'
      <3>1. PICK place : rows' = [k \in Ids |-> IF rows[k].proc \in prod[q].tasks
                                   THEN [rows[k] EXCEPT !.score = place[rows[k].proc]] ELSE rows[k]]
        BY <2>4 DEF Rank
      <3>2. i \in Ids /\ rows[i] \in Row
        BY <1>i, <3>1 DEF Ids
      <3>3. rows'[i] = rows[i] \/ rows'[i] = [rows[i] EXCEPT !.score = place[rows[i].proc]]
        BY <3>1, <3>2
      <3>4. rows'[i].status = rows[i].status
        BY <3>2, <3>3 DEF Row
      <3>5. lost' = lost
        BY <2>4 DEF Rank, history
      <3> QED BY <1>s, <2>1, <3>2, <3>4, <3>5
    <2>5. CASE UNCHANGED <<rows, lost>>
      BY <1>s, <2>1, <2>5 DEF Ids
    <2>6. (\E q \in Producers : Insert(q) \/ Raise(q) \/ Reset(q) \/ Rank(q)) \/ UNCHANGED <<rows, lost>>
      BY <1>5 DEF Next, vars, history, Work, Process, Produce, Look, KeepsDepth, RollBack, Stops, Begin, Restart
    <2> QED BY <2>2, <2>3, <2>4, <2>5, <2>6
  <1> QED BY <1>1, <1>2, <1>4, <1>5

(* run_once marks every row of its batch, process_one_job has an except     *)
(* clause for the rest: a row that is PROCESSING with nobody at work on it  *)
(* was lost by a crash, or by a mark that failed on a refusing connection.  *)
THEOREM OrphansHaveACause == Spec => []OrphanHasCause
  <1>1. Init => QueueInv /\ OrphanHasCause
    <2>1. Init => Ids = {}
      BY DEF Init, Ids
    <2> QED BY <2>1, InvInit DEF OrphanHasCause
  <1>2. (QueueInv /\ OrphanHasCause) /\ [Next]_vars => (QueueInv /\ OrphanHasCause)'
    <2>1. QueueInv /\ OrphanHasCause /\ [Next]_vars => OrphanHasCause'
      BY OrphanStep DEF OrphanHasCause
    <2> QED BY <2>1, InvStep
  <1> QED BY <1>1, <1>2, PTL DEF Spec

-----------------------------------------------------------------------------
(* Two rows for one procurement. *)
LEMMA WritersBefore ==
    ASSUME QueueInv, [Next]_vars, NEW r \in Producers, Writing(r)'
    PROVE  prod'[r] = prod[r] \/ \E p \in Procs : Look(r, p)
  <1>i. prod \in [Producers -> Between \cup Statement]
    BY DEF QueueInv, Typed
  <1>1. ASSUME NEW q \in Producers, NEW p \in Procs, Look(q, p), q # r PROVE prod'[r] = prod[r]
    BY <1>1, <1>i DEF Look
  <1>2. ASSUME NEW q \in Producers, Insert(q) \/ Raise(q) \/ KeepsDepth(q) \/ Reset(q) \/ RollBack(q)
        PROVE  prod'[r] = prod[r]
    <2>1. Writing(q) /\ \E b \in BOOLEAN : Done(q, b)
      BY <1>2 DEF Insert, Raise, KeepsDepth, Reset, RollBack, Writing
    <2> QED BY <2>1, AfterDone DEF QueueInv
  <1>3. ASSUME NEW q \in Producers, Rank(q) \/ Stops(q) PROVE prod'[r] = prod[r]
    BY <1>3, <1>i DEF Rank, Stops, NoRequest, Writing
  <1>4. (\E q \in Producers : Produce(q) \/ RollBack(q) \/ Stops(q) \/ \E p \in Procs : Look(q, p)) \/ UNCHANGED prod
    BY DEF Next, vars, Work, Process, ClaimBatch, Begin, Mark, MarkFails, Crash, Restart, history
  <1> QED BY <1>1, <1>2, <1>3, <1>4 DEF Produce

LEMMA RacesGrow == ASSUME [Next]_vars PROVE raced \subseteq raced'
  <1>1. ASSUME NEW q \in Producers, NEW p \in Procs, Look(q, p) PROVE raced \subseteq raced'
    BY <1>1 DEF Look
  <1>2. CASE \A q \in Producers, p \in Procs : ~Look(q, p)
    BY <1>2 DEF Next, vars, history, Work, Process, Produce, Insert, Raise, KeepsDepth, Reset, Rank,
                RollBack, Stops, ClaimBatch, Begin, Mark, MarkFails, Crash, Restart
  <1> QED BY <1>1, <1>2

(* A look that finds no row notes the others that found none.               *)
LEMMA LookNotesRaces ==
    ASSUME QueueInv, NEW q \in Producers, NEW p \in Procs, Look(q, p), Inserting(q)'
    PROVE  /\ prod'[q].task.proc = p /\ Found(p) = {} /\ rows' = rows
           /\ \A r \in Producers \ {q} :
                 Inserting(r) /\ prod[r].task.proc = p => p \in raced'
  <1>1. PICK t \in Tasks(q, p), i \in IF Found(p) = {} THEN {0} ELSE Found(p) :
          /\ prod' = [prod EXCEPT ![q] = [at |-> "write", tasks |-> prod[q].tasks, task |-> t, found |-> i,
                                         seen |-> IF i = 0 THEN 0 ELSE rows[i].depth]]
          /\ raced' = IF i = 0 /\ \E r \in Producers \ {q} :
                              prod[r].at = "write" /\ prod[r].task.proc = p /\ prod[r].found = 0
                      THEN raced \cup {p} ELSE raced
    BY DEF Look
  <1>2. prod'[q].task = t /\ prod'[q].found = i /\ t.proc = p
    BY <1>1, TaskType DEF QueueInv, Typed
  <1>3. i = 0
    BY <1>2 DEF Inserting
  <1>4. Found(p) = {}
    BY <1>1, <1>3, IdsAreNumbers DEF Found, QueueInv
  <1> QED BY <1>1, <1>2, <1>3, <1>4 DEF Inserting, Writing, Look

(* What an insert leaves: the table, and one more row, of the procurement   *)
(* that was not found.                                                      *)
LEMMA InsertAdds ==
    ASSUME QueueInv, NEW q \in Producers, Insert(q)
    PROVE  /\ Inserting(q) /\ ~Writing(q)' /\ raced' = raced
           /\ \A i \in Ids' : \/ i \in Ids /\ rows'[i].proc = rows[i].proc
                              \/ i = Len(rows) + 1 /\ i \notin Ids /\ rows'[i].proc = prod[q].task.proc
  <1>1. /\ Writing(q) /\ Inserting(q) /\ prod[q].task \in Row /\ Done(q, TRUE)
        /\ rows' = Append(rows, prod[q].task) /\ raced' = raced
    BY StatementType DEF Insert, Inserting, Writing, QueueInv
  <1>2. /\ Len(rows) \in Nat /\ Ids = 1..Len(rows) /\ rows \in Seq(Row)
    BY IdsAreNumbers DEF QueueInv, Typed
  <1>3. /\ Ids' = 1..(Len(rows) + 1) /\ rows'[Len(rows) + 1] = prod[q].task
        /\ \A k \in 1..Len(rows) : rows'[k] = rows[k]
    BY <1>1, <1>2, AppendProperties, LenProperties DEF Ids
  <1>4. ~Writing(q)'
    BY <1>1, AfterDone DEF QueueInv
  <1> QED BY <1>1, <1>2, <1>3, <1>4

LEMMA RacesStep ==
    ASSUME QueueInv, RacesAreNoted, DuplicatesNeedRace, [Next]_vars
    PROVE  RacesAreNoted' /\ DuplicatesNeedRace'
  <1>r. raced \subseteq raced'
    BY RacesGrow
  <1>1. ASSUME NEW q \in Producers, Insert(q) PROVE RacesAreNoted' /\ DuplicatesNeedRace'
    <2>1. /\ Inserting(q) /\ ~Writing(q)' /\ raced' = raced
          /\ \A i \in Ids' : \/ i \in Ids /\ rows'[i].proc = rows[i].proc
                             \/ i = Len(rows) + 1 /\ i \notin Ids /\ rows'[i].proc = prod[q].task.proc
      BY <1>1, InsertAdds
    <2>2. ASSUME NEW r \in Producers, Inserting(r)'
          PROVE  prod'[r] = prod[r] /\ Inserting(r) /\ r # q
      <3>1. Writing(r)' /\ \A p \in Procs : ~Look(r, p)
        BY <1>1, <2>2, InsertAdds, RowsStay DEF Inserting, Look, Insert
      <3>2. prod'[r] = prod[r]
        BY <3>1, WritersBefore
      <3> QED BY <2>1, <2>2, <3>1, <3>2 DEF Inserting, Writing
    <2>3. RacesAreNoted'
      BY <2>1, <2>2 DEF RacesAreNoted
    <2>4. DuplicatesNeedRace'
      BY <2>1 DEF RacesAreNoted, DuplicatesNeedRace
    <2> QED BY <2>3, <2>4
  <1>2. CASE \A q \in Producers : ~Insert(q)
    <2>1. Ids' = Ids /\ \A i \in Ids : rows'[i].proc = rows[i].proc
      BY <1>2, RowsStay
    <2>2. ASSUME NEW r \in Producers, Inserting(r)'
          PROVE  \/ prod'[r] = prod[r] /\ Inserting(r)
                 \/ /\ Found(prod'[r].task.proc) = {}
                    /\ \A s \in Producers \ {r} :
                          /\ prod'[s] = prod[s]
                          /\ Inserting(s) /\ prod[s].task.proc = prod'[r].task.proc
                                => prod[s].task.proc \in raced'
      <3>1. CASE prod'[r] = prod[r]
        BY <2>2, <3>1 DEF Inserting, Writing
      <3>2. ASSUME NEW p \in Procs, Look(r, p)
            PROVE  /\ Found(prod'[r].task.proc) = {}
                   /\ \A s \in Producers \ {r} :
                          /\ prod'[s] = prod[s]
                          /\ Inserting(s) /\ prod[s].task.proc = prod'[r].task.proc
                                => prod[s].task.proc \in raced'
        <4>1. \A s \in Producers \ {r} : prod'[s] = prod[s]
          BY <3>2 DEF Look, QueueInv, Typed
        <4> QED BY <2>2, <3>2, <4>1, LookNotesRaces
      <3> QED BY <2>2, <3>1, <3>2, WritersBefore DEF Inserting
    <2>3. ASSUME NEW r \in Producers, NEW i \in Ids', Inserting(r)', rows'[i].proc = prod'[r].task.proc
          PROVE  rows'[i].proc \in raced'
      BY <1>r, <2>1, <2>2, <2>3 DEF RacesAreNoted, Found
    <2>4. ASSUME NEW r \in Producers, NEW s \in Producers, r # s, Inserting(r)', Inserting(s)',
                 prod'[r].task.proc = prod'[s].task.proc
          PROVE  prod'[r].task.proc \in raced'
      <3>1. CASE prod'[r] = prod[r] /\ Inserting(r) /\ prod'[s] = prod[s] /\ Inserting(s)
        BY <1>r, <2>4, <3>1 DEF RacesAreNoted
      <3>2. CASE ~(prod'[r] = prod[r] /\ Inserting(r))
        <4>1. /\ prod'[s] = prod[s]
              /\ Inserting(s) /\ prod[s].task.proc = prod'[r].task.proc => prod[s].task.proc \in raced'
          BY <2>2, <2>4, <3>2
        <4> QED BY <2>4, <4>1 DEF Inserting, Writing
      <3>3. CASE ~(prod'[s] = prod[s] /\ Inserting(s))
        <4>1. /\ prod'[r] = prod[r]
              /\ Inserting(r) /\ prod[r].task.proc = prod'[s].task.proc => prod[r].task.proc \in raced'
          BY <2>2, <2>4, <3>3
        <4> QED BY <2>4, <4>1 DEF Inserting, Writing
      <3> QED BY <3>1, <3>2, <3>3
    <2>5. DuplicatesNeedRace'
      BY <1>r, <2>1 DEF DuplicatesNeedRace
    <2> QED BY <2>3, <2>4, <2>5 DEF RacesAreNoted
  <1> QED BY <1>1, <1>2

(* The table has no unique constraint on the procurement: two rows of one   *)
(* come of nothing but two producers that both looked before either wrote.  *)
(* In particular a single producer, or two that take turns, never make a    *)
(* second one.                                                              *)
THEOREM DuplicatesComeOfRaces == Spec => []DuplicatesNeedRace
  <1>1. Init => QueueInv /\ RacesAreNoted /\ DuplicatesNeedRace
    <2>1. Init => Ids = {} /\ \A q \in Producers : ~Inserting(q)
      BY DEF Init, Ids, Inserting, Writing, NoRequest
    <2> QED BY <2>1, InvInit DEF RacesAreNoted, DuplicatesNeedRace
  <1>2. (QueueInv /\ RacesAreNoted /\ DuplicatesNeedRace) /\ [Next]_vars
            => (QueueInv /\ RacesAreNoted /\ DuplicatesNeedRace)'
    BY InvStep, RacesStep
  <1> QED BY <1>1, <1>2, PTL DEF Spec
=============================================================================
