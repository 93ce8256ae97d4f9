---------------------------- MODULE DocumentQueue ----------------------------
(***************************************************************************)
(* document_intelligence.document_processing_queue, the queue between the  *)
(* routing runner and the document daemons.                                *)
(*   - Producers look a procurement up and insert or re-open its row, in   *)
(*     one transaction but two statements.                                 *)
(*   - One of them then ranks what it has written, over the scores.        *)
(*   - Workers claim a batch with FOR UPDATE SKIP LOCKED, work through it, *)
(*     and mark each row by its id, without asking whose it is now.        *)
(*   - A worker that dies forgets its batch; a statement that fails leaves *)
(*     its connection unusable until it is restarted.                      *)
(***************************************************************************)
EXTENDS Integers, Sequences, FiniteSets, Functions

CONSTANTS
    Procs,      \* procurements
    Raisers,    \* producers that only raise a depth: S13V2QueueProducer
    Resetters,  \* producers that always re-open: CommercialRoutingV3QueueProducer
    Workers,    \* document daemons
    Nobody,     \* a NULL worker_id
    Lanes,      \* queue lanes that occur
    BatchSize,
    MaxDepth, MaxRows, Budget, Events

Producers == Raisers \cup Resetters

(* The scores a new task of a lane may have: research_priority of the       *)
(* admission.                                                               *)
Scores == [crm_active_hot |-> {70}, open_active |-> {30, 50},
           awarded_follow_up |-> {60}, discovery_review |-> {40}]

ASSUME QueueAssumption ==
    /\ Raisers \cap Resetters = {}
    /\ Nobody \notin Workers /\ Lanes \subseteq DOMAIN Scores
    /\ BatchSize \in Nat \ {0}
    /\ MaxDepth \in Nat /\ MaxRows \in Nat /\ Budget \in Nat
    /\ IsFiniteSet(Producers) /\ IsFiniteSet(Procs)

VARIABLES
    rows,   \* the table, in order of id
    job,    \* each worker: what it has claimed, what it works on
    prod,   \* each producer: what its first statement found, its tasks so far
    begun,  \* history: rows some worker has taken up since the last request
    over,   \* history: rows re-opened under a worker that has not left them yet
    lost,   \* history: rows whose worker died, or failed to mark them
    raced,  \* history: procurements two producers failed to find at a time
    budget  \* bound on requests, crashes and failing statements

history == <<begun, over, lost, raced>>
vars == <<rows, job, prod, begun, over, lost, raced, budget>>

Depths == 1..MaxDepth
Ended == {"COMPLETED", "FAILED", "NO_LINKS"}
Ids == DOMAIN rows

Idle(broken) == [at |-> "idle", todo |-> {}, on |-> 0, broken |-> broken]
Down == [at |-> "down", todo |-> {}, on |-> 0, broken |-> FALSE]
NoRequest == [at |-> "idle", tasks |-> {}]

(* The rows a worker still means to mark, and the workers that mean to.     *)
Claims(j) == j.todo \cup ({j.on} \ {0})
Holders(i) == {w \in Workers : i \in Claims(job[w])}
(* Mutant: the claim looks for rows that have not ended. *)
Pending_Open == {i \in Ids : rows[i].status \notin Ended}

Pending == {i \in Ids : rows[i].status = "PENDING"}

(* The CASE of the claim knows two of the lanes the producers use. *)
LaneRank(lane) == CASE lane = "crm_active_hot" -> 1 [] lane = "open_active" -> 2 [] OTHER -> 5

(* ORDER BY lane, priority_score DESC, id. *)
ClaimedBefore(i, k) ==
    \/ LaneRank(rows[i].lane) < LaneRank(rows[k].lane)
    \/ /\ LaneRank(rows[i].lane) = LaneRank(rows[k].lane)
       /\ (rows[i].score > rows[k].score) \/ (rows[i].score = rows[k].score /\ i < k)

Init ==
    /\ rows = <<>>
    /\ job = [w \in Workers |-> Idle(FALSE)]
    /\ prod = [q \in Producers |-> NoRequest]
    /\ begun = {} /\ over = {} /\ lost = {} /\ raced = {}
    /\ budget = Budget

Disturb(e) == e \in Events /\ budget > 0 /\ budget' = budget - 1

(* History after the rows in S were re-opened. *)
Reopened(S) ==
    /\ begun' = begun \ S
    /\ over' = over \cup {i \in S : Holders(i) # {}}
    /\ lost' = lost \ S

-----------------------------------------------------------------------------
(* Producers.  What an assessment asks for is any depth, and for the one    *)
(* that admits by the current opportunities any lane.  A procurement that   *)
(* is not admitted changes nothing, nor does the row it has.                *)

(* Mutant: the look-up skips rows that have ended. *)
Found_Live(p) == {i \in Ids : rows[i].proc = p /\ rows[i].status \notin Ended}

Found(p) == {i \in Ids : rows[i].proc = p}

(* The Raisers' _ACTION_MAP. *)
MapLane(depth) == IF depth = 1 THEN "open_active" ELSE "crm_active_hot"
MapScore(depth) == CASE depth = 1 -> 30 [] depth = 2 -> 70 [] OTHER -> 90

Task(q, p, d, lane, score) ==
    [proc |-> p, status |-> "PENDING", worker |-> Nobody, depth |-> d, lane |-> lane, score |-> score]

Tasks(q, p) ==
    IF q \in Raisers
    THEN {Task(q, p, d, MapLane(d), MapScore(d)) : d \in {d \in Depths : MapLane(d) \in Lanes}}
    ELSE UNION {{Task(q, p, d, lane, score) : d \in Depths, score \in Scores[lane]} : lane \in Lanes}

Look(q, p) ==
    /\ prod[q].at = "idle"
    /\ Len(rows) + Cardinality({r \in Producers : prod[r].at = "write"}) < MaxRows
    /\ \E t \in Tasks(q, p), i \in IF Found(p) = {} THEN {0} ELSE Found(p) :
          /\ prod' = [prod EXCEPT ![q] =
                [at |-> "write", tasks |-> @.tasks, task |-> t, found |-> i,
                 seen |-> IF i = 0 THEN 0 ELSE rows[i].depth]]
          /\ raced' = IF i = 0 /\ \E r \in Producers \ {q} :
                              prod[r].at = "write" /\ prod[r].task.proc = p /\ prod[r].found = 0
                      THEN raced \cup {p} ELSE raced
    /\ Disturb("request")
    /\ UNCHANGED <<rows, job, begun, over, lost>>

(* One procurement is done; a Resetter keeps what it has written. *)
Done(q, written) ==
    prod' = [prod EXCEPT ![q] =
        [at |-> "idle", tasks |-> @.tasks \cup IF written /\ q \in Resetters THEN {@.task.proc} ELSE {}]]

Insert(q) ==
    /\ prod[q].at = "write" /\ prod[q].found = 0
    /\ rows' = Append(rows, prod[q].task)
    /\ Done(q, TRUE)
    /\ UNCHANGED <<job, begun, over, lost, raced, budget>>

(* S13V2QueueProducer: only a greater depth than the one it read re-opens a *)
(* row, whoever holds it; worker_id stays.                                  *)
Raise(q) ==
    /\ q \in Raisers /\ prod[q].at = "write" /\ prod[q].found # 0
    /\ prod[q].task.depth > prod[q].seen
    /\ rows' = [rows EXCEPT ![prod[q].found] = [prod[q].task EXCEPT !.worker = rows[prod[q].found].worker]]
    /\ Reopened({prod[q].found})
    /\ Done(q, TRUE)
    /\ UNCHANGED <<job, raced, budget>>

KeepsDepth(q) ==
    /\ q \in Raisers /\ prod[q].at = "write" /\ prod[q].found # 0
    /\ prod[q].task.depth <= prod[q].seen
    /\ Done(q, FALSE)
    /\ UNCHANGED <<rows, job, history, budget>>

(* CommercialRoutingV3QueueProducer re-opens the row whatever its state.    *)
Reset(q) ==
    /\ q \in Resetters /\ prod[q].at = "write" /\ prod[q].found # 0
    /\ rows' = [rows EXCEPT ![prod[q].found] = prod[q].task]
    /\ Reopened({prod[q].found})
    /\ Done(q, TRUE)
    /\ UNCHANGED <<job, raced, budget>>

(* produce_for_procurements ends by ranking its tasks, the best first, and  *)
(* writes the place of each into the score of its rows.  What makes a task  *)
(* better (lane, medal, action, deadline, the share of its category) is     *)
(* left open: any order.                                                    *)
Rank(q) ==
    /\ prod[q].at = "idle" /\ prod[q].tasks # {}
    /\ \E place \in Bijection(prod[q].tasks, 1..Cardinality(prod[q].tasks)) :
          rows' = [i \in Ids |-> IF rows[i].proc \in prod[q].tasks
                                 THEN [rows[i] EXCEPT !.score = place[rows[i].proc]] ELSE rows[i]]
    /\ prod' = [prod EXCEPT ![q] = NoRequest]
    /\ UNCHANGED <<job, history, budget>>

(* Any exception rolls the transaction back; the producer goes on to the    *)
(* next procurement.                                                        *)
RollBack(q) ==
    /\ prod[q].at = "write"
    /\ Done(q, FALSE)
    /\ Disturb("rollback")
    /\ UNCHANGED <<rows, job, history>>

(* It dies, or its ranking raises: what it has written keeps its score. *)
Stops(q) ==
    /\ prod[q] # NoRequest
    /\ prod' = [prod EXCEPT ![q] = NoRequest]
    /\ Disturb("rollback")
    /\ UNCHANGED <<rows, job, history>>

Produce(q) == Insert(q) \/ Raise(q) \/ KeepsDepth(q) \/ Reset(q) \/ Rank(q)

-----------------------------------------------------------------------------
(* Workers.  RETURNING gives the rows in no particular order.               *)

ClaimBatch(w) ==
    /\ job[w].at = "idle" /\ ~job[w].broken
    /\ Pending # {}
    /\ LET S == {i \in Pending : Cardinality({k \in Pending : ClaimedBefore(k, i)}) < BatchSize} IN
          /\ rows' = [i \in Ids |-> IF i \in S
                         THEN [rows[i] EXCEPT !.status = "PROCESSING", !.worker = w]
                         ELSE rows[i]]
          /\ job' = [job EXCEPT ![w].at = "batch", ![w].todo = S]
          /\ lost' = lost \ S
    /\ UNCHANGED <<prod, begun, over, raced, budget>>

Begin(w, i) ==
    /\ job[w].at = "batch" /\ job[w].on = 0 /\ i \in job[w].todo
    /\ job' = [job EXCEPT ![w].on = i, ![w].todo = @ \ {i}]
    /\ begun' = begun \cup {i}
    /\ UNCHANGED <<rows, prod, over, lost, raced, budget>>

(* Mutant: a batch that is done is not left. *)
NextInBatch_Stays(j) == [j EXCEPT !.on = 0]

(* What is left of a job once the row in hand is dealt with. *)
NextInBatch(j) == IF j.todo = {} THEN Idle(j.broken) ELSE [j EXCEPT !.on = 0]

(* A row leaves `over` when the last worker that holds it lets go. *)
LetGo(w, S) == over' = over \ {i \in S : Holders(i) \subseteq {w}}

(* Mutant: the except clause does not mark the row. *)
Mark_NotFailed(w, status) ==
    /\ job[w].at = "batch" /\ job[w].on # 0 /\ ~job[w].broken
    /\ rows' = IF status = "FAILED" THEN rows ELSE [rows EXCEPT ![job[w].on].status = status]
    /\ job' = [job EXCEPT ![w] = NextInBatch(@)]
    /\ LetGo(w, {job[w].on})
    /\ lost' = lost \ {job[w].on}
    /\ UNCHANGED <<prod, begun, raced, budget>>

(* _process_s13v2_task: no links, nothing to read or all read, or an error. *)
Mark(w, status) ==
    /\ job[w].at = "batch" /\ job[w].on # 0 /\ ~job[w].broken
    /\ rows' = [rows EXCEPT ![job[w].on].status = status]
    /\ job' = [job EXCEPT ![w] = NextInBatch(@)]
    /\ LetGo(w, {job[w].on})
    /\ lost' = lost \ {job[w].on}
    /\ UNCHANGED <<prod, begun, raced, budget>>

(* A mark that fails is tried once more as mark_failed, on a connection     *)
(* that refuses everything now; the exception is swallowed.                 *)
MarkFails(w) ==
    /\ job[w].at = "batch" /\ job[w].on # 0
    /\ IF job[w].broken THEN UNCHANGED budget ELSE Disturb("sql")
    /\ job' = [job EXCEPT ![w] = NextInBatch([@ EXCEPT !.broken = TRUE])]
    /\ LetGo(w, {job[w].on})
    /\ lost' = lost \cup {job[w].on}
    /\ UNCHANGED <<rows, prod, begun, raced>>

Process(w) == (\E status \in Ended : Mark(w, status)) \/ MarkFails(w)

Crash(w) ==
    /\ job[w].at # "down"
    /\ job' = [job EXCEPT ![w] = Down]
    /\ LetGo(w, Claims(job[w]))
    /\ lost' = lost \cup Claims(job[w])
    /\ Disturb("crash")
    /\ UNCHANGED <<rows, prod, begun, raced>>

(* Mutant: the missing backend ends the daemon. *)
Restart_Raises(w) == job[w].at = "down" /\ UNCHANGED vars

(* The maintenance of a daemon that starts wants to roll back what its      *)
(* predecessor had claimed, but was built without a backend: the attribute  *)
(* error is logged and nothing happens.                                     *)
Restart(w) ==
    /\ job[w].at = "down"
    /\ job' = [job EXCEPT ![w] = Idle(FALSE)]
    /\ UNCHANGED <<rows, prod, history, budget>>

Work(w) == ClaimBatch(w) \/ (\E i \in Ids : Begin(w, i)) \/ Process(w) \/ Restart(w)

-----------------------------------------------------------------------------
Next ==
    \/ \E q \in Producers : Produce(q) \/ RollBack(q) \/ Stops(q) \/ \E p \in Procs : Look(q, p)
    \/ \E w \in Workers : Work(w) \/ Crash(w)

Spec == Init /\ [][Next]_vars

(* A transaction that was begun ends; a daemon that is up goes on, and      *)
(* systemd starts again one that is not.  Nothing makes a request come or a  *)
(* crash happen.                                                            *)
FairSpec ==
    /\ Spec
    /\ \A q \in Producers : WF_vars(Produce(q))
    /\ \A w \in Workers : WF_vars(Work(w))

-----------------------------------------------------------------------------
Row == [proc : Procs, status : {"PENDING", "PROCESSING"} \cup Ended,
        worker : Workers \cup {Nobody}, depth : Depths, lane : Lanes, score : Nat]

(* Types, and: a worker has rows in hand exactly while it is in a batch, the*)
(* row in hand is no longer to do, and a row nobody holds cannot have been  *)
(* re-opened under somebody (Claims and history of _process_s13v2_task).    *)
QueueTypeOK ==
    /\ Len(rows) <= MaxRows /\ \A i \in Ids : rows[i] \in Row
    /\ \A w \in Workers :
          /\ job[w].at \in {"idle", "batch", "down"}
          /\ (job[w].at = "batch") <=> (Claims(job[w]) # {})
          /\ Claims(job[w]) \subseteq Ids
          /\ job[w].on \notin job[w].todo
    /\ \A q \in Producers : prod[q].at \in {"idle", "write"}
    /\ begun \cup over \cup lost \subseteq Ids
    /\ \A i \in over : Holders(i) # {}

(* claim_batch hands a row to one worker.  Nobody checks that again, so it  *)
(* rests on the status: unless the row was re-opened under its worker, it   *)
(* has at most one, is PROCESSING as long as it has one, and names it.      *)
OneHolder ==
    \A i \in Ids \ over : \A w \in Holders(i) :
        /\ Holders(i) = {w}
        /\ rows[i].status = "PROCESSING" /\ rows[i].worker = w

(* run_once leaves no row of its batch behind: a row that is PROCESSING     *)
(* with nobody at work on it was lost by a crash or by a mark that failed.  *)
OrphanHasCause ==
    \A i \in Ids : rows[i].status = "PROCESSING" /\ Holders(i) = {} => i \in lost

(* Two rows for one procurement come of nothing but two producers that both *)
(* looked before either wrote (there is no unique constraint).              *)
DuplicatesNeedRace ==
    \A i, k \in Ids : i # k /\ rows[i].proc = rows[k].proc => rows[i].proc \in raced

(* A request for a row nobody holds is taken up after it was made, unless a *)
(* crash loses it or every worker has a connection that refuses everything. *)
(* One made while the row is held need not be: the late mark ends it.       *)
RequestIsResearched ==
    \A i \in 1..MaxRows :
        (i \in Pending /\ Holders(i) = {})
            ~> (i \in begun \/ i \in lost \/ \A w \in Workers : job[w].broken)

(* DOCUMENT_PRIORITY_FORMULA: the place in the ranking is the order in which*)
(* tasks are dispatched.  Of two pending rows of one lane, daemons claim the*)
(* one that was just ranked better first.                                   *)
RankedFirstIsClaimedFirst ==
    [][\A q \in Resetters : Rank(q) =>
          \A i, k \in Pending : /\ rows[i].proc \in prod[q].tasks /\ rows[k].proc \in prod[q].tasks
                                /\ rows[i].lane = rows[k].lane /\ rows'[i].score < rows'[k].score
                                => ClaimedBefore(i, k)']_vars
=============================================================================
