--------------------------- MODULE OpportunityStore ---------------------------
(***************************************************************************)
(* The table crm_procurement_category_opportunities and its four writers,  *)
(* each a process of its own, each statement a transaction of its own:     *)
(*   - the routing runner persists the opportunities of an assessment,     *)
(*   - the lifecycle sync rewrites commercial_state from the source stage  *)
(*     and keeps an audit of it,                                           *)
(*   - the daily reevaluation lets medals decay with time,                 *)
(*   - an expert's annotation locks what is accepted.                      *)
(* The source copy crm_procurements moves underneath all of them.          *)
(***************************************************************************)
EXTENDS Integers, Sequences, FiniteSets, SequencesExt

CONSTANTS
    Procs,      \* procurements
    Identity,   \* their stable identity: contour and contract number
    Keys,       \* opportunities: [proc, cat, sub, track]; sub may be NoSub
    NoSub,      \* a NULL subcategory
    ObjectForm, \* the procurements whose form is construction or design work
    Syncers,    \* lifecycle syncs that may overlap
    Medals,     \* ranks of medals, 1 the lowest
    MaxRows, MaxOutput, \* bounds: rows, keys of an output
    MaxAudit,   \* bound: a sync begins while the audit is shorter
    Budget, Events \* bound: how often the store is disturbed, and by what

ASSUME StoreAssumption ==
    /\ Identity \in [Procs -> Procs]
    /\ \A k \in Keys : k.proc \in Procs
    /\ ObjectForm \subseteq Procs
    /\ MaxRows \in Nat /\ MaxOutput \in Nat /\ MaxAudit \in Nat /\ Budget \in Nat
    /\ Medals \subseteq Nat

VARIABLES
    rows,     \* the table, in order of id
    source,   \* stage of each procurement
    expert,   \* procurements with a current expert annotation
    persist,  \* the runner's call of persist_category_opportunities
    sync,     \* each lifecycle sync
    reev,     \* the daily reevaluation: medals still to write
    audit,    \* crm_category_opportunity_lifecycle_audit
    raced,    \* history: transitions two syncs have had to audit at once
    budget    \* bound on what disturbs the store

vars == <<rows, source, expert, persist, sync, reev, audit, raced, budget>>

Current(i) == rows[i].status = "CURRENT"
RowsOf(p) == {i \in DOMAIN rows : rows[i].key.proc = p}

NoPersist == [at |-> "idle"]
NoSync(fresh) == [at |-> "idle", fresh |-> fresh]

(* An event of the environment is enabled, and counted. *)
Disturb(e) == e \in Events /\ budget > 0 /\ budget' = budget - 1

(* History: what a sync has read no longer holds. *)
Outdated(others) == 
    sync' = [s \in Syncers |-> IF s \in others THEN [sync[s] EXCEPT !.fresh = FALSE] ELSE sync[s]]

Init ==
    /\ rows = <<>> /\ audit = <<>> /\ raced = {}
    /\ source = [p \in Procs |-> "open"]
    /\ expert = {} /\ reev = <<>>
    /\ persist = NoPersist
    /\ sync = [s \in Syncers |-> NoSync(FALSE)]
    /\ budget = Budget

-----------------------------------------------------------------------------
(* The stage, as the projection of the source writes it: an open row past   *)
(* its deadline is expired, one in a commission table waits.  sync_awarded  *)
(* makes an expired row wait too (award_not_found), which the next          *)
(* projection undoes; an extended deadline opens a row again.               *)
Moves ==
    {<<"open", "expired">>, <<"expired", "open">>, <<"expired", "waiting">>, <<"waiting", "expired">>,
     <<"waiting", "open">>, <<"expired", "awarded">>, <<"waiting", "awarded">>}

SourceMoves(p) ==
    /\ \E stage \in {"open", "expired", "waiting", "awarded"} :
          <<source[p], stage>> \in Moves /\ source' = [source EXCEPT ![p] = stage]
    /\ Outdated(Syncers) /\ Disturb("stage")
    /\ UNCHANGED <<rows, expert, persist, reev, audit, raced>>

(* source_lifecycle: the event of a stage. *)
CanonicalEvent(stage) ==
    CASE stage = "awarded" -> "AWARDED"
      [] stage \in {"waiting", "expired"} -> "WAITING_SOURCE_OUTCOME"
      [] OTHER -> "OPEN"

(* The sync's query does not select end_date: to it, an expired row is open.*)
SyncEvent(stage) == IF stage = "expired" THEN "OPEN" ELSE CanonicalEvent(stage)

SaveExpert(p) ==
    /\ expert' = expert \cup {p}
    /\ Disturb("expert")
    /\ UNCHANGED <<rows, source, persist, sync, reev, audit, raced>>

-----------------------------------------------------------------------------
(* persist_category_opportunities, after the commit of an assessment.       *)
Outputs(p) == SeqOf({k \in Keys : k.proc = p}, MaxOutput)

(* has_expert_lock answers FALSE when its query raises. *)
LockSeen(p, raises) == p \in expert /\ ~raises

PersistStart(p) ==
    /\ Disturb("assess")
    /\ persist.at = "idle"
    /\ \E raises \in {FALSE} \cup (IF "lockfail" \in Events THEN {TRUE} ELSE {}), out \in Outputs(p) :
          /\ ~LockSeen(p, raises)
          /\ Len(rows) + Len(out) <= MaxRows
          /\ persist' = [at |-> "supersede", proc |-> p, todo |-> out, out |-> Range(out)]
    /\ UNCHANGED <<rows, source, expert, sync, reev, audit, raced>>

(* Mutant: the rows without subcategory are forgotten. *)
Supersede_Named ==
    /\ persist.at = "supersede"
    /\ rows' = [i \in DOMAIN rows |->
                   IF i \in RowsOf(persist.proc) /\ rows[i].key.sub # NoSub
                   THEN [rows[i] EXCEPT !.status = "SUPERSEDED"] ELSE rows[i]]
    /\ persist' = IF persist.todo = <<>> THEN NoPersist ELSE [persist EXCEPT !.at = "upsert"]
    /\ Outdated(Syncers)
    /\ UNCHANGED <<source, expert, reev, audit, raced, budget>>

Supersede ==
    /\ persist.at = "supersede"
    /\ rows' = [i \in DOMAIN rows |->
                   IF i \in RowsOf(persist.proc) THEN [rows[i] EXCEPT !.status = "SUPERSEDED"] ELSE rows[i]]
    /\ persist' = IF persist.todo = <<>> THEN NoPersist ELSE [persist EXCEPT !.at = "upsert"]
    /\ Outdated(Syncers)
    /\ UNCHANGED <<source, expert, reev, audit, raced, budget>>

(* ON CONFLICT compares with =, under which NULL equals nothing. *)
Conflict(i, k) == rows[i].key = k /\ k.sub # NoSub

NewRow(k, m) ==
    [key |-> k, status |-> "CURRENT", state |-> "ACTIVE", event |-> "OPEN", initial |-> m, medal |-> m]

(* Mutant: the conflict clause takes the new row's first medal too. *)
Upserted_Initial(k, m) ==
    IF \E i \in DOMAIN rows : Conflict(i, k)
    THEN [i \in DOMAIN rows |->
             IF Conflict(i, k) THEN [rows[i] EXCEPT !.status = "CURRENT", !.medal = m, !.initial = m] ELSE rows[i]]
    ELSE Append(rows, NewRow(k, m))

Upserted(k, m) ==
    IF \E i \in DOMAIN rows : Conflict(i, k)
    THEN [i \in DOMAIN rows |->
             IF Conflict(i, k) THEN [rows[i] EXCEPT !.status = "CURRENT", !.medal = m] ELSE rows[i]]
    ELSE Append(rows, NewRow(k, m))

Upsert ==
    /\ persist.at = "upsert"
    /\ \E m \in Medals : rows' = Upserted(Head(persist.todo), m)
    /\ persist' = IF Len(persist.todo) = 1 THEN NoPersist
                  ELSE [persist EXCEPT !.todo = Tail(persist.todo)]
    /\ Outdated(Syncers)
    /\ UNCHANGED <<source, expert, reev, audit, raced, budget>>

(* The runner dies, or a statement raises and the runner gives the item up. *)
PersistDies ==
    /\ persist.at # "idle" /\ persist' = NoPersist
    /\ Disturb("crash")
    /\ UNCHANGED <<rows, source, expert, sync, reev, audit, raced>>

-----------------------------------------------------------------------------
(* sync_opportunities_lifecycle: three queries, a computation, the writes   *)
(* one by one in order of id, then the audit.  Nothing keeps two of them    *)
(* apart: the job lock is given back before the lifecycle sync is called.   *)
(* A sync that begins beside another is counted among the disturbances.     *)

(* Mutant: what was suppressed once is not looked at again. *)
ToSync_Live == {i \in DOMAIN rows : Current(i) /\ rows[i].state # "STALE_SOURCE"}

ToSync == {i \in DOMAIN rows : Current(i)}

SyncOpportunities(s) ==
    /\ sync[s].at = "idle" /\ ToSync # {} /\ Len(audit) < MaxAudit
    /\ sync' = [sync EXCEPT ![s] =
                   [at |-> "source", fresh |-> TRUE,
                    opps |-> [i \in ToSync |->
                                 [state |-> rows[i].state, event |-> rows[i].event, key |-> rows[i].key]]]]
    /\ IF \E r \in Syncers : sync[r].at # "idle" THEN Disturb("overlap") ELSE UNCHANGED budget
    /\ UNCHANGED <<rows, source, expert, persist, reev, audit, raced>>

SyncSource(s) ==
    /\ sync[s].at = "source"
    /\ LET opps == sync[s].opps IN
       sync' = [sync EXCEPT ![s] =
                   [at |-> "audit", fresh |-> sync[s].fresh, opps |-> opps,
                    seen |-> [p \in {opps[i].key.proc : i \in DOMAIN opps} |-> SyncEvent(source[p])]]]
    /\ UNCHANGED <<rows, source, expert, persist, reev, audit, raced, budget>>

Priority(event) ==
    CASE event = "AWARDED" -> 30 [] event = "WAITING_SOURCE_OUTCOME" -> 20 [] OTHER -> 10

Rivals(seen, p) == {q \in DOMAIN seen : Identity[q] = Identity[p]}

(* max() takes the first of equals, in the order of a query without         *)
(* ORDER BY.                                                                *)
Leads(seen, p) == \A q \in Rivals(seen, p) : Priority(seen[q]) <= Priority(seen[p])

(* Mutant: every procurement leads its own identity. *)
Dominants_Everyone(seen) == {DOMAIN seen}

Dominants(seen) ==
    {D \in SUBSET DOMAIN seen :
        \A p \in DOMAIN seen : \E d \in D : D \cap Rivals(seen, p) = {d} /\ Leads(seen, d)}

(* _compute_decision *)
Decision(k, event) ==
    CASE k.track = "NO_COMMERCIAL_ENTRY" -> "SUPPRESSED"
      [] k.track = "UNKNOWN" -> IF event = "AWARDED" THEN "ARCHIVED" ELSE "REVIEW_REQUIRED"
      [] event = "OPEN" -> "ACTIVE"
      [] event = "WAITING_SOURCE_OUTCOME" -> "WAITING_SOURCE_OUTCOME"
      [] k.track = "DIRECT_SUPPLY" /\ k.proc \notin ObjectForm -> "CLOSED"
      [] OTHER -> "FOLLOW_UP_AWARDED"

Write(s, D, i) ==
    LET k == sync[s].opps[i].key
        event == sync[s].seen[k.proc]
    IN [id |-> i, event |-> event, state |-> IF k.proc \in D THEN Decision(k, event) ELSE "STALE_SOURCE"]

Transition(s, w) ==
    [id |-> w.id, from |-> <<sync[s].opps[w.id].state, sync[s].opps[w.id].event>>, to |-> <<w.state, w.event>>]

(* Mutant: idempotence is left to the table. *)
Logged_All(t) == t.from # t.to

(* A transition is audited unless the same one has been audited before. *)
Logged(t) == t.from # t.to /\ t \notin Range(audit)

(* What syncs have found missing in the audit and not written yet. *)
Pending(others) == UNION {sync[s].log : s \in {r \in others : sync[r].at \in {"write", "log"}}}

SyncAudit(s) ==
    /\ sync[s].at = "audit"
    /\ \E D \in Dominants(sync[s].seen) :
          LET writes == {Write(s, D, i) : i \in DOMAIN sync[s].opps}
              log == {t \in {Transition(s, w) : w \in writes} : Logged(t)}
          IN /\ sync' = [sync EXCEPT ![s] =
                            [at |-> "write", fresh |-> sync[s].fresh, writes |-> writes, log |-> log]]
             /\ raced' = raced \cup (log \cap Pending(Syncers \ {s}))
    /\ UNCHANGED <<rows, source, expert, persist, reev, audit, budget>>

(* Mutant: the loop over the transitions expects one. *)
AfterWrites_Log(s) == [at |-> "log", fresh |-> sync[s].fresh, log |-> sync[s].log]

AfterWrites(s) ==
    IF sync[s].log = {} THEN NoSync(sync[s].fresh)
    ELSE [at |-> "log", fresh |-> sync[s].fresh, log |-> sync[s].log]

(* Both loops go in order of id. *)
IsFirst(x, S) == x \in S /\ \A y \in S : x.id <= y.id

(* The write is by id, whatever has become of the row. *)
SyncWrite(s) ==
    /\ sync[s].at = "write"
    /\ \E w \in sync[s].writes :
          LET left == sync[s].writes \ {w} IN
          /\ IsFirst(w, sync[s].writes)
          /\ rows' = [rows EXCEPT ![w.id].state = w.state, ![w.id].event = w.event]
          /\ sync' = [r \in Syncers |->
                IF r # s THEN [sync[r] EXCEPT !.fresh = FALSE]
                ELSE IF left # {} THEN [sync[s] EXCEPT !.writes = left] ELSE AfterWrites(s)]
    /\ UNCHANGED <<source, expert, persist, reev, audit, raced, budget>>

SyncLog(s) ==
    /\ sync[s].at = "log"
    /\ \E t \in sync[s].log :
          LET left == sync[s].log \ {t} IN
          /\ IsFirst(t, sync[s].log)
          /\ audit' = Append(audit, t)
          /\ sync' = [sync EXCEPT ![s] =
                IF left = {} THEN NoSync(sync[s].fresh) ELSE [sync[s] EXCEPT !.log = left]]
    /\ UNCHANGED <<rows, source, expert, persist, reev, raced, budget>>

SyncDies(s) ==
    /\ sync[s].at # "idle" /\ sync' = [sync EXCEPT ![s] = NoSync(FALSE)]
    /\ Disturb("crash")
    /\ UNCHANGED <<rows, source, expert, persist, reev, audit, raced>>

-----------------------------------------------------------------------------
(* The daily reevaluation reads every CURRENT row, rescores it with time    *)
(* only, so never upwards, and writes by procurement, category and track;   *)
(* the query leaves the order within a procurement open.                    *)
Reevaluate ==
    /\ Disturb("reeval")
    /\ reev = <<>> /\ \E i \in DOMAIN rows : Current(i)
    /\ \E ids \in SetToSeqs({i \in DOMAIN rows : Current(i)}) :
          \E fall \in [DOMAIN ids -> Medals] :
             /\ \A n \in DOMAIN ids : fall[n] <= rows[ids[n]].medal
             /\ reev' = [n \in DOMAIN ids |-> [key |-> rows[ids[n]].key, medal |-> fall[n]]]
    /\ UNCHANGED <<rows, source, expert, persist, sync, audit, raced>>

SameLine(k, l) == k.proc = l.proc /\ k.cat = l.cat /\ k.track = l.track

ReevaluateWrite ==
    /\ reev # <<>>
    /\ rows' = [i \in DOMAIN rows |->
                   IF Current(i) /\ SameLine(rows[i].key, Head(reev).key)
                   THEN [rows[i] EXCEPT !.medal = Head(reev).medal] ELSE rows[i]]
    /\ reev' = Tail(reev)
    /\ UNCHANGED <<source, expert, persist, sync, audit, raced, budget>>

-----------------------------------------------------------------------------
SyncStep(s) ==
    SyncOpportunities(s) \/ SyncSource(s) \/ SyncAudit(s) \/ SyncWrite(s) \/ SyncLog(s)

Next ==
    \/ \E p \in Procs : SourceMoves(p) \/ SaveExpert(p) \/ PersistStart(p)
    \/ Supersede \/ Upsert \/ PersistDies
    \/ \E s \in Syncers : SyncStep(s) \/ SyncDies(s)
    \/ Reevaluate \/ ReevaluateWrite

Spec == Init /\ [][Next]_vars

-----------------------------------------------------------------------------
Row == [key : Keys, status : {"CURRENT", "SUPERSEDED"}, initial : Medals, medal : Medals,
        state : {"ACTIVE", "WAITING_SOURCE_OUTCOME", "FOLLOW_UP_AWARDED", "CLOSED", "ARCHIVED",
                 "STALE_SOURCE", "SUPPRESSED", "REVIEW_REQUIRED"},
        event : {"OPEN", "WAITING_SOURCE_OUTCOME", "AWARDED"}]

(* Types.  Whatever is still to be written is about rows that exist. *)
StoreTypeOK ==
    /\ rows \in Seq(Row) /\ Len(rows) <= MaxRows
    /\ source \in [Procs -> {"open", "expired", "waiting", "awarded"}]
    /\ expert \subseteq Procs /\ budget \in 0..Budget
    /\ persist.at \in {"idle", "supersede", "upsert"}
    /\ persist.at = "upsert" => persist.todo # <<>>
    /\ \A s \in Syncers :
          /\ sync[s].at \in {"idle", "source", "audit", "write", "log"}
          /\ sync[s].at = "write" =>
                sync[s].writes # {} /\ \A w \in sync[s].writes : w.id \in DOMAIN rows
          /\ sync[s].at = "log" => sync[s].log # {}
    /\ \A t \in Range(audit) : t.id \in DOMAIN rows

(* What is accepted for a procurement is one output, whole: when a persist  *)
(* that nothing cut short ends, its opportunities and no others are CURRENT,*)
(* whatever syncs, reevaluations and earlier persists that died left there. *)
AcceptedIsLastOutput ==
    [][persist.at # "idle" /\ persist' = NoPersist /\ budget' = budget =>
          {rows'[i].key : i \in {j \in DOMAIN rows' : rows'[j].key.proc = persist.proc /\ rows'[j].status = "CURRENT"}}
             = persist.out]_vars

(* Where the unique constraint can see it, an opportunity has one row for   *)
(* ever, and through all reassessments that row keeps its first medal.      *)
FirstMedalIsKept ==
    [][/\ \A i, j \in DOMAIN rows' : rows'[i].key = rows'[j].key /\ rows'[i].key.sub # NoSub => i = j
       /\ \A i \in DOMAIN rows : rows'[i].initial = rows[i].initial]_vars

(* A sync has ended, and since it read them neither the rows nor the source *)
(* have changed.                                                            *)
UpToDate == \E s \in Syncers : sync[s].at = "idle" /\ sync[s].fresh

Live(p) == \E i \in RowsOf(p) : Current(i) /\ rows[i].state # "STALE_SOURCE"

(* "Pick dominant procurement per stable identity key to prevent            *)
(* duplicates": after a sync no two procurements of one identity are live,  *)
(* and among those with a different stage the further one is.               *)
DuplicatesSuppressed ==
    UpToDate => \A p, q \in Procs :
        p # q /\ Identity[p] = Identity[q] /\ Live(p) =>
            /\ ~Live(q)
            /\ \A i \in RowsOf(q) : Current(i) =>
                  Priority(SyncEvent(source[q])) <= Priority(SyncEvent(source[p]))

(* "State still computed, but audit must not duplicate": over any number of *)
(* syncs, reassessments and crashes the audit holds no transition twice but *)
(* for one that two syncs had to audit at the same time: the look and the   *)
(* insert are two transactions, and the job lock is released before.        *)
AuditHasNoDuplicates ==
    \A i, j \in DOMAIN audit : audit[i] = audit[j] => i = j \/ audit[i] \in raced

(* What a row of p should say, given what the sync can see.  Equals may     *)
(* take turns.                                                              *)
Present == {p \in Procs : \E i \in RowsOf(p) : Current(i)}
Above(p) == {q \in Present : Identity[q] = Identity[p] /\ q # p
                /\ Priority(SyncEvent(source[q])) > Priority(SyncEvent(source[p]))}
Equal(p) == {q \in Present : Identity[q] = Identity[p] /\ q # p
                /\ Priority(SyncEvent(source[q])) = Priority(SyncEvent(source[p]))}

RightState(i) ==
    LET p == rows[i].key.proc IN
    /\ rows[i].event = SyncEvent(source[p])
    /\ \/ Above(p) = {} /\ rows[i].state = Decision(rows[i].key, rows[i].event)
       \/ Above(p) \cup Equal(p) # {} /\ rows[i].state = "STALE_SOURCE"

(* After such a sync every accepted opportunity says what its source calls  *)
(* for, whatever new rows, writes from a stale reading and syncs that died  *)
(* had left there: a completed sync repairs them all.                       *)
StatesFollowSource == UpToDate => \A i \in DOMAIN rows : Current(i) => RightState(i)

-----------------------------------------------------------------------------
(* Test "time only no medal improvement": the daily reevaluation never      *)
(* raises a medal.                                                          *)
TimeNeverImproves ==
    [][reev # <<>> /\ reev' # reev =>
          \A i \in DOMAIN rows : rows'[i].medal <= rows[i].medal]_vars
=============================================================================
