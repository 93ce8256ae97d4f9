---------------------------- MODULE ProjectionSync ----------------------------
(***************************************************************************)
(* run_v3_projection_sync: how procurements (lots) of the source database  *)
(* become rows of crm_procurements and follow their stage.                 *)
(*   - A sync reads the numbers the CRM knows, then the source tables one  *)
(*     after the other, then the whole CRM once, as an index; it decides   *)
(*     in memory and writes row by row, each write a transaction.          *)
(*   - In the source a lot wanders from table to table, with a new id in   *)
(*     each; what ties its rows together is its contract number, which may *)
(*     be missing at first.                                                *)
(*   - No lock keeps a manual run and the timer's run apart.               *)
(* One contour; what has no title or no identity is not here.              *)
(***************************************************************************)
EXTENDS Integers, Sequences, FiniteSets, FiniteSetsExt

CONSTANTS
    Lots, Syncers,
    MaxRows, Budget, Events

ASSUME ProjectionAssumption == MaxRows \in Nat /\ Budget \in Nat

(* SourceStage, which is also the table, in the order they are read.        *)
Open == 1
Waiting == 2
Awarded == 3
Stages == Open..Awarded

VARIABLES
    src,      \* the tables each lot is in
    numbered, \* the lots whose contract number is known
    past,     \* the lots whose end date has passed
    rows,     \* crm_procurements
    sync,     \* each run of the sync
    raced,    \* history: lots inserted by a sync that was not alone
    budget

vars == <<src, numbered, past, rows, sync, raced, budget>>

Statuses == {"open", "expired", "waiting", "awarded", "manual_hold"}
Ids == DOMAIN rows

NoSync == [at |-> "idle", fresh |-> FALSE, known |-> {}]
Running(s) == sync[s].at # "idle"

Init ==
    /\ src \in [Lots -> {{k} : k \in Stages}]
    /\ numbered \in SUBSET Lots
    /\ past = {} /\ rows = <<>> /\ raced = {}
    /\ sync = [s \in Syncers |-> NoSync]
    /\ budget = Budget

Disturb(e) == e \in Events /\ budget > 0 /\ budget' = budget - 1

(* What every sync that is or has been under way has missed from now on.    *)
Stale == [t \in Syncers |-> [sync[t] EXCEPT !.fresh = FALSE]]

-----------------------------------------------------------------------------
(* Reading.  _load_crm_identity_sets: the numbers and the ids the CRM has,  *)
(* by either of which the query on the awarded table tells EXISTING from    *)
(* HISTORY.  A placeholder is no number of the source.                      *)
Knows(l, i) ==
    /\ rows[i].lot = l
    /\ rows[i].num \/ rows[i].prov = Awarded \/ rows[i].awd

(* Mutant: what the CRM has as awarded needs no sync. *)
Known_Unfinished == {l \in Lots : \E i \in Ids : Knows(l, i) /\ ~rows[i].awd}

Known == {l \in Lots : \E i \in Ids : Knows(l, i)}

(* The watermark is the moment the sync begins: news is what has been       *)
(* awarded since.                                                           *)
SyncStart(s) ==
    /\ ~Running(s)
    /\ sync' = [t \in Syncers |->
         IF t = s THEN
            [at |-> "pull", fresh |-> TRUE, alone |-> \A u \in Syncers \ {s} : ~Running(u),
             known |-> Known, news |-> {}, next |-> Open, got |-> {}]
         ELSE IF Running(t) THEN [sync[t] EXCEPT !.alone = FALSE] ELSE sync[t]]
    /\ UNCHANGED <<src, numbered, past, rows, raced, budget>>

Found(s, k) == {l \in Lots : k \in src[l] /\ (k = Awarded => l \in sync[s].known \cup sync[s].news)}

(* One table: the rows of it, with the numbers they have now. *)
Pull(s) ==
    /\ sync[s].at = "pull"
    /\ LET k == sync[s].next IN
       sync' = [sync EXCEPT ![s] =
          [at |-> IF k = Awarded THEN "index" ELSE "pull", fresh |-> sync[s].fresh, alone |-> sync[s].alone,
           known |-> sync[s].known, news |-> sync[s].news, next |-> k + 1,
           got |-> sync[s].got \cup {[lot |-> l, stage |-> k, num |-> l \in numbered] : l \in Found(s, k)}]]
    /\ UNCHANGED <<src, numbered, past, rows, raced, budget>>

(* _find_existing_indexed: the row that owns the number, then the row of    *)
(* this very source row, then the row it was awarded from.  The index is    *)
(* built from rows in no particular order and holds one row per key.        *)
Owners(idx, r) == {i \in DOMAIN idx : idx[i].lot = r.lot /\ idx[i].num /\ r.num}
SameSource(idx, r) == {i \in DOMAIN idx : idx[i].lot = r.lot /\ idx[i].prov = r.stage}
AwardedFrom(idx, r) == {i \in DOMAIN idx : idx[i].lot = r.lot /\ idx[i].awd /\ r.stage = Awarded}

(* Mutant: the number is not looked up. *)
Existing_BySource(idx, r) ==
    IF SameSource(idx, r) # {} THEN SameSource(idx, r) ELSE AwardedFrom(idx, r)

Existing(idx, r) ==
    IF Owners(idx, r) # {} THEN Owners(idx, r)
    ELSE IF SameSource(idx, r) # {} THEN SameSource(idx, r) ELSE AwardedFrom(idx, r)

(* Mutant: an award must be newer than the watermark. *)
Admitted_News(s, idx, r) == r.stage = Awarded => r.lot \in sync[s].news

(* admit_source_row: an award is admitted if the CRM knows the lot or if it *)
(* is newer than the watermark.                                             *)
Admitted(s, idx, r) == r.stage = Awarded => Existing(idx, r) # {} \/ r.lot \in sync[s].news

(* _dedupe_by_lifecycle: of the rows with one number the furthest stage;    *)
(* rows without one are each their own key.                                 *)
Dedupe(R) ==
    {r \in R : r.num => \A q \in R : q.lot = r.lot /\ q.num => q.stage <= r.stage}

Index(s) ==
    /\ sync[s].at = "index"
    /\ LET eligible == {r \in sync[s].got : Admitted(s, rows, r)}
       IN sync' = [sync EXCEPT ![s] =
             [at |-> "write", fresh |-> sync[s].fresh, alone |-> sync[s].alone,
              known |-> sync[s].known, news |-> sync[s].news, idx |-> rows, todo |-> Dedupe(eligible)]]
    /\ UNCHANGED <<src, numbered, past, rows, raced, budget>>

-----------------------------------------------------------------------------
(* Writing.  _crm_stage_for: the table, and for an open one the calendar.   *)
Status(r) ==
    CASE r.stage = Awarded -> "awarded"
      [] r.stage = Waiting -> "waiting"
      [] r.stage = Open -> IF r.lot \in past THEN "expired" ELSE "open"

(* Keys keep the order in which the tables first held them. *)
NextUp(s, r) ==
    /\ sync[s].at = "write" /\ r \in sync[s].todo
    /\ \A q \in sync[s].todo : q.lot = r.lot => r.stage <= q.stage

(* Mutant: the unique constraint is missing. *)
Taken_None(r) == {}

(* Unique: (source_table, source_id); a write against it is a duplicate,    *)
(* which is counted and passed over.                                        *)
Taken(r) == {i \in Ids : rows[i].lot = r.lot /\ rows[i].prov = r.stage}

Leave(s, r) == [sync[s] EXCEPT !.todo = @ \ {r}]

(* The writer is as fresh as it was, all others now have missed something.  *)
Wrote(s, r) == sync' = [Stale EXCEPT ![s] = Leave(s, r)]

(* Without a number the row gets a placeholder, which no source row has.    *)
(* The index gets the row, too, but nothing later in the run has its keys.  *)
Insert(s, r) ==
    /\ NextUp(s, r) /\ Existing(sync[s].idx, r) = {}
    /\ IF Taken(r) # {}
       THEN sync' = [sync EXCEPT ![s] = Leave(s, r)] /\ UNCHANGED <<rows, raced>>
       ELSE /\ Len(rows) < MaxRows
            /\ rows' = Append(rows, [lot |-> r.lot, num |-> r.num, prov |-> r.stage,
                                     awd |-> r.stage = Awarded, status |-> Status(r)])
            /\ raced' = IF sync[s].alone THEN raced ELSE raced \cup {r.lot}
            /\ Wrote(s, r)
    /\ UNCHANGED <<src, numbered, past, budget>>

(* The row follows the source row; a number, be it a placeholder, stays.    *)
Followed(row, r) ==
    [lot |-> row.lot, num |-> row.num, prov |-> r.stage, awd |-> row.awd \/ r.stage = Awarded,
     status |-> IF row.status = "manual_hold" THEN row.status ELSE Status(r)]

Update(s, r) ==
    /\ NextUp(s, r)
    /\ \E i \in Existing(sync[s].idx, r) :
          IF Taken(r) \ {i} # {}
          THEN sync' = [sync EXCEPT ![s] = Leave(s, r)] /\ UNCHANGED rows
          ELSE /\ rows' = [rows EXCEPT ![i] = Followed(rows[i], r)]
               /\ Wrote(s, r)
    /\ UNCHANGED <<src, numbered, past, raced, budget>>

(* Any other error is counted, and the sync goes on. *)
UpsertFails(s, r) ==
    /\ NextUp(s, r)
    /\ sync' = [sync EXCEPT ![s] = [Leave(s, r) EXCEPT !.fresh = FALSE]]
    /\ Disturb("error")
    /\ UNCHANGED <<src, numbered, past, rows, raced>>

SyncEnd(s) ==
    /\ sync[s].at = "write" /\ sync[s].todo = {}
    /\ sync' = [sync EXCEPT ![s] = [at |-> "idle", fresh |-> sync[s].fresh, known |-> sync[s].known]]
    /\ UNCHANGED <<src, numbered, past, rows, raced, budget>>

SyncDies(s) ==
    /\ Running(s)
    /\ sync' = [sync EXCEPT ![s] = NoSync]
    /\ Disturb("crash")
    /\ UNCHANGED <<src, numbered, past, rows, raced>>

SyncStep(s) ==
    \/ SyncStart(s) \/ Pull(s) \/ Index(s) \/ SyncEnd(s) \/ SyncDies(s)
    \/ \E l \in Lots, k \in Stages, n \in BOOLEAN :
          LET r == [lot |-> l, stage |-> k, num |-> n]
          IN Insert(s, r) \/ Update(s, r) \/ UpsertFails(s, r)

-----------------------------------------------------------------------------
(* The source: a lot enters the next table before or when it leaves the     *)
(* last one.                                                                *)
Moved(l) ==
    {src[l] \cup {k} : k \in {k \in Stages : \A m \in src[l] : m < k}}
    \cup {src[l] \ {k} : k \in {k \in src[l] : \E m \in src[l] : k < m}}

SourceMoves(l) ==
    /\ \E S \in Moved(l) :
          /\ src' = [src EXCEPT ![l] = S]
          /\ sync' = [t \in Syncers |->
                IF Running(t) /\ Awarded \in S \ src[l]
                THEN [Stale[t] EXCEPT !.news = @ \cup {l}] ELSE Stale[t]]
    /\ Disturb("move")
    /\ UNCHANGED <<numbered, past, rows, raced>>

NumberAppears(l) ==
    /\ l \notin numbered
    /\ numbered' = numbered \cup {l} /\ sync' = Stale
    /\ Disturb("number")
    /\ UNCHANGED <<src, past, rows, raced>>

DeadlinePasses(l) ==
    /\ l \notin past
    /\ past' = past \cup {l} /\ sync' = Stale
    /\ Disturb("deadline")
    /\ UNCHANGED <<src, numbered, rows, raced>>

Hold(i) ==
    /\ rows[i].status # "manual_hold"
    /\ rows' = [rows EXCEPT ![i].status = "manual_hold"] /\ sync' = Stale
    /\ Disturb("hold")
    /\ UNCHANGED <<src, numbered, past, raced>>

Next ==
    \/ \E s \in Syncers : SyncStep(s)
    \/ \E l \in Lots : SourceMoves(l) \/ NumberAppears(l) \/ DeadlinePasses(l)
    \/ \E i \in Ids : Hold(i)

Spec == Init /\ [][Next]_vars

-----------------------------------------------------------------------------
Row == [lot : Lots, num : BOOLEAN, prov : Stages, awd : BOOLEAN, status : Statuses]

(* Types, and what the schema and the writer rely on: a source row belongs  *)
(* to at most one CRM row, and a row that names an awarded source row as    *)
(* its source remembers the award.                                          *)
ProjectionTypeOK ==
    /\ Len(rows) <= MaxRows /\ \A i \in Ids : rows[i] \in Row
    /\ \A i, j \in Ids : rows[i].lot = rows[j].lot /\ rows[i].prov = rows[j].prov => i = j
    /\ \A i \in Ids : rows[i].prov = Awarded => rows[i].awd
    /\ \A s \in Syncers : sync[s].at \in {"idle", "pull", "index", "write"}

(* A contract number has one row, although every insert rests on an index   *)
(* read before: over any number of syncs, moves and crashes a second one    *)
(* takes two syncs that overlap.                                            *)
NumberHasOneRow ==
    \A i, j \in Ids :
        i # j /\ rows[i].lot = rows[j].lot /\ rows[i].num /\ rows[j].num => rows[i].lot \in raced

(* The furthest table a lot is in. *)
Top(l) == Max(src[l])

(* s has ended without an error, and since it began nobody else has changed *)
(* anything.                                                                *)
UpToDate(s) == ~Running(s) /\ sync[s].fresh

(* What a completed sync achieves, whatever earlier ones that died, failed  *)
(* or overlapped had left: a numbered lot has a row that points to its      *)
(* furthest source row and has the stage of that; if that is an award, on   *)
(* condition that the CRM knew the lot before the sync, by its number or by *)
(* the id of the award.                                                     *)
RowsFollowSource ==
    \A s \in Syncers : UpToDate(s) => \A l \in numbered :
        (Top(l) # Awarded \/ l \in sync[s].known) =>
            \E i \in Ids :
                /\ rows[i].lot = l /\ rows[i].prov = Top(l)
                /\ rows[i].status \in {"manual_hold",
                                       Status([lot |-> l, stage |-> Top(l), num |-> TRUE])}

(* Stages travel forward in the source; a row follows them back only when   *)
(* a sync that read an older source overtakes another.                      *)
StageNeverFallsBack ==
    [][\A i \in Ids : rows'[i].prov < rows[i].prov
          => \E s \in Syncers : Running(s) /\ ~sync[s].alone]_vars
=============================================================================
