-------------------------- MODULE DocumentFilesProofs --------------------------
(***************************************************************************)
(* Proofs about DocumentFiles, for any files, pages, keywords and bounds:  *)
(* the types, that what a page shows is stored once the registry calls the *)
(* page read, and that a file is given up only where a pass could not go   *)
(* on.                                                                     *)
(***************************************************************************)
EXTENDS DocumentFiles, FiniteSetTheorems, TLAPS

RowType == [status : Statuses, cursor : 0..Pages, attempts : Nat, last : -1..Pages]

Waits == [at : {"idle", "unwired", "files"}, left : SUBSET Files]
Passes == [at : {"parse", "partial", "exhausted", "savepart", "save", "insert"},
           left : SUBSET Files, f : Files, name : Names, resuming : BOOLEAN,
           start : 0..Pages, page : 0..Pages]

Storing == run.at \in {"save", "insert"}

(* Types of the variables, and: attempts belong to a place, a renamed file  *)
(* is not resumed, the queue row is PROCESSING under the daemon.            *)
Typed ==
    /\ reg \in [Names -> RowType]
    /\ \A n \in Names :
          /\ (reg[n].attempts = 0) <=> (reg[n].last = -1)
          /\ n[2] = "renamed" => reg[n].attempts = 0 /\ reg[n].cursor = 0
    /\ details \subseteq Detail /\ torn \subseteq Files /\ blind \subseteq Files
    /\ run \in Waits \cup Passes
    /\ run.at # "idle" => task = "PROCESSING"

(* A pass: it works under the file's own name until the file is read to its *)
(* end, and a file that is not resumed was read from its beginning.         *)
PassOK ==
    Busy =>
        /\ run.start <= run.page
        /\ ~Storing => run.name = Own(run.f)
        /\ Storing => run.page = Pages /\ run.name \in {Own(run.f), Renamed(run.f)}
        /\ ~run.resuming => run.start = 0

(* What lies before the place where a pass began was stored by others. *)
BehindIsStored ==
    Busy /\ run.f \notin torn =>
        \A p \in Hits[run.f] : p <= run.start => Accounted(run.f, p)

PagesInv == Typed /\ PassOK /\ BehindIsStored /\ PagesAreAccounted

(* The cursor of a file whose statements succeed: an interruption lies      *)
(* nowhere but behind it, a pass begins at it and takes it along.           *)
Steady(f) ==
    /\ reg[Own(f)].last <= reg[Own(f)].cursor
    /\ reg[Own(f)].status = "none" => reg[Own(f)].last = -1
    /\ Working(f) /\ run.at \in {"parse", "partial"} =>
          /\ reg[Own(f)].last <= run.start
          /\ reg[Own(f)].status # "none" => reg[Own(f)].cursor = run.page
    /\ Working(f) /\ run.at = "exhausted" => run.page = run.start

StuckInv == Typed /\ PassOK /\ \A f \in Files \ blind : Steady(f)
-----------------------------------------------------------------------------
(* Facts about names and passes. *)
LEMMA NameFacts ==
    ASSUME NEW f \in Files, NEW g \in Files
    PROVE  /\ Own(f) \in Names /\ Renamed(f) \in Names
           /\ Own(f) # Renamed(g) /\ (Own(f) = Own(g) => f = g) /\ (Renamed(f) = Renamed(g) => f = g)
           /\ Own(f)[1] = f /\ Renamed(f)[1] = f /\ Own(f)[2] # "renamed"
  BY DEF Own, Renamed, Names

LEMMA PassFields ==
    ASSUME Typed, Busy
    PROVE  /\ run \in Passes /\ run.f \in Files /\ run.name \in Names
           /\ run.start \in 0..Pages /\ run.page \in 0..Pages /\ run.left \subseteq Files
  <1>1. run \in Passes
    BY DEF Typed, Busy, Waits
  <1> QED BY <1>1 DEF Passes

LEMMA RowFields ==
    ASSUME Typed, NEW n \in Names
    PROVE  /\ reg[n] \in RowType /\ reg[n].status \in Statuses /\ reg[n].cursor \in 0..Pages
           /\ reg[n].attempts \in Nat /\ reg[n].last \in -1..Pages
  <1>1. reg[n] \in RowType
    BY DEF Typed
  <1> QED BY <1>1 DEF RowType

(* The types of the registry, row by row. *)
RowOK(n, r) ==
    /\ r \in RowType
    /\ (r.attempts = 0) <=> (r.last = -1)
    /\ n[2] = "renamed" => r.attempts = 0 /\ r.cursor = 0

LEMMA RowsOK ==
    ASSUME Typed, NEW n \in Names, NEW r, RowOK(n, r), reg' = reg \/ reg' = [reg EXCEPT ![n] = r]
    PROVE  /\ reg' \in [Names -> RowType]
           /\ \A k \in Names :
                /\ (reg'[k].attempts = 0) <=> (reg'[k].last = -1)
                /\ k[2] = "renamed" => reg'[k].attempts = 0 /\ reg'[k].cursor = 0
           /\ \A k \in Names \ {n} : reg'[k] = reg[k]
  <1>1. CASE reg' = reg
    BY <1>1 DEF Typed
  <1>2. CASE reg' = [reg EXCEPT ![n] = r]
    <2>1. reg \in [Names -> RowType]
      BY DEF Typed
    <2>2. reg' \in [Names -> RowType]
      BY <1>2, <2>1 DEF RowOK
    <2>3. \A k \in Names : reg'[k] = IF k = n THEN r ELSE reg[k]
      BY <1>2, <2>1
    <2> QED BY <2>2, <2>3 DEF RowOK, Typed
  <1> QED BY <1>1, <1>2

LEMMA RowStays == ASSUME Typed, NEW n \in Names PROVE RowOK(n, reg[n])
  BY RowFields DEF Typed, RowOK

LEMMA NoRowOK == ASSUME NEW n PROVE RowOK(n, NoRow)
  <1>1. NoRow \in RowType
    BY FilesAssumption DEF NoRow, RowType, Statuses
  <1> QED BY <1>1 DEF RowOK, NoRow

(* A row that only changes its status, or takes a cursor along. *)
LEMMA StatusOK ==
    ASSUME Typed, NEW n \in Names, NEW s \in Statuses PROVE RowOK(n, [reg[n] EXCEPT !.status = s])
  BY RowFields, RowStays DEF RowOK, RowType

LEMMA CursorOK ==
    ASSUME Typed, NEW n \in Names, n[2] # "renamed", NEW c \in 0..Pages
    PROVE  RowOK(n, [reg[n] EXCEPT !.cursor = c])
  BY RowFields, RowStays DEF RowOK, RowType

LEMMA InterruptedOK ==
    ASSUME Typed, NEW n \in Names, n[2] # "renamed", NEW c \in 0..Pages
    PROVE  /\ RowOK(n, Interrupted(n, c))
           /\ Interrupted(n, c).cursor = c /\ Interrupted(n, c).last = c
           /\ Interrupted(n, c).status = "pending_resume"
           /\ Interrupted(n, c).attempts > 1 => reg[n].last = c
  <1>1. reg[n].attempts \in Nat
    BY RowFields
  <1>2. (IF reg[n].last = c THEN reg[n].attempts + 1 ELSE 1) \in Nat \ {0}
    BY <1>1
  <1>3. Interrupted(n, c) \in RowType /\ Interrupted(n, c).attempts # 0 /\ Interrupted(n, c).last # -1
    BY <1>2, FilesAssumption DEF Interrupted, RowType, Statuses
  <1> QED BY <1>3 DEF RowOK, Interrupted

LEMMA CompletedOK ==
    ASSUME Typed, NEW n \in Names, NEW b \in BOOLEAN PROVE RowOK(n, Completed(n, b))
  <1>1. CASE b
    <2>1. Completed(n, b) = [NoRow EXCEPT !.status = "completed"]
      BY <1>1 DEF Completed
    <2>2. [NoRow EXCEPT !.status = "completed"] \in RowType
      BY FilesAssumption DEF NoRow, RowType, Statuses
    <2> QED BY <2>1, <2>2 DEF RowOK, NoRow
  <1>2. CASE ~b
    BY <1>2, StatusOK DEF Completed, Statuses
  <1> QED BY <1>1, <1>2

(* What a pass leaves of the registry: one row, of its name. *)
LEMMA FinalizeRow ==
    ASSUME Typed, NEW n \in Names, Finalize(n)
    PROVE  \E r : /\ RowOK(n, r) /\ (reg' = reg \/ reg' = [reg EXCEPT ![n] = r])
                  /\ r = [NoRow EXCEPT !.status = "completed"] \/ r = [reg[n] EXCEPT !.status = "completed"]
  <1>1. PICK b \in BOOLEAN : reg' = reg \/ reg' = [reg EXCEPT ![n] = Completed(n, b)]
    BY DEF Finalize
  <1>2. Completed(n, b) = [NoRow EXCEPT !.status = "completed"] \/ Completed(n, b) = [reg[n] EXCEPT !.status = "completed"]
    BY DEF Completed
  <1> QED BY <1>1, <1>2, CompletedOK

LEMMA MatchFields ==
    ASSUME Typed, PassOK, Busy
    PROVE  /\ Matches(run) \subseteq Detail
           /\ \A m \in Matches(run) : m.name = run.name /\ m.page \in Hits[run.f] /\ m.page \in (run.start + 1)..run.page
           /\ \A p \in Hits[run.f] : p > run.start /\ p <= run.page =>
                 \E m \in Matches(run) : m.page = p /\ m.name = run.name
  <1>1. /\ run.name \in Names /\ run.f \in Files /\ run.start \in 0..Pages /\ run.page \in 0..Pages
        /\ Hits[run.f] \subseteq 1..Pages /\ Pages \in Nat \ {0}
    BY PassFields, FilesAssumption
  <1>2. ASSUME NEW p \in Hits[run.f] \cap (run.start + 1)..run.page
        PROVE  [name |-> run.name, page |-> p, line |-> p - run.start] \in Detail
    BY <1>1 DEF Detail
  <1>3. Matches(run) \subseteq Detail
    BY <1>2 DEF Matches
  <1>4. \A p \in Hits[run.f] : p > run.start /\ p <= run.page =>
                 \E m \in Matches(run) : m.page = p /\ m.name = run.name
    <2> SUFFICES ASSUME NEW p \in Hits[run.f], p > run.start, p <= run.page
                 PROVE  \E m \in Matches(run) : m.page = p /\ m.name = run.name
      OBVIOUS
    <2> DEFINE m == [name |-> run.name, page |-> p, line |-> p - run.start]
    <2>1. p \in Hits[run.f] \cap (run.start + 1)..run.page
      BY <1>1
    <2>2. m \in Matches(run)
      BY <2>1 DEF Matches
    <2> QED BY <2>2
  <1> QED BY <1>3, <1>4 DEF Matches

(* The places of a pass. *)
LEMMA PassMoves ==
    ASSUME Typed, Busy, NEW at \in {"parse", "partial", "exhausted", "savepart", "save", "insert"},
           run' = [run EXCEPT !.at = at]
    PROVE  /\ run' \in Passes /\ Busy' /\ run'.at = at
           /\ run'.f = run.f /\ run'.name = run.name /\ run'.resuming = run.resuming
           /\ run'.start = run.start /\ run'.page = run.page
  <1>1. run \in Passes
    BY PassFields
  <1> QED BY <1>1 DEF Passes, Busy

LEMMA PassReads ==
    ASSUME Typed, Busy, ReadPage
    PROVE  /\ run' \in Passes /\ Busy' /\ run'.at = "parse"
           /\ run'.f = run.f /\ run'.name = run.name /\ run'.resuming = run.resuming
           /\ run'.start = run.start /\ run'.page = run.page + 1 /\ run.page + 1 \in 0..Pages
  <1>1. run \in Passes /\ run' = [run EXCEPT !.page = run.page + 1] /\ run.at = "parse"
    BY PassFields DEF ReadPage
  <1>2. run.page + 1 \in 0..Pages
    BY PassFields, FilesAssumption DEF ReadPage
  <1> QED BY <1>1, <1>2 DEF Passes, Busy

LEMMA PassIsNamed ==
    ASSUME Typed, Busy, SomeMatches
    PROVE  \E n \in {Own(run.f), Renamed(run.f)} :
           /\ Finalize(n)
           /\ run' \in Passes /\ Busy' /\ run'.at = "save"
           /\ run'.f = run.f /\ run'.name = n /\ run'.resuming = run.resuming
           /\ run'.start = run.start /\ run'.page = run.page
  <1>1. PICK n \in {Renamed(run.f)} \cup (IF "norename" \in Events THEN {Own(run.f)} ELSE {}) :
          /\ Finalize(n)
          /\ run' = [run EXCEPT !.at = "save", !.name = n]
    BY DEF SomeMatches
  <1>2. run \in Passes /\ n \in Names /\ n \in {Own(run.f), Renamed(run.f)}
    BY <1>1, PassFields, NameFacts
  <1>3. run' = [run EXCEPT !.at = "save", !.name = n]
    BY <1>1
  <1>4. /\ run' \in Passes /\ run'.at = "save"
        /\ run'.f = run.f /\ run'.name = n /\ run'.resuming = run.resuming
        /\ run'.start = run.start /\ run'.page = run.page
    BY <1>2, <1>3 DEF Passes
  <1> QED BY <1>1, <1>2, <1>4 DEF Busy

LEMMA PassBegins ==
    ASSUME Typed, NEW f \in Files, OpenFile(f)
    PROVE  \E c \in 0..Pages :
           /\ CursorSeen(Own(f), c)
           /\ run' \in Passes /\ Busy' /\ run'.at = "parse"
           /\ run'.f = f /\ run'.name = Own(f) /\ run'.resuming = Resuming(f)
           /\ run'.start = c /\ run'.page = c
  <1>1. PICK c \in 0..Pages :
          /\ CursorSeen(Own(f), c)
          /\ run' = [at |-> "parse", left |-> run.left \ {f}, f |-> f, name |-> Own(f),
                     resuming |-> Resuming(f), start |-> c, page |-> c]
    BY DEF OpenFile
  <1>2. run \in Waits
    BY DEF Typed, OpenFile, Passes
  <1>3. run.left \ {f} \subseteq Files /\ Own(f) \in Names
    BY <1>2, NameFacts DEF Waits
  <1>4. Resuming(f) \in BOOLEAN
    BY DEF Resuming
  <1> DEFINE b == Resuming(f)
  <1>5. b \in BOOLEAN /\ run' = [at |-> "parse", left |-> run.left \ {f}, f |-> f, name |-> Own(f),
                     resuming |-> b, start |-> c, page |-> c]
    BY <1>1, <1>4
  <1> HIDE DEF b
  <1>6. run' \in Passes
    BY <1>3, <1>5 DEF Passes
  <1>7. /\ run'.at = "parse" /\ run'.f = f /\ run'.name = Own(f) /\ run'.resuming = b
        /\ run'.start = c /\ run'.page = c
    BY <1>5
  <1> QED BY <1>1, <1>6, <1>7 DEF Busy, b

(* The places from which a pass is left, or fails. *)
LEMMA PassEnds == ASSUME Typed, Busy, Back PROVE run' \in Waits /\ ~Busy' /\ run'.at = "files"
  BY PassFields DEF Back, Waits, Busy

-----------------------------------------------------------------------------
(* Types. *)
LEMMA InsertFields ==
    ASSUME Typed, PassOK, Busy, Insert(details) \/ InsertFails(details)
    PROVE  /\ details' \subseteq Detail /\ details \subseteq details' /\ collapsed \subseteq collapsed'
           /\ \A d \in details' \ details : d \in Matches(run)
  <1>1. Matches(run) \subseteq Detail /\ details \subseteq Detail
    BY MatchFields DEF Typed
  <1>2. CASE Insert(details)
    BY <1>1, <1>2 DEF Insert
  <1>3. CASE InsertFails(details)
    BY <1>1, <1>3 DEF InsertFails
  <1> QED BY <1>2, <1>3

LEMMA TypedStep == ASSUME Typed, PassOK, [Next]_vars PROVE Typed'
  <1>0. CASE UNCHANGED vars
    BY <1>0 DEF Typed, vars
  (* The registry stays and so does the place, or the daemon is idle after. *)
  <1>r. ASSUME UNCHANGED reg, details' \subseteq Detail, torn' \subseteq Files, blind' \subseteq Files,
               run' \in Waits \cup Passes, run'.at # "idle" => task' = "PROCESSING"
        PROVE  Typed'
    BY <1>r DEF Typed
  <1>w. ASSUME NEW n \in Names, NEW r, RowOK(n, r), reg' = reg \/ reg' = [reg EXCEPT ![n] = r],
               details' \subseteq Detail, torn' \subseteq Files, blind' \subseteq Files,
               run' \in Waits \cup Passes, run'.at # "idle" => task' = "PROCESSING"
        PROVE  Typed'
    <2>1. /\ reg' \in [Names -> RowType]
          /\ \A k \in Names :
                /\ (reg'[k].attempts = 0) <=> (reg'[k].last = -1)
                /\ k[2] = "renamed" => reg'[k].attempts = 0 /\ reg'[k].cursor = 0
      BY <1>w, RowsOK
    <2> QED BY <1>w, <2>1 DEF Typed
  <1>t. /\ details \subseteq Detail /\ torn \subseteq Files /\ blind \subseteq Files
        /\ run \in Waits \cup Passes /\ (run.at # "idle" => task = "PROCESSING")
        /\ Idle \in Waits /\ Idle.at = "idle"
    BY DEF Typed, Idle, Waits
  <1>1. CASE Prefetch
    <2>1. \A got \in SUBSET Files : Starts(got) \subseteq Waits
      BY DEF Starts, Waits
    <2>2. /\ run' \in Waits \cup Passes /\ (run'.at # "idle" => task' = "PROCESSING")
      BY <1>1, <1>t, <2>1 DEF Prefetch
    <2> QED BY <1>1, <1>r, <1>t, <2>2 DEF Prefetch
  <1>2. CASE PrefetchFails \/ Reopen \/ NoRegistry
    BY <1>2, <1>r, <1>t DEF PrefetchFails, Reopen, NoRegistry
  <1>3. CASE Crash
    <2>1. torn' \subseteq Files
      BY <1>3, <1>t, PassFields DEF Crash
    <2> QED BY <1>3, <1>r, <1>t, <2>1 DEF Crash
  <1>4. ASSUME NEW f \in Files, OpenFile(f) PROVE Typed'
    <2>1. PICK c \in 0..Pages : CursorSeen(Own(f), c) /\ run' \in Passes
      BY <1>4, PassBegins
    <2>2. blind' \subseteq Files
      BY <1>t, <2>1, NameFacts DEF CursorSeen
    <2>3. task' = "PROCESSING"
      BY <1>4, <1>t DEF OpenFile
    <2> QED BY <1>4, <1>r, <1>t, <2>1, <2>2, <2>3 DEF OpenFile
  <1> SUFFICES ASSUME Busy PROVE Typed'
    <2>1. CASE TaskDone
      BY <1>r, <1>t, <2>1 DEF TaskDone
    <2> QED BY <1>0, <1>1, <1>2, <1>3, <1>4, <2>1 DEF Next, FileStep, Busy, ReadPage, OverLimit, Unreadable, MarkPartial,
             MarkErrorMemory, SavePart, AtEnd, NoMatches, SomeMatches, Replace, NoHeader, Save, FileFails
  <1>f. run.f \in Files /\ run.name \in Names /\ task = "PROCESSING" /\ run.page \in 0..Pages
    BY <1>t, PassFields DEF Busy
  <1>n. ~Storing => run.name[2] # "renamed"
    BY <1>f, NameFacts DEF PassOK
  <1>m. ASSUME NEW page \in 0..Pages, MoveCursor(page), ~Storing, UNCHANGED <<details, torn, task>>,
               run' \in Passes
        PROVE  Typed'
    <2>1. RowOK(run.name, [reg[run.name] EXCEPT !.cursor = page])
      BY <1>m, <1>f, <1>n, CursorOK
    <2>2. reg' = reg \/ reg' = [reg EXCEPT ![run.name] = [reg[run.name] EXCEPT !.cursor = page]]
      BY <1>m DEF MoveCursor
    <2>3. blind' \subseteq Files
      BY <1>m, <1>t, <1>f DEF MoveCursor
    <2> QED BY <1>m, <1>t, <1>f, <1>w, <2>1, <2>2, <2>3
  <1>5. CASE ReadPage
    BY <1>5, <1>m, PassReads DEF ReadPage, Storing
  <1>6. CASE OverLimit
    BY <1>6, <1>m, <1>f, PassMoves DEF OverLimit, Storing
  <1>7. CASE Unreadable
    BY <1>7, <1>r, <1>t, <1>f, PassMoves DEF Unreadable
  <1>8. CASE MarkPartial
    <2>1. PICK c \in 0..Pages :
             /\ CursorSeen(run.name, c)
             /\ reg' = [reg EXCEPT ![run.name] = Interrupted(run.name, c)]
             /\ \E at \in {"exhausted", "savepart"} : run' = [run EXCEPT !.at = at]
      BY <1>8 DEF MarkPartial
    <2>2. RowOK(run.name, Interrupted(run.name, c))
      BY <1>8, <1>f, <1>n, InterruptedOK DEF MarkPartial, Storing
    <2>3. run' \in Passes
      BY <2>1, PassMoves
    <2>4. blind' \subseteq Files
      <3>1. run.name[1] = run.f
        BY <1>8, <1>f, NameFacts DEF MarkPartial, Storing, PassOK
      <3> QED BY <1>t, <1>f, <2>1, <3>1 DEF CursorSeen
    <2> QED BY <1>8, <1>t, <1>f, <1>w, <2>1, <2>2, <2>3, <2>4 DEF MarkPartial
  <1>9. CASE MarkErrorMemory
    <2>1. reg' = [reg EXCEPT ![run.name] = [reg[run.name] EXCEPT !.status = "error_memory"]]
      BY <1>9 DEF MarkErrorMemory
    <2>2. RowOK(run.name, [reg[run.name] EXCEPT !.status = "error_memory"])
      BY <1>f, StatusOK DEF Statuses
    <2>3. run' \in Passes
      BY <1>9, PassMoves DEF MarkErrorMemory
    <2> QED BY <1>9, <1>t, <1>f, <1>w, <2>1, <2>2, <2>3 DEF MarkErrorMemory
  <1>10. CASE SavePart \/ Save
    <2>1. details' \subseteq Detail
      BY <1>10, InsertFields DEF SavePart, Save
    <2>2. run' \in Waits
      BY <1>10, PassEnds DEF SavePart, Save
    <2>3. torn' \subseteq Files
      BY <1>10, <1>t, <1>f DEF SavePart, Save, InsertFails
    <2> QED BY <1>10, <1>r, <1>t, <1>f, <2>1, <2>2, <2>3 DEF SavePart, Save
  <1>11. CASE NoMatches
    <2>1. PICK r : RowOK(run.name, r) /\ (reg' = reg \/ reg' = [reg EXCEPT ![run.name] = r])
      BY <1>11, <1>f, FinalizeRow DEF NoMatches
    <2>2. run' \in Waits
      BY <1>11, PassEnds DEF NoMatches
    <2> QED BY <1>11, <1>t, <1>f, <1>w, <2>1, <2>2 DEF NoMatches
  <1>12. CASE SomeMatches
    <2>1. PICK n \in {Own(run.f), Renamed(run.f)} : Finalize(n) /\ run' \in Passes
      BY <1>12, PassIsNamed
    <2>2. n \in Names
      BY <1>f, NameFacts
    <2>3. PICK r : RowOK(n, r) /\ (reg' = reg \/ reg' = [reg EXCEPT ![n] = r])
      BY <2>1, <2>2, FinalizeRow
    <2> QED BY <1>12, <1>t, <1>f, <1>w, <2>1, <2>2, <2>3 DEF SomeMatches
  <1>13. CASE Replace
    <2>1. run' \in Passes
      BY <1>13, PassMoves DEF Replace
    <2>2. details' \subseteq Detail
      BY <1>13, <1>t DEF Replace
    <2> QED BY <1>13, <1>r, <1>t, <1>f, <2>1, <2>2 DEF Replace
  <1>14. CASE NoHeader
    BY <1>14, <1>r, <1>t, <1>f, PassEnds DEF NoHeader
  <1>15. CASE FileFails
    <2>1. reg' = reg \/ reg' = [reg EXCEPT ![run.name] = [reg[run.name] EXCEPT !.status = "error"]]
      BY <1>15 DEF FileFails
    <2>2. RowOK(run.name, [reg[run.name] EXCEPT !.status = "error"])
      BY <1>f, StatusOK DEF Statuses
    <2>3. run' \in Waits
      BY <1>15, PassEnds DEF FileFails
    <2> QED BY <1>15, <1>t, <1>f, <1>w, <2>1, <2>2, <2>3 DEF FileFails
  <1>16. CASE TaskDone
    BY <1>16 DEF TaskDone, Busy
  <1> QED
    BY <1>0, <1>1, <1>2, <1>3, <1>4, <1>5, <1>6, <1>7, <1>8, <1>9, <1>10, <1>11, <1>12, <1>13, <1>14, <1>15, <1>16
    DEF Next, FileStep

-----------------------------------------------------------------------------
(* Passes. *)
LEMMA PassGoesOn ==
    ASSUME Typed, PassOK, [Next]_vars, Busy'
    PROVE  \/ \E f \in Files : OpenFile(f)
           \/ UNCHANGED run
           \/ /\ Busy /\ run'.f = run.f /\ run'.start = run.start /\ run'.resuming = run.resuming
              /\ run'.page = run.page \/ (ReadPage /\ run'.page = run.page + 1)
              /\ run'.name = run.name \/ (SomeMatches /\ run'.name \in {Own(run.f), Renamed(run.f)})
              /\ \/ ~Storing /\ ~Storing'
                 \/ SomeMatches
                 \/ Storing /\ Storing'
  <1>1. CASE Busy /\ (\E at \in {"partial", "exhausted", "savepart"} : run' = [run EXCEPT !.at = at]) /\ ~Storing
    BY <1>1, PassMoves DEF Storing
  <1>2. CASE Busy /\ (\E at \in {"insert"} : run' = [run EXCEPT !.at = at]) /\ Storing
    BY <1>2, PassMoves DEF Storing
  <1>3. CASE Busy /\ ReadPage
    BY <1>3, PassReads DEF Storing, ReadPage
  <1>4. CASE Busy /\ SomeMatches
    BY <1>4, PassIsNamed
  <1>5. CASE ~Busy
    <2>1. CASE Prefetch
      <3>1. \A got, r : r \in Starts(got) => r.at \in {"unwired", "files"}
        BY DEF Starts
      <3>2. run' = run \/ run'.at \in {"unwired", "files"}
        BY <2>1, <3>1 DEF Prefetch
      <3> QED BY <3>2 DEF Busy
    <2>2. CASE PrefetchFails \/ Reopen \/ UNCHANGED vars
      BY <2>2 DEF PrefetchFails, Reopen, vars
    <2>3. CASE Crash \/ TaskDone \/ NoRegistry
      BY <2>3 DEF Crash, TaskDone, NoRegistry, Idle, Busy
    <2>4. ~(ReadPage \/ OverLimit \/ Unreadable \/ MarkPartial \/ MarkErrorMemory \/ SavePart \/ NoMatches
            \/ SomeMatches \/ Replace \/ NoHeader \/ Save \/ FileFails)
      BY <1>5 DEF Busy, ReadPage, OverLimit, Unreadable, MarkPartial, MarkErrorMemory, SavePart, AtEnd, NoMatches,
         SomeMatches, Replace, NoHeader, Save, FileFails
    <2> QED BY <2>1, <2>2, <2>3, <2>4 DEF Next, FileStep
  <1>6. CASE Busy /\ (NoMatches \/ SavePart \/ NoHeader \/ Save \/ FileFails)
    BY <1>6, PassEnds DEF NoMatches, SavePart, NoHeader, Save, FileFails
  <1>7. CASE Busy /\ (OverLimit \/ Unreadable \/ MarkPartial \/ MarkErrorMemory \/ Replace)
    <2>1. OverLimit \/ Unreadable \/ MarkPartial \/ MarkErrorMemory =>
             ~Storing /\ \E at \in {"partial", "exhausted", "savepart"} : run' = [run EXCEPT !.at = at]
      BY DEF Storing, OverLimit, Unreadable, MarkPartial, MarkErrorMemory
    <2>2. Replace => Storing /\ \E at \in {"insert"} : run' = [run EXCEPT !.at = at]
      BY DEF Storing, Replace
    <2> QED BY <1>1, <1>2, <1>7, <2>1, <2>2
  <1>8. CASE Busy /\ (Prefetch \/ PrefetchFails \/ Reopen \/ TaskDone \/ NoRegistry)
    BY <1>8 DEF Busy, Prefetch, PrefetchFails, Reopen, TaskDone, NoRegistry
  <1>10. CASE Crash
    BY <1>10 DEF Busy, Crash, Idle
  <1>9. CASE UNCHANGED vars
    BY <1>9 DEF vars
  <1> QED BY <1>3, <1>4, <1>5, <1>6, <1>7, <1>8, <1>9, <1>10 DEF Next, FileStep

LEMMA PassStep == ASSUME Typed, PassOK, [Next]_vars PROVE PassOK'
  <1> SUFFICES ASSUME Busy' PROVE PassOK'
    BY DEF PassOK
  <1>1. ASSUME NEW f \in Files, OpenFile(f) PROVE PassOK'
    <2>1. PICK c \in 0..Pages :
           /\ CursorSeen(Own(f), c)
           /\ run'.at = "parse" /\ run'.f = f /\ run'.name = Own(f) /\ run'.resuming = Resuming(f)
           /\ run'.start = c /\ run'.page = c
      BY <1>1, PassBegins
    <2>2. ~Storing' /\ c <= c
      BY <2>1, FilesAssumption DEF Storing
    <2>3. ~Resuming(f) => c = 0
      <3>1. Cursor(Own(f)) \in 0..Pages
        BY RowFields, NameFacts DEF Cursor
      <3>2. ~Resuming(f) => ~(Cursor(Own(f)) > 0)
        BY DEF Resuming
      <3>3. c = Cursor(Own(f)) \/ c = 0
        BY <2>1 DEF CursorSeen
      <3>4. Cursor(Own(f)) > 0 \/ Cursor(Own(f)) = 0
        BY <3>1, FilesAssumption
      <3> QED BY <3>2, <3>3, <3>4
    <2> QED BY <2>1, <2>2, <2>3 DEF PassOK
  <1>2. CASE UNCHANGED run
    BY <1>2 DEF PassOK, Busy, Storing
  <1>3. CASE /\ Busy /\ run'.f = run.f /\ run'.start = run.start /\ run'.resuming = run.resuming
             /\ run'.page = run.page \/ (ReadPage /\ run'.page = run.page + 1)
             /\ run'.name = run.name \/ (SomeMatches /\ run'.name \in {Own(run.f), Renamed(run.f)})
             /\ \/ ~Storing /\ ~Storing'
                \/ SomeMatches
                \/ Storing /\ Storing'
    <2>1. run.start \in 0..Pages /\ run.page \in 0..Pages /\ Pages \in Nat
      BY <1>3, PassFields, FilesAssumption
    <2>2. run'.start <= run'.page /\ (~run'.resuming => run'.start = 0)
      BY <1>3, <2>1 DEF PassOK
    <2>3. CASE SomeMatches
      <3>1. run.page = Pages /\ ~ReadPage /\ run'.page = run.page
        <4>1. AtEnd
          BY <2>3 DEF SomeMatches
        <4>2. run.page = Pages
          BY <2>1, <4>1 DEF AtEnd
        <4>3. ~ReadPage
          BY <2>1, <4>2 DEF ReadPage
        <4> QED BY <1>3, <4>2, <4>3
      <3>2. Storing' /\ run'.name \in {Own(run.f), Renamed(run.f)}
        BY <1>3, <2>3, PassIsNamed DEF Storing
      <3> QED BY <1>3, <2>2, <3>1, <3>2 DEF PassOK
    <2>4. CASE ~SomeMatches /\ ~Storing /\ ~Storing'
      BY <1>3, <2>2, <2>4 DEF PassOK
    <2>5. CASE ~SomeMatches /\ Storing /\ Storing'
      <3>1. ~ReadPage
        BY <2>5 DEF Storing, ReadPage
      <3> QED BY <1>3, <2>2, <2>5, <3>1 DEF PassOK
    <2> QED BY <1>3, <2>3, <2>4, <2>5
  <1> QED BY <1>1, <1>2, <1>3, PassGoesOn

-----------------------------------------------------------------------------
(* Pages. *)
LEMMA RegEffect ==
    ASSUME Typed, PassOK, [Next]_vars, NEW n \in Names, reg'[n] # reg[n]
    PROVE  Busy /\ n \in {Own(run.f), Renamed(run.f)}
  <1>1. ASSUME NEW k \in Names, k \in {Own(run.f), Renamed(run.f)}, NEW r, Busy, reg' = reg \/ reg' = [reg EXCEPT ![k] = r]
        PROVE  n \in {Own(run.f), Renamed(run.f)}
    BY <1>1 DEF Typed
  <1>2. UNCHANGED reg \/ MoveCursor(run.page) \/ MoveCursor(run.page + 1) \/ MarkPartial \/ MarkErrorMemory
        \/ NoMatches \/ SomeMatches \/ FileFails
    BY DEF Next, FileStep, vars, Prefetch, PrefetchFails, NoRegistry, OpenFile, ReadPage, OverLimit, Unreadable, SavePart, Replace,
       NoHeader, Save, TaskDone, Crash, Reopen
  <1>3. Busy
    <2>1. CASE Busy
      BY <2>1
    <2>2. CASE ~Busy
      <3>1. UNCHANGED reg
        BY <2>2 DEF Next, FileStep, vars, Prefetch, PrefetchFails, NoRegistry, OpenFile, ReadPage, OverLimit, Unreadable, SavePart,
           Replace, NoHeader, Save, TaskDone, Crash, Reopen, MarkPartial, MarkErrorMemory, NoMatches, SomeMatches,
           AtEnd, FileFails, Busy
      <3> QED BY <3>1
    <2> QED BY <2>1, <2>2
  <1>4. run.f \in Files /\ run.name \in Names /\ run.name \in {Own(run.f), Renamed(run.f)}
    BY <1>3, PassFields DEF PassOK
  <1>5. MoveCursor(run.page) \/ MoveCursor(run.page + 1) =>
           \E r : reg' = reg \/ reg' = [reg EXCEPT ![run.name] = r]
    BY DEF MoveCursor
  <1>6. MarkPartial \/ MarkErrorMemory \/ FileFails => \E r : reg' = reg \/ reg' = [reg EXCEPT ![run.name] = r]
    BY DEF MarkPartial, MarkErrorMemory, FileFails
  <1>7. NoMatches => \E r : reg' = reg \/ reg' = [reg EXCEPT ![run.name] = r]
    BY DEF NoMatches, Finalize
  <1>8. CASE SomeMatches
    <2>1. PICK k \in {Own(run.f), Renamed(run.f)} : Finalize(k)
      BY <1>3, <1>8, PassIsNamed
    <2>2. \E r : reg' = reg \/ reg' = [reg EXCEPT ![k] = r]
      BY <2>1 DEF Finalize
    <2>3. k \in Names
      BY <1>4, NameFacts
    <2> QED BY <1>1, <1>3, <2>2, <2>3
  <1> QED BY <1>1, <1>2, <1>3, <1>4, <1>5, <1>6, <1>7, <1>8

(* Only a pass over a file that is not resumed deletes what was found, and  *)
(* only under the name the file has.                                        *)
LEMMA DetailsEffect ==
    ASSUME Typed, PassOK, [Next]_vars
    PROVE  /\ collapsed \subseteq collapsed' /\ torn \subseteq torn'
           /\ \A d \in details : d \in details' \/ (Replace /\ ~run.resuming /\ d.name = run.name)
  <1>1. CASE UNCHANGED <<details, collapsed>> /\ (UNCHANGED torn \/ torn' = torn \cup {run.f})
    BY <1>1
  <1>2. CASE SavePart \/ Save
    <2>1. Busy
      BY <1>2 DEF SavePart, Save, Busy
    <2>2. Insert(details) \/ InsertFails(details)
      BY <1>2 DEF SavePart, Save
    <2>3. torn \subseteq torn'
      BY <1>2 DEF SavePart, Save, InsertFails
    <2> QED BY <2>1, <2>2, <2>3, InsertFields
  <1>3. CASE Replace
    BY <1>3 DEF Replace
  <1> QED BY <1>1, <1>2, <1>3 DEF Next, FileStep, vars, Prefetch, PrefetchFails, NoRegistry, OpenFile, ReadPage, OverLimit, Unreadable,
       NoHeader, TaskDone, Crash, Reopen, MarkPartial, MarkErrorMemory, NoMatches, SomeMatches, FileFails

(* What is accounted for stays so, until a pass from the first page starts  *)
(* to replace what the file had.                                            *)
LEMMA StaysAccounted ==
    ASSUME Typed, PassOK, [Next]_vars, NEW f \in Files, NEW p, Accounted(f, p),
           ~(Replace /\ ~run.resuming /\ run.f = f)
    PROVE  Accounted(f, p)'
  <1>1. PICK q \in Hits[f] : Shown[f][q] = Shown[f][p] /\ (q \in Saved(f) \/ <<f, q>> \in collapsed)
    BY DEF Accounted
  <1>2. collapsed \subseteq collapsed'
    BY DetailsEffect
  <1>3. CASE q \in Saved(f)
    <2>1. PICK d \in details : d.page = q /\ d.name \in {Own(f), Renamed(f)}
      BY <1>3 DEF Saved
    <2>2. ~(Replace /\ ~run.resuming /\ d.name = run.name)
      <3> SUFFICES ASSUME Replace, ~run.resuming, d.name = run.name PROVE FALSE
        OBVIOUS
      <3>1. Busy /\ Storing
        BY DEF Replace, Busy, Storing
      <3>2. run.f \in Files /\ run.name \in {Own(run.f), Renamed(run.f)}
        BY <3>1, PassFields DEF PassOK
      <3> QED BY <2>1, <3>2, NameFacts
    <2>3. d \in details'
      BY <2>2, DetailsEffect
    <2>4. q \in Saved(f)'
      BY <2>1, <2>3 DEF Saved, Own, Renamed
    <2> QED BY <1>1, <2>4 DEF Accounted
  <1> QED BY <1>1, <1>2, <1>3 DEF Accounted

LEMMA BehindStep ==
    ASSUME PagesInv, [Next]_vars PROVE BehindIsStored'
  <1>t. Typed /\ PassOK /\ BehindIsStored /\ PagesAreAccounted
    BY DEF PagesInv
  <1> SUFFICES ASSUME Busy', NEW g \in Files, run'.f = g, g \notin torn', NEW p \in Hits[g], p <= run'.start
               PROVE  Accounted(g, p)'
    <2>1. Busy' => run'.f \in Files
      <3>1. run' \in Waits \cup Passes
        BY <1>t, TypedStep DEF Typed
      <3> QED BY <3>1 DEF Waits, Passes, Busy
    <2> QED BY <2>1 DEF BehindIsStored
  <1>p. p \in 1..Pages
    BY FilesAssumption
  <1>1. ASSUME NEW f \in Files, OpenFile(f) PROVE Accounted(g, p)'
    <2>1. PICK c \in 0..Pages : CursorSeen(Own(f), c) /\ run'.f = f /\ run'.start = c
      BY <1>t, <1>1, PassBegins
    <2>3. UNCHANGED <<reg, details, torn, collapsed>> /\ f = g
      BY <1>1, <2>1 DEF OpenFile
    <2>4. p <= Cursor(Own(f)) /\ Cursor(Own(f)) \in 0..Pages
      <3>1. Cursor(Own(f)) \in 0..Pages
        BY <1>t, RowFields, NameFacts DEF Cursor
      <3>2. c = Cursor(Own(f)) \/ c = 0
        BY <2>1 DEF CursorSeen
      <3> QED BY <2>1, <1>p, <3>1, <3>2, FilesAssumption
    <2>5. p \in Read(f)
      BY <1>p, <2>4, FilesAssumption DEF Read
    <2>6. InHand(f) = {}
      BY <1>1 DEF InHand, Working, Busy, OpenFile
    <2>7. Accounted(g, p)
      BY <1>t, <2>1, <2>3, <2>5, <2>6 DEF PagesAreAccounted
    <2>8. ~Replace
      BY <1>1 DEF OpenFile, Replace
    <2> QED BY <1>t, <2>7, <2>8, StaysAccounted
  <1>2. CASE Busy /\ run'.f = run.f /\ run'.start = run.start
    <2>1. run.f = g /\ run.start \in 0..Pages /\ g \notin torn
      BY <1>t, <1>2, PassFields, DetailsEffect
    <2>2. Accounted(g, p)
      BY <1>t, <1>2, <2>1 DEF BehindIsStored
    <2>3. run.resuming
      <3>2. run.start # 0
        BY <1>2, <2>1, <1>p, FilesAssumption
      <3> QED BY <1>2, <1>t, <3>2 DEF PassOK
    <2> QED BY <1>t, <2>2, <2>3, StaysAccounted
  <1>3. CASE UNCHANGED run
    BY <1>2, <1>3 DEF Busy
  <1> QED BY <1>t, <1>1, <1>2, <1>3, PassGoesOn

LEMMA ReadBounds ==
    ASSUME Typed, NEW f \in Files
    PROVE  /\ Read(f) \subseteq 1..Pages /\ 1..Cursor(Own(f)) \subseteq Read(f)
           /\ Cursor(Own(f)) \in 0..Pages
  <1>1. Cursor(Own(f)) \in 0..Pages
    BY RowFields, NameFacts DEF Cursor
  <1> QED BY <1>1, FilesAssumption DEF Read

(* A file whose row is not finished by the step: nothing is called read but *)
(* what was, and what lies before the new cursor.                           *)
LEMMA ReadGrows ==
    ASSUME Typed, NEW f \in Files, NEW r, NEW k \in 0..Pages,
           reg' = reg \/ reg' = [reg EXCEPT ![Own(f)] = r],
           r.status = "completed" => reg[Own(f)].status = "completed",
           r.cursor = reg[Own(f)].cursor \/ r.cursor = k
    PROVE  \A p \in Read(f)' : p \in 1..Pages => p \in Read(f) \/ p <= k
  <1>0. /\ Own(f) \in Names /\ Renamed(f) \in Names /\ Own(f) # Renamed(f)
        /\ reg \in [Names -> RowType] /\ Cursor(Own(f)) \in 0..Pages /\ Pages \in Nat
    BY NameFacts, RowFields, FilesAssumption DEF Typed, Cursor
  <1>1. CASE reg' = reg
    BY <1>1 DEF Read, Cursor
  <1>2. CASE reg' = [reg EXCEPT ![Own(f)] = r]
    <2>1. reg'[Own(f)] = r /\ reg'[Renamed(f)] = reg[Renamed(f)]
      BY <1>0, <1>2
    <2>2. CASE \E n \in {Own(f), Renamed(f)} : reg'[n].status = "completed"
      BY <2>1, <2>2 DEF Read
    <2>3. CASE ~\E n \in {Own(f), Renamed(f)} : reg'[n].status = "completed"
      <3>1. Read(f)' = 1..r.cursor
        BY <2>1, <2>3 DEF Read, Cursor
      <3>2. CASE r.cursor = k
        BY <1>0, <3>1, <3>2
      <3>3. CASE r.cursor = Cursor(Own(f))
        BY <3>1, <3>3, ReadBounds
      <3> QED BY <3>2, <3>3 DEF Cursor
    <2> QED BY <2>2, <2>3
  <1> QED BY <1>1, <1>2

(* While a pass goes on, the registry never calls more read than the pass   *)
(* has read.                                                                *)
LEMMA ReadInPass ==
    ASSUME Typed, PassOK, [Next]_vars, NEW f \in Files, Busy, Busy', run.f = f
    PROVE  \A p \in Read(f)' : p \in 1..Pages => p \in Read(f) \/ p <= run'.page
  <1>0. /\ run.page \in 0..Pages /\ run.start \in 0..Pages /\ 0 \in 0..Pages /\ Pages \in Nat
        /\ Own(f) \in Names /\ reg[Own(f)] \in RowType
    BY PassFields, NameFacts, RowFields, FilesAssumption
  <1>1. CASE UNCHANGED reg
    BY <1>1 DEF Read, Cursor
  <1>m. ASSUME NEW k \in 0..Pages, MoveCursor(k), k <= run'.page, run'.page \in Nat, ~Storing
        PROVE  \A p \in Read(f)' : p \in 1..Pages => p \in Read(f) \/ p <= run'.page
    <2> DEFINE r == [reg[Own(f)] EXCEPT !.cursor = k]
    <2>1. reg' = reg \/ reg' = [reg EXCEPT ![Own(f)] = r]
      BY <1>m DEF MoveCursor, PassOK
    <2>2. r.status = reg[Own(f)].status /\ r.cursor = k
      BY <1>0 DEF RowType
    <2> HIDE DEF r
    <2>3. \A p \in Read(f)' : p \in 1..Pages => p \in Read(f) \/ p <= k
      BY <2>1, <2>2, ReadGrows
    <2> QED BY <1>0, <1>m, <2>3
  <1>2. CASE ReadPage
    <2>1. ~Storing /\ MoveCursor(run.page + 1)
      BY <1>2 DEF ReadPage, Storing
    <2>2. run'.page = run.page + 1 /\ run.page + 1 \in 0..Pages
      BY <1>2, PassReads
    <2> QED BY <1>0, <1>m, <2>1, <2>2
  <1>3. CASE OverLimit
    <2>1. ~Storing /\ MoveCursor(run.page)
      BY <1>3 DEF OverLimit, Storing
    <2>2. run'.page = run.page
      BY <1>3, PassMoves DEF OverLimit
    <2> QED BY <1>0, <1>m, <2>1, <2>2
  <1>4. CASE MarkPartial
    <2>1. PICK c \in 0..Pages :
             /\ CursorSeen(run.name, c)
             /\ reg' = [reg EXCEPT ![run.name] = Interrupted(run.name, c)]
             /\ \E at \in {"exhausted", "savepart"} : run' = [run EXCEPT !.at = at]
      BY <1>4 DEF MarkPartial
    <2>2. run.name = Own(f)
      BY <1>4 DEF MarkPartial, Storing, PassOK
    <2>3. run'.page = run.page
      BY <2>1, PassMoves
    <2>4. Interrupted(Own(f), c).cursor = c /\ Interrupted(Own(f), c).status = "pending_resume"
      BY DEF Interrupted
    <2>5. c = reg[Own(f)].cursor \/ c = 0
      BY <2>1, <2>2 DEF CursorSeen, Cursor
    <2>6. \A p \in Read(f)' : p \in 1..Pages => p \in Read(f) \/ p <= 0
      BY <1>0, <2>1, <2>2, <2>4, <2>5, ReadGrows
    <2> QED BY <1>0, <2>3, <2>6
  <1>5. CASE MarkErrorMemory
    <2> DEFINE r == [reg[Own(f)] EXCEPT !.status = "error_memory"]
    <2>1. run.name = Own(f)
      BY <1>5 DEF MarkErrorMemory, Storing, PassOK
    <2>2. reg' = [reg EXCEPT ![Own(f)] = r]
      BY <1>5, <2>1 DEF MarkErrorMemory
    <2>3. r.status = "error_memory" /\ r.cursor = reg[Own(f)].cursor
      BY <1>0 DEF RowType
    <2>4. run'.page = run.page
      BY <1>5, PassMoves DEF MarkErrorMemory
    <2> HIDE DEF r
    <2>5. \A p \in Read(f)' : p \in 1..Pages => p \in Read(f) \/ p <= 0
      BY <1>0, <2>2, <2>3, ReadGrows
    <2> QED BY <1>0, <2>4, <2>5
  <1>6. CASE SomeMatches
    <2>1. run'.page = run.page
      BY <1>6, PassIsNamed
    <2>2. run.page >= Pages
      BY <1>6 DEF SomeMatches, AtEnd
    <2> QED BY <1>0, <2>1, <2>2
  <1>7. CASE NoMatches \/ FileFails
    BY <1>7, PassEnds DEF NoMatches, FileFails
  <1> QED
    BY <1>1, <1>2, <1>3, <1>4, <1>5, <1>6, <1>7
    DEF Next, FileStep, vars, Prefetch, PrefetchFails, NoRegistry, OpenFile, Unreadable, SavePart, Replace, NoHeader, Save, TaskDone,
        Crash, Reopen

(* Every set of pages has a first one: without it, going one page back      *)
(* would map the pages from there on into themselves without the last.      *)
LEMMA FirstPage ==
    ASSUME NEW T \in SUBSET (1..Pages), T # {}
    PROVE  \E p \in T : \A q \in T : p <= q
  <1> SUFFICES ASSUME \A p \in T : \E q \in T : q < p PROVE FALSE
    OBVIOUS
  <1> USE FilesAssumption
  <1> DEFINE U == {n \in 1..Pages : \E p \in T : p <= n}
             V == U \ {Pages}
             back == [n \in U |-> n - 1]
  <1>1. Pages \in U
    <2>1. PICK p \in T : TRUE
      OBVIOUS
    <2> QED BY <2>1
  <1>2. ASSUME NEW n \in U PROVE n - 1 \in V
    <2>1. PICK p \in T : p <= n
      BY <1>2
    <2>2. PICK q \in T : q < p
      OBVIOUS
    <2>3. p \in 1..Pages /\ q \in 1..Pages /\ n \in 1..Pages
      BY <1>2
    <2>4. q <= n - 1 /\ n - 1 \in 1..Pages /\ n - 1 # Pages
      BY <2>1, <2>2, <2>3
    <2> QED BY <2>4
  <1>3. IsFiniteSet(U) /\ IsFiniteSet(V) /\ Cardinality(V) < Cardinality(U)
    <2>1. IsFiniteSet(U)
      <3>1. IsFiniteSet(1..Pages)
        BY FS_Interval
      <3> QED BY <3>1, FS_Subset
    <2>2. IsFiniteSet(V) /\ Cardinality(V) = Cardinality(U) - 1
      BY <1>1, <2>1, FS_RemoveElement
    <2>3. Cardinality(U) \in Nat
      BY <2>1, FS_CardinalityType
    <2> QED BY <2>1, <2>2, <2>3
  <1>4. back \in [U -> V]
    BY <1>2
  <1>5. \E m, n \in U : m # n /\ back[m] = back[n]
    <2> HIDE DEF U, V, back
    <2> QED BY <1>3, <1>4, FS_PigeonHole
  <1> QED BY <1>5

(* What a pass stores at its end: of every page it read, a match that shows *)
(* the same.                                                                *)
LEMMA InsertStores ==
    ASSUME Typed, PassOK, Busy, Insert(details), NEW f \in Files, run.f = f, NEW p \in Hits[f] \cap InHand(f)
    PROVE  Accounted(f, p)'
  <1> DEFINE Same == {q \in Hits[f] : q > run.start /\ q <= run.page /\ Shown[f][q] = Shown[f][p]}
  <1>1. Same \in SUBSET (1..Pages) /\ p \in Same
    BY PassFields, FilesAssumption DEF InHand, Working, Busy
  <1>2. PICK q \in Same : \A k \in Same : q <= k
    <2> HIDE DEF Same
    <2> QED BY <1>1, FirstPage
  <1>3. PICK m \in Matches(run) : m.page = q /\ m.name = run.name
    BY <1>2, MatchFields
  <1>4. First(m, Matches(run))
    <2> SUFFICES ASSUME NEW k \in Matches(run), k.page < q, Shown[f][k.page] = Shown[f][q] PROVE FALSE
      BY <1>3 DEF First
    <2>1. k.page \in Hits[f] /\ k.page \in (run.start + 1)..run.page
      BY MatchFields
    <2>2. k.page \in Same
      BY <2>1, PassFields
    <2>3. q \in 1..Pages /\ k.page \in 1..Pages
      BY <1>1, <2>2
    <2> QED BY <1>2, <2>2, <2>3, FilesAssumption
  <1>5. m \in details' \/ <<f, q>> \in collapsed'
    BY <1>3, <1>4 DEF Insert
  <1>6. run.name \in {Own(f), Renamed(f)}
    BY PassFields DEF PassOK
  <1> QED BY <1>2, <1>3, <1>5, <1>6 DEF Accounted, Saved, Own, Renamed

LEMMA PagesStep ==
    ASSUME PagesInv, [Next]_vars PROVE PagesAreAccounted'
  <1>t. Typed /\ PassOK /\ BehindIsStored /\ PagesAreAccounted
    BY DEF PagesInv
  <1> SUFFICES ASSUME NEW f \in Files, f \notin torn', NEW p \in Hits[f], p \in Read(f)'
               PROVE  Accounted(f, p)' \/ p \in InHand(f)'
    BY DEF PagesAreAccounted
  <1>p. p \in 1..Pages /\ f \notin torn
    BY <1>t, FilesAssumption, DetailsEffect
  <1>1. CASE ~(Busy /\ run.f = f)
    <2>1. Own(f) \in Names /\ Renamed(f) \in Names
      BY NameFacts
    <2>2. Busy => run.f \in Files
      BY <1>t, PassFields
    <2>3. reg'[Own(f)] = reg[Own(f)] /\ reg'[Renamed(f)] = reg[Renamed(f)]
      BY <1>1, <1>t, <2>1, <2>2, RegEffect, NameFacts
    <2>4. p \in Read(f)
      BY <2>3 DEF Read, Cursor
    <2>5. Accounted(f, p)
      BY <1>1, <1>t, <1>p, <2>4 DEF PagesAreAccounted, InHand, Working, Busy
    <2>6. ~(Replace /\ run.f = f)
      BY <1>1 DEF Replace, Busy
    <2> QED BY <1>t, <2>5, <2>6, StaysAccounted
  <1>2. CASE Busy /\ run.f = f /\ Busy'
    <2>0. run.start \in 0..Pages /\ run.page \in 0..Pages
      BY <1>2, <1>t, PassFields
    <2>1. run'.f = f /\ run'.start = run.start /\ (run'.page = run.page \/ run'.page = run.page + 1)
      <3>1. ~\E g \in Files : OpenFile(g)
        BY <1>2 DEF OpenFile, Busy
      <3> QED BY <1>t, <1>2, <3>1, PassGoesOn
    <2>2. InHand(f)' = (run.start + 1)..run'.page
      BY <1>2, <2>1 DEF InHand, Working, Busy
    <2>3. CASE p <= run'.page /\ p > run.start
      BY <1>p, <2>0, <2>1, <2>2, <2>3
    <2>4. CASE ~(Replace /\ ~run.resuming)
      <3>1. CASE p <= run.start
        <4>1. Accounted(f, p)
          BY <1>2, <1>t, <1>p, <3>1 DEF BehindIsStored
        <4> QED BY <1>t, <2>4, <4>1, StaysAccounted
      <3>2. CASE ~(p <= run'.page)
        <4>1. p \in Read(f)
          BY <1>2, <1>t, <1>p, <3>2, ReadInPass
        <4>2. p \notin InHand(f)
          BY <1>p, <1>2, <2>0, <2>1, <3>2 DEF InHand
        <4>3. Accounted(f, p)
          BY <1>t, <1>p, <4>1, <4>2 DEF PagesAreAccounted
        <4> QED BY <1>t, <2>4, <4>3, StaysAccounted
      <3> QED BY <1>p, <2>0, <2>1, <2>3, <3>1, <3>2
    <2>5. CASE Replace /\ ~run.resuming
      <3>1. run.start = 0 /\ run.page = Pages
        BY <1>2, <1>t, <2>5 DEF PassOK, Replace, Storing
      <3>2. run'.page = run.page
        BY <1>t, <1>2, <2>5, PassMoves DEF Replace
      <3> QED BY <1>p, <2>2, <3>1, <3>2
    <2> QED BY <2>4, <2>5
  <1>3. CASE Busy /\ run.f = f /\ ~Busy'
    <2>1. ~Replace
      BY <1>t, <1>3, PassMoves DEF Replace
    <2>2. CASE UNCHANGED reg /\ Insert(details)
      <3>1. p \in Read(f)
        BY <2>2 DEF Read, Cursor
      <3>2. CASE p \in InHand(f)
        BY <1>t, <1>3, <2>2, <3>2, InsertStores
      <3>3. CASE p \notin InHand(f)
        <4>1. Accounted(f, p)
          BY <1>t, <1>p, <3>1, <3>3 DEF PagesAreAccounted
        <4> QED BY <1>t, <2>1, <4>1, StaysAccounted
      <3> QED BY <3>2, <3>3
    <2>3. CASE NoMatches
      <3>1. Matches(run) = {} /\ run.page >= Pages
        BY <2>3 DEF NoMatches, AtEnd
      <3>2. run.start \in 0..Pages /\ run.page \in 0..Pages /\ Pages \in Nat
        BY <1>3, <1>t, PassFields, FilesAssumption
      <3>3. ~(p > run.start)
        BY <1>3, <1>t, <1>p, <3>1, <3>2, MatchFields
      <3>4. Accounted(f, p)
        BY <1>3, <1>t, <1>p, <3>2, <3>3 DEF BehindIsStored
      <3> QED BY <1>t, <2>1, <3>4, StaysAccounted
    <2>4. SavePart \/ Save => UNCHANGED reg /\ (Insert(details) \/ f \in torn')
      BY <1>3 DEF SavePart, Save, InsertFails
    <2>5. Crash \/ NoHeader \/ FileFails => f \in torn'
      BY <1>3 DEF Crash, NoHeader, FileFails
    <2>6. ~(ReadPage \/ OverLimit \/ Unreadable \/ MarkPartial \/ MarkErrorMemory \/ SomeMatches)
      <3>1. ~(ReadPage \/ SomeMatches)
        BY <1>t, <1>3, PassReads, PassIsNamed
      <3>2. OverLimit \/ Unreadable \/ MarkPartial \/ MarkErrorMemory =>
               \E at \in {"partial", "exhausted", "savepart"} : run' = [run EXCEPT !.at = at]
        BY DEF OverLimit, Unreadable, MarkPartial, MarkErrorMemory
      <3> QED BY <1>t, <1>3, <3>1, <3>2, PassMoves
    <2>7. ~(Prefetch \/ PrefetchFails \/ NoRegistry \/ Reopen \/ TaskDone \/ (\E g \in Files : OpenFile(g)) \/ UNCHANGED vars)
      BY <1>3 DEF Prefetch, PrefetchFails, NoRegistry, Reopen, TaskDone, OpenFile, vars, Busy
    <2> QED BY <2>1, <2>2, <2>3, <2>4, <2>5, <2>6, <2>7 DEF Next, FileStep
  <1> QED BY <1>1, <1>2, <1>3

(* process_s13v2: types of the registry, the matches and the pass, for any  *)
(* number of files and pages.                                               *)
THEOREM FilesTypeCorrect == Spec => []FileTypeOK
  <1>1. Init => Typed /\ PassOK
    <2> SUFFICES ASSUME Init PROVE Typed /\ PassOK
      OBVIOUS
    <2>1. NoRow \in RowType /\ NoRow.attempts = 0 /\ NoRow.last = -1 /\ NoRow.cursor = 0
      BY FilesAssumption DEF NoRow, RowType, Statuses
    <2>2. reg \in [Names -> RowType] /\ \A n \in Names : reg[n] = NoRow
      BY <2>1 DEF Init
    <2>3. run \in Waits /\ run.at = "idle"
      BY DEF Init, Idle, Waits
    <2> QED BY <2>1, <2>2, <2>3 DEF Init, Typed, PassOK, Busy
  <1>2. Typed /\ PassOK /\ [Next]_vars => (Typed /\ PassOK)'
    BY TypedStep, PassStep
  <1>3. Typed /\ PassOK => FileTypeOK
    <2> SUFFICES ASSUME Typed, PassOK PROVE FileTypeOK
      OBVIOUS
    <2>1. run.at \in Locations
      BY DEF Typed, Waits, Passes, Locations
    <2>2. Busy => run.start <= run.page /\ run.page <= Pages
      BY PassFields, FilesAssumption DEF PassOK, Busy
    <2>3. \A n \in Names : reg[n].status \in Statuses /\ reg[n].cursor \in 0..Pages
      BY RowFields
    <2> QED BY <2>1, <2>2, <2>3 DEF Typed, FileTypeOK
  <1> QED BY <1>1, <1>2, <1>3, PTL DEF Spec

(* process_task_with_files and parse_pdf_incremental: whatever the number   *)
(* of files, pages and passes, and whatever the pages show, what a page     *)
(* shows that the registry calls read and that has the keyword is stored,   *)
(* or in hand, or taken for the stored match of its line, unless an         *)
(* accident struck its file.                                                *)
THEOREM NoPageIsForgotten == Spec => []PagesAreAccounted
  <1>1. Init => PagesInv
    <2> SUFFICES ASSUME Init PROVE PagesInv
      OBVIOUS
    <2>1. NoRow \in RowType /\ NoRow.attempts = 0 /\ NoRow.last = -1 /\ NoRow.cursor = 0
      BY FilesAssumption DEF NoRow, RowType, Statuses
    <2>2. reg \in [Names -> RowType] /\ \A n \in Names : reg[n] = NoRow
      BY <2>1 DEF Init
    <2>3. run \in Waits /\ run.at = "idle" /\ ~Busy
      BY DEF Init, Idle, Waits, Busy
    <2>4. Typed /\ PassOK /\ BehindIsStored
      BY <2>1, <2>2, <2>3 DEF Init, Typed, PassOK, BehindIsStored
    <2>5. \A f \in Files : Read(f) = {}
      BY <2>2, NameFacts DEF Read, Cursor, NoRow
    <2> QED BY <2>4, <2>5 DEF PagesInv, PagesAreAccounted
  <1>2. PagesInv /\ [Next]_vars => PagesInv'
    BY TypedStep, PassStep, BehindStep, PagesStep DEF PagesInv
  <1>3. PagesInv => PagesAreAccounted
    BY DEF PagesInv
  <1> QED BY <1>1, <1>2, <1>3, PTL DEF Spec

-----------------------------------------------------------------------------
(* Giving up. *)
LEMMA BlindGrows == ASSUME [Next]_vars PROVE blind \subseteq blind'
  BY DEF Next, FileStep, vars, Prefetch, PrefetchFails, NoRegistry, OpenFile, ReadPage, OverLimit, Unreadable, SavePart, Replace,
       NoHeader, Save, TaskDone, Crash, Reopen, MarkPartial, MarkErrorMemory, NoMatches, SomeMatches, FileFails,
       CursorSeen, MoveCursor

(* A row that is finished, or fails, leaves the place of its interruption   *)
(* with its cursor.                                                         *)
RowSteady(r) == r.last <= r.cursor /\ (r.status = "none" => r.last = -1)

LEMMA RowStatusSteady ==
    ASSUME NEW r \in RowType, RowSteady(r), NEW s \in Statuses \ {"none"}
    PROVE  RowSteady([r EXCEPT !.status = s])
  BY FilesAssumption DEF RowSteady, RowType

LEMMA SteadyElsewhere ==
    ASSUME Typed, PassOK, [Next]_vars, NEW f \in Files, f \notin blind', Steady(f), ~(Busy /\ run.f = f)
    PROVE  Steady(f)'
  <1>0. Own(f) \in Names /\ reg[Own(f)] \in RowType /\ Cursor(Own(f)) \in 0..Pages
    BY NameFacts, RowFields DEF Cursor
  <1>1. reg'[Own(f)] = reg[Own(f)]
    BY <1>0, RegEffect, PassFields, NameFacts
  <1>2. ASSUME NEW g \in Files, OpenFile(g) PROVE Steady(f)'
    <2>1. PICK c \in 0..Pages : CursorSeen(Own(g), c) /\ run'.at = "parse" /\ run'.f = g /\ run'.start = c /\ run'.page = c
      BY <1>2, PassBegins
    <2>2. CASE g = f
      <3>1. c = reg[Own(f)].cursor
        BY <2>1, <2>2, NameFacts DEF CursorSeen, Cursor
      <3> QED BY <1>1, <2>1, <3>1 DEF Steady
    <2>3. CASE g # f
      BY <1>1, <2>1, <2>3 DEF Steady, Working
    <2> QED BY <2>2, <2>3
  <1>3. CASE ~\E g \in Files : OpenFile(g)
    <2>1. ~Working(f)'
      <3>1. CASE Busy'
        BY <1>3, <3>1, PassGoesOn DEF Working, Busy
      <3>2. CASE ~Busy'
        BY <3>2 DEF Working, Busy
      <3> QED BY <3>1, <3>2
    <2> QED BY <1>1, <2>1 DEF Steady
  <1> QED BY <1>2, <1>3

LEMMA SteadyInHand ==
    ASSUME Typed, PassOK, MaxResume > 1, [Next]_vars, NEW f \in Files, f \notin blind', Steady(f), Busy, run.f = f
    PROVE  Steady(f)'
  <1>0. /\ Own(f) \in Names /\ reg[Own(f)] \in RowType /\ reg[Own(f)].cursor \in 0..Pages
        /\ reg[Own(f)].last \in -1..Pages /\ reg[Own(f)].attempts \in Nat
        /\ run.start \in 0..Pages /\ run.page \in 0..Pages /\ run.start <= run.page /\ Pages \in Nat
        /\ Renamed(f) \in Names /\ Own(f) # Renamed(f) /\ reg \in [Names -> RowType]
    BY PassFields, NameFacts, RowFields, FilesAssumption DEF PassOK, Typed
  <1>s. RowSteady(reg[Own(f)])
    BY DEF Steady, RowSteady
  <1>e. ASSUME RowSteady(reg'[Own(f)]), ~Working(f)' \/ run'.at \in {"savepart", "save", "insert"}
        PROVE  Steady(f)'
    BY <1>e DEF Steady, RowSteady
  (* A row whose status changes. *)
  <1>r. ASSUME NEW n \in Names, NEW s \in Statuses \ {"none"}, reg' = reg \/ reg' = [reg EXCEPT ![n] = [reg[n] EXCEPT !.status = s]]
        PROVE  RowSteady(reg'[Own(f)])
    <2>1. reg'[Own(f)] = reg[Own(f)] \/ reg'[Own(f)] = [reg[Own(f)] EXCEPT !.status = s]
      BY <1>0, <1>r
    <2> QED BY <1>0, <1>s, <2>1, RowStatusSteady
  (* The cursor goes along with the pages. *)
  <1>m. ASSUME NEW k \in 0..Pages, MoveCursor(k), run.at = "parse", k >= run.page,
               run'.at \in {"parse", "partial"}, run'.f = f, run'.start = run.start, run'.page = k
        PROVE  Steady(f)'
    <2>1. run.name = Own(f) /\ Working(f)
      BY <1>m DEF PassOK, Storing, Working, Busy
    <2>2. reg' = IF reg[Own(f)].status = "none" THEN reg ELSE [reg EXCEPT ![Own(f)] = [reg[Own(f)] EXCEPT !.cursor = k]]
      BY <1>m, <2>1 DEF MoveCursor
    <2>3. reg[Own(f)].last <= run.start
      BY <1>m, <2>1 DEF Steady
    <2>4. CASE reg[Own(f)].status = "none"
      <3>1. reg'[Own(f)] = reg[Own(f)]
        BY <2>2, <2>4
      <3> QED BY <1>m, <1>s, <2>3, <2>4, <3>1 DEF Steady, RowSteady, Working
    <2>5. CASE reg[Own(f)].status # "none"
      <3> DEFINE r == [reg[Own(f)] EXCEPT !.cursor = k]
      <3>1. reg'[Own(f)] = r
        BY <1>0, <2>2, <2>5
      <3>2. r.last = reg[Own(f)].last /\ r.cursor = k /\ r.status # "none"
        BY <1>0, <2>5 DEF RowType
      <3>3. r.last <= k /\ r.last <= run.start
        BY <1>0, <1>m, <2>3, <3>2
      <3> HIDE DEF r
      <3> QED BY <1>m, <3>1, <3>2, <3>3 DEF Steady, Working
    <2> QED BY <2>4, <2>5
  <1>1. CASE ReadPage
    <2>1. MoveCursor(run.page + 1) /\ run.at = "parse"
      BY <1>1 DEF ReadPage
    <2>2. run.page + 1 >= run.page
      BY <1>0
    <2> QED BY <1>1, <1>m, <2>1, <2>2, PassReads
  <1>2. CASE OverLimit
    <2>1. MoveCursor(run.page) /\ run.at = "parse" /\ run' = [run EXCEPT !.at = "partial"]
      BY <1>2 DEF OverLimit
    <2>2. run.page >= run.page
      BY <1>0
    <2> QED BY <1>0, <1>m, <2>1, <2>2, PassMoves
  <1>3. CASE Unreadable
    <2>1. run.at = "parse" /\ run' = [run EXCEPT !.at = "partial"] /\ UNCHANGED reg
      BY <1>3 DEF Unreadable
    <2>2. /\ run'.at = "partial" /\ run'.f = run.f /\ run'.start = run.start /\ run'.page = run.page
      BY <2>1, PassMoves
    <2> QED BY <2>1, <2>2 DEF Steady, Working
  <1>4. CASE MarkPartial
    <2>1. run.name = Own(f) /\ Working(f) /\ run.at = "partial"
      BY <1>4 DEF MarkPartial, PassOK, Storing, Working
    <2>2. PICK c \in 0..Pages :
             /\ CursorSeen(Own(f), c)
             /\ reg' = [reg EXCEPT ![Own(f)] = Interrupted(Own(f), c)]
             /\ run' = [run EXCEPT !.at = IF Interrupted(Own(f), c).attempts >= MaxResume THEN "exhausted" ELSE "savepart"]
      BY <1>4, <2>1 DEF MarkPartial
    <2>3. c = reg[Own(f)].cursor
      BY <2>2, NameFacts DEF CursorSeen, Cursor
    <2> DEFINE r == Interrupted(Own(f), c)
    <2>4. /\ RowOK(Own(f), r) /\ r.cursor = c /\ r.last = c /\ r.status = "pending_resume"
          /\ r.attempts > 1 => reg[Own(f)].last = c
      BY NameFacts, InterruptedOK
    <2>5. reg'[Own(f)] = r
      BY <1>0, <2>2
    <2>6. r.attempts \in Nat /\ (r.attempts >= MaxResume => r.attempts > 1)
      BY <2>4, FilesAssumption DEF RowOK, RowType
    <2>7. run' = [run EXCEPT !.at = IF r.attempts >= MaxResume THEN "exhausted" ELSE "savepart"]
      BY <2>2
    <2> HIDE DEF r
    <2>8. RowSteady(reg'[Own(f)])
      BY <2>4, <2>5 DEF RowSteady
    <2>9. CASE r.attempts >= MaxResume
      <3>1. reg[Own(f)].last = c
        BY <2>4, <2>6, <2>9
      <3>2. reg[Own(f)].last <= run.start /\ (reg[Own(f)].status # "none" => reg[Own(f)].cursor = run.page)
        BY <2>1 DEF Steady
      <3>3. reg[Own(f)].status # "none"
        BY <1>s, <3>1 DEF RowSteady
      <3>4. run.page = run.start
        BY <1>0, <2>3, <3>1, <3>2, <3>3
      <3>5. run'.at = "exhausted" /\ run'.page = run.page /\ run'.start = run.start
        BY <2>7, <2>9, PassMoves
      <3> QED BY <2>8, <3>4, <3>5 DEF Steady, RowSteady
    <2>10. CASE ~(r.attempts >= MaxResume)
      <3>1. run'.at = "savepart"
        BY <2>7, <2>10, PassMoves
      <3> QED BY <1>e, <2>8, <3>1
    <2> QED BY <2>9, <2>10
  <1>5. CASE MarkErrorMemory
    <2>1. reg' = [reg EXCEPT ![run.name] = [reg[run.name] EXCEPT !.status = "error_memory"]]
      BY <1>5 DEF MarkErrorMemory
    <2>2. run'.at = "savepart"
      BY <1>5, PassMoves DEF MarkErrorMemory
    <2>3. "error_memory" \in Statuses \ {"none"} /\ run.name \in Names
      BY PassFields DEF Statuses
    <2>4. RowSteady(reg'[Own(f)])
      BY <1>r, <2>1, <2>3
    <2> QED BY <1>e, <2>2, <2>4
  <1>6. CASE NoMatches \/ SomeMatches
    <2>1. PICK n \in Names : Finalize(n) /\ (~Busy' \/ run'.at = "save")
      <3>1. CASE NoMatches
        BY <3>1, PassFields, PassEnds DEF NoMatches
      <3>2. CASE SomeMatches
        BY <1>0, <3>2, PassIsNamed
      <3> QED BY <1>6, <3>1, <3>2
    <2>2. PICK r : /\ reg' = reg \/ reg' = [reg EXCEPT ![n] = r]
                   /\ r = [NoRow EXCEPT !.status = "completed"] \/ r = [reg[n] EXCEPT !.status = "completed"]
      BY <2>1, FinalizeRow
    <2>3. CASE r = [reg[n] EXCEPT !.status = "completed"]
      BY <1>e, <1>r, <2>1, <2>2, <2>3 DEF Statuses, Working, Busy
    <2>4. CASE r = [NoRow EXCEPT !.status = "completed"]
      <3>1. RowSteady(r)
        BY <2>4 DEF NoRow, RowSteady
      <3>2. reg'[Own(f)] = reg[Own(f)] \/ reg'[Own(f)] = r
        BY <1>0, <2>2
      <3>3. RowSteady(reg'[Own(f)])
        BY <1>s, <3>1, <3>2
      <3> QED BY <1>e, <2>1, <3>3 DEF Working, Busy
    <2> QED BY <2>2, <2>3, <2>4
  <1>7. CASE FileFails
    <2>1. reg' = reg \/ reg' = [reg EXCEPT ![run.name] = [reg[run.name] EXCEPT !.status = "error"]]
      BY <1>7 DEF FileFails
    <2>2. ~Working(f)'
      BY <1>7, PassEnds DEF FileFails, Working, Busy
    <2> QED BY <1>e, <1>r, <2>1, <2>2, PassFields DEF Statuses
  <1>8. CASE SavePart \/ Save \/ NoHeader \/ Crash
    <2>1. ~Working(f)' /\ UNCHANGED reg
      BY <1>8, PassEnds DEF SavePart, Save, NoHeader, Crash, Idle, Working, Busy
    <2> QED BY <1>e, <1>s, <2>1
  <1>9. CASE Replace
    <2>1. run'.at = "insert" /\ UNCHANGED reg
      BY <1>9, PassMoves DEF Replace
    <2> QED BY <1>e, <1>s, <2>1
  <1>10. CASE UNCHANGED <<reg, run>>
    BY <1>10 DEF Steady, Working
  <1>11. ~(Prefetch \/ PrefetchFails \/ NoRegistry \/ Reopen \/ TaskDone \/ (\E g \in Files : OpenFile(g)))
    BY DEF Prefetch, PrefetchFails, NoRegistry, Reopen, TaskDone, OpenFile, Busy
  <1> QED BY <1>1, <1>2, <1>3, <1>4, <1>5, <1>6, <1>7, <1>8, <1>9, <1>10, <1>11 DEF Next, FileStep, vars

LEMMA StuckStep == ASSUME StuckInv, MaxResume > 1, [Next]_vars PROVE StuckInv'
  <1>1. Typed' /\ PassOK'
    BY TypedStep, PassStep DEF StuckInv
  <1>2. ASSUME NEW f \in Files, f \notin blind' PROVE Steady(f)'
    <2>1. Steady(f) /\ Typed /\ PassOK
      BY <1>2, BlindGrows DEF StuckInv
    <2> QED BY <1>2, <2>1, SteadyElsewhere, SteadyInHand
  <1> QED BY <1>1, <1>2 DEF StuckInv

LEMMA GivenUpStep ==
    ASSUME StuckInv, [Next]_vars, NEW f \in Files, f \notin blind,
           reg[Own(f)].status # "error_memory", reg'[Own(f)].status = "error_memory"
    PROVE  run.page = run.start
  <1>0. /\ Typed /\ PassOK /\ Own(f) \in Names /\ reg[Own(f)] \in RowType
        /\ Renamed(f) \in Names /\ Own(f) # Renamed(f) /\ reg \in [Names -> RowType]
    BY NameFacts, RowFields DEF StuckInv, Typed
  <1>1. Busy /\ run.f = f
    BY <1>0, RegEffect, PassFields, NameFacts
  <1>2. CASE MarkErrorMemory
    <2>1. Steady(f) /\ Working(f) /\ run.at = "exhausted"
      BY <1>1, <1>2 DEF StuckInv, MarkErrorMemory, Working
    <2> QED BY <2>1 DEF Steady
  (* No other step writes this status. *)
  <1>3. ASSUME NEW n \in Names, NEW r, reg' = reg \/ reg' = [reg EXCEPT ![n] = r], r.status = reg[n].status \/ r.status # "error_memory"
        PROVE  FALSE
    BY <1>0, <1>3
  <1>n. run.name \in Names
    BY <1>0, <1>1, PassFields
  <1>r. reg[run.name] \in RowType
    BY <1>0, <1>n, RowFields
  <1>4. CASE ReadPage \/ OverLimit
    <2>1. PICK k : MoveCursor(k)
      BY <1>4 DEF ReadPage, OverLimit
    <2>2. [reg[run.name] EXCEPT !.cursor = k].status = reg[run.name].status
      BY <1>r DEF RowType
    <2>3. reg' = reg \/ reg' = [reg EXCEPT ![run.name] = [reg[run.name] EXCEPT !.cursor = k]]
      BY <2>1 DEF MoveCursor
    <2> QED BY <1>3, <1>n, <2>2, <2>3
  <1>5. CASE MarkPartial
    <2>1. PICK c \in 0..Pages : reg' = [reg EXCEPT ![run.name] = Interrupted(run.name, c)]
      BY <1>5 DEF MarkPartial
    <2>2. Interrupted(run.name, c).status = "pending_resume"
      BY DEF Interrupted
    <2> QED BY <1>3, <1>n, <2>1, <2>2
  <1>6. CASE NoMatches \/ SomeMatches
    <2>1. PICK n \in Names : Finalize(n)
      <3>1. NoMatches => Finalize(run.name)
        BY DEF NoMatches
      <3>2. SomeMatches => \E n \in {Own(run.f), Renamed(run.f)} : Finalize(n)
        BY <1>0, <1>1, PassIsNamed
      <3> QED BY <1>0, <1>1, <1>6, <1>n, <3>1, <3>2
    <2>2. PICK r : /\ reg' = reg \/ reg' = [reg EXCEPT ![n] = r]
                   /\ r = [NoRow EXCEPT !.status = "completed"] \/ r = [reg[n] EXCEPT !.status = "completed"]
      BY <1>0, <2>1, FinalizeRow
    <2>3. reg[n] \in RowType
      BY <1>0, RowFields
    <2>4. r.status = "completed"
      BY <2>2, <2>3 DEF NoRow, RowType
    <2> QED BY <1>3, <2>2, <2>4
  <1>7. CASE FileFails
    <2>1. reg' = reg \/ reg' = [reg EXCEPT ![run.name] = [reg[run.name] EXCEPT !.status = "error"]]
      BY <1>7 DEF FileFails
    <2>2. [reg[run.name] EXCEPT !.status = "error"].status = "error"
      BY <1>r DEF RowType
    <2> QED BY <1>3, <1>n, <2>1, <2>2
  <1>8. CASE UNCHANGED reg
    BY <1>8
  <1> QED BY <1>2, <1>4, <1>5, <1>6, <1>7, <1>8 DEF Next, FileStep, vars, Prefetch, PrefetchFails, NoRegistry, OpenFile, Unreadable,
       SavePart, Replace, NoHeader, Save, TaskDone, Crash, Reopen

(* mark_pending_resume: whatever the limit, if it allows a second attempt,  *)
(* a file is given up only by a pass that read no page at all, unless a     *)
(* statement about its cursor failed.                                       *)
THEOREM GivenUpWhereStuck == ASSUME MaxResume > 1 PROVE Spec => GivenUpOnlyWhenStuck
  <1>1. Init => StuckInv
    <2> SUFFICES ASSUME Init PROVE StuckInv
      OBVIOUS
    <2>1. NoRow \in RowType /\ NoRow.attempts = 0 /\ NoRow.last = -1 /\ NoRow.cursor = 0
      BY FilesAssumption DEF NoRow, RowType, Statuses
    <2>2. reg \in [Names -> RowType] /\ \A n \in Names : reg[n] = NoRow
      BY <2>1 DEF Init
    <2>3. run \in Waits /\ run.at = "idle" /\ ~Busy
      BY DEF Init, Idle, Waits, Busy
    <2>4. Typed /\ PassOK
      BY <2>1, <2>2, <2>3 DEF Init, Typed, PassOK
    <2>5. \A f \in Files : reg[Own(f)] = NoRow /\ ~Working(f)
      BY <2>2, <2>3, NameFacts DEF Working
    <2>6. -1 <= 0
      OBVIOUS
    <2> QED BY <2>1, <2>4, <2>5, <2>6 DEF StuckInv, Steady
  <1>2. StuckInv /\ [Next]_vars => StuckInv'
    BY StuckStep
  <1>3. StuckInv /\ [Next]_vars =>
           \A f \in Files \ blind :
              reg[Own(f)].status # "error_memory" /\ reg'[Own(f)].status = "error_memory" => run.page = run.start
    BY GivenUpStep
  <1>4. Init /\ [][Next]_vars => []StuckInv
    BY <1>1, <1>2, PTL
  <1> QED BY <1>3, <1>4, PTL DEF Spec, GivenUpOnlyWhenStuck
=============================================================================
