---------------------------- MODULE DocumentFiles ----------------------------
(***************************************************************************)
(* One task of the S13_V2 pipeline and the files of its procurement: what  *)
(* _process_s13v2_task and process_task_with_files do with each file, page *)
(* by page, and what they leave in processed_documents (the registry) and  *)
(* tender_document_match_details (what was found).                         *)
(*   - A pass that runs into the memory limit stores where it stopped; the *)
(*     next pass over the file goes on there and adds to what was found.   *)
(*   - A file with matches is renamed before it is finalised, so it has up *)
(*     to two rows: one under its own name, one under the new one.         *)
(*   - Statements commit one by one, errors of most are swallowed, and the *)
(*     process may die between any two.                                    *)
(* All of it needs Downloader.registry.  downloader.py assigns none, only  *)
(* downloader.py.backup does: a daemon without one fails the task.         *)
(***************************************************************************)
EXTENDS Integers, FiniteSets

CONSTANTS
    Files,     \* what download and extraction give the parser
    Pages,     \* pages of a file
    Hits,      \* the pages of each file on which the keyword is found
    Shown,     \* the text the CRM shows of the match on a page of a file
    MaxResume, \* MAX_RESUME_ATTEMPTS
    Budget, Events

ASSUME FilesAssumption ==
    /\ Pages \in Nat \ {0} /\ MaxResume \in Nat \ {0} /\ Budget \in Nat
    /\ Hits \in [Files -> SUBSET (1..Pages)]

Own(f) == <<f, "own">>
Renamed(f) == <<f, "renamed">>
Names == Files \X {"own", "renamed"}

VARIABLES
    reg,       \* processed_documents, by file name
    details,   \* match details: [name, page, line]
    task,      \* status of the row in the queue
    run,       \* the daemon on this task
    torn,      \* history: files with pages read and not saved by an accident
    blind,     \* history: files whose cursor a failing statement has falsified
    collapsed, \* history: pages whose match was taken for a stored one of its line
    budget

vars == <<reg, details, task, run, torn, blind, collapsed, budget>>

NoRow == [status |-> "none", cursor |-> 0, attempts |-> 0, last |-> -1]
Statuses == {"none", "completed", "error", "pending_resume", "error_memory"}
Locations == {"idle", "unwired", "files", "parse", "partial", "exhausted", "savepart", "save", "insert"}

Idle == [at |-> "idle", left |-> {}]
Busy == run.at \notin {"idle", "unwired", "files"}
Working(f) == Busy /\ run.f = f

Init ==
    /\ reg = [n \in Names |-> NoRow]
    /\ details = {} /\ torn = {} /\ blind = {} /\ collapsed = {}
    /\ task = "PENDING" /\ run = Idle
    /\ budget = Budget

Disturb(e) == e \in Events /\ budget > 0 /\ budget' = budget - 1

(* get_progress_cursor: 0 without a row, and 0 when the query fails. *)
Cursor(n) == reg[n].cursor

CursorSeen(n, c) ==
    \/ c = Cursor(n) /\ UNCHANGED <<blind, budget>>
    \/ c = 0 /\ Cursor(n) # 0 /\ blind' = blind \cup {n[1]} /\ Disturb("db")

-----------------------------------------------------------------------------
(* Where process_task_with_files gets to with the files it was given: to    *)
(* each of them; or past them all, for a tender that is not found in the    *)
(* S7 tables has nothing read from the registry and nothing saved; or no    *)
(* further than the first use of a registry that is not there.              *)
Starts(got) ==
    {[at |-> "files", left |-> got], [at |-> "files", left |-> {}], [at |-> "unwired", left |-> {}]}

(* The daemon claims the task and downloads: any part of the files arrives. *)
(* Nothing at all is a finished task to the S13_V2 branch.                  *)
Prefetch ==
    /\ task = "PENDING" /\ run.at = "idle"
    /\ \E got \in IF "download" \in Events THEN SUBSET Files ELSE {Files} :
          IF got = {} THEN task' = "COMPLETED" /\ UNCHANGED run
          ELSE task' = "PROCESSING" /\ run' \in Starts(got)
    /\ UNCHANGED <<reg, details, torn, blind, collapsed, budget>>

PrefetchFails ==
    /\ task = "PENDING" /\ run.at = "idle"
    /\ \E status \in {"FAILED", "NO_LINKS"} : task' = status
    /\ Disturb("prefetch")
    /\ UNCHANGED <<reg, details, run, torn, blind, collapsed>>

(* self.downloader.registry raises AttributeError in front of the try of    *)
(* each file, and once more behind the loop: the task fails as a whole.     *)
NoRegistry ==
    /\ run.at = "unwired"
    /\ task' = "FAILED" /\ run' = Idle
    /\ UNCHANGED <<reg, details, torn, blind, collapsed, budget>>

(* _file_is_resuming, before the parser moves the cursor. *)
Resuming(f) == Cursor(Own(f)) > 0 \/ reg[Own(f)].status = "pending_resume"

OpenFile(f) ==
    /\ run.at = "files" /\ f \in run.left
    /\ \E c \in 0..Pages :
          /\ CursorSeen(Own(f), c)
          /\ run' = [at |-> "parse", left |-> run.left \ {f}, f |-> f, name |-> Own(f),
                     resuming |-> Resuming(f), start |-> c, page |-> c]
    /\ UNCHANGED <<reg, details, task, torn, collapsed>>

(* set_progress_cursor is an UPDATE: a file without a row keeps no cursor,  *)
(* and an UPDATE that fails is passed over.                                 *)
MoveCursor(page) ==
    \/ /\ reg' = IF reg[run.name].status = "none" THEN reg
                  ELSE [reg EXCEPT ![run.name].cursor = page]
       /\ UNCHANGED <<blind, budget>>
    \/ /\ reg[run.name].status # "none"
       /\ blind' = blind \cup {run.f} /\ Disturb("db")
       /\ UNCHANGED reg

ReadPage ==
    /\ run.at = "parse" /\ run.page < Pages
    /\ MoveCursor(run.page + 1)
    /\ run' = [run EXCEPT !.page = @ + 1]
    /\ UNCHANGED <<details, task, torn, collapsed>>

(* Mutant: the page in front of the limit counts as read. *)
OverLimit_Skips ==
    /\ run.at = "parse" /\ run.page < Pages /\ "memory" \in Events
    /\ MoveCursor(run.page + 1)
    /\ run' = [run EXCEPT !.at = "partial"]
    /\ UNCHANGED <<details, task, torn, collapsed>>

(* The memory limit, looked at before each page. *)
OverLimit ==
    /\ run.at = "parse" /\ run.page < Pages /\ "memory" \in Events
    /\ MoveCursor(run.page)
    /\ run' = [run EXCEPT !.at = "partial"]
    /\ UNCHANGED <<details, task, torn, collapsed>>

(* A file the reader does not open counts as partly read, too. *)
Unreadable ==
    /\ run.at = "parse" /\ run.page = run.start
    /\ run' = [run EXCEPT !.at = "partial"]
    /\ Disturb("unreadable")
    /\ UNCHANGED <<reg, details, task, torn, blind, collapsed>>

-----------------------------------------------------------------------------
(* Mutant: the place of the interruption is not recorded. *)
Interrupted_NoPlace(n, c) ==
    [status |-> "pending_resume", cursor |-> c, last |-> reg[n].last,
     attempts |-> IF reg[n].last = c THEN reg[n].attempts + 1 ELSE 1]

(* Mutant: attempts are counted per file. *)
Interrupted_AnyPlace(n, c) ==
    [status |-> "pending_resume", cursor |-> c, last |-> c, attempts |-> reg[n].attempts + 1]

(* mark_pending_resume: attempts are counted per place, not per file.       *)
Interrupted(n, c) ==
    [status |-> "pending_resume", cursor |-> c, last |-> c,
     attempts |-> IF reg[n].last = c THEN reg[n].attempts + 1 ELSE 1]

MarkPartial ==
    /\ run.at = "partial"
    /\ \E c \in 0..Pages : LET r == Interrupted(run.name, c) IN
          /\ CursorSeen(run.name, c)
          /\ reg' = [reg EXCEPT ![run.name] = r]
          /\ run' = [run EXCEPT !.at = IF r.attempts >= MaxResume THEN "exhausted" ELSE "savepart"]
    /\ UNCHANGED <<details, task, torn, collapsed>>

MarkErrorMemory ==
    /\ run.at = "exhausted"
    /\ reg' = [reg EXCEPT ![run.name].status = "error_memory"]
    /\ run' = [run EXCEPT !.at = "savepart"]
    /\ UNCHANGED <<details, task, torn, blind, collapsed, budget>>

(* Matches of the pages read in this pass, with the line each has in the    *)
(* text of this pass.                                                       *)
Matches(r) ==
    {[name |-> r.name, page |-> p, line |-> p - r.start] :
        p \in Hits[r.f] \cap (r.start + 1)..r.page}

(* save_matches takes one match of each text, the first of the batch,       *)
(* whatever pages and lines the others are on ...                           *)
First(m, batch) ==
    \A k \in batch : k.page < m.page => Shown[run.f][k.page] # Shown[run.f][m.page]

(* ... and drops that one, too, when any file of the tender already has the *)
(* keyword on a line of that number with that score.                        *)
Collapses(m, kept) == \E d \in kept : d.line = m.line

Back == run' = [at |-> "files", left |-> run.left]

Insert(kept) ==
    LET taken == {m \in Matches(run) : First(m, Matches(run))}
        new == {m \in taken : ~Collapses(m, kept)}
    IN  /\ details' = kept \cup new
        /\ collapsed' = collapsed \cup {<<run.f, m.page>> : m \in taken \ new}

(* Each match is a statement, whose error is logged and not raised, behind  *)
(* a look for the line, without whose answer the match is inserted.         *)
InsertFails(kept) ==
    /\ \E new \in SUBSET {m \in Matches(run) : First(m, Matches(run))} : details' = kept \cup new
    /\ torn' = torn \cup {run.f} /\ Disturb("db")
    /\ UNCHANGED collapsed

SavePart ==
    /\ run.at = "savepart"
    /\ Back
    /\ \/ Insert(details) /\ UNCHANGED <<torn, budget>>
       \/ Matches(run) # {} /\ InsertFails(details)
    /\ UNCHANGED <<reg, task, blind>>

-----------------------------------------------------------------------------
(* The file is read to its end.  finalize_file_status writes the row and    *)
(* then clears the cursor; either may fail silently.                        *)
Completed(n, cleared) ==
    IF cleared THEN [NoRow EXCEPT !.status = "completed"]
    ELSE [reg[n] EXCEPT !.status = "completed"]

Finalize(n) ==
    \/ reg' = [reg EXCEPT ![n] = Completed(n, TRUE)] /\ UNCHANGED budget
    \/ Disturb("db") /\ (reg' = reg \/ reg' = [reg EXCEPT ![n] = Completed(n, FALSE)])

AtEnd == run.at = "parse" /\ run.page >= Pages

NoMatches ==
    /\ AtEnd /\ Matches(run) = {}
    /\ Finalize(run.name)
    /\ Back
    /\ UNCHANGED <<details, task, torn, blind, collapsed>>

(* rename_file, then finalise under the name the file has now.              *)
SomeMatches ==
    /\ AtEnd /\ Matches(run) # {}
    /\ \E n \in {Renamed(run.f)} \cup (IF "norename" \in Events THEN {Own(run.f)} ELSE {}) :
          /\ Finalize(n)
          /\ run' = [run EXCEPT !.at = "save", !.name = n]
    /\ UNCHANGED <<details, task, torn, blind, collapsed>>

(* save_matches writes a header for the name the file has now, and for a    *)
(* file that was not resumed deletes what the header had: one statement     *)
(* each.  Without a header it gives up; a delete that fails is passed over. *)
Replace ==
    /\ run.at = "save"
    /\ run' = [run EXCEPT !.at = "insert"]
    /\ \/ /\ details' = IF run.resuming THEN details
                          ELSE {d \in details : d.name # run.name}
          /\ UNCHANGED budget
       \/ Disturb("db") /\ UNCHANGED details
    /\ UNCHANGED <<reg, task, torn, blind, collapsed>>

NoHeader ==
    /\ run.at = "save"
    /\ Back
    /\ torn' = torn \cup {run.f}
    /\ Disturb("db")
    /\ UNCHANGED <<reg, details, task, blind, collapsed>>

Save ==
    /\ run.at = "insert"
    /\ Back
    /\ \/ Insert(details) /\ UNCHANGED <<torn, budget>>
       \/ InsertFails(details)
    /\ UNCHANGED <<reg, task, blind>>

(* An exception in the middle: the row says error and keeps its cursor; or  *)
(* it says nothing, since finalize_file_status does not raise.              *)
FileFails ==
    /\ run.at \in {"parse", "partial", "exhausted", "savepart"}
    /\ reg' \in {reg, [reg EXCEPT ![run.name].status = "error"]}
    /\ torn' = torn \cup {run.f}
    /\ Back
    /\ Disturb("error")
    /\ UNCHANGED <<details, task, blind, collapsed>>

(* process_task_with_files returns a result the S13_V2 branch does not look *)
(* at: whatever became of the files, the task is completed.                 *)
TaskDone ==
    /\ run.at = "files" /\ run.left = {}
    /\ task' = "COMPLETED" /\ run' = Idle
    /\ UNCHANGED <<reg, details, torn, blind, collapsed, budget>>

-----------------------------------------------------------------------------
Crash ==
    /\ run.at # "idle"
    /\ torn' = IF Busy THEN torn \cup {run.f} ELSE torn
    /\ run' = Idle
    /\ Disturb("crash")
    /\ UNCHANGED <<reg, details, task, blind, collapsed>>

(* A producer re-opens the row (DocumentQueue). *)
Reopen ==
    /\ run.at = "idle" /\ task # "PENDING"
    /\ task' = "PENDING"
    /\ Disturb("reopen")
    /\ UNCHANGED <<reg, details, run, torn, blind, collapsed>>

FileStep ==
    \/ \E f \in Files : OpenFile(f)
    \/ ReadPage \/ OverLimit \/ Unreadable \/ MarkPartial \/ MarkErrorMemory \/ SavePart
    \/ NoMatches \/ SomeMatches \/ Replace \/ NoHeader \/ Save \/ FileFails \/ TaskDone

Next == Prefetch \/ PrefetchFails \/ NoRegistry \/ FileStep \/ Crash \/ Reopen

Spec == Init /\ [][Next]_vars

-----------------------------------------------------------------------------
Detail == [name : Names, page : 1..Pages, line : 1..Pages]

(* Types, and: the queue row is PROCESSING while the daemon works on it, a  *)
(* cursor lies within the file, attempts belong to the place they were      *)
(* counted at, and only a file's own name is ever resumed.                  *)
FileTypeOK ==
    /\ \A n \in Names :
          /\ reg[n].status \in Statuses
          /\ reg[n].cursor \in 0..Pages
          /\ (reg[n].attempts = 0) <=> (reg[n].last = -1)
          /\ n[2] = "renamed" => reg[n].attempts = 0 /\ reg[n].cursor = 0
    /\ details \subseteq Detail /\ torn \cup blind \subseteq Files
    /\ run.at \in Locations
    /\ run.at # "idle" => task = "PROCESSING"
    /\ Busy => run.start <= run.page /\ run.page <= Pages

Read(f) ==
    IF \E n \in {Own(f), Renamed(f)} : reg[n].status = "completed" THEN 1..Pages
    ELSE 1..Cursor(Own(f))

InHand(f) == IF Working(f) THEN (run.start + 1)..run.page ELSE {}

Saved(f) == {d.page : d \in {d \in details : d.name \in {Own(f), Renamed(f)}}}

(* A text is accounted for by a match that shows it. *)
Accounted(f, p) ==
    \E q \in Hits[f] :
        /\ Shown[f][q] = Shown[f][p]
        /\ q \in Saved(f) \/ <<f, q>> \in collapsed

(* process_task_with_files and parse_pdf_incremental between them: a page   *)
(* the registry calls read, by its cursor or as part of a completed file,   *)
(* is not read again, so its match is in the hands of the pass, or what it  *)
(* shows must be stored by now, for this page or another of the file, or    *)
(* have been taken for the stored match of a line of the same number,       *)
(* unless an accident (crash, exception, failed save) struck the file.      *)
(* However many passes it took, and whichever of its names the rows and     *)
(* details are under.                                                       *)
PagesAreAccounted ==
    \A f \in Files \ torn : \A p \in Hits[f] \cap Read(f) : p \in InHand(f) \/ Accounted(f, p)

(* MAX_RESUME_ATTEMPTS counts interruptions at one place, not interruptions:*)
(* a file is given up for memory only at the end of a pass that could not   *)
(* read a single further page, however often it was interrupted before,     *)
(* unless a statement about its cursor failed.                              *)
GivenUpOnlyWhenStuck ==
    [][\A f \in Files \ blind :
         reg[Own(f)].status # "error_memory" /\ reg'[Own(f)].status = "error_memory"
            => run.page = run.start]_vars
=============================================================================
