----------------------------- MODULE GpuArbiter -----------------------------
(***************************************************************************)
(* The GPU arbiter of the CRM (gpu_arbiter.py): processes that call the    *)
(* language model take an exclusive flock, note themselves in a JSON state *)
(* file, infer, note that the GPU is idle, and unlock.  The backlog drain  *)
(* also publishes its queue depths in the state file, without the lock,    *)
(* and some callers of the language model never enter the arbiter at all.  *)
(*                                                                         *)
(* write_state reads the file, patches what it read, writes it to a        *)
(* temporary file of a fixed name and renames that over the state file.    *)
(* The steps of two writers can interleave, so the model keeps what each   *)
(* file name stands for and what each open descriptor writes to.           *)
(*                                                                         *)
(* Every caller that takes the lock is of the routing workload: one slot   *)
(* counter is enough.                                                      *)
(***************************************************************************)
EXTENDS Integers

CONSTANTS
    Clients,     \* processes that call the model
    Publishers,  \* those that also publish queue depths
    Bypassers,   \* those that also call the model without the lock
    Nobody,      \* no holder
    MaxJobs,     \* bound: calls of the model and publications
    MaxCrashes   \* bound: processes that die

ASSUME ClientAssumption ==
    /\ Publishers \subseteq Clients /\ Bypassers \subseteq Clients
    /\ Nobody \notin Clients
    /\ MaxJobs \in Nat /\ MaxCrashes \in Nat

VARIABLES
    pc,      \* where each client is
    job,     \* what its write_state is for
    lock,    \* the client that holds the flock
    state,   \* content of the state file
    tmp,     \* content of the temporary file
    fd,      \* the name under which the file a client has open now goes
    cur,     \* what a client is about to write
    slots,   \* the slot counter a client has read
    result,  \* what the caller of the model gets
    granted, \* history: acquisitions noted in the state file
    crossed, \* history: clients whose visit a publication has cut across
    spoilt,  \* history: a publication and another write have overlapped
    jobs,    \* calls of the model and publications so far
    crashes  \* processes that have died

files == <<state, tmp, fd>>
overlaps == <<crossed, spoilt>>
vars == <<pc, job, lock, files, cur, slots, result, granted, overlaps, jobs, crashes>>

(* What a file holds: a JSON object, of which the model keeps the holder    *)
(* and the slots, nothing yet, the remains of two writes, or it is missing. *)
Content == [kind : {"json", "empty", "mixed", "absent"},
            holder : Clients \cup {Nobody}, slots : Nat]

Unreadable(kind) == [kind |-> kind, holder |-> Nobody, slots |-> 0]
Default == [kind |-> "json", holder |-> Nobody, slots |-> 0]

(* A file that is missing or does not parse reads as the default. *)
Parsed(content) == IF content.kind = "json" THEN content ELSE Default

Init ==
    /\ pc = [c \in Clients |-> "idle"] /\ job = [c \in Clients |-> "none"]
    /\ lock = Nobody
    /\ state = Unreadable("absent") /\ tmp = Unreadable("absent")
    /\ fd = [c \in Clients |-> "closed"]
    /\ cur = [c \in Clients |-> Default] /\ slots = [c \in Clients |-> 0]
    /\ result = [c \in Clients |-> "none"]
    /\ granted = 0 /\ crossed = {} /\ spoilt = FALSE
    /\ jobs = 0 /\ crashes = 0

At(c, here) == pc[c] = here
Go(c, there) == pc' = [pc EXCEPT ![c] = there]

(* In write_state. *)
Writing(c) == pc[c] \in {"read", "open", "write", "replace"}

(* Who has passed the lock and not left the context manager. *)
Inside(c) ==
    \/ pc[c] \in {"locked", "infer"}
    \/ Writing(c) /\ job[c] \in {"grant", "release"}

Others(c) == {d \in Clients \ {c} : Writing(d)}

(* The call of write_state for this job runs into another one, and one of   *)
(* the two is a publication.                                                *)
Crosses(c, why) ==
    \/ why = "publish" /\ Others(c) # {}
    \/ \E d \in Others(c) : job[d] = "publish"

(* A call of write_state begins.  The history notes whom an overlap may     *)
(* touch: the two writers, and whoever is inside.                           *)
Begin(c, why) ==
    /\ Go(c, "read") /\ job' = [job EXCEPT ![c] = why]
    /\ IF Crosses(c, why)
       THEN /\ crossed' = crossed \cup {c} \cup Others(c) \cup {d \in Clients : Inside(d)}
            /\ spoilt' = TRUE
       ELSE crossed' = crossed \ {c} /\ UNCHANGED spoilt

-----------------------------------------------------------------------------
(* acquire_gpu_inference: poll for the lock until it is free or the wait is *)
(* over.                                                                    *)

Request(c) ==
    /\ At(c, "idle") /\ jobs < MaxJobs
    /\ Go(c, "wait") /\ jobs' = jobs + 1
    /\ result' = [result EXCEPT ![c] = "none"]
    /\ UNCHANGED <<job, lock, files, cur, slots, granted, overlaps, crashes>>

(* Mutant: a client waits for the holder named in the state file. *)
Lock_TrustsState(c) ==
    /\ At(c, "wait") /\ lock = Nobody /\ Parsed(state).holder = Nobody
    /\ lock' = c /\ Go(c, "locked")
    /\ UNCHANGED <<job, files, cur, slots, result, granted, overlaps, jobs, crashes>>

(* Mutant: the lock is taken whoever has it. *)
Lock_Steals(c) ==
    /\ At(c, "wait")
    /\ lock' = c /\ Go(c, "locked")
    /\ UNCHANGED <<job, files, cur, slots, result, granted, overlaps, jobs, crashes>>

Lock(c) ==
    /\ At(c, "wait") /\ lock = Nobody
    /\ lock' = c /\ Go(c, "locked")
    /\ UNCHANGED <<job, files, cur, slots, result, granted, overlaps, jobs, crashes>>

Busy(c) ==
    /\ At(c, "wait") /\ lock # Nobody
    /\ Go(c, "asleep")
    /\ UNCHANGED <<job, lock, files, cur, slots, result, granted, overlaps, jobs, crashes>>

Again(c) ==
    /\ At(c, "asleep")
    /\ Go(c, "wait")
    /\ UNCHANGED <<job, lock, files, cur, slots, result, granted, overlaps, jobs, crashes>>

(* The deadline is looked at before each poll: TimeoutError, which the      *)
(* caller, like every exception, turns into "no answer".                    *)
WaitTooLong(c) ==
    /\ At(c, "asleep")
    /\ Go(c, "idle") /\ result' = [result EXCEPT ![c] = "error"]
    /\ UNCHANGED <<job, lock, files, cur, slots, granted, overlaps, jobs, crashes>>

(* The counter is read before write_state reads the file again. *)
ReadSlots(c) ==
    /\ At(c, "locked")
    /\ slots' = [slots EXCEPT ![c] = Parsed(state).slots + 1]
    /\ Begin(c, "grant")
    /\ UNCHANGED <<lock, files, cur, result, granted, jobs, crashes>>

(* set_queue_depths takes no lock. *)
Publish(c) ==
    /\ c \in Publishers /\ At(c, "idle") /\ jobs < MaxJobs
    /\ Begin(c, "publish") /\ jobs' = jobs + 1
    /\ UNCHANGED <<lock, files, cur, slots, result, granted, crashes>>

-----------------------------------------------------------------------------
(* write_state.                                                             *)

Patched(c, content) ==
    CASE job[c] = "grant"   -> [content EXCEPT !.holder = c, !.slots = slots[c]]
      [] job[c] = "release" -> [content EXCEPT !.holder = Nobody]
      [] OTHER              -> content

Read(c) ==
    /\ At(c, "read")
    /\ cur' = [cur EXCEPT ![c] = Patched(c, Parsed(state))]
    /\ Go(c, "open")
    /\ UNCHANGED <<job, lock, files, slots, result, granted, overlaps, jobs, crashes>>

(* Mutant: the state file is written in place. *)
Open_InPlace(c) ==
    /\ At(c, "open")
    /\ state' = Unreadable("empty") /\ tmp' = state' /\ fd' = [fd EXCEPT ![c] = "tmp"]
    /\ Go(c, "write")
    /\ UNCHANGED <<job, lock, cur, slots, result, granted, overlaps, jobs, crashes>>

(* Opening for writing truncates, whoever else has the file open. *)
Open(c) ==
    /\ At(c, "open")
    /\ tmp' = Unreadable("empty") /\ fd' = [fd EXCEPT ![c] = "tmp"]
    /\ Go(c, "write")
    /\ UNCHANGED <<job, lock, state, cur, slots, result, granted, overlaps, jobs, crashes>>

(* Over another writer's text, a shorter one leaves a tail. *)
Written(c, old) == 
    IF old.kind = "empty" THEN {cur[c]} ELSE {cur[c], Unreadable("mixed")}

(* A descriptor follows its file: after another writer's rename it writes   *)
(* into the state file itself, after two of them into a file without name.  *)
Write(c) ==
    /\ At(c, "write")
    /\ \/ fd[c] = "tmp" /\ tmp' \in Written(c, tmp) /\ UNCHANGED state
       \/ fd[c] = "state" /\ state' \in Written(c, state) /\ UNCHANGED tmp
       \/ fd[c] = "gone" /\ UNCHANGED <<state, tmp>>
    /\ fd' = [fd EXCEPT ![c] = "closed"]
    /\ Go(c, "replace")
    /\ UNCHANGED <<job, lock, cur, slots, result, granted, overlaps, jobs, crashes>>

Renamed(name) == CASE name = "tmp" -> "state" [] name = "state" -> "gone" [] OTHER -> name

(* Mutant: the lock file stays locked. *)
Unlock_Never(c) == UNCHANGED lock

(* Closing the lock file drops the flock, on every way out. *)
Unlock(c) == lock' = IF lock = c THEN Nobody ELSE lock

Rename(c) ==
    /\ At(c, "replace") /\ tmp.kind # "absent"
    /\ state' = tmp /\ tmp' = Unreadable("absent")
    /\ fd' = [d \in Clients |-> Renamed(fd[d])]

(* The three callers of write_state go on: to the inference, ...            *)
Granted(c) ==
    /\ job[c] = "grant" /\ Rename(c)
    /\ Go(c, "infer") /\ granted' = granted + 1
    /\ UNCHANGED <<job, lock, cur, slots, result, overlaps, jobs, crashes>>

(* ... past the finally clause, ... *)
Released(c) ==
    /\ job[c] = "release" /\ Rename(c)
    /\ Go(c, "idle") /\ job' = [job EXCEPT ![c] = "none"] /\ Unlock(c)
    /\ UNCHANGED <<cur, slots, result, granted, overlaps, jobs, crashes>>

(* ... back to the drain. *)
Published(c) ==
    /\ job[c] = "publish" /\ Rename(c)
    /\ Go(c, "idle") /\ job' = [job EXCEPT ![c] = "none"]
    /\ UNCHANGED <<lock, cur, slots, result, granted, overlaps, jobs, crashes>>

(* FileNotFoundError: another writer has renamed the temporary file away.   *)
Missing(c) == At(c, "replace") /\ tmp.kind = "absent"

(* Before the inference: the finally clause runs, the caller gets nothing. *)
GrantFails(c) ==
    /\ job[c] = "grant" /\ Missing(c)
    /\ Begin(c, "release")
    /\ result' = [result EXCEPT ![c] = "error"]
    /\ UNCHANGED <<lock, files, cur, slots, granted, jobs, crashes>>

(* In the finally clause: the unlock is skipped, but the descriptor goes    *)
(* with the frame, and the lock with it.  The exception replaces the answer.*)
ReleaseFails(c) ==
    /\ job[c] = "release" /\ Missing(c)
    /\ Go(c, "idle") /\ job' = [job EXCEPT ![c] = "none"] /\ Unlock(c)
    /\ result' = [result EXCEPT ![c] = "error"]
    /\ UNCHANGED <<files, cur, slots, granted, overlaps, jobs, crashes>>

(* The drain swallows it. *)
PublishFails(c) ==
    /\ job[c] = "publish" /\ Missing(c)
    /\ Go(c, "idle") /\ job' = [job EXCEPT ![c] = "none"]
    /\ UNCHANGED <<lock, files, cur, slots, result, granted, overlaps, jobs, crashes>>

WriteState(c) ==
    \/ Read(c) \/ Open(c) \/ Write(c)
    \/ Granted(c) \/ Released(c) \/ Published(c)
    \/ GrantFails(c) \/ ReleaseFails(c) \/ PublishFails(c)

-----------------------------------------------------------------------------
(* Mutant: the lock is given up before the state file is. *)
Infer_Unlocks(c) ==
    /\ At(c, "infer")
    /\ \E answer \in {"answer", "error"} : result' = [result EXCEPT ![c] = answer]
    /\ Begin(c, "release") /\ lock' = Nobody
    /\ UNCHANGED <<files, cur, slots, granted, jobs, crashes>>

(* The model answers or does not; the finally clause follows. *)
Infer(c) ==
    /\ At(c, "infer")
    /\ \E answer \in {"answer", "error"} : result' = [result EXCEPT ![c] = answer]
    /\ Begin(c, "release")
    /\ UNCHANGED <<lock, files, cur, slots, granted, jobs, crashes>>

(* Callers that go to the model directly: generate_json, or                 *)
(* call_ollama_qwen with acquire_gpu=False.                                 *)
InferDirect(c) ==
    /\ c \in Bypassers /\ At(c, "idle") /\ jobs < MaxJobs
    /\ Go(c, "direct") /\ jobs' = jobs + 1
    /\ result' = [result EXCEPT ![c] = "none"]
    /\ UNCHANGED <<job, lock, files, cur, slots, granted, overlaps, crashes>>

DirectEnds(c) ==
    /\ At(c, "direct")
    /\ \E answer \in {"answer", "error"} : result' = [result EXCEPT ![c] = answer]
    /\ Go(c, "idle")
    /\ UNCHANGED <<job, lock, files, cur, slots, granted, overlaps, jobs, crashes>>

(* The process dies; the system closes its files and drops its lock. *)
Crash(c) ==
    /\ ~At(c, "idle") /\ crashes < MaxCrashes
    /\ Go(c, "idle") /\ job' = [job EXCEPT ![c] = "none"] /\ Unlock(c)
    /\ fd' = [fd EXCEPT ![c] = "closed"]
    /\ result' = [result EXCEPT ![c] = "none"]
    /\ crashes' = crashes + 1
    /\ UNCHANGED <<state, tmp, cur, slots, granted, overlaps, jobs>>

ClientStep(c) ==
    Lock(c) \/ Busy(c) \/ Again(c) \/ WaitTooLong(c) \/ ReadSlots(c) \/ WriteState(c)
    \/ Infer(c) \/ DirectEnds(c)

Next == \E c \in Clients :
    Request(c) \/ Publish(c) \/ InferDirect(c) \/ ClientStep(c) \/ Crash(c)

Spec == Init /\ [][Next]_vars

(* A client that is not killed goes on: polling, writing and the model's    *)
(* answer all end.                                                          *)
FairSpec == Spec /\ \A c \in Clients : WF_vars(ClientStep(c))

-----------------------------------------------------------------------------
Locations == {"idle", "wait", "asleep", "locked", "read", "open", "write", "replace",
              "infer", "direct"}

(* Types, and each client's job belongs to where it is. *)
GpuTypeOK ==
    /\ pc \in [Clients -> Locations]
    /\ job \in [Clients -> {"none", "grant", "release", "publish"}]
    /\ lock \in Clients \cup {Nobody}
    /\ state \in Content /\ tmp \in Content
    /\ fd \in [Clients -> {"closed", "tmp", "state", "gone"}]
    /\ cur \in [Clients -> Content] /\ slots \in [Clients -> Nat]
    /\ result \in [Clients -> {"none", "answer", "error"}]
    /\ granted \in Nat /\ crossed \subseteq Clients /\ spoilt \in BOOLEAN
    /\ jobs \in Nat /\ crashes \in Nat
    /\ \A c \in Clients : Writing(c) => job[c] # "none"

(* How a client stands with the slot. *)
Phase(c) == IF Inside(c) THEN "inside" ELSE IF pc[c] \in {"wait", "asleep"} THEN "waiting" ELSE "out"

Slot == INSTANCE GpuSlot WITH phase <- [c \in Clients |-> Phase(c)], holder <- lock

(* The arbiter implements the slot (acquire_gpu_inference and its finally   *)
(* clause): with all its polling, torn state files, failing renames and     *)
(* deaths, what happens to the lock is that processes enter one at a time,  *)
(* each leaves, and each that waits enters or gives up.                     *)
ImplementsSlot == Slot!FairSpec

(* The module's docstring: MAX_CONCURRENT_GPU_INFERENCE_JOBS = 1, two       *)
(* inferences never run together.  The callers that bypass the arbiter      *)
(* break it.                                                                *)
Inferring(c) == pc[c] \in {"infer", "direct"}

OneInference == \A c, d \in Clients : Inferring(c) /\ Inferring(d) => c = d

(* What the arbiter can do about it: whatever crashes, times out, publishes *)
(* or bypasses it, of two inferences at once one has not taken the lock.    *)
LockedInferencesExclude ==
    \A c, d \in Clients : Inferring(c) /\ Inferring(d) /\ c # d =>
        "direct" \in {pc[c], pc[d]}

(* While a client infers, the state file names it: what the operator reads  *)
(* there is true, but for a publication (set_queue_depths takes no lock)    *)
(* that was under way while the client noted itself there, or while another *)
(* publication was.  One that falls into the inference does no harm.        *)
StateNamesHolder ==
    \A c \in Clients : pc[c] = "infer" =>
        (state.kind = "json" /\ state.holder = c) \/ c \in crossed

(* The slot counter counts the inferences, crashes included: a holder that  *)
(* dies half-way through write_state neither loses nor repeats a count.     *)
(* Only a publication that overlaps another write can make it wrong.        *)
SlotsCountGrants == ~spoilt => Parsed(state).slots = granted

(* A model answer that has been paid for reaches the caller: noting that    *)
(* the GPU is idle again fails only when a publication is under way during  *)
(* that very note, and renames the shared temporary file away.              *)
AnswersAreKept ==
    [][\A c \in Clients :
         result[c] = "answer" /\ result'[c] = "error" => c \in crossed]_vars

(* Nobody waits for ever, even behind a process that died with the lock. *)
WaitersAreServed ==
    \A c \in Clients : pc[c] = "wait" ~> pc[c] \notin {"wait", "asleep"}

-----------------------------------------------------------------------------
(* The inductive strengthenings.  Whoever is inside holds the lock. *)
HolderInside == \A c \in Clients : Inside(c) => lock = c

(* And whoever holds it is inside: there is no way out with the lock.       *)
HoldersAreInside == \A c \in Clients : lock = c => Inside(c)

(* Where a write can be disturbed.  A write that no publication cuts across *)
(* is the only one under way; the file of one that is not open is closed;   *)
(* an inference during a disturbed write is marked itself.                  *)
Apart ==
    /\ \A c \in Clients : pc[c] # "write" => fd[c] = "closed"
    /\ \A c \in Clients \ crossed : Writing(c) => Others(c) = {}
    /\ \A c \in crossed, d \in Clients : Writing(c) /\ pc[d] = "infer" => d \in crossed
    /\ crossed # {} => spoilt

(* What an undisturbed client has in hand: the temporary file is its own,   *)
(* so what it renames is what it wrote, and what it wrote rests on the      *)
(* state file as it still is.                                               *)
ClientInOrder(c) ==
    /\ pc[c] = "write" => fd[c] = "tmp" /\ tmp.kind = "empty"
    /\ pc[c] = "replace" => tmp = cur[c]
    /\ pc[c] \in {"open", "write", "replace"} =>
          /\ cur[c].kind = "json"
          /\ job[c] = "grant" => cur[c].holder = c
          /\ job[c] = "publish" => cur[c].holder = Parsed(state).holder
    /\ pc[c] = "infer" => state.kind = "json" /\ state.holder = c

(* And what it counts, as long as no overlap has ever spoilt the counter.   *)
CountInOrder(c) ==
    /\ Writing(c) /\ job[c] = "grant" => slots[c] = granted + 1
    /\ pc[c] \in {"open", "write", "replace"} =>
          cur[c].slots = IF job[c] = "grant" THEN granted + 1 ELSE granted

AnswerInOrder(c) ==
    result[c] = "answer" => pc[c] = "idle" \/ (Writing(c) /\ job[c] \in {"release", "publish"})

FileInOrder ==
    /\ Apart
    /\ \A c \in Clients \ crossed : ClientInOrder(c)
    /\ ~spoilt => /\ Parsed(state).slots = granted
                  /\ \A c \in Clients : CountInOrder(c)
    /\ \A c \in Clients : AnswerInOrder(c)
=============================================================================
