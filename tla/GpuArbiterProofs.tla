-------------------------- MODULE GpuArbiterProofs --------------------------
(***************************************************************************)
(* Proofs about GpuArbiter, for any processes, any of which may publish    *)
(* depths or bypass the lock, and any bounds: the types, the exclusion of  *)
(* the inferences that take the lock, the one slot, and that nothing but a *)
(* publication that cuts across a write makes the state file lie or loses  *)
(* an answer.                                                              *)
(***************************************************************************)
EXTENDS GpuArbiter, TLAPS

(* What a file can be made to hold is content. *)
LEMMA ContentType ==
    /\ Unreadable("empty") \in Content /\ Unreadable("mixed") \in Content
    /\ Unreadable("absent") \in Content /\ Default \in Content
    /\ \A x \in Content : Parsed(x) \in Content /\ Parsed(x).kind = "json"
  BY DEF Content, Unreadable, Default, Parsed

(* A patch of content is content, and says what the job is about. *)
LEMMA PatchType ==
    ASSUME NEW c \in Clients, NEW x \in Content, slots[c] \in Nat
    PROVE  /\ Patched(c, x) \in Content
           /\ Patched(c, x).kind = x.kind
           /\ job[c] = "grant" => /\ Patched(c, x).holder = c
                                  /\ Patched(c, x).slots = slots[c]
           /\ job[c] # "grant" => Patched(c, x).slots = x.slots
           /\ job[c] = "publish" => Patched(c, x) = x
  BY DEF Content, Patched

(* The history that a call of write_state leaves is well typed. *)
LEMMA BeginType ==
    ASSUME GpuTypeOK, NEW c \in Clients, NEW why \in {"grant", "release", "publish"}, Begin(c, why)
    PROVE  /\ pc' = [pc EXCEPT ![c] = "read"] /\ job' = [job EXCEPT ![c] = why]
           /\ crossed' \subseteq Clients /\ spoilt' \in BOOLEAN
  BY DEF Begin, Go, GpuTypeOK, Others

(* The type invariant is inductive. *)
LEMMA TypeStep == ASSUME GpuTypeOK, [Next]_vars PROVE GpuTypeOK'
  <1> USE ContentType, ClientAssumption
  <1>0. CASE UNCHANGED vars
    BY <1>0 DEF GpuTypeOK, vars, files, overlaps, Writing
  <1> SUFFICES ASSUME NEW c \in Clients,
                      Request(c) \/ Publish(c) \/ InferDirect(c) \/ ClientStep(c) \/ Crash(c)
               PROVE  GpuTypeOK'
    BY <1>0 DEF Next
  <1>1. CASE Request(c)
    BY <1>1 DEF Request, GpuTypeOK, At, Go, files, overlaps, Writing, Locations
  <1>2. CASE Publish(c)
    BY <1>2, BeginType DEF Publish, GpuTypeOK, files, Writing, Locations
  <1>3. CASE Lock(c)
    BY <1>3 DEF Lock, GpuTypeOK, At, Go, files, overlaps, Writing, Locations
  <1>4. CASE Busy(c) \/ Again(c) \/ WaitTooLong(c)
    BY <1>4 DEF Busy, Again, WaitTooLong, GpuTypeOK, At, Go, files, overlaps, Writing, Locations
  <1>5. CASE ReadSlots(c)
    <2>1. Parsed(state).slots + 1 \in Nat
      BY DEF GpuTypeOK, Content
    <2> QED BY <1>5, <2>1, BeginType DEF ReadSlots, GpuTypeOK, files, Writing, Locations
  <1>6. CASE Read(c)
    <2>1. Patched(c, Parsed(state)) \in Content
      BY PatchType DEF GpuTypeOK
    <2> QED BY <1>6, <2>1 DEF Read, GpuTypeOK, At, Go, files, overlaps, Writing, Locations
  <1>7. CASE Open(c)
    BY <1>7 DEF Open, GpuTypeOK, At, Go, files, overlaps, Writing, Locations
  <1>8. CASE Write(c)
    <2>1. \A x \in Content : Written(c, x) \subseteq Content
      BY DEF Written, GpuTypeOK
    <2>2. state' \in Content /\ tmp' \in Content
      BY <1>8, <2>1 DEF Write, GpuTypeOK
    <2> QED BY <1>8, <2>2 DEF Write, GpuTypeOK, At, Go, files, overlaps, Writing, Locations
  <1>9. CASE Granted(c)
    BY <1>9 DEF Granted, Rename, Renamed, GpuTypeOK, At, Go, files, overlaps, Writing, Locations
  <1>10. CASE Released(c)
    BY <1>10 DEF Released, Rename, Renamed, Unlock, GpuTypeOK, At, Go, files, overlaps, Writing, Locations
  <1>11. CASE Published(c)
    BY <1>11 DEF Published, Rename, Renamed, GpuTypeOK, At, Go, files, overlaps, Writing, Locations
  <1>12. CASE GrantFails(c)
    BY <1>12, BeginType DEF GrantFails, GpuTypeOK, files, Writing, Locations
  <1>13. CASE ReleaseFails(c)
    BY <1>13 DEF ReleaseFails, Missing, Unlock, GpuTypeOK, At, Go, files, overlaps, Writing, Locations
  <1>14. CASE PublishFails(c)
    BY <1>14 DEF PublishFails, Missing, GpuTypeOK, At, Go, files, overlaps, Writing, Locations
  <1>15. CASE Infer(c)
    BY <1>15, BeginType DEF Infer, GpuTypeOK, files, Writing, Locations
  <1>16. CASE Crash(c)
    BY <1>16 DEF Crash, Unlock, GpuTypeOK, At, Go, files, overlaps, Writing, Locations
  <1>17. CASE InferDirect(c) \/ DirectEnds(c)
    BY <1>17 DEF InferDirect, DirectEnds, GpuTypeOK, At, Go, files, overlaps, Writing, Locations
  <1> QED
    BY <1>17, <1>1, <1>2, <1>3, <1>4, <1>5, <1>6, <1>7, <1>8, <1>9, <1>10, <1>11,
       <1>12, <1>13, <1>14, <1>15, <1>16 DEF ClientStep, WriteState

(* Every variable holds a value of its type in every reachable state. *)
THEOREM GpuTypeCorrect == Spec => []GpuTypeOK
  <1>1. Init => GpuTypeOK
    <2> SUFFICES ASSUME Init PROVE GpuTypeOK
      OBVIOUS
    <2>1. spoilt \in BOOLEAN
      BY DEF Init
    <2>2. \A c \in Clients : ~Writing(c)
      BY DEF Init, Writing
    <2> QED BY <2>1, <2>2, ContentType, ClientAssumption DEF Init, GpuTypeOK, Locations
  <1> QED BY <1>1, TypeStep, PTL DEF Spec

-----------------------------------------------------------------------------
(* Only the holder is inside: the lock is handed over when it is free, and  *)
(* given up on every way out, by an exception and by a crash too.           *)
LEMMA HolderStep ==
    ASSUME GpuTypeOK, HolderInside, [Next]_vars PROVE HolderInside'
  <1> USE ClientAssumption
  <1>0. CASE UNCHANGED vars
    BY <1>0 DEF HolderInside, Inside, Writing, vars
  <1> SUFFICES ASSUME NEW c \in Clients,
                      Request(c) \/ Publish(c) \/ InferDirect(c) \/ ClientStep(c) \/ Crash(c),
                      NEW d \in Clients, Inside(d)'
               PROVE  lock' = d
    BY <1>0 DEF Next, HolderInside
  <1>1. CASE Lock(c)
    BY <1>1 DEF Lock, GpuTypeOK, HolderInside, Inside, Writing, At, Go
  <1>2. CASE Released(c) \/ ReleaseFails(c)
    BY <1>2 DEF Released, ReleaseFails, Missing, Rename, Unlock, GpuTypeOK,
                HolderInside, Inside, Writing, At, Go
  <1>3. CASE Crash(c)
    BY <1>3 DEF Crash, Unlock, GpuTypeOK, HolderInside, Inside, Writing, At, Go
  <1>4. CASE \/ Request(c) \/ Publish(c) \/ Busy(c) \/ Again(c) \/ WaitTooLong(c) \/ ReadSlots(c)
             \/ InferDirect(c) \/ DirectEnds(c)
    BY <1>4 DEF Request, Publish, Busy, Again, WaitTooLong, ReadSlots, Begin, InferDirect, DirectEnds, GpuTypeOK,
                HolderInside, Inside, Writing, At, Go
  <1>5. CASE Read(c) \/ Open(c) \/ Write(c)
    BY <1>5 DEF Read, Open, Write, GpuTypeOK, HolderInside, Inside, Writing, At, Go
  <1>6. CASE Granted(c) \/ Published(c)
    BY <1>6 DEF Granted, Published, Rename, GpuTypeOK, HolderInside, Inside,
                Writing, At, Go
  <1>7. CASE GrantFails(c) \/ PublishFails(c)
    BY <1>7 DEF GrantFails, Begin, PublishFails, Missing, GpuTypeOK, HolderInside,
                Inside, Writing, At, Go
  <1>8. CASE Infer(c)
    BY <1>8 DEF Infer, Begin, GpuTypeOK, HolderInside, Inside, Writing, At, Go
  <1> QED
    BY <1>1, <1>2, <1>3, <1>4, <1>5, <1>6, <1>7, <1>8 DEF ClientStep, WriteState

(* Whoever infers or writes on behalf of an inference holds the flock. *)
THEOREM HoldersOnlyInside == Spec => []HolderInside
  <1>1. Init => HolderInside
    BY DEF Init, HolderInside, Inside, Writing
  <1>2. GpuTypeOK /\ HolderInside /\ [Next]_vars => HolderInside'
    BY HolderStep
  <1> QED BY <1>1, <1>2, GpuTypeCorrect, PTL DEF Spec

(* However many processes call the model, die, or write the state file      *)
(* without the lock: two inferences overlap only when one of them has been  *)
(* started around the lock.                                                 *)
THEOREM InferencesExclude == Spec => []LockedInferencesExclude
  <1>1. HolderInside => LockedInferencesExclude
    BY DEF HolderInside, LockedInferencesExclude, Inferring, Inside
  <1> QED BY <1>1, HoldersOnlyInside, PTL

-----------------------------------------------------------------------------
(* Every way out of the context manager gives the lock back: an exception   *)
(* in the finally clause and a death included.                              *)
LEMMA HoldersStep ==
    ASSUME GpuTypeOK, HoldersAreInside, [Next]_vars PROVE HoldersAreInside'
  <1> USE ClientAssumption
  <1>0. CASE UNCHANGED vars
    BY <1>0 DEF HoldersAreInside, Inside, Writing, vars
  <1> SUFFICES ASSUME NEW c \in Clients,
                      Request(c) \/ Publish(c) \/ InferDirect(c) \/ ClientStep(c) \/ Crash(c),
                      NEW d \in Clients, lock' = d
               PROVE  Inside(d)'
    BY <1>0 DEF Next, HoldersAreInside
  <1>1. CASE Lock(c)
    BY <1>1 DEF Lock, GpuTypeOK, Inside, At, Go
  <1>2. CASE Released(c) \/ ReleaseFails(c) \/ Crash(c)
    BY <1>2 DEF Released, ReleaseFails, Crash, Missing, Rename, Unlock, GpuTypeOK,
                HoldersAreInside, Inside, Writing, At, Go
  <1>3. CASE \/ Request(c) \/ Publish(c) \/ Busy(c) \/ Again(c) \/ WaitTooLong(c) \/ ReadSlots(c)
             \/ InferDirect(c) \/ DirectEnds(c)
    BY <1>3 DEF Request, Publish, Busy, Again, WaitTooLong, ReadSlots, Begin, InferDirect, DirectEnds, GpuTypeOK,
                HoldersAreInside, Inside, Writing, At, Go
  <1>4. CASE Read(c) \/ Open(c) \/ Write(c)
    BY <1>4 DEF Read, Open, Write, GpuTypeOK, HoldersAreInside, Inside, Writing, At, Go
  <1>5. CASE Granted(c) \/ Published(c)
    BY <1>5 DEF Granted, Published, Rename, GpuTypeOK, HoldersAreInside, Inside,
                Writing, At, Go
  <1>6. CASE GrantFails(c) \/ PublishFails(c) \/ Infer(c)
    BY <1>6 DEF GrantFails, Begin, PublishFails, Missing, Infer, GpuTypeOK, HoldersAreInside,
                Inside, Writing, At, Go
  <1> QED
    BY <1>1, <1>2, <1>3, <1>4, <1>5, <1>6 DEF ClientStep, WriteState

(* What a step of a client is to the slot: nothing that anyone could see,   *)
(* or one of the four things that can happen to a slot.                     *)
LEMMA SlotStep ==
    ASSUME GpuTypeOK, HolderInside, HoldersAreInside, [Next]_vars
    PROVE  [Slot!Next]_(Slot!slotVars)
  <1> DEFINE P == [c \in Clients |-> Phase(c)]
  <1> USE ClientAssumption
  <1>0. CASE UNCHANGED vars
    BY <1>0 DEF Slot!slotVars, Phase, Inside, Writing, vars
  <1> SUFFICES ASSUME NEW c \in Clients,
                      Request(c) \/ Publish(c) \/ InferDirect(c) \/ ClientStep(c) \/ Crash(c)
               PROVE  [Slot!Next]_(Slot!slotVars)
    BY <1>0 DEF Next
  <1>o. ASSUME NEW d \in Clients, d # c PROVE Phase(d)' = Phase(d)
    <2>1. pc[d]' = pc[d] /\ job[d]' = job[d]
      BY <1>o DEF GpuTypeOK, Request, Publish, ClientStep, Crash, Lock, Busy, Again,
           WaitTooLong, ReadSlots, WriteState, Read, Open, Write, Granted, Released,
           Published, GrantFails, ReleaseFails, PublishFails, Infer, Begin, InferDirect,
           DirectEnds, Go, files
    <2> QED BY <2>1 DEF Phase, Inside, Writing
  <1>p. P' = [P EXCEPT ![c] = Phase(c)']
    BY <1>o
  <1>i. Inside(c) <=> lock = c
    BY DEF HolderInside, HoldersAreInside
  <1>stay. ASSUME Phase(c)' = Phase(c), lock' = lock PROVE UNCHANGED Slot!slotVars
    BY <1>stay, <1>p DEF Slot!slotVars
  <1>1. CASE Request(c)
    <2>1. Phase(c) = "out" /\ Phase(c)' = "waiting" /\ lock' = lock
      BY <1>1 DEF Request, GpuTypeOK, Phase, Inside, Writing, At, Go
    <2>2. Slot!Ask(c)
      BY <2>1, <1>p DEF Slot!Ask, Slot!Becomes
    <2> QED BY <2>2 DEF Slot!Next
  <1>2. CASE Lock(c)
    <2>1. Phase(c) = "waiting" /\ Phase(c)' = "inside" /\ lock = Nobody /\ lock' = c
      BY <1>2 DEF Lock, GpuTypeOK, Phase, Inside, Writing, At, Go
    <2>2. Slot!Enter(c)
      BY <2>1, <1>p DEF Slot!Enter, Slot!Becomes
    <2> QED BY <2>2 DEF Slot!Next
  <1>3. CASE WaitTooLong(c)
    <2>1. Phase(c) = "waiting" /\ Phase(c)' = "out" /\ lock' = lock
      BY <1>3 DEF WaitTooLong, GpuTypeOK, Phase, Inside, Writing, At, Go
    <2>2. Slot!GiveUp(c)
      BY <2>1, <1>p DEF Slot!GiveUp, Slot!Becomes
    <2> QED BY <2>2 DEF Slot!Next
  <1>4. CASE Released(c) \/ ReleaseFails(c)
    <2>1. Inside(c) /\ Phase(c)' = "out" /\ lock' = Nobody
      BY <1>4, <1>i DEF Released, ReleaseFails, Missing, Rename, Unlock, GpuTypeOK,
                  Phase, Inside, Writing, At, Go
    <2>2. Slot!Leave(c)
      BY <2>1, <1>p, <1>i DEF Slot!Leave, Slot!Becomes, Phase
    <2> QED BY <2>2 DEF Slot!Next
  <1>5. CASE Crash(c)
    <2>1. Phase(c)' = "out"
      BY <1>5 DEF Crash, GpuTypeOK, Phase, Inside, Writing, Go
    <2>2. CASE Inside(c)
      <3>1. lock' = Nobody
        BY <1>5, <1>i, <2>2 DEF Crash, Unlock
      <3>2. Slot!Leave(c)
        BY <2>1, <2>2, <3>1, <1>p, <1>i DEF Slot!Leave, Slot!Becomes, Phase
      <3> QED BY <3>2 DEF Slot!Next
    <2>3. CASE ~Inside(c)
      <3>1. lock' = lock
        BY <1>5, <1>i, <2>3 DEF Crash, Unlock
      <3>2. CASE Phase(c) = "waiting"
        <4>1. Slot!GiveUp(c)
          BY <2>1, <3>1, <3>2, <1>p DEF Slot!GiveUp, Slot!Becomes
        <4> QED BY <4>1 DEF Slot!Next
      <3>3. CASE Phase(c) # "waiting"
        <4>1. Phase(c) = "out"
          BY <2>3, <3>3 DEF Phase
        <4> QED BY <2>1, <3>1, <4>1, <1>stay
      <3> QED BY <3>2, <3>3
    <2> QED BY <2>2, <2>3
  <1>6. CASE \/ Publish(c) \/ Busy(c) \/ Again(c) \/ ReadSlots(c) \/ Infer(c)
             \/ InferDirect(c) \/ DirectEnds(c)
    <2>1. Phase(c)' = Phase(c) /\ lock' = lock
      BY <1>6 DEF Publish, Busy, Again, ReadSlots, Infer, Begin, InferDirect, DirectEnds, GpuTypeOK, Phase, Inside,
                  Writing, At, Go
    <2> QED BY <2>1, <1>stay
  <1>7. CASE Read(c) \/ Open(c) \/ Write(c)
    <2>1. Phase(c)' = Phase(c) /\ lock' = lock
      BY <1>7 DEF Read, Open, Write, GpuTypeOK, Phase, Inside, Writing, At, Go
    <2> QED BY <2>1, <1>stay
  <1>8. CASE Granted(c) \/ Published(c) \/ GrantFails(c) \/ PublishFails(c)
    <2>1. Phase(c)' = Phase(c) /\ lock' = lock
      BY <1>8 DEF Granted, Published, GrantFails, Begin, PublishFails, Missing, Rename,
                  GpuTypeOK, Phase, Inside, Writing, At, Go
    <2> QED BY <2>1, <1>stay
  <1> QED
    BY <1>1, <1>2, <1>3, <1>4, <1>5, <1>6, <1>7, <1>8 DEF ClientStep, WriteState

(* The arbiter implements the slot: whatever the files do, processes enter  *)
(* the language model one at a time and leave with the lock given back.     *)
(* This is the safety half of ImplementsSlot; its fairness stays with TLC.  *)
THEOREM ArbiterIsOneSlot == Spec => Slot!Spec
  <1>1. Init => Slot!Init
    BY DEF Init, Slot!Init, Phase, Inside, Writing
  <1>2. Init => HoldersAreInside
    BY ClientAssumption DEF Init, HoldersAreInside
  <1>3. GpuTypeOK /\ HoldersAreInside /\ [Next]_vars => HoldersAreInside'
    BY HoldersStep
  <1>4. GpuTypeOK /\ HolderInside /\ HoldersAreInside /\ [Next]_vars => [Slot!Next]_(Slot!slotVars)
    BY SlotStep
  <1> QED BY <1>1, <1>2, <1>3, <1>4, GpuTypeCorrect, HoldersOnlyInside, PTL DEF Spec, Slot!Spec

-----------------------------------------------------------------------------
(* What overlaps.  A call of write_state that crosses nothing is alone:     *)
(* two writers of which none publishes are both inside.                     *)
LEMMA UncrossedAlone ==
    ASSUME GpuTypeOK, HolderInside, NEW c \in Clients, NEW why \in {"grant", "release", "publish"},
           why # "publish" => Inside(c), ~Crosses(c, why)
    PROVE  Others(c) = {}
  <1> SUFFICES ASSUME NEW d \in Others(c) PROVE FALSE
    OBVIOUS
  <1>1. d \in Clients /\ d # c /\ Writing(d)
    BY DEF Others
  <1>2. why # "publish" /\ job[d] # "publish"
    BY <1>1 DEF Crosses
  <1>3. Inside(d)
    BY <1>1, <1>2 DEF Inside, GpuTypeOK
  <1> QED BY <1>1, <1>2, <1>3 DEF HolderInside

(* The calls of write_state, and who makes them. *)
Begins(c) == \E why \in {"grant", "release", "publish"} :
    /\ Begin(c, why) /\ UNCHANGED files
    /\ why # "publish" => Inside(c)
    /\ Writing(c) => Inside(c)

(* The other steps begin no write. *)
Goes(c) ==
    /\ UNCHANGED overlaps
    /\ \A d \in Clients \ {c} : pc'[d] = pc[d] /\ job'[d] = job[d]
    /\ Writing(c)' => Writing(c) /\ job'[c] = job[c]
    /\ pc'[c] = "infer" => Writing(c) /\ job[c] = "grant"

LEMMA StepBegins ==
    ASSUME GpuTypeOK, NEW c \in Clients,
           Publish(c) \/ ReadSlots(c) \/ GrantFails(c) \/ Infer(c)
    PROVE  Begins(c)
  <1>1. CASE Publish(c)
    BY <1>1 DEF Publish, Begins, At, Writing
  <1>2. CASE ReadSlots(c)
    BY <1>2 DEF ReadSlots, Begins, At, Writing, Inside
  <1>3. CASE GrantFails(c)
    BY <1>3 DEF GrantFails, Missing, Begins, At, Writing, Inside
  <1>4. CASE Infer(c)
    BY <1>4 DEF Infer, Begins, At, Writing, Inside
  <1> QED BY <1>1, <1>2, <1>3, <1>4

LEMMA StepGoes ==
    ASSUME GpuTypeOK, NEW c \in Clients,
           \/ Request(c) \/ InferDirect(c) \/ Crash(c) \/ Lock(c) \/ Busy(c) \/ Again(c)
           \/ WaitTooLong(c) \/ DirectEnds(c) \/ Read(c) \/ Open(c) \/ Write(c) \/ Granted(c)
           \/ Released(c) \/ Published(c) \/ ReleaseFails(c) \/ PublishFails(c)
    PROVE  Goes(c)
  <1>1. CASE Request(c) \/ InferDirect(c) \/ Crash(c) \/ Lock(c) \/ Busy(c) \/ Again(c)
    BY <1>1 DEF Request, InferDirect, Crash, Lock, Busy, Again, Goes, At, Go, Writing, GpuTypeOK
  <1>2. CASE WaitTooLong(c) \/ DirectEnds(c) \/ Read(c) \/ Open(c) \/ Write(c)
    BY <1>2 DEF WaitTooLong, DirectEnds, Read, Open, Write, Goes, At, Go, Writing, GpuTypeOK
  <1>3. CASE Granted(c)
    BY <1>3 DEF Granted, Rename, Goes, At, Go, Writing, GpuTypeOK
  <1>4. CASE Released(c) \/ Published(c) \/ ReleaseFails(c) \/ PublishFails(c)
    BY <1>4 DEF Released, Published, ReleaseFails, PublishFails, Rename, Missing, Goes, At, Go,
                Writing, GpuTypeOK
  <1> QED BY <1>1, <1>2, <1>3, <1>4

LEMMA BeginOrGo ==
    ASSUME GpuTypeOK, NEW c \in Clients,
           Request(c) \/ Publish(c) \/ InferDirect(c) \/ ClientStep(c) \/ Crash(c)
    PROVE  Begins(c) \/ Goes(c)
  BY StepBegins, StepGoes DEF ClientStep, WriteState

(* A descriptor is open between Open and Write only. *)
LEMMA ClosedStep ==
    ASSUME GpuTypeOK, NEW c \in Clients,
           Request(c) \/ Publish(c) \/ InferDirect(c) \/ ClientStep(c) \/ Crash(c),
           \A d \in Clients : pc[d] # "write" => fd[d] = "closed",
           NEW d \in Clients, pc'[d] # "write"
    PROVE  fd'[d] = "closed"
  <1>1. CASE Publish(c) \/ ReadSlots(c) \/ GrantFails(c) \/ Infer(c)
    <2>1. UNCHANGED fd /\ pc' = [pc EXCEPT ![c] = "read"] /\ pc[c] # "write"
      BY <1>1 DEF Publish, ReadSlots, GrantFails, Missing, Infer, Begin, Go, At, files
    <2> QED BY <2>1 DEF GpuTypeOK
  <1>2. CASE \/ Request(c) \/ InferDirect(c) \/ Lock(c) \/ Busy(c) \/ Again(c) \/ WaitTooLong(c)
             \/ DirectEnds(c) \/ Read(c) \/ ReleaseFails(c) \/ PublishFails(c)
    BY <1>2 DEF Request, InferDirect, Lock, Busy, Again, WaitTooLong, DirectEnds, Read, ReleaseFails,
                PublishFails, Missing, Go, At, files, GpuTypeOK
  <1>3. CASE Open(c) \/ Write(c) \/ Crash(c)
    BY <1>3 DEF Open, Write, Crash, Go, At, GpuTypeOK
  <1>4. CASE Granted(c) \/ Released(c) \/ Published(c)
    BY <1>4 DEF Granted, Released, Published, Rename, Renamed, Go, At, GpuTypeOK
  <1> QED BY <1>1, <1>2, <1>3, <1>4 DEF ClientStep, WriteState

LEMMA ApartStep ==
    ASSUME GpuTypeOK, HolderInside, Apart, NEW c \in Clients,
           Request(c) \/ Publish(c) \/ InferDirect(c) \/ ClientStep(c) \/ Crash(c)
    PROVE  Apart'
  <1>1. \A d \in Clients : pc'[d] # "write" => fd'[d] = "closed"
    BY ClosedStep DEF Apart
  <1>2. CASE Begins(c)
    <2>1. PICK why \in {"grant", "release", "publish"} :
             Begin(c, why) /\ (why # "publish" => Inside(c)) /\ (Writing(c) => Inside(c))
      BY <1>2 DEF Begins
    <2>2. pc' = [pc EXCEPT ![c] = "read"] /\ job' = [job EXCEPT ![c] = why]
      BY <2>1, BeginType
    <2>3. \A d \in Clients \ {c} : Writing(d)' <=> Writing(d)
      BY <2>2 DEF Writing, GpuTypeOK
    <2>4. CASE Crosses(c, why)
      <3>1. crossed' = crossed \cup {c} \cup Others(c) \cup {d \in Clients : Inside(d)} /\ spoilt'
        BY <2>1, <2>4 DEF Begin
      <3>2. ASSUME NEW d \in Clients \ crossed', Writing(d)' PROVE FALSE
        <4>1. d # c /\ Writing(d)
          BY <2>3, <3>1, <3>2
        <4> QED BY <3>1, <3>2, <4>1 DEF Others
      <3>3. ASSUME NEW d \in Clients, pc'[d] = "infer" PROVE d \in crossed'
        <4>1. pc[d] = "infer"
          BY <2>2, <3>3 DEF GpuTypeOK
        <4> QED BY <3>1, <4>1 DEF Inside
      <3> QED BY <1>1, <3>1, <3>2, <3>3 DEF Apart
    <2>5. CASE ~Crosses(c, why)
      <3>1. crossed' = crossed \ {c} /\ spoilt' = spoilt
        BY <2>1, <2>5 DEF Begin
      <3>2. Others(c) = {}
        BY <2>1, <2>5, UncrossedAlone
      <3>3. \A d \in Clients \ {c} : ~Writing(d)'
        BY <2>3, <3>2 DEF Others
      <3>4. \A d \in Clients \ crossed' : Writing(d)' => Others(d)' = {}
        BY <3>3 DEF Others
      <3>5. \A d \in crossed' : ~Writing(d)'
        BY <3>1, <3>3 DEF GpuTypeOK
      <3>6. crossed' # {} => spoilt'
        BY <3>1 DEF Apart
      <3> QED BY <1>1, <3>4, <3>5, <3>6 DEF Apart
    <2> QED BY <2>4, <2>5
  <1>3. CASE Goes(c)
    <2>1. crossed' = crossed /\ spoilt' = spoilt
      BY <1>3 DEF Goes, overlaps
    <2>2. \A d \in Clients : Writing(d)' => Writing(d)
      BY <1>3 DEF Goes, Writing
    <2>3. \A d \in Clients \ crossed' : Writing(d)' => Others(d)' = {}
      BY <2>1, <2>2 DEF Apart, Others
    <2>4. ASSUME NEW d \in crossed', NEW e \in Clients, Writing(d)', pc'[e] = "infer"
          PROVE  e \in crossed'
      <3>0. d \in Clients /\ Writing(d)
        BY <2>1, <2>2, <2>4 DEF GpuTypeOK
      <3>1. CASE pc[e] = "infer"
        BY <2>1, <2>4, <3>0, <3>1 DEF Apart
      <3>2. CASE pc[e] # "infer"
        <4>1. e = c /\ Writing(c)
          BY <1>3, <2>4, <3>2 DEF Goes
        <4>2. d # e
          BY <2>4 DEF Writing
        <4>3. d \in Others(e)
          BY <3>0, <4>2 DEF Others
        <4> QED BY <2>1, <4>1, <4>3 DEF Apart
      <3> QED BY <3>1, <3>2
    <2>5. crossed' # {} => spoilt'
      BY <2>1 DEF Apart
    <2> QED BY <1>1, <2>3, <2>4, <2>5 DEF Apart
  <1> QED BY <1>2, <1>3, BeginOrGo

-----------------------------------------------------------------------------

(* A step of one client leaves the others where they are. *)
LEMMA OthersStay ==
    ASSUME GpuTypeOK, NEW c \in Clients, Request(c) \/ Publish(c) \/ InferDirect(c) \/ ClientStep(c) \/ Crash(c),
           NEW d \in Clients, d # c
    PROVE  /\ pc'[d] = pc[d] /\ job'[d] = job[d] /\ cur'[d] = cur[d]
           /\ slots'[d] = slots[d] /\ result'[d] = result[d]
           /\ d \in crossed => d \in crossed'
           /\ spoilt => spoilt'
  <1>1. CASE Publish(c) \/ ReadSlots(c) \/ GrantFails(c) \/ Infer(c)
    BY <1>1 DEF Publish, ReadSlots, GrantFails, Infer, Begin, Go, GpuTypeOK
  <1>2. CASE ~(Publish(c) \/ ReadSlots(c) \/ GrantFails(c) \/ Infer(c))
    BY <1>2 DEF GpuTypeOK, Request, InferDirect, DirectEnds, ClientStep, Crash, Lock, Busy, Again,
           WaitTooLong, WriteState, Read, Open, Write, Granted, Released,
           Published, ReleaseFails, PublishFails, Go, overlaps
  <1> QED BY <1>1, <1>2

(* Only write_state touches the files, and only a grant counts. *)
LEMMA OnlyWritersWrite ==
    ASSUME GpuTypeOK, NEW c \in Clients, Request(c) \/ Publish(c) \/ InferDirect(c) \/ ClientStep(c) \/ Crash(c), ~Writing(c)
    PROVE  /\ UNCHANGED <<state, tmp, granted>>
           /\ \A d \in Clients \ {c} : fd'[d] = fd[d]
  BY DEF GpuTypeOK, Request, Publish, InferDirect, DirectEnds, ClientStep, Crash, Lock, Busy, Again,
         WaitTooLong, ReadSlots, WriteState, Read, Open, Write, Granted, Released, Published, Rename,
         GrantFails, ReleaseFails, PublishFails, Missing, Infer, files, At, Writing

(* What an undisturbed writer makes of the state file: nothing, until it    *)
(* renames what it has in hand.                                             *)
LEMMA StateBecomes ==
    ASSUME GpuTypeOK, NEW c \in Clients, ClientInOrder(c), Writing(c), Request(c) \/ Publish(c) \/ InferDirect(c) \/ ClientStep(c) \/ Crash(c)
    PROVE  \/ UNCHANGED <<state, granted>>
           \/ /\ pc[c] = "replace" /\ state' = cur[c]
              /\ granted' = IF job[c] = "grant" THEN granted + 1 ELSE granted
  <1>1. CASE Granted(c) \/ Released(c) \/ Published(c)
    BY <1>1 DEF Granted, Released, Published, Rename, ClientInOrder, At
  <1>2. CASE Write(c)
    BY <1>2 DEF Write, ClientInOrder, At
  <1>3. CASE \/ Read(c) \/ Open(c) \/ GrantFails(c) \/ ReleaseFails(c) \/ PublishFails(c) \/ Crash(c)
    BY <1>3 DEF Read, Open, GrantFails, ReleaseFails, PublishFails, Crash, files
  <1> QED
    BY <1>1, <1>2, <1>3 DEF Writing, Request, Publish, InferDirect, DirectEnds, ClientStep,
       WriteState, Lock, Busy, Again, WaitTooLong, ReadSlots, Infer, At

(* The others stay in order: no one else writes while an undisturbed client *)
(* does, and who publishes during an inference puts back what was there.    *)
LEMMA OthersInOrder ==
    ASSUME GpuTypeOK, HolderInside, FileInOrder, NEW c \in Clients, Request(c) \/ Publish(c) \/ InferDirect(c) \/ ClientStep(c) \/ Crash(c),
           NEW d \in Clients \ crossed', d # c
    PROVE  ClientInOrder(d)'
  <1>0. d \in Clients \ crossed /\ pc'[d] = pc[d] /\ job'[d] = job[d] /\ cur'[d] = cur[d]
    BY OthersStay
  <1>1. ClientInOrder(d)
    BY <1>0 DEF FileInOrder
  <1>2. CASE ~Writing(c)
    BY <1>0, <1>1, <1>2, OnlyWritersWrite DEF ClientInOrder
  <1>3. CASE Writing(c)
    <2>1. ~Writing(d)
      BY <1>0, <1>3 DEF FileInOrder, Apart, Others
    <2>2. CASE pc[d] = "infer"
      <3>1. job[c] = "publish"
        BY <1>0, <1>3, <2>2 DEF HolderInside, Inside, GpuTypeOK
      <3>2. ClientInOrder(c)
        BY <1>0, <1>3, <2>2 DEF FileInOrder, Apart
      <3>3. state.kind = "json" /\ state.holder = d
        BY <1>1, <2>2 DEF ClientInOrder
      <3>4. pc[c] = "replace" => cur[c].kind = "json" /\ cur[c].holder = d
        BY <3>1, <3>2, <3>3 DEF ClientInOrder, Parsed
      <3>5. state'.kind = "json" /\ state'.holder = d
        BY <1>3, <3>2, <3>3, <3>4, StateBecomes
      <3> QED BY <1>0, <2>2, <3>5 DEF ClientInOrder
    <2>3. CASE pc[d] # "infer"
      BY <1>0, <2>1, <2>3 DEF ClientInOrder, Writing
    <2> QED BY <2>2, <2>3
  <1> QED BY <1>2, <1>3

(* And so does the client itself. *)
LEMMA OwnInOrder ==
    ASSUME GpuTypeOK, FileInOrder, NEW c \in Clients \ crossed', Request(c) \/ Publish(c) \/ InferDirect(c) \/ ClientStep(c) \/ Crash(c)
    PROVE  ClientInOrder(c)'
  <1>1. CASE Publish(c) \/ ReadSlots(c) \/ GrantFails(c) \/ Infer(c)
    <2>1. pc'[c] = "read"
      BY <1>1 DEF Publish, ReadSlots, GrantFails, Infer, Begin, Go, GpuTypeOK
    <2> QED BY <2>1 DEF ClientInOrder
  <1>2. CASE \/ Request(c) \/ InferDirect(c) \/ Lock(c) \/ Busy(c) \/ Again(c) \/ WaitTooLong(c)
             \/ DirectEnds(c) \/ Released(c) \/ Published(c) \/ ReleaseFails(c) \/ PublishFails(c)
             \/ Crash(c)
    <2>1. pc'[c] \in {"idle", "wait", "locked", "asleep", "direct"}
      BY <1>2 DEF Request, InferDirect, Lock, Busy, Again, WaitTooLong, DirectEnds, Released,
                  Published, ReleaseFails, PublishFails, Crash, Go, GpuTypeOK
    <2> QED BY <2>1 DEF ClientInOrder
  <1>3. CASE Read(c) \/ Open(c) \/ Write(c) \/ Granted(c)
    <2>0. ClientInOrder(c)
      BY <1>3 DEF Read, Open, Write, Granted, overlaps, FileInOrder
    <2>1. CASE Read(c)
      <3>1. /\ cur'[c] = Patched(c, Parsed(state)) /\ pc'[c] = "open"
            /\ UNCHANGED <<job, state>>
        BY <2>1 DEF Read, Go, GpuTypeOK, files
      <3>2. Parsed(state) \in Content /\ Parsed(state).kind = "json"
        BY ContentType DEF GpuTypeOK
      <3>3. /\ cur'[c].kind = "json"
            /\ job[c] = "grant" => cur'[c].holder = c
            /\ job[c] = "publish" => cur'[c] = Parsed(state)
        BY <3>1, <3>2, PatchType DEF GpuTypeOK
      <3> QED BY <3>1, <3>3 DEF ClientInOrder
    <2>2. CASE Open(c)
      BY <2>0, <2>2 DEF Open, ClientInOrder, GpuTypeOK, Unreadable, At, Go
    <2>3. CASE Write(c)
      BY <2>0, <2>3 DEF Write, Written, ClientInOrder, GpuTypeOK, At, Go
    <2>4. CASE Granted(c)
      BY <2>0, <2>4 DEF Granted, Rename, ClientInOrder, GpuTypeOK, At, Go
    <2> QED BY <1>3, <2>1, <2>2, <2>3, <2>4
  <1> QED BY <1>1, <1>2, <1>3 DEF ClientStep, WriteState

(* Until an overlap, the file says how many grants there were, and every    *)
(* writer has the right number in hand.                                     *)
LEMMA CountStep ==
    ASSUME GpuTypeOK, FileInOrder, NEW c \in Clients, Request(c) \/ Publish(c) \/ InferDirect(c) \/ ClientStep(c) \/ Crash(c), ~spoilt'
    PROVE  (Parsed(state).slots = granted)' /\ \A d \in Clients : CountInOrder(d)'
  <1>0. /\ ~spoilt /\ \A d \in Clients : d \notin crossed
    <2>1. ~spoilt
      <3>1. CASE Publish(c) \/ ReadSlots(c) \/ GrantFails(c) \/ Infer(c)
        BY <3>1 DEF Publish, ReadSlots, GrantFails, Infer, Begin
      <3>2. CASE ~(Publish(c) \/ ReadSlots(c) \/ GrantFails(c) \/ Infer(c))
        BY <3>2 DEF Request, InferDirect, DirectEnds, ClientStep, Crash, Lock, Busy, Again,
           WaitTooLong, WriteState, Read, Open, Write, Granted, Released,
           Published, ReleaseFails, PublishFails, overlaps
      <3> QED BY <3>1, <3>2
    <2> QED BY <2>1 DEF FileInOrder, Apart
  <1>1. /\ Parsed(state).slots = granted
        /\ \A d \in Clients : CountInOrder(d) /\ ClientInOrder(d)
    BY <1>0 DEF FileInOrder
  <1>2. (Parsed(state).slots = granted)'
    <2>1. CASE ~Writing(c)
      BY <1>1, <2>1, OnlyWritersWrite
    <2>2. CASE Writing(c)
      <3>1. pc[c] = "replace" =>
              /\ cur[c].kind = "json"
              /\ cur[c].slots = IF job[c] = "grant" THEN granted + 1 ELSE granted
        BY <1>1 DEF CountInOrder, ClientInOrder
      <3> QED BY <1>1, <2>2, <3>1, StateBecomes DEF Parsed
    <2> QED BY <2>1, <2>2
  <1>3. ASSUME NEW d \in Clients, d # c PROVE CountInOrder(d)'
    <2>0. /\ pc'[d] = pc[d] /\ job'[d] = job[d] /\ cur'[d] = cur[d] /\ slots'[d] = slots[d]
      BY <1>3, OthersStay
    <2>1. CASE Writing(d)
      <3>1. ~Writing(c)
        BY <1>0, <1>3, <2>1 DEF FileInOrder, Apart, Others
      <3> QED BY <1>1, <2>0, <3>1, OnlyWritersWrite DEF CountInOrder, Writing
    <2>2. CASE ~Writing(d)
      BY <2>0, <2>2 DEF CountInOrder, Writing
    <2> QED BY <2>1, <2>2
  <1>4. CountInOrder(c)'
    <2>0. CountInOrder(c) /\ ClientInOrder(c)
      BY <1>1
    <2>1. CASE ReadSlots(c)
      BY <1>1, <2>1 DEF ReadSlots, Begin, Go, GpuTypeOK, CountInOrder
    <2>2. CASE Publish(c) \/ GrantFails(c) \/ Infer(c)
      <3>1. pc'[c] = "read" /\ job'[c] # "grant"
        BY <2>2 DEF Publish, GrantFails, Infer, Begin, Go, GpuTypeOK
      <3> QED BY <3>1 DEF CountInOrder
    <2>3. CASE Read(c)
      <3>1. /\ cur'[c] = Patched(c, Parsed(state)) /\ pc[c] = "read"
            /\ UNCHANGED <<job, slots, granted>>
        BY <2>3 DEF Read, At, GpuTypeOK
      <3>2. Parsed(state) \in Content
        BY ContentType DEF GpuTypeOK
      <3>3. cur'[c].slots = IF job[c] = "grant" THEN slots[c] ELSE granted
        BY <1>1, <3>1, <3>2, PatchType DEF GpuTypeOK
      <3> QED BY <2>0, <3>1, <3>3 DEF CountInOrder, Writing
    <2>4. CASE Open(c) \/ Write(c)
      BY <2>0, <2>4 DEF Open, Write, CountInOrder, Writing, GpuTypeOK, At
    <2>5. CASE \/ Request(c) \/ InferDirect(c) \/ Lock(c) \/ Busy(c) \/ Again(c) \/ WaitTooLong(c)
               \/ DirectEnds(c) \/ Granted(c) \/ Released(c) \/ Published(c) \/ ReleaseFails(c)
               \/ PublishFails(c) \/ Crash(c)
      <3>1. ~Writing(c)'
        BY <2>5 DEF Request, InferDirect, Lock, Busy, Again, WaitTooLong, DirectEnds, Granted, Released,
                    Published, ReleaseFails, PublishFails, Crash, Go, GpuTypeOK, Writing
      <3> QED BY <3>1 DEF CountInOrder, Writing
    <2> QED BY <2>1, <2>2, <2>3, <2>4, <2>5 DEF ClientStep, WriteState
  <1> QED BY <1>2, <1>3, <1>4

(* An answer is in the caller's hand, or its release is being noted. *)
LEMMA AnswerStep ==
    ASSUME GpuTypeOK, NEW c \in Clients, AnswerInOrder(c), Request(c) \/ Publish(c) \/ InferDirect(c) \/ ClientStep(c) \/ Crash(c)
    PROVE  AnswerInOrder(c)'
  <1>1. CASE Infer(c) \/ DirectEnds(c)
    BY <1>1 DEF Infer, DirectEnds, Begin, Go, GpuTypeOK, AnswerInOrder, Writing
  <1>2. CASE \/ Request(c) \/ InferDirect(c) \/ WaitTooLong(c) \/ GrantFails(c) \/ ReleaseFails(c)
             \/ Crash(c)
    BY <1>2 DEF Request, InferDirect, WaitTooLong, GrantFails, ReleaseFails, Crash, GpuTypeOK,
                AnswerInOrder
  <1>3. CASE Publish(c)
    BY <1>3 DEF Publish, Begin, At, Go, GpuTypeOK, AnswerInOrder, Writing
  <1>4. CASE Lock(c) \/ Busy(c) \/ Again(c) \/ ReadSlots(c)
    BY <1>4 DEF Lock, Busy, Again, ReadSlots, At, GpuTypeOK, AnswerInOrder, Writing
  <1>5. CASE Read(c) \/ Open(c) \/ Write(c)
    BY <1>5 DEF Read, Open, Write, At, Go, GpuTypeOK, AnswerInOrder, Writing
  <1>6. CASE Granted(c) \/ Released(c) \/ Published(c) \/ PublishFails(c)
    BY <1>6 DEF Granted, Released, Published, PublishFails, Missing, Rename, At, Go, GpuTypeOK,
                AnswerInOrder, Writing
  <1> QED BY <1>1, <1>2, <1>3, <1>4, <1>5, <1>6 DEF ClientStep, WriteState

(* Nothing but a publication that cuts across a write puts the files out of *)
(* order.                                                                   *)
LEMMA FileStaysInOrder == Spec => []FileInOrder
  <1>1. Init => FileInOrder
    BY DEF Init, FileInOrder, Apart, Others, ClientInOrder, CountInOrder, AnswerInOrder, Writing,
           Parsed, Default, Unreadable
  <1>2. GpuTypeOK /\ HolderInside /\ FileInOrder /\ [Next]_vars => FileInOrder'
    <2> SUFFICES ASSUME GpuTypeOK, HolderInside, FileInOrder, [Next]_vars
                 PROVE  FileInOrder'
      OBVIOUS
    <2>1. CASE UNCHANGED vars
      BY <2>1 DEF FileInOrder, Apart, Others, ClientInOrder, CountInOrder, AnswerInOrder, Writing,
         vars, files, overlaps
    <2>2. ASSUME NEW c \in Clients, Request(c) \/ Publish(c) \/ InferDirect(c) \/ ClientStep(c) \/ Crash(c)
          PROVE  FileInOrder'
      <3>1. Apart'
        BY <2>2, ApartStep DEF FileInOrder
      <3>2. \A d \in Clients \ crossed' : ClientInOrder(d)'
        BY <2>2, OwnInOrder, OthersInOrder
      <3>3. ~spoilt' => (Parsed(state).slots = granted)' /\ \A d \in Clients : CountInOrder(d)'
        BY <2>2, CountStep
      <3>4. ASSUME NEW d \in Clients PROVE AnswerInOrder(d)'
        <4>0. AnswerInOrder(d)
          BY DEF FileInOrder
        <4>1. CASE d = c
          BY <2>2, <4>0, <4>1, AnswerStep
        <4>2. CASE d # c
          BY <2>2, <4>0, <4>2, OthersStay DEF AnswerInOrder, Writing
        <4> QED BY <4>1, <4>2
      <3> QED BY <3>1, <3>2, <3>3, <3>4 DEF FileInOrder
    <2> QED BY <2>1, <2>2 DEF Next
  <1> QED BY <1>1, <1>2, GpuTypeCorrect, HoldersOnlyInside, PTL DEF Spec

(* The state file tells the truth, whatever the drain publishes: it names   *)
(* the client that infers (acquire_gpu_inference, write_state), unless a    *)
(* publication was under way while that client, or while another            *)
(* publication, wrote.                                                      *)
THEOREM HolderIsNamed == Spec => []StateNamesHolder
  <1>1. FileInOrder => StateNamesHolder
    BY DEF FileInOrder, ClientInOrder, StateNamesHolder
  <1> QED BY <1>1, FileStaysInOrder, PTL

(* And its slot counter counts until the first such overlap: no acquisition *)
(* is lost, and none is counted twice, whoever dies half-way through        *)
(* write_state or publishes between the writes of the others.               *)
THEOREM GrantsAreCounted == Spec => []SlotsCountGrants
  <1>1. FileInOrder => SlotsCountGrants
    BY DEF FileInOrder, SlotsCountGrants
  <1> QED BY <1>1, FileStaysInOrder, PTL

(* And an answer of the model is turned into an error on the way out only   *)
(* when a publication runs into the very write that notes the release.      *)
THEOREM NoAnswerIsLost == Spec => AnswersAreKept
  <1>1. ASSUME GpuTypeOK, FileInOrder, Next, NEW c \in Clients, result[c] = "answer",
               result'[c] = "error"
        PROVE  c \in crossed
    <2>0. AnswerInOrder(c)
      BY <1>1 DEF FileInOrder
    <2>1. PICK d \in Clients : Request(d) \/ Publish(d) \/ InferDirect(d) \/ ClientStep(d) \/ Crash(d)
      BY <1>1 DEF Next
    <2>2. d = c
      BY <1>1, <2>1, OthersStay
    <2>3. ~(WaitTooLong(c) \/ GrantFails(c) \/ Infer(c))
      BY <1>1, <2>0 DEF AnswerInOrder, Writing, WaitTooLong, GrantFails, Missing, Infer, At
    <2>4. ~DirectEnds(c)
      BY <1>1, <2>0 DEF AnswerInOrder, Writing, DirectEnds, At
    <2>5. ReleaseFails(c)
      BY <1>1, <2>1, <2>2, <2>3, <2>4 DEF GpuTypeOK, Request, Publish, InferDirect, ClientStep,
         Crash, Lock, Busy, Again, ReadSlots, WriteState, Read, Open, Write, Granted, Released,
         Published, PublishFails
    <2>6. pc[c] = "replace" /\ tmp.kind = "absent"
      BY <2>5 DEF ReleaseFails, Missing, At
    <2> QED BY <1>1, <2>6 DEF FileInOrder, ClientInOrder
  <1>2. GpuTypeOK /\ FileInOrder /\ [Next]_vars =>
          [\A c \in Clients : result[c] = "answer" /\ result'[c] = "error" => c \in crossed]_vars
    BY <1>1
  <1> QED BY <1>2, GpuTypeCorrect, FileStaysInOrder, PTL DEF Spec, AnswersAreKept
=============================================================================
