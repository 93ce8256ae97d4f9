------------------------------- MODULE GpuSlot -------------------------------
(***************************************************************************)
(* What the GPU arbiter promises its callers, whatever files and locks it  *)
(* is made of: one slot.  A process asks for it, waits, has it for itself  *)
(* or gives up, and leaves it, if only by dying.                           *)
(***************************************************************************)
CONSTANTS Clients, Nobody

VARIABLES
    phase,  \* where each process stands with the slot
    holder  \* who has it

slotVars == <<phase, holder>>

Init ==
    /\ phase = [c \in Clients |-> "out"]
    /\ holder = Nobody

Becomes(c, p) == phase' = [phase EXCEPT ![c] = p]

Ask(c) == phase[c] = "out" /\ Becomes(c, "waiting") /\ UNCHANGED holder

GiveUp(c) == phase[c] = "waiting" /\ Becomes(c, "out") /\ UNCHANGED holder

Enter(c) ==
    /\ phase[c] = "waiting" /\ holder = Nobody
    /\ Becomes(c, "inside") /\ holder' = c

Leave(c) ==
    /\ phase[c] = "inside" /\ holder = c
    /\ Becomes(c, "out") /\ holder' = Nobody

Next == \E c \in Clients : Ask(c) \/ GiveUp(c) \/ Enter(c) \/ Leave(c)

Spec == Init /\ [][Next]_slotVars

(* Nobody waits for ever and nobody keeps the slot for ever.                *)
FairSpec ==
    /\ Spec
    /\ \A c \in Clients : WF_slotVars(GiveUp(c) \/ Enter(c)) /\ WF_slotVars(Leave(c))
=============================================================================
