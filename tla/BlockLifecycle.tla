--------------------------- MODULE BlockLifecycle ---------------------------
(***************************************************************************)
(* What SNMPpp promises about memory, with no PDUs, lists or objects in    *)
(* it.  A block is free, held (the client has a way to reach it) or lost   *)
(* (allocated, and nobody can free it any more).  Each step is one call,   *)
(* which may allocate and free any number of blocks, but                   *)
(*   - never loses a block the client held before the call;                *)
(*   - loses a block it allocated itself only when it ends with an         *)
(*     exception;                                                          *)
(*   - never touches a block that was lost.                                *)
(***************************************************************************)
CONSTANT Blocks

VARIABLES
  held, lost,   \* the blocks in these two states; the others are free
  threw         \* the last call ended with an exception

Init == held = {} /\ lost = {} /\ threw = FALSE

Call ==
  /\ held' \in SUBSET Blocks
  /\ lost' \in SUBSET Blocks
  /\ threw' \in BOOLEAN
  /\ lost \subseteq lost'
  /\ lost' \cap (held \cup held') = {}
  /\ lost' # lost => threw'

Spec == Init /\ [][Call]_<<held, lost, threw>>
=============================================================================
