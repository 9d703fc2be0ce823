------------------------------ MODULE RunSlot ------------------------------
(***************************************************************************)
(* What a runner promises that does one piece of work at a time and turns  *)
(* away who asks meanwhile: a user finds the slot free and takes it, and   *)
(* the flag that the others are turned away by is set exactly while it is  *)
(* taken.  The slot is never handed over: between two users it is free.    *)
(***************************************************************************)
CONSTANT Users

VARIABLES
  inside, \* the users that have the slot
  busy    \* the flag

slot == <<inside, busy>>

Init == inside = {} /\ busy = FALSE

Take(u) ==
  /\ inside = {} /\ ~busy
  /\ inside' = {u} /\ busy' = TRUE

Leave(u) ==
  /\ inside = {u}
  /\ inside' = {} /\ busy' = FALSE

Next == \E u \in Users : Take(u) \/ Leave(u)

Spec == Init /\ [][Next]_slot
============================================================================
