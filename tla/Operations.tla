----------------------------- MODULE Operations -----------------------------
(***************************************************************************)
(* The processes of the machine: the units that the timers start (Batch)   *)
(* and the API server, whose threads pace their requests (Pacing).  They   *)
(* share no state, so that a behaviour of both is one of either with the   *)
(* other standing still.                                                   *)
(***************************************************************************)
EXTENDS Batch, Pacing

VARIABLE moving

vars == <<moving, batchVars, paceVars>>

Init == BatchInit /\ PaceInit /\ moving \in {"timers", "server"}

Next ==
  /\ \/ moving = "timers" /\ BatchNext /\ UNCHANGED paceVars
     \/ moving = "server" /\ PaceNext /\ UNCHANGED batchVars
  /\ UNCHANGED moving

Spec == Init /\ [][Next]_vars
=============================================================================
