--------------------------- MODULE MCCoordinator ---------------------------
(***************************************************************************)
(* One spawned task beside the main loop, room for one indication and one  *)
(* event, and messages of which some are passed on, and may spawn the task,*)
(* and some are dropped by translate_event.                                *)
(***************************************************************************)
EXTENDS Coordinator

Carried(ind) == [ind |-> ind, whole |-> TRUE, failed |-> FALSE, rejoin |-> FALSE]

MCContent ==
  {Carried("AfIncomingMsg"), [Carried("LeaveInd") EXCEPT !.rejoin = TRUE]}
=============================================================================
