----------------------- MODULE MCScheduledActionService -----------------------
(***************************************************************************)
(* ScheduledActionService on a small machine: two kinds of system action,  *)
(* a grace of one instant, timers of at most two.                          *)
(***************************************************************************)
EXTENDS ScheduledActionService
=============================================================================
