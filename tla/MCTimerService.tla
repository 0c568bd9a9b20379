---------------------------- MODULE MCTimerService ----------------------------
(***************************************************************************)
(* Instance of TimerService: two polls may overlap, and a duration of zero *)
(* is asked for as well. Without symmetry, as liveness is checked.         *)
(***************************************************************************)
EXTENDS TimerService

=============================================================================
