----------------------- MODULE MCServiceControlFilter -----------------------
(***************************************************************************)
(* ServiceControlFilter for TLC.  Every configuration and kind of request  *)
(* is an initial state; the clock lets two intermediate reports be due and *)
(* two frames each way let both directions trigger them.                   *)
(***************************************************************************)
EXTENDS ServiceControlFilter

=============================================================================
