------------------------ MODULE MCServiceControlCall ------------------------
(***************************************************************************)
(* ServiceControlCall for TLC: two workers, two tokens of each source.     *)
(***************************************************************************)
EXTENDS ServiceControlCall

CONSTANTS w1, w2

MCCallingConfigs ==
  {[check_retries |-> 1, quota_retries |-> 0, report_retries |-> 0]}

=============================================================================
