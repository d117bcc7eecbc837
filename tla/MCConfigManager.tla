-------------------------- MODULE MCConfigManager --------------------------
(***************************************************************************)
(* ConfigManager for TLC: three configs, of which one is bad, so that a    *)
(* rollout can be even, can move to a bad config and can come back.        *)
(***************************************************************************)
EXTENDS ConfigManager

CONSTANTS c1, c2, bad

=============================================================================
