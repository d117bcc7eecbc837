------------------------- MODULE MCTokenSubscriber -------------------------
(***************************************************************************)
(* TokenSubscriber for TLC: the pair of an access token from the metadata  *)
(* server and the token of the IAM server that needs it, with the times of *)
(* the source.  One expiry is inside the refresh buffer, one beyond it.    *)
(***************************************************************************)
EXTENDS TokenSubscriber

CONSTANTS access, iam

NeedsAccess == [s \in Subscribers |-> IF s = iam THEN access ELSE NoSubscriber]

=============================================================================
