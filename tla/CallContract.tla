---------------------------- MODULE CallContract ----------------------------
(***************************************************************************)
(* What an HttpCall promises its owner, whatever happens on the network    *)
(* (http_call.h): one answer for every call, at once or later; CANCELLED   *)
(* to a call cancelled while it waits; and no call left waiting when the   *)
(* factory is destroyed.  HttpCall implements this specification, and the  *)
(* model of the service control filter relies on nothing else.             *)
(***************************************************************************)
CONSTANT Calls

VARIABLES
  result,  \* what the owner of each call knows about it
  closed   \* the factory is destroyed

vars == <<result, closed>>

Results == {"unasked", "waiting", "OK", "INTERNAL", "CANCELLED"}

Init ==
  /\ result = [c \in Calls |-> "unasked"]
  /\ closed = FALSE

\* The call is made: it waits, or it fails before call() returns.
Ask(c) ==
  /\ result[c] = "unasked"
  /\ ~closed
  /\ \E r \in {"waiting", "INTERNAL"} : result' = [result EXCEPT ![c] = r]
  /\ UNCHANGED closed

\* The done function runs, because of the server or because the owner cancels.
Answer(c) ==
  /\ result[c] = "waiting"
  /\ \E r \in {"OK", "INTERNAL", "CANCELLED"} : result' = [result EXCEPT ![c] = r]
  /\ UNCHANGED closed

\* The factory is destroyed: every call that waits is cancelled.
Close ==
  /\ ~closed
  /\ closed' = TRUE
  /\ result' = [c \in Calls |-> IF result[c] = "waiting" THEN "CANCELLED" ELSE result[c]]

Next == Close \/ \E c \in Calls : Ask(c) \/ Answer(c)

Spec == Init /\ [][Next]_vars /\ \A c \in Calls : WF_vars(Answer(c))
=============================================================================
