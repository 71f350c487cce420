-------------------------- MODULE EpcRpcRefinement --------------------------
(***************************************************************************)
(* The clients and listeners of EpcSystem implement the at-most-once call  *)
(* of EpcRpc, as long as the sequence numbers of a package lifetime do not *)
(* repeat: MaxReinits = 0 and MaxRequests <= MaxMsgSeq + 1.                *)
(***************************************************************************)
EXTENDS EpcSystem

\* What the caller of the stub of c knows.
CallerView(c) ==
  CASE stage[c] # "idle"                              -> "pending"
    [] stage[c] = "idle" /\ outcome[c] = "none"         -> "none"
    [] stage[c] = "idle" /\ outcome[c] = "ok"           -> "ok"
    [] stage[c] = "idle" /\ outcome[c] = "sent"         -> "sent"
    [] stage[c] = "idle" /\ outcome[c] = "server_error" -> "refused"
    [] OTHER                                          -> "failed"

\* The calls whose function was run, and the views of all callers.
CallsRun == {<<k.client, k.n>> : k \in executed}
View == [c \in Client |-> CallerView(c)]

Rpc == INSTANCE EpcRpc WITH calls <- reqNo, executed <- CallsRun, result <- View

\* Every step of a session or of a listener is a step of the at-most-once call
\* or invisible to the caller: execution happens once whatever is retried, and
\* an answer is the answer to the call that is waiting for it.
ImplementsRpc == Rpc!Spec
=============================================================================
