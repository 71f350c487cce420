------------------------------- MODULE EpcRpc -------------------------------
(***************************************************************************)
(* What an EPC call promises its caller, without pipes, listeners or       *)
(* sequence numbers: at most once execution.  A call runs the remote       *)
(* function at most once, possibly after its caller has given up; a caller *)
(* that gets an answer gets it for the call it is waiting for, and knows   *)
(* from it whether the function ran.                                       *)
(***************************************************************************)
EXTENDS Naturals

CONSTANT Client

VARIABLES
  calls,              \* calls[c]: number of calls c has made
  executed,           \* pairs <<c, n>>: the function of the n-th call of c ran
  result              \* result[c]: state of the last call of c

rpcVars == <<calls, executed, result>>

Last(c) == <<c, calls[c]>>

Init ==
  /\ calls = [c \in Client |-> 0]
  /\ executed = {}
  /\ result = [c \in Client |-> "none"]

\* c calls: it is waiting from here on.
Call(c) ==
  /\ result[c] # "pending"
  /\ calls' = [calls EXCEPT ![c] = @ + 1]
  /\ result' = [result EXCEPT ![c] = "pending"]
  /\ UNCHANGED executed

\* The function of some call of c runs: not twice, and not after the caller
\* was told that it does not run.
Execute(c, n) ==
  /\ n \in 1 .. calls[c]
  /\ <<c, n>> \notin executed
  /\ ~(n = calls[c] /\ result[c] = "refused")
  /\ executed' = executed \cup {<<c, n>>}
  /\ UNCHANGED <<calls, result>>

\* c gets the result of the function, is told that it was not run, hands a
\* oneway call over, or gives up and knows nothing.
Ends(c, how) ==
  /\ result[c] = "pending"
  /\ how = "ok" => Last(c) \in executed
  /\ how = "refused" => Last(c) \notin executed
  /\ result' = [result EXCEPT ![c] = how]
  /\ UNCHANGED <<calls, executed>>

Next ==
  \E c \in Client :
    \/ Call(c)
    \/ \E n \in 1 .. calls[c] : Execute(c, n)
    \/ \E how \in {"ok", "refused", "sent", "failed"} : Ends(c, how)

Spec == Init /\ [][Next]_rpcVars
=============================================================================
