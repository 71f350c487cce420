------------------------------ MODULE EpcClnt ------------------------------
(***************************************************************************)
(* The client side: package EPC_CLNT in a database session, driven by the  *)
(* PL/SQL stub that the IDL compiler generates for a function.             *)
(*                                                                         *)
(* A stub runs new_request, set_request_parameter for each IN parameter,   *)
(* send_request and, unless the function is oneway, recv_response.  Every  *)
(* package global survives the call, whatever exception ended it: that is  *)
(* what makes a late response to an earlier call a hazard for a later one. *)
(***************************************************************************)
EXTENDS EpcMessages

CONSTANTS
  RecvTimeout,        \* epc_clnt_object.recv_timeout, in ticks; 0 polls
  MaxRequests,        \* bound: calls of a session in one package lifetime
  MaxReinits          \* bound: re-initialisations of the package

ASSUME ClntBoundsAssumption ==
  RecvTimeout \in Nat /\ MaxRequests \in Nat /\ MaxReinits \in Nat

VARIABLES
  msgSeq,             \* msgSeq[c]: g_msg_seq
  method,             \* method[c]: g_method_name of the current call
  stage,              \* stage[c]: where the stub is
  left,               \* left[c]: l_timeout of recv_response_dbms_pipe
  outcome,            \* outcome[c]: how the last call ended
  reqNo, epoch,       \* history: number of the current call, initialisations
  answer              \* answer[c]: history: key of the last accepted response

clntVars == <<msgSeq, method, stage, left, outcome, reqNo, epoch, answer>>
clntHistory == <<reqNo, epoch>>

Stage == {"idle", "built", "recv"}
Outcome == {"none", "ok", "sent", "server_error", "comm_error", "param_error"}

\* What is left of the receive timeout.
Ticks == 0 .. RecvTimeout

Key(c) == [client |-> c, epoch |-> epoch[c], n |-> reqNo[c]]

NoAnswer(c) == [client |-> c, epoch |-> 0, n |-> 0]

Oneway(m) == m \in OnewayMethod

ClntTypeOK ==
  /\ msgSeq \in [Client -> MsgSeq]
  /\ method \in [Client -> Method \cup {NoFunction}]
  /\ stage \in [Client -> Stage]
  /\ left \in [Client -> Ticks]
  /\ outcome \in [Client -> Outcome]
  /\ reqNo \in [Client -> Nat]
  /\ epoch \in [Client -> Nat]
  /\ answer \in [Client -> CallKey]
  /\ \A c \in Client : stage[c] # "idle" => method[c] \in Method

\* The package body's declarations and its initialisation section.
ClntInit ==
  /\ msgSeq = [c \in Client |-> MaxMsgSeq]
  /\ method = [c \in Client |-> NoFunction]
  /\ stage = [c \in Client |-> "idle"]
  /\ left = [c \in Client |-> 0]
  /\ outcome = [c \in Client |-> "none"]
  /\ reqNo = [c \in Client |-> 0]
  /\ epoch = [c \in Client |-> 0]
  /\ answer = [c \in Client |-> NoAnswer(c)]

\* The stub returns to its caller or raises.  The receive loop's local timeout
\* goes with it, and g_method_name is overwritten before it is read again.
StubEnds(c, how) ==
  /\ stage' = [stage EXCEPT ![c] = "idle"]
  /\ outcome' = [outcome EXCEPT ![c] = how]
  /\ left' = [left EXCEPT ![c] = 0]
  /\ method' = [method EXCEPT ![c] = NoFunction]

-----------------------------------------------------------------------------
\* epc_clnt.new_request: the caller runs the stub of method m.
NewRequest(c, m) ==
  /\ stage[c] = "idle"
  /\ reqNo[c] < MaxRequests
  /\ msgSeq' = [msgSeq EXCEPT ![c] = NextMsgSeq(@)]
  /\ method' = [method EXCEPT ![c] = m]
  /\ stage' = [stage EXCEPT ![c] = "built"]
  /\ outcome' = [outcome EXCEPT ![c] = "none"]
  /\ reqNo' = [reqNo EXCEPT ![c] = @ + 1]
  /\ answer' = [answer EXCEPT ![c] = NoAnswer(c)]
  /\ UNCHANGED <<left, epoch, pipes>>

\* set_request_parameter raises (a null value, a value that is too long): the
\* stub re-raises and the sequence number stays spent.
SetRequestParameterFails(c) ==
  /\ stage[c] = "built"
  /\ StubEnds(c, "param_error")
  /\ UNCHANGED <<msgSeq, clntHistory, answer, pipes>>

\* The message new_request, set_request_parameter and send_request packed.
Request(c) ==
  [type |-> "REQUEST", seq |-> msgSeq[c], method |-> method[c],
   pipe |-> IF Oneway(method[c]) THEN NoPipe ELSE c, key |-> Key(c)]

\* send_request_dbms_pipe, send_message returned 0; the stub of a oneway
\* function is done, any other goes on to recv_response.
SendRequest(c) ==
  /\ stage[c] = "built"
  /\ HasRoom(requestPipe, RequestPipeSize)
  /\ requestPipe' = SendMessage(requestPipe, Request(c))
  /\ \/ /\ Oneway(method[c])
        /\ StubEnds(c, "sent")
     \/ /\ ~Oneway(method[c])
        /\ stage' = [stage EXCEPT ![c] = "recv"]
        /\ left' = [left EXCEPT ![c] = RecvTimeout]
        /\ UNCHANGED <<outcome, method>>
  /\ UNCHANGED <<msgSeq, clntHistory, answer, resultPipe>>

\* send_message returned 1: the request pipe stayed full.
SendTimedOut(c) ==
  /\ stage[c] = "built"
  /\ ~HasRoom(requestPipe, RequestPipeSize)
  /\ StubEnds(c, "comm_error")
  /\ UNCHANGED <<msgSeq, clntHistory, answer, pipes>>

\* send_message or receive_message returned 3.
ClntInterrupted(c) ==
  /\ stage[c] \in {"built", "recv"}
  /\ StubEnds(c, "comm_error")
  /\ UNCHANGED <<msgSeq, clntHistory, answer, pipes>>

\* recv_timeout > 0 and l_timeout <= 0: the loop gives up without receiving.
Exhausted(c) == RecvTimeout > 0 /\ left[c] = 0

\* Mutant of Expected: the sequence number is not compared.
ExpectedUnchecked(c, r) == TRUE

\* exit msg_seq_loop when the response carries the current sequence number.
Expected(c, r) == r.seq = msgSeq[c]

\* One turn of msg_seq_loop with a message in the result pipe.  A message
\* with another sequence number is dropped and costs the time it took; the
\* expected one ends the stub, with e_comm_error if it carries an error code.
RecvResponse(c) ==
  /\ stage[c] = "recv"
  /\ ~Exhausted(c)
  /\ MessageReady(resultPipe[c])
  /\ resultPipe' = [resultPipe EXCEPT ![c] = ReceiveMessage(@)]
  /\ LET r == Received(resultPipe[c]) IN
     \/ /\ Expected(c, r)
        /\ StubEnds(c, IF r.code = "OK" THEN "ok" ELSE "server_error")
        /\ answer' = [answer EXCEPT ![c] = r.key]
     \/ /\ ~Expected(c, r)
        /\ \E elapsed \in 0 .. left[c] : left' = [left EXCEPT ![c] = @ - elapsed]
        /\ UNCHANGED <<stage, outcome, method, answer>>
  /\ UNCHANGED <<msgSeq, clntHistory, requestPipe>>

\* Mutants of RecvTimedOut: the stub sends the same request again; a timeout of
\* receive_message is not an error and the loop goes on.
RecvTimedOutResends(c) ==
  /\ stage[c] = "recv"
  /\ Exhausted(c) \/ ~MessageReady(resultPipe[c])
  /\ stage' = [stage EXCEPT ![c] = "built"]
  /\ UNCHANGED <<msgSeq, method, left, outcome, clntHistory, answer, pipes>>
RecvTimedOutLoops(c) ==
  /\ stage[c] = "recv"
  /\ Exhausted(c)
  /\ StubEnds(c, "comm_error")
  /\ UNCHANGED <<msgSeq, clntHistory, answer, pipes>>

\* receive_message returned 1 on an empty pipe, or the time is used up.
RecvTimedOut(c) ==
  /\ stage[c] = "recv"
  /\ Exhausted(c) \/ ~MessageReady(resultPipe[c])
  /\ StubEnds(c, "comm_error")
  /\ UNCHANGED <<msgSeq, clntHistory, answer, pipes>>

\* epc_clnt.shutdown between calls: the result pipe is removed; the next
\* response creates it again.
Shutdown(c) ==
  /\ stage[c] = "idle"
  /\ resultPipe' = [resultPipe EXCEPT ![c] = EmptyPipe]
  /\ UNCHANGED <<clntVars, requestPipe>>

\* The session discards its package state (a recompiled package, a reset) and
\* runs the initialisation section again: g_msg_seq starts over and the
\* result pipe, whose name does not change, is purged.
Reinitialise(c) ==
  /\ stage[c] = "idle"
  /\ epoch[c] < MaxReinits
  /\ msgSeq' = [msgSeq EXCEPT ![c] = MaxMsgSeq]
  /\ outcome' = [outcome EXCEPT ![c] = "none"]
  /\ reqNo' = [reqNo EXCEPT ![c] = 0]
  /\ epoch' = [epoch EXCEPT ![c] = @ + 1]
  /\ resultPipe' = [resultPipe EXCEPT ![c] = EmptyPipe]
  /\ answer' = [answer EXCEPT ![c] = NoAnswer(c)]
  /\ UNCHANGED <<stage, method, left, requestPipe>>

ClntNext(c) ==
  \/ \E m \in Method : NewRequest(c, m)
  \/ SetRequestParameterFails(c)
  \/ SendRequest(c)
  \/ SendTimedOut(c)
  \/ ClntInterrupted(c)
  \/ RecvResponse(c)
  \/ RecvTimedOut(c)
  \/ Shutdown(c)
  \/ Reinitialise(c)
=============================================================================
