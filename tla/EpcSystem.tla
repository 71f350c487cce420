----------------------------- MODULE EpcSystem -----------------------------
(***************************************************************************)
(* Client sessions and listeners joined by the request pipe and the result *)
(* pipes, and what the remote call they make up promises.                  *)
(***************************************************************************)
EXTENDS EpcClnt, EpcSrvr

vars == <<clntVars, srvrVars, pipes>>

TypeOK == PipesTypeOK /\ ClntTypeOK /\ SrvrTypeOK

Init == PipesInit /\ ClntInit /\ SrvrInit

Next ==
  \/ \E c \in Client : ClntNext(c) /\ UNCHANGED srvrVars
  \/ \E s \in Server : SrvrNext(s) /\ UNCHANGED clntVars
  \/ HelperNext /\ UNCHANGED clntVars

Spec == Init /\ [][Next]_vars

\* What the code's scheduling gives.  A stub runs on: receive_message returns
\* a message that is there, or 1 at its timeout, and never waits for ever.
ClntFairness ==
  \A c \in Client :
    /\ WF_vars((SendRequest(c) \/ SendTimedOut(c)) /\ UNCHANGED srvrVars)
    /\ WF_vars((RecvResponse(c) \/ RecvTimedOut(c)) /\ UNCHANGED srvrVars)

\* A listener that is not stopped runs on, the helper gets to the pipe, and
\* epcdaemon --forever starts a new listener.
SrvrFairness ==
  /\ \A s \in Server :
       /\ WF_vars(RecvRequest(s) /\ UNCHANGED clntVars)
       /\ WF_vars(ExecCall(s) /\ UNCHANGED clntVars)
       /\ WF_vars((SendResponse(s) \/ SendResponseAborts(s)) /\ UNCHANGED clntVars)
       /\ WF_vars(Restart(s) /\ UNCHANGED clntVars)
  /\ WF_vars(HelperSends /\ UNCHANGED clntVars)

FairSpec == Spec /\ ClntFairness /\ SrvrFairness

-----------------------------------------------------------------------------
Requests == {requestPipe[i] : i \in {j \in DOMAIN requestPipe : requestPipe[j].type = "REQUEST"}}

\* Calls a listener has taken from the pipe and not executed yet.
Held == {s \in Server : proc[s] = "exec"}

(* Safety *)

\* A client that timed out and called again must not take the late response
\* to its earlier call for the answer to the later one.  The sequence number
\* tells them apart within one life of the package, until it has wrapped once
\* since the earlier call.
AnswerIsCurrentUpToWrap ==
  \A c \in Client :
    outcome[c] \in {"ok", "server_error"} =>
      \/ answer[c] = Key(c)
      \/ answer[c].epoch # epoch[c]
      \/ answer[c].n + MaxMsgSeq < reqNo[c]

\* The comment at g_msg_seq says so without a condition: the number "must be
\* returned as part of the result message.  Now this can be checked."
AnswerIsCurrent ==
  \A c \in Client : outcome[c] \in {"ok", "server_error"} => answer[c] = Key(c)

\* A request is executed at most once, however clients give up and listeners
\* die and restart: what is in the pipe or held by a listener has not been
\* executed, and no two of them are the same call.
ExecutedAtMostOnce ==
  /\ \A r \in Requests : r.key \notin executed
  /\ \A s \in Held : call[s].key \notin executed
  /\ \A s, t \in Held : s # t => call[s].key # call[t].key
  /\ \A s \in Held, r \in Requests : call[s].key # r.key
  /\ \A i, j \in DOMAIN requestPipe :
       i # j /\ requestPipe[i].type = "REQUEST" /\ requestPipe[j].type = "REQUEST" =>
         requestPipe[i].key # requestPipe[j].key

\* A response tells its caller whether the function was run: code OK exactly
\* when it was, whatever the structure held from the request before.
ResponseTellsExecution ==
  \A c \in Client : \A i \in DOMAIN resultPipe[c] :
    LET r == resultPipe[c][i] IN r.code = "OK" <=> r.key \in executed

\* The stub returned normally only after the function of some call of this
\* session was run; with AnswerIsCurrentUpToWrap, of this call.
OkAnswerWasExecuted ==
  \A c \in Client : outcome[c] = "ok" => answer[c] \in executed /\ answer[c].client = c

\* A response goes to the pipe of the session that made the call, once.
ResponsesReachTheirCallers ==
  \A c \in Client : \A i, j \in DOMAIN resultPipe[c] :
    /\ resultPipe[c][i].key.client = c
    /\ i # j => resultPipe[c][i].key # resultPipe[c][j].key

\* With one listener the pipes are FIFO end to end, so accepting the answer
\* to the current call leaves no stale response behind, in the result pipe or
\* in the listener: the next call starts clean.
AnsweredMeansDrained ==
  \A c \in Client :
    stage[c] = "idle" /\ outcome[c] \in {"ok", "server_error"} =>
      /\ resultPipe[c] = <<>>
      /\ \A s \in Server : proc[s] \in {"exec", "send"} => call[s].pipe # c

\* A signalled listener that is blocked in receive_message will be woken up: a
\* helper is on its way or an INTERRUPT is in the pipe, unless one was taken
\* or purged by another listener.
SignalledListenerIsWoken ==
  ~HelperMayFail =>
    \A s \in Server : signo[s] /\ proc[s] = "recv" =>
      missed[s] \/ helpers > 0 \/ InterruptInPipe

(* What a request may do to a listener *)

\* The answer to a PING should be a PONG, so taking one leaves the listener
\* running.
PingLeavesListenerRunning ==
  [][\A s \in Server :
       MessageReady(requestPipe) /\ Received(requestPipe) = PingMsg /\ RecvRequest(s)
         => proc'[s] \in Running]_vars

(* Liveness *)

\* A stub returns to its caller whatever becomes of the listeners: every wait
\* of the client has a timeout, and stale responses use it up.
StubsReturn == \A c \in Client : stage[c] # "idle" ~> stage[c] = "idle"

\* A signalled listener stops, even if it was blocked in receive_message; or
\* another listener on the pipe takes the INTERRUPT that was to wake it up, and
\* stops in its place.
SignalledListenerStops ==
  \A s \in Server : signo[s] ~> proc[s] \in Ended \/ missed[s]

\* With epcdaemon --forever every request that was sent is taken from the
\* pipe, although listeners die: the new one finds the pipe as it was.
RequestsAreTaken ==
  \A c \in Client, e \in 0 .. MaxReinits, n \in 1 .. MaxRequests :
    LET key == [client |-> c, epoch |-> e, n |-> n]
    IN  (\E r \in Requests : r.key = key) ~> (\A r \in Requests : r.key # key)
=============================================================================
