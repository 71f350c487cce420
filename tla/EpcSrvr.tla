------------------------------ MODULE EpcSrvr ------------------------------
(***************************************************************************)
(* The server side: listener processes (lsnr.c, epc_lib.c, epc.pc) running *)
(* epc__handle_requests over package EPC_SRVR.  An iteration receives a    *)
(* message, parses it, looks the function up, executes it, builds the      *)
(* response and sends it; epc__call_t is one structure reused by all of    *)
(* them, so what an iteration leaves behind is visible to the next.        *)
(*                                                                         *)
(* A listener may also be signalled: the handler starts a helper process,  *)
(* "epcdaemon prog -I", which puts an INTERRUPT message in the request     *)
(* pipe to wake up a listener blocked in receive_message.  epcdaemon       *)
(* --forever starts a listener again when it stops.                        *)
(***************************************************************************)
EXTENDS EpcMessages

CONSTANTS
  Server,             \* listener processes on the request pipe
  PurgeAtStart,       \* the listeners run with -P
  HelperMayFail,      \* an interrupt helper may end without sending
  MaxFaults           \* bound: signals, interrupts, kills and pings

ASSUME SrvrAssumption ==
  /\ PurgeAtStart \in BOOLEAN
  /\ HelperMayFail \in BOOLEAN
  /\ MaxFaults \in Nat

VARIABLES
  proc,               \* proc[s]: where the process is, or how it ended
  call,               \* call[s]: the epc__call_t of epc__handle_requests
  signo,              \* signo[s]: G_signo # 0
  helpers,            \* interrupt helpers that have not sent yet
  executed,           \* history: keys of the calls whose function was run
  missed,             \* missed[s]: history: see Misses
  faults              \* faults used up, see MaxFaults

srvrVars == <<proc, call, signo, helpers, executed, missed, faults>>

Running == {"recv", "exec", "send"}
Ended == {"exited", "failed", "killed"}

\* Some key for a structure that holds no request.
NoKey == [client |-> CHOOSE c \in Client : TRUE, epoch |-> 0, n |-> 0]

\* EPC__CALL_INIT
CallInit == [pipe |-> NoPipe, seq |-> 0, method |-> NoFunction,
             error |-> "OK", key |-> NoKey]

Call == [pipe : Client \cup {NoPipe}, seq : MsgSeq,
         method : Method \cup {NoFunction}, error : ErrorCode, key : CallKey]

SrvrTypeOK ==
  /\ proc \in [Server -> Running \cup Ended]
  /\ call \in [Server -> Call]
  /\ signo \in [Server -> BOOLEAN]
  /\ helpers \in Nat
  /\ executed \subseteq CallKey
  /\ missed \in [Server -> BOOLEAN]
  /\ faults \in 0 .. MaxFaults

SrvrInit ==
  /\ proc = [s \in Server |-> "recv"]
  /\ call = [s \in Server |-> CallInit]
  /\ signo = [s \in Server |-> FALSE]
  /\ helpers = 0
  /\ executed = {}
  /\ missed = [s \in Server |-> FALSE]
  /\ faults = 0

\* An event of the environment, as often as the bound allows.
Fault == faults < MaxFaults /\ faults' = faults + 1

\* The end of epc__handle_request: the loop of epc__handle_requests goes on
\* when the request left no error and no signal was caught.
AfterRequest(s, error) ==
  IF error = "OK" /\ ~signo[s] THEN "recv" ELSE "exited"

\* epc__recv_request_pipe clears the structure before it waits, and a process
\* that ends takes it along.
ClearCall(s) == call' = [call EXCEPT ![s] = CallInit]

-----------------------------------------------------------------------------
\* What epc_srvr.recv_request puts in the structure: msg_info keeps the sequence number and the pipe only if there is a pipe.
ReceivedCall(m) == [pipe |-> m.pipe, seq |-> m.seq, method |-> m.method,
                    error |-> "OK", key |-> m.key]

\* Some listener will be woken up.
InterruptInPipe == \E i \in 1 .. Len(requestPipe) : requestPipe[i].type = "INTERRUPT"

\* The other listeners that handled a signal and are still blocked in
\* receive_message: an INTERRUPT that s takes or purges may be the one that was
\* to wake them up.
Misses(s) ==
  [t \in Server |-> missed[t] \/ (t # s /\ signo[t] /\ proc[t] = "recv")]

\* receive_message returned 0.  A string in the place of the protocol number
\* (INTERRUPT, PING) raises ORA-06559, which epc.pc turns into RECEIVE_ERROR:
\* nothing is executed, no protocol selects a response, and the loop ends.
RecvRequest(s) ==
  /\ proc[s] = "recv"
  /\ MessageReady(requestPipe)
  /\ requestPipe' = ReceiveMessage(requestPipe)
  /\ LET m == Received(requestPipe) IN
     \/ /\ m.type = "REQUEST"
        /\ call' = [call EXCEPT ![s] = ReceivedCall(m)]
        /\ proc' = [proc EXCEPT ![s] = "exec"]
        /\ UNCHANGED missed
     \/ /\ m.type # "REQUEST"
        /\ proc' = [proc EXCEPT ![s] = "exited"]
        /\ ClearCall(s)
        /\ missed' = IF m.type = "INTERRUPT" THEN Misses(s) ELSE missed
  /\ UNCHANGED <<signo, helpers, executed, faults, resultPipe>>

\* receive_message returned 3 or raised: the error ends the loop.
RecvInterrupted(s) ==
  /\ proc[s] = "recv"
  /\ Fault
  /\ proc' = [proc EXCEPT ![s] = "exited"]
  /\ ClearCall(s)
  /\ UNCHANGED <<signo, helpers, executed, missed, pipes>>

\* epc__lookup_interface
LookupInterface(m, error) ==
  IF m \in InterfaceMethod THEN error ELSE "INTERFACE_UNKNOWN"

\* epc__lookup_function: without an interface no function is found either,
\* and the error is overwritten.
LookupFunction(m) == IF m \in ServedMethod THEN m ELSE NoFunction
LookupError(m, error) == IF m \in ServedMethod THEN error ELSE "FUNCTION_UNKNOWN"

\* epc__native_parse: the error left in the structure by the lookups and by
\* the IN parameters.
NativeParse(m, error) ==
  LET looked == LookupError(m, LookupInterface(m, error)) IN
  IF looked = "OK" /\ m \in SkewedMethod THEN "PARSE_ERROR" ELSE looked

\* Mutant of Responds: without the test of the oneway flag.
RespondsAlways(function) == TRUE

\* A response is built unless the function is known to be oneway.
Responds(function) == function = NoFunction \/ function \notin OnewayMethod

\* epc__exec_call and the choice whether to respond.  The parse and the
\* lookups only touch the structure, so they are one step with the call.
ExecCall(s) ==
  /\ proc[s] = "exec"
  /\ LET error    == NativeParse(call[s].method, call[s].error)
         function == LookupFunction(call[s].method)
     IN /\ executed' = IF error = "OK" THEN executed \cup {call[s].key} ELSE executed
        /\ \/ /\ Responds(function)
              /\ call' = [call EXCEPT ![s].error = error]
              /\ proc' = [proc EXCEPT ![s] = "send"]
           \/ /\ ~Responds(function)
              /\ proc' = [proc EXCEPT ![s] = AfterRequest(s, error)]
              /\ ClearCall(s)
  /\ UNCHANGED <<signo, helpers, missed, faults, pipes>>

\* Mutant of Response: built after the error was reset.
ResponseForgetsError(s) == [seq |-> call[s].seq, code |-> "OK", key |-> call[s].key]

\* epc__response_native: the error code comes first.
Response(s) == [seq |-> call[s].seq, code |-> call[s].error, key |-> call[s].key]

\* The request named a result pipe and the response fits.
CanSend(s) == call[s].pipe # NoPipe /\ HasRoom(resultPipe[call[s].pipe], ResultPipeSize)

\* Mutant of SendResponse: sent again by the retry that follows it.
SendResponseTwice(s) ==
  /\ proc[s] = "send"
  /\ CanSend(s)
  /\ resultPipe' = [resultPipe EXCEPT ![call[s].pipe] = SendMessage(@, Response(s))]
  /\ UNCHANGED <<proc, call, signo, helpers, executed, missed, faults, requestPipe>>

\* epc__send_response_pipe, send_message returned 0; the error the request
\* met is reported and forgotten.
SendResponse(s) ==
  /\ proc[s] = "send"
  /\ CanSend(s)
  /\ resultPipe' = [resultPipe EXCEPT ![call[s].pipe] = SendMessage(@, Response(s))]
  /\ proc' = [proc EXCEPT ![s] = AfterRequest(s, "OK")]
  /\ ClearCall(s)
  /\ UNCHANGED <<signo, helpers, executed, missed, faults, requestPipe>>

\* send_response raised: no pipe name (ORA-23321) or the result pipe stayed
\* full for g_response_send_timeout seconds.  EPC__ABORT ends the process.
SendResponseAborts(s) ==
  /\ proc[s] = "send"
  /\ ~CanSend(s)
  /\ proc' = [proc EXCEPT ![s] = "failed"]
  /\ ClearCall(s)
  /\ UNCHANGED <<signo, helpers, executed, missed, faults, pipes>>

-----------------------------------------------------------------------------
\* Mutant of HandleSignal: the flag alone, which a blocked receive never sees.
HandleSignalWithoutHelper(s) ==
  /\ proc[s] \in Running
  /\ Fault
  /\ signo' = [signo EXCEPT ![s] = TRUE]
  /\ UNCHANGED <<proc, call, helpers, executed, missed, pipes>>

\* handle_signal: handle_interrupt starts the helper, then G_signo is set.
\* Where the ignored SIGCHLD makes system() return -1 the process exits.
HandleSignal(s) ==
  /\ proc[s] \in Running
  /\ Fault
  /\ helpers' = helpers + 1
  /\ \/ /\ signo' = [signo EXCEPT ![s] = TRUE]
        /\ UNCHANGED <<proc, call>>
     \/ /\ proc' = [proc EXCEPT ![s] = "failed"]
        /\ ClearCall(s)
        /\ UNCHANGED signo
  /\ UNCHANGED <<executed, missed, pipes>>

\* The user interrupt handler osnsui installed around the receive: it starts
\* the helper and leaves G_signo alone.
HandleUserInterrupt(s) ==
  /\ proc[s] = "recv"
  /\ Fault
  /\ helpers' = helpers + 1
  /\ UNCHANGED <<proc, call, signo, executed, missed, pipes>>

\* The helper process: send_request_interrupt waits for room in the pipe.
HelperSends ==
  /\ helpers > 0
  /\ HasRoom(requestPipe, RequestPipeSize)
  /\ requestPipe' = SendMessage(requestPipe, InterruptMsg)
  /\ helpers' = helpers - 1
  /\ UNCHANGED <<proc, call, signo, executed, missed, faults, resultPipe>>

\* The helper cannot log on or cannot be started; its status is ignored.
HelperFails ==
  /\ HelperMayFail
  /\ helpers > 0
  /\ helpers' = helpers - 1
  /\ UNCHANGED <<proc, call, signo, executed, missed, faults, pipes>>

\* epc_srvr.ping, called by some session.
Ping ==
  /\ Fault
  /\ HasRoom(requestPipe, RequestPipeSize)
  /\ requestPipe' = SendMessage(requestPipe, PingMsg)
  /\ UNCHANGED <<proc, call, signo, helpers, executed, missed, resultPipe>>

\* kill -9, or send_message interrupted (EPC__ABORT): the process ends
\* wherever it is.
Killed(s) ==
  /\ proc[s] \in Running
  /\ Fault
  /\ proc' = [proc EXCEPT ![s] = "killed"]
  /\ ClearCall(s)
  /\ UNCHANGED <<signo, helpers, executed, missed, pipes>>

\* Mutant of Restart: only a listener that stopped in order is started again.
RestartAfterExit(s) ==
  /\ proc[s] = "exited"
  /\ proc' = [proc EXCEPT ![s] = "recv"]
  /\ signo' = [signo EXCEPT ![s] = FALSE]
  /\ requestPipe' = IF PurgeAtStart THEN EmptyPipe ELSE requestPipe
  /\ UNCHANGED <<call, helpers, executed, missed, faults, resultPipe>>

\* epcdaemon --forever, whatever the exit status; the new process connects,
\* creates the pipe if need be and purges it if asked to.
Restart(s) ==
  /\ proc[s] \in Ended
  /\ proc' = [proc EXCEPT ![s] = "recv"]
  /\ signo' = [signo EXCEPT ![s] = FALSE]
  /\ requestPipe' = IF PurgeAtStart THEN EmptyPipe ELSE requestPipe
  /\ missed' = [(IF PurgeAtStart /\ InterruptInPipe THEN Misses(s) ELSE missed) EXCEPT ![s] = FALSE]
  /\ UNCHANGED <<call, helpers, executed, faults, resultPipe>>

SrvrNext(s) ==
  \/ RecvRequest(s)
  \/ RecvInterrupted(s)
  \/ ExecCall(s)
  \/ SendResponse(s)
  \/ SendResponseAborts(s)
  \/ HandleSignal(s)
  \/ HandleUserInterrupt(s)
  \/ Killed(s)
  \/ Restart(s)

HelperNext == HelperSends \/ HelperFails \/ Ping
=============================================================================
