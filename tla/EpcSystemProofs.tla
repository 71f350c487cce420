-------------------------- MODULE EpcSystemProofs --------------------------
(***************************************************************************)
(* Theorems about EpcSystem, for every number of clients and listeners,    *)
(* every table of methods, and every value of the bounds: types, whose     *)
(* answer a stub accepts, at most once execution, and that sessions and    *)
(* listeners implement the at-most-once call of EpcRpc.                    *)
(***************************************************************************)
EXTENDS EpcInvariants, EpcRpcRefinement, TLAPS

USE ClientAssumption, MethodAssumption, MaxMsgSeqAssumption,
    PipeSizeAssumption, NullAssumption, ClntBoundsAssumption, SrvrAssumption

-----------------------------------------------------------------------------
(* Type correctness *)

LEMMA NextMsgSeqType == \A seq \in MsgSeq : NextMsgSeq(seq) \in MsgSeq
BY DEF MsgSeq, NextMsgSeq

LEMMA NoAnswerType == \A c \in Client : NoAnswer(c) \in CallKey
BY DEF NoAnswer, CallKey

LEMMA CallInitType == CallInit \in Call
BY DEF CallInit, Call, NoKey, CallKey, MsgSeq, ErrorCode

LEMMA NativeParseType ==
  \A m, error : error \in ErrorCode => NativeParse(m, error) \in ErrorCode
BY DEF NativeParse, LookupError, LookupInterface, ErrorCode

LEMMA InitTypeOK == Init => TypeOK
BY NoAnswerType, CallInitType
   DEF Ticks, Init, TypeOK, PipesInit, ClntInit, SrvrInit, PipesTypeOK, ClntTypeOK,
       SrvrTypeOK, EmptyPipe, MsgSeq, Stage, Outcome, Running

LEMMA TicksType == 0 \in Ticks /\ RecvTimeout \in Ticks
BY DEF Ticks

LEMMA TicksElapse == \A t \in Ticks : \A elapsed \in 0 .. t : t - elapsed \in Ticks
BY DEF Ticks

\* However a stub ends, the session is left well typed.
LEMMA StubEndsType ==
  ASSUME ClntTypeOK, NEW c \in Client, NEW how \in Outcome, StubEnds(c, how),
         UNCHANGED <<msgSeq, clntHistory>>, answer' \in [Client -> CallKey]
  PROVE  ClntTypeOK'
<1> USE DEF ClntTypeOK, clntHistory, StubEnds, Stage
<1>1. left' \in [Client -> Ticks]
  BY TicksType
<1>2. \A d \in Client : stage'[d] # "idle" => method'[d] \in Method
  OBVIOUS
<1>3. QED
  BY <1>1, <1>2

\* A session leaves everything well typed.
LEMMA ClntTypeStep ==
  ASSUME TypeOK, NEW c \in Client, ClntNext(c), UNCHANGED srvrVars
  PROVE  TypeOK'
<1> USE DEF TypeOK, PipesTypeOK, ClntTypeOK, clntVars, clntHistory, srvrVars, pipes,
            Stage, Outcome, StubEnds
<1>0. SrvrTypeOK'
  BY DEF SrvrTypeOK
<1>1. ASSUME NEW m \in Method, NewRequest(c, m) PROVE TypeOK'
  BY <1>0, <1>1, NextMsgSeqType, NoAnswerType DEF NewRequest
<1>2. CASE SetRequestParameterFails(c)
  BY <1>0, <1>2, TicksType DEF SetRequestParameterFails
<1>3. CASE SendRequest(c)
  <2>1. Request(c) \in RequestMsg
    BY <1>3 DEF SendRequest, Request, RequestMsg, Key, CallKey
  <2>2. PipesTypeOK'
    BY <1>3, <2>1 DEF SendRequest, SendMessage
  <2>3. ClntTypeOK'
    <3>1. CASE Oneway(method[c])
      BY <1>3, <3>1, StubEndsType DEF SendRequest
    <3>2. CASE ~Oneway(method[c])
      <4>0. left' = [left EXCEPT ![c] = RecvTimeout]
        BY <1>3, <3>2 DEF SendRequest
      <4>1. left' \in [Client -> Ticks]
        BY <4>0, TicksType
      <4>2. \A d \in Client : stage'[d] # "idle" => method'[d] \in Method
        BY <1>3, <3>2 DEF SendRequest
      <4>3. stage' \in [Client -> Stage]
        BY <1>3, <3>2 DEF SendRequest
      <4>4. QED
        BY <1>3, <3>2, <4>1, <4>2, <4>3 DEF SendRequest
    <3>3. QED
      BY <3>1, <3>2
  <2>4. QED
    BY <1>0, <2>2, <2>3
<1>4. CASE SendTimedOut(c)
  BY <1>0, <1>4, TicksType DEF SendTimedOut
<1>5. CASE ClntInterrupted(c)
  BY <1>0, <1>5, TicksType DEF ClntInterrupted
<1>6. CASE RecvResponse(c)
  <2> DEFINE r == Received(resultPipe[c])
  <2>1. r \in ResponseMsg /\ resultPipe' \in [Client -> Seq(ResponseMsg)]
    BY <1>6 DEF RecvResponse, Expected, MessageReady, Received, ReceiveMessage
  <2>2. r.key \in CallKey
    BY <2>1 DEF ResponseMsg
  <2>3. CASE r.seq = msgSeq[c]
    <3>1. \E how \in Outcome : StubEnds(c, how)
      BY <1>6, <2>3 DEF RecvResponse, Expected
    <3>2. /\ answer' = [answer EXCEPT ![c] = r.key]
          /\ UNCHANGED <<msgSeq, clntHistory, requestPipe>>
      BY <1>6, <2>3 DEF RecvResponse, Expected
    <3> HIDE DEF r
    <3>3. QED
      BY <1>0, <2>1, <2>2, <3>1, <3>2, StubEndsType
  <2>4. CASE r.seq # msgSeq[c]
    <3>1. /\ \E elapsed \in 0 .. left[c] : left' = [left EXCEPT ![c] = @ - elapsed]
          /\ UNCHANGED <<stage, outcome, method, answer, msgSeq, clntHistory, requestPipe>>
      BY <1>6, <2>4 DEF RecvResponse, Expected
    <3>2. left' \in [Client -> Ticks]
      BY <3>1, TicksElapse
    <3> HIDE DEF r
    <3>3. QED
      BY <1>0, <2>1, <3>1, <3>2
  <2>5. QED
    BY <2>3, <2>4
<1>7. CASE RecvTimedOut(c)
  BY <1>0, <1>7, TicksType DEF RecvTimedOut
<1>8. CASE Shutdown(c)
  BY <1>0, <1>8 DEF Shutdown, EmptyPipe
<1>9. CASE Reinitialise(c)
  <2>1. PipesTypeOK'
    BY <1>9 DEF Reinitialise, EmptyPipe
  <2>2. msgSeq' \in [Client -> MsgSeq]
    BY <1>9 DEF Reinitialise, MsgSeq
  <2>3. ClntTypeOK'
    BY <1>9, <2>2, NoAnswerType DEF Reinitialise
  <2>4. QED
    BY <1>0, <2>1, <2>3
<1>10. QED
  BY <1>1, <1>2, <1>3, <1>4, <1>5, <1>6, <1>7, <1>8, <1>9 DEF ClntNext

\* Which listeners miss an INTERRUPT is known of each of them.
LEMMA MissesType ==
  ASSUME NEW s \in Server
  PROVE  Misses(s) \in [Server -> BOOLEAN]
  BY DEF Misses

\* A listener leaves everything well typed.
LEMMA SrvrTypeStep ==
  ASSUME TypeOK, NEW s \in Server, SrvrNext(s), UNCHANGED clntVars
  PROVE  TypeOK'
<1> USE DEF TypeOK, PipesTypeOK, SrvrTypeOK, clntVars, pipes, Running, Ended, ClearCall, Fault
<1>0. ClntTypeOK'
  BY DEF ClntTypeOK
<1>c. [call EXCEPT ![s] = CallInit] \in [Server -> Call]
  BY CallInitType
<1>f. Fault => faults' \in 0 .. MaxFaults
  OBVIOUS
<1>1. CASE RecvRequest(s)
  <2> DEFINE m == Received(requestPipe)
  <2>1. /\ m \in RequestMsg \cup {InterruptMsg, PingMsg}
        /\ requestPipe' \in Seq(RequestMsg \cup {InterruptMsg, PingMsg})
    BY <1>1 DEF RecvRequest, MessageReady, Received, ReceiveMessage
  <2>2. m.type = "REQUEST" => ReceivedCall(m) \in Call
    BY <2>1 DEF RequestMsg, InterruptMsg, PingMsg, ReceivedCall, Call, ErrorCode
  <2>3. call' \in [Server -> Call] /\ proc' \in [Server -> Running \cup Ended]
    <3>1. /\ call \in [Server -> Call] /\ proc \in [Server -> Running \cup Ended]
          /\ CallInit \in Call /\ {"exec", "exited"} \subseteq Running \cup Ended
      BY CallInitType
    <3>2. \/ /\ m.type = "REQUEST"
             /\ call' = [call EXCEPT ![s] = ReceivedCall(m)] /\ proc' = [proc EXCEPT ![s] = "exec"]
          \/ call' = [call EXCEPT ![s] = CallInit] /\ proc' = [proc EXCEPT ![s] = "exited"]
      BY <1>1, Zenon DEF RecvRequest
    <3> HIDE DEF m, TypeOK, PipesTypeOK, SrvrTypeOK, Running, Ended
    <3>3. QED
      BY <2>2, <3>1, <3>2
  <2>4. missed' \in [Server -> BOOLEAN]
    BY <1>1, MissesType DEF RecvRequest
  <2>5. QED
    BY <1>0, <1>1, <2>1, <2>3, <2>4 DEF RecvRequest
<1>2. CASE RecvInterrupted(s)
  BY <1>0, <1>c, <1>f, <1>2 DEF RecvInterrupted
<1>3. CASE ExecCall(s)
  <2>1. NativeParse(call[s].method, call[s].error) \in ErrorCode
    BY NativeParseType DEF Call
  <2>2. call[s].key \in CallKey
    BY DEF Call
  <2> DEFINE error == NativeParse(call[s].method, call[s].error)
  <2>3. call' \in [Server -> Call]
    <3>1. [call[s] EXCEPT !.error = error] \in Call
      <4>1. call[s] \in Call
        OBVIOUS
      <4> HIDE DEF error, TypeOK, PipesTypeOK, SrvrTypeOK
      <4>2. QED
        BY <2>1, <4>1 DEF Call, error
    <3>2. \/ call' = [call EXCEPT ![s] = [call[s] EXCEPT !.error = error]]
          \/ call' = [call EXCEPT ![s] = CallInit]
      BY <1>3 DEF ExecCall
    <3> HIDE DEF error
    <3>3. QED
      BY <1>c, <3>1, <3>2
  <2>4. proc' \in [Server -> Running \cup Ended]
    BY <1>3 DEF ExecCall, AfterRequest
  <2>5. executed' \subseteq CallKey
    BY <1>3, <2>2 DEF ExecCall
  <2>6. QED
    BY <1>0, <1>3, <2>3, <2>4, <2>5 DEF ExecCall
<1>4. CASE SendResponse(s)
  <2>1. Response(s) \in ResponseMsg
    BY DEF Response, ResponseMsg, Call
  <2>2. resultPipe' \in [Client -> Seq(ResponseMsg)]
    <3>1. call[s].pipe \in Client
      BY <1>4 DEF SendResponse, CanSend, Call
    <3>2. Append(resultPipe[call[s].pipe], Response(s)) \in Seq(ResponseMsg)
      BY <2>1, <3>1
    <3>3. QED
      BY <1>4, <3>1, <3>2 DEF SendResponse, CanSend, SendMessage
  <2>3. proc' \in [Server -> Running \cup Ended]
    BY <1>4 DEF SendResponse, CanSend, AfterRequest
  <2>4. QED
    BY <1>0, <1>c, <1>4, <2>2, <2>3 DEF SendResponse
<1>5. CASE SendResponseAborts(s)
  BY <1>0, <1>c, <1>5 DEF SendResponseAborts
<1>6. CASE HandleSignal(s)
  <2>1. proc' \in [Server -> Running \cup Ended] /\ signo' \in [Server -> BOOLEAN]
    BY <1>6 DEF HandleSignal
  <2>2. call' \in [Server -> Call]
    BY <1>c, <1>6 DEF HandleSignal
  <2>3. QED
    BY <1>0, <1>f, <1>6, <2>1, <2>2 DEF HandleSignal
<1>7. CASE HandleUserInterrupt(s)
  BY <1>0, <1>f, <1>7 DEF HandleUserInterrupt
<1>8. CASE Killed(s)
  BY <1>0, <1>c, <1>f, <1>8 DEF Killed
<1>9. CASE Restart(s)
  <2>1. missed' \in [Server -> BOOLEAN]
    BY <1>9, MissesType DEF Restart
  <2>2. QED
    BY <1>0, <1>9, <2>1 DEF Restart, EmptyPipe
<1>10. QED
  BY <1>1, <1>2, <1>3, <1>4, <1>5, <1>6, <1>7, <1>8, <1>9 DEF SrvrNext

\* So does a helper, and a session that calls ping.
LEMMA HelperTypeStep ==
  ASSUME TypeOK, HelperNext, UNCHANGED clntVars
  PROVE  TypeOK'
<1> USE DEF TypeOK, PipesTypeOK, SrvrTypeOK, clntVars, pipes
<1>0. ClntTypeOK'
  BY DEF ClntTypeOK
<1>1. CASE HelperSends
  BY <1>0, <1>1 DEF HelperSends, SendMessage
<1>2. CASE HelperFails
  BY <1>0, <1>2 DEF HelperFails
<1>3. CASE Ping
  BY <1>0, <1>3 DEF Ping, Fault, SendMessage
<1>4. QED
  BY <1>1, <1>2, <1>3 DEF HelperNext

LEMMA NextTypeOK == TypeOK /\ [Next]_vars => TypeOK'
<1> SUFFICES ASSUME TypeOK, [Next]_vars PROVE TypeOK'
  OBVIOUS
<1>1. ASSUME NEW c \in Client, ClntNext(c) /\ UNCHANGED srvrVars PROVE TypeOK'
  BY <1>1, ClntTypeStep
<1>2. ASSUME NEW s \in Server, SrvrNext(s) /\ UNCHANGED clntVars PROVE TypeOK'
  BY <1>2, SrvrTypeStep
<1>3. CASE HelperNext /\ UNCHANGED clntVars
  BY <1>3, HelperTypeStep
<1>4. CASE UNCHANGED vars
  BY <1>4 DEF vars, TypeOK, PipesTypeOK, ClntTypeOK, SrvrTypeOK, clntVars, srvrVars, pipes
<1>5. QED
  BY <1>1, <1>2, <1>3, <1>4 DEF Next

\* Every variable keeps its type: in particular a structure, a message or a
\* sequence number never leaves the range the packages and the C code assume.
THEOREM TypeCorrect == Spec => []TypeOK
<1>1. QED
  BY InitTypeOK, NextTypeOK, PTL DEF Spec

-----------------------------------------------------------------------------
(***************************************************************************)
(* A stub that accepts a response got the answer to its own call, for      *)
(* every number of clients and listeners and every MaxMsgSeq: the counter  *)
(* would have to go round once while a response is late.                   *)
(***************************************************************************)
AnswerInv == TypeOK /\ InFlightCarriesItsSeq /\ AnswerIsCurrentUpToWrap

-----------------------------------------------------------------------------
(* Counting back *)

\* One call on, what was d calls ago is d + 1 calls ago, wrap or no wrap.
LEMMA SeqBeforeNext ==
  ASSUME NEW seq \in MsgSeq, NEW d \in Nat, d + 1 <= MaxMsgSeq
  PROVE  SeqBefore(NextMsgSeq(seq), d + 1) = SeqBefore(seq, d)
<1>0. seq \in Nat /\ seq <= MaxMsgSeq /\ MaxMsgSeq \in Nat
  BY DEF MsgSeq
<1>1. CASE seq = MaxMsgSeq
  <2>1. NextMsgSeq(seq) = 0
    BY <1>0, <1>1 DEF NextMsgSeq
  <2>2. SeqBefore(0, d + 1) = MaxMsgSeq - d
    BY <1>0 DEF SeqBefore
  <2>3. SeqBefore(seq, d) = MaxMsgSeq - d
    BY <1>0, <1>1 DEF SeqBefore
  <2>4. QED
    BY <2>1, <2>2, <2>3
<1>2. CASE seq < MaxMsgSeq
  <2>1. NextMsgSeq(seq) = seq + 1
    BY <1>0, <1>2 DEF NextMsgSeq
  <2>2. SeqBefore(seq + 1, d + 1) = SeqBefore(seq, d)
    BY <1>0 DEF SeqBefore
  <2>3. QED
    BY <2>1, <2>2
<1>3. QED
  BY <1>0, <1>1, <1>2

\* What remains of a pipe after a receive was in it.
LEMMA TailIsOld ==
  ASSUME NEW M, NEW q \in Seq(M), q # <<>>, NEW i \in 1 .. Len(Tail(q))
  PROVE  i + 1 \in 1 .. Len(q) /\ Tail(q)[i] = q[i + 1]
OBVIOUS

LEMMA SeqBeforeZero == \A seq \in MsgSeq : SeqBefore(seq, 0) = seq
BY DEF MsgSeq, SeqBefore

\* Within one round of the counter no earlier call has the current number.
LEMMA SeqBeforeSelf ==
  ASSUME NEW seq \in MsgSeq, NEW d \in Nat, d <= MaxMsgSeq, SeqBefore(seq, d) = seq
  PROVE  d = 0
<1>1. seq \in Nat /\ seq <= MaxMsgSeq /\ MaxMsgSeq \in Nat
  BY DEF MsgSeq
<1>2. QED
  BY <1>1 DEF SeqBefore

\* What a session does leaves the calls it made counted.
LEMMA KeysStay ==
  ASSUME TypeOK, NEW c \in Client, ClntNext(c),
         NEW k \in CallKey, NEW seq \in MsgSeq, Made(k), CarriesItsSeq(k, seq)
  PROVE  Made(k)' /\ CarriesItsSeq(k, seq)'
<1> USE DEF Made, CarriesItsSeq
<1>t. /\ k.client \in Client /\ k.epoch \in Nat /\ k.n \in Nat
      /\ msgSeq \in [Client -> MsgSeq]
      /\ reqNo \in [Client -> Nat] /\ epoch \in [Client -> Nat]
  BY DEF CallKey, TypeOK, ClntTypeOK
<1>1. ASSUME NEW m \in Method, NewRequest(c, m) PROVE Made(k)' /\ CarriesItsSeq(k, seq)'
  <2>1. /\ msgSeq' = [msgSeq EXCEPT ![c] = NextMsgSeq(@)]
        /\ reqNo' = [reqNo EXCEPT ![c] = @ + 1]
        /\ epoch' = epoch
    BY <1>1 DEF NewRequest
  <2>2. Made(k)'
    BY <1>t, <2>1
  <2>3. CASE k.client # c
    BY <1>t, <2>1, <2>2, <2>3
  <2>4. CASE k.client = c
    <3> SUFFICES ASSUME k.epoch = epoch[c], reqNo[c] + 1 <= k.n + MaxMsgSeq
                 PROVE  seq = SeqBefore(NextMsgSeq(msgSeq[c]), reqNo[c] + 1 - k.n)
      BY <1>t, <2>1, <2>2, <2>4
    <3> DEFINE d == reqNo[c] - k.n
    <3>1. d \in Nat /\ d + 1 <= MaxMsgSeq /\ reqNo[c] <= k.n + MaxMsgSeq
      BY <1>t, <2>4
    <3>2. seq = SeqBefore(msgSeq[c], d)
      BY <2>4, <3>1
    <3>3. SeqBefore(NextMsgSeq(msgSeq[c]), d + 1) = SeqBefore(msgSeq[c], d)
      BY <1>t, <3>1, SeqBeforeNext
    <3>4. reqNo[c] + 1 - k.n = d + 1
      BY <1>t
    <3>5. QED
      BY <3>2, <3>3, <3>4
  <2>5. QED
    BY <2>3, <2>4
<1>2. CASE Reinitialise(c)
  <2>1. epoch' = [epoch EXCEPT ![c] = @ + 1] /\ \A e \in Client : e # c =>
          msgSeq'[e] = msgSeq[e] /\ reqNo'[e] = reqNo[e]
    BY <1>2, <1>t DEF Reinitialise
  <2>2. QED
    BY <1>t, <2>1
<1>3. CASE UNCHANGED <<msgSeq, clntHistory>>
  BY <1>3 DEF clntHistory
<1>4. QED
  BY <1>1, <1>2, <1>3
     DEF ClntNext, SetRequestParameterFails, SendRequest, SendTimedOut,
         ClntInterrupted, RecvResponse, RecvTimedOut, Shutdown, clntVars, clntHistory

-----------------------------------------------------------------------------
(* What is in flight *)

\* A call that is in flight after a step of a session was in flight before,
\* or is the request the session just sent.
LEMMA ClntInFlight ==
  ASSUME TypeOK, TypeOK', InFlightCarriesItsSeq,
         NEW c \in Client, ClntNext(c), UNCHANGED srvrVars
  PROVE  InFlightCarriesItsSeq'
<1> USE DEF NamesItsCaller
<1>k. \A k \in CallKey, seq \in MsgSeq :
        Made(k) /\ CarriesItsSeq(k, seq) => Made(k)' /\ CarriesItsSeq(k, seq)'
  BY KeysStay
<1>1. ASSUME NEW i \in 1 .. Len(requestPipe'), requestPipe'[i].type = "REQUEST"
      PROVE  RequestInFlight(requestPipe[i])'
  <2> USE DEF RequestInFlight
  <2>t. requestPipe'[i] \in RequestMsg
    BY <1>1 DEF TypeOK, PipesTypeOK, InterruptMsg, PingMsg, RequestMsg
  <2>1. CASE i \in 1 .. Len(requestPipe) /\ requestPipe'[i] = requestPipe[i]
    <3>1. RequestInFlight(requestPipe[i])
      BY <1>1, <2>1 DEF InFlightCarriesItsSeq
    <3>2. QED
      BY <1>k, <2>t, <2>1, <3>1 DEF RequestMsg
  <2>2. CASE SendRequest(c) /\ requestPipe'[i] = Request(c)
    <3>1. UNCHANGED <<msgSeq, reqNo, epoch>>
      BY <2>2 DEF SendRequest, clntHistory
    <3>2. /\ requestPipe'[i].key.client = c
          /\ requestPipe'[i].key.epoch = epoch[c]
          /\ requestPipe'[i].key.n = reqNo[c]
          /\ requestPipe'[i].seq = msgSeq[c]
          /\ requestPipe'[i].pipe \in {NoPipe, c}
      BY <2>2 DEF Request, Key
    <3>3. reqNo[c] - reqNo[c] = 0 /\ reqNo[c] \in Nat /\ SeqBefore(msgSeq[c], 0) = msgSeq[c]
      BY SeqBeforeZero DEF TypeOK, ClntTypeOK
    <3>4. QED
      BY <3>1, <3>2, <3>3 DEF Made, CarriesItsSeq
  <2>3. CASE SendRequest(c)
    <3>1. requestPipe' = Append(requestPipe, Request(c))
      BY <2>3 DEF SendRequest, SendMessage
    <3>2. requestPipe \in Seq(RequestMsg \cup {InterruptMsg, PingMsg})
      BY DEF TypeOK, PipesTypeOK
    <3>3. \/ i \in 1 .. Len(requestPipe) /\ requestPipe'[i] = requestPipe[i]
          \/ requestPipe'[i] = Request(c)
      BY <1>1, <3>1, <3>2
    <3>4. QED
      BY <2>1, <2>2, <2>3, <3>3
  <2>4. CASE UNCHANGED requestPipe
    BY <1>1, <2>1, <2>4
  <2>5. QED
    BY <2>3, <2>4
       DEF ClntNext, NewRequest, SetRequestParameterFails, SendTimedOut,
           ClntInterrupted, RecvResponse, RecvTimedOut, Shutdown, Reinitialise, pipes
<1>2. ASSUME NEW s \in Server, proc'[s] \in {"exec", "send"}
      PROVE  CallInFlight(s)'
  <2>1. CallInFlight(s) /\ call'[s] = call[s] /\ call[s] \in Call
    BY <1>2 DEF InFlightCarriesItsSeq, srvrVars, TypeOK, SrvrTypeOK
  <2>2. QED
    BY <1>k, <2>1 DEF CallInFlight, Call
<1>3. ASSUME NEW d \in Client, NEW i \in 1 .. Len(resultPipe'[d])
      PROVE  ResponseInFlight(resultPipe[d][i], d)'
  <2>t. resultPipe[d] \in Seq(ResponseMsg)
    BY DEF TypeOK, PipesTypeOK
  <2>1. \E j \in 1 .. Len(resultPipe[d]) : resultPipe'[d][i] = resultPipe[d][j]
    <3>1. CASE UNCHANGED resultPipe
      BY <1>3, <3>1
    <3>2. CASE resultPipe' = [resultPipe EXCEPT ![c] = EmptyPipe]
      BY <1>3, <2>t, <3>2 DEF EmptyPipe, TypeOK, PipesTypeOK
    <3>3. CASE RecvResponse(c)
      <4>1. resultPipe[c] # <<>> /\ resultPipe' = [resultPipe EXCEPT ![c] = Tail(@)]
        BY <3>3 DEF RecvResponse, Expected, MessageReady, ReceiveMessage
      <4>2. CASE d # c
        BY <1>3, <4>1, <4>2 DEF TypeOK, PipesTypeOK
      <4>3. CASE d = c
        <5>1. resultPipe'[d] = Tail(resultPipe[d])
          BY <4>1, <4>3 DEF TypeOK, PipesTypeOK
        <5>2. i + 1 \in 1 .. Len(resultPipe[d]) /\ resultPipe'[d][i] = resultPipe[d][i + 1]
          BY <1>3, <2>t, <4>1, <4>3, <5>1, TailIsOld, ZenonT(30)
        <5>3. QED
          BY <5>2
      <4>4. QED
        BY <4>2, <4>3
    <3>4. QED
      BY <3>1, <3>2, <3>3
         DEF ClntNext, NewRequest, SetRequestParameterFails, SendRequest, SendTimedOut,
             ClntInterrupted, RecvTimedOut, Shutdown, Reinitialise, pipes
  <2>2. PICK j \in 1 .. Len(resultPipe[d]) : resultPipe'[d][i] = resultPipe[d][j]
    BY <2>1
  <2>3. ResponseInFlight(resultPipe[d][j], d) /\ resultPipe[d][j] \in ResponseMsg
    BY <2>t, <2>2 DEF InFlightCarriesItsSeq
  <2>4. QED
    BY <1>k, <2>2, <2>3 DEF ResponseInFlight, ResponseMsg
<1>4. QED
  BY <1>1, <1>2, <1>3 DEF InFlightCarriesItsSeq

\* What remains of the request pipe, or was put there for the listeners, is no
\* new request.
LEMMA RequestsStay ==
  ASSUME TypeOK, InFlightCarriesItsSeq, UNCHANGED clntVars,
         \A i \in 1 .. Len(requestPipe') : requestPipe'[i].type = "REQUEST" =>
           \E j \in 1 .. Len(requestPipe) : requestPipe'[i] = requestPipe[j]
  PROVE  \A i \in 1 .. Len(requestPipe') :
           requestPipe'[i].type = "REQUEST" => RequestInFlight(requestPipe[i])'
<1> SUFFICES ASSUME NEW i \in 1 .. Len(requestPipe'), requestPipe'[i].type = "REQUEST"
             PROVE  RequestInFlight(requestPipe[i])'
  OBVIOUS
<1>1. PICK j \in 1 .. Len(requestPipe) : requestPipe'[i] = requestPipe[j]
  OBVIOUS
<1>2. RequestInFlight(requestPipe[j])
  BY <1>1 DEF InFlightCarriesItsSeq
<1>3. QED
  BY <1>1, <1>2 DEF RequestInFlight, NamesItsCaller, Made, CarriesItsSeq, clntVars

\* A listener moves a call from the request pipe to its structure and from
\* there to the result pipe the structure names, numbers and all.
LEMMA SrvrInFlight ==
  ASSUME TypeOK, TypeOK', InFlightCarriesItsSeq,
         NEW s \in Server, SrvrNext(s), UNCHANGED clntVars
  PROVE  InFlightCarriesItsSeq'
<1>t. /\ requestPipe \in Seq(RequestMsg \cup {InterruptMsg, PingMsg})
      /\ resultPipe \in [Client -> Seq(ResponseMsg)]
      /\ proc \in [Server -> Running \cup Ended] /\ call \in [Server -> Call]
  BY DEF TypeOK, PipesTypeOK, SrvrTypeOK
<1>u. UNCHANGED <<msgSeq, reqNo, epoch>>
  BY DEF clntVars
<1>1. \A i \in 1 .. Len(requestPipe') : requestPipe'[i].type = "REQUEST" =>
        \E j \in 1 .. Len(requestPipe) : requestPipe'[i] = requestPipe[j]
  <2>1. CASE RecvRequest(s)
    <3>1. requestPipe # <<>> /\ requestPipe' = Tail(requestPipe)
      BY <2>1 DEF RecvRequest, MessageReady, ReceiveMessage
    <3>2. QED
      BY <1>t, <3>1, TailIsOld
  <2>2. CASE requestPipe' = requestPipe
    BY <2>2
  <2>3. CASE requestPipe' = <<>>
    BY <2>3
  <2>4. QED
    BY <2>1, <2>2, <2>3
       DEF SrvrNext, RecvInterrupted, ExecCall, SendResponse, SendResponseAborts,
           HandleSignal, HandleUserInterrupt, Killed, Restart, EmptyPipe, pipes
<1>2. ASSUME NEW t \in Server, proc'[t] \in {"exec", "send"} PROVE CallInFlight(t)'
  <2>1. CASE proc[t] \in {"exec", "send"} /\ call'[t].key = call[t].key
             /\ call'[t].seq = call[t].seq /\ call'[t].pipe = call[t].pipe
    BY <1>u, <2>1 DEF InFlightCarriesItsSeq, CallInFlight, NamesItsCaller, Made, CarriesItsSeq
  <2>2. CASE RecvRequest(s) /\ t = s
    <3> DEFINE m == Received(requestPipe)
    <3>1. requestPipe # <<>> /\ m = requestPipe[1] /\ 1 \in 1 .. Len(requestPipe)
      BY <1>t, <2>2 DEF RecvRequest, MessageReady, Received
    <3>2. m.type = "REQUEST" /\ call'[s] = ReceivedCall(m)
      BY <1>t, <1>2, <2>2 DEF RecvRequest, Running, Ended
    <3>3. RequestInFlight(m)
      BY <3>1, <3>2 DEF InFlightCarriesItsSeq
    <3> HIDE DEF m
    <3>4. QED
      BY <1>u, <2>2, <3>2, <3>3
         DEF ReceivedCall, RequestInFlight, CallInFlight, NamesItsCaller, Made, CarriesItsSeq
  <2>3. CASE ExecCall(s) /\ t = s
    <3>1. proc[s] = "exec"
      BY <2>3 DEF ExecCall
    <3>2. call' = [call EXCEPT ![s].error = NativeParse(call[s].method, call[s].error)]
      BY <1>t, <1>2, <2>3 DEF ExecCall, AfterRequest
    <3>3. /\ call'[s].key = call[s].key
          /\ call'[s].seq = call[s].seq
          /\ call'[s].pipe = call[s].pipe
      BY <1>t, <3>2 DEF Call
    <3>4. QED
      BY <2>1, <2>3, <3>1, <3>3
  <2>4. CASE t # s
    <3>1. proc'[t] = proc[t] /\ call'[t] = call[t]
      BY <1>t, <2>4
         DEF SrvrNext, RecvRequest, RecvInterrupted, ExecCall, SendResponse,
             SendResponseAborts, HandleSignal, HandleUserInterrupt, Killed, Restart, ClearCall
    <3>2. QED
      BY <1>2, <2>1, <3>1
  <2>5. CASE t = s /\ ~RecvRequest(s) /\ ~ExecCall(s)
    <3>1. proc'[s] = proc[s] /\ call'[s] = call[s]
      BY <1>t, <1>2, <2>5
         DEF SrvrNext, RecvInterrupted, SendResponse, SendResponseAborts, AfterRequest,
             HandleSignal, HandleUserInterrupt, Killed, Restart
    <3>2. QED
      BY <1>2, <2>1, <2>5, <3>1
  <2>6. QED
    BY <2>2, <2>3, <2>4, <2>5
<1>3. ASSUME NEW d \in Client, NEW i \in 1 .. Len(resultPipe'[d])
      PROVE  ResponseInFlight(resultPipe[d][i], d)'
  <2>1. CASE i \in 1 .. Len(resultPipe[d]) /\ resultPipe'[d][i] = resultPipe[d][i]
    <3>1. ResponseInFlight(resultPipe[d][i], d)
      BY <2>1 DEF InFlightCarriesItsSeq
    <3>2. QED
      BY <1>u, <2>1, <3>1 DEF ResponseInFlight, Made, CarriesItsSeq
  <2>2. CASE SendResponse(s)
    <3>1. /\ proc[s] = "send" /\ call[s].pipe # NoPipe /\ call[s].pipe \in Client
          /\ resultPipe' = [resultPipe EXCEPT ![call[s].pipe] = Append(@, Response(s))]
      BY <1>t, <2>2 DEF SendResponse, CanSend, SendMessage, Call
    <3>2. CASE d # call[s].pipe
      BY <1>t, <1>3, <2>1, <3>1, <3>2
    <3>3. CASE d = call[s].pipe
      <4>1. resultPipe'[d] = Append(resultPipe[d], Response(s))
        BY <1>t, <3>1, <3>3
      <4>2. \/ i \in 1 .. Len(resultPipe[d]) /\ resultPipe'[d][i] = resultPipe[d][i]
            \/ resultPipe'[d][i] = Response(s)
        BY <1>t, <1>3, <4>1
      <4>3. CASE resultPipe'[d][i] = Response(s)
        <5>1. CallInFlight(s)
          BY <3>1 DEF InFlightCarriesItsSeq
        <5>2. call[s].key.client = d
          BY <3>1, <3>3, <5>1 DEF CallInFlight, NamesItsCaller
        <5>3. /\ resultPipe'[d][i].key = call[s].key
              /\ resultPipe'[d][i].seq = call[s].seq
          BY <4>3 DEF Response
        <5>4. QED
          BY <1>u, <5>1, <5>2, <5>3 DEF CallInFlight, ResponseInFlight, Made, CarriesItsSeq
      <4>4. QED
        BY <2>1, <4>2, <4>3
    <3>4. QED
      BY <3>2, <3>3
  <2>3. CASE resultPipe' = resultPipe
    BY <1>3, <2>1, <2>3
  <2>4. QED
    BY <2>2, <2>3
       DEF SrvrNext, RecvRequest, RecvInterrupted, ExecCall, SendResponseAborts,
           HandleSignal, HandleUserInterrupt, Killed, Restart, pipes
<1>4. QED
  BY <1>1, <1>2, <1>3, RequestsStay DEF InFlightCarriesItsSeq

\* Interrupts and pings are no calls.
LEMMA HelperInFlight ==
  ASSUME TypeOK, InFlightCarriesItsSeq, HelperNext, UNCHANGED clntVars
  PROVE  InFlightCarriesItsSeq'
<1>t. requestPipe \in Seq(RequestMsg \cup {InterruptMsg, PingMsg})
  BY DEF TypeOK, PipesTypeOK
<1>1. UNCHANGED <<proc, call, resultPipe, msgSeq, reqNo, epoch>>
  BY DEF HelperNext, HelperSends, HelperFails, Ping, pipes, clntVars
<1>2. \/ requestPipe' = requestPipe
      \/ requestPipe' = Append(requestPipe, InterruptMsg)
      \/ requestPipe' = Append(requestPipe, PingMsg)
  BY DEF HelperNext, HelperSends, HelperFails, Ping, SendMessage, pipes
<1>3. \A i \in 1 .. Len(requestPipe') : requestPipe'[i].type = "REQUEST" =>
        \E j \in 1 .. Len(requestPipe) : requestPipe'[i] = requestPipe[j]
  BY <1>t, <1>2 DEF InterruptMsg, PingMsg
<1>4. \A i \in 1 .. Len(requestPipe') :
        requestPipe'[i].type = "REQUEST" => RequestInFlight(requestPipe[i])'
  BY <1>3, RequestsStay
<1>5. (\A s \in Server : proc[s] \in {"exec", "send"} => CallInFlight(s))'
  BY <1>1 DEF clntVars, InFlightCarriesItsSeq, CallInFlight, NamesItsCaller, Made, CarriesItsSeq
<1>6. (\A c \in Client : \A i \in 1 .. Len(resultPipe[c]) : ResponseInFlight(resultPipe[c][i], c))'
  BY <1>1 DEF clntVars, InFlightCarriesItsSeq, ResponseInFlight, Made, CarriesItsSeq
<1>7. QED
  BY <1>4, <1>5, <1>6 DEF InFlightCarriesItsSeq

-----------------------------------------------------------------------------
(* The answer *)

\* A session accepts only a response to its current call, unless its counter
\* has gone round or the package was initialised since.
LEMMA ClntAnswer ==
  ASSUME TypeOK, InFlightCarriesItsSeq, AnswerIsCurrentUpToWrap,
         NEW c \in Client, ClntNext(c)
  PROVE  AnswerIsCurrentUpToWrap'
<1>t. /\ stage \in [Client -> Stage] /\ outcome \in [Client -> Outcome]
      /\ msgSeq \in [Client -> MsgSeq] /\ answer \in [Client -> CallKey]
      /\ reqNo \in [Client -> Nat] /\ epoch \in [Client -> Nat]
      /\ resultPipe \in [Client -> Seq(ResponseMsg)]
  BY DEF TypeOK, PipesTypeOK, ClntTypeOK
<1> SUFFICES ASSUME NEW d \in Client, outcome'[d] \in {"ok", "server_error"}
             PROVE  \/ answer'[d] = Key(d)'
                    \/ answer'[d].epoch # epoch'[d]
                    \/ answer'[d].n + MaxMsgSeq < reqNo'[d]
  BY DEF AnswerIsCurrentUpToWrap
<1>1. CASE UNCHANGED <<outcome[d], answer[d], reqNo[d], epoch[d]>>
  BY <1>1 DEF AnswerIsCurrentUpToWrap, Key
<1>2. CASE d # c
  <2>1. UNCHANGED <<outcome[d], answer[d], reqNo[d], epoch[d]>>
    BY <1>t, <1>2
       DEF ClntNext, NewRequest, SetRequestParameterFails, SendRequest, SendTimedOut,
           ClntInterrupted, RecvResponse, RecvTimedOut, Shutdown, Reinitialise,
           StubEnds, clntVars, clntHistory
  <2>2. QED
    BY <1>1, <2>1
<1>3. CASE d = c /\ RecvResponse(c)
  <2> DEFINE r == Received(resultPipe[c])
  <2>1. CASE r.seq # msgSeq[c]
    <3>1. UNCHANGED <<outcome, answer, reqNo, epoch>>
      BY <1>3, <2>1 DEF RecvResponse, Expected, clntHistory
    <3>2. QED
      BY <1>1, <3>1
  <2>2. CASE r.seq = msgSeq[c]
    <3>1. answer'[c] = r.key /\ UNCHANGED <<reqNo, epoch>>
      BY <1>t, <1>3, <2>2 DEF RecvResponse, Expected, clntHistory
    <3>2. r = resultPipe[c][1] /\ 1 \in 1 .. Len(resultPipe[c]) /\ r \in ResponseMsg
      BY <1>t, <1>3 DEF RecvResponse, Expected, MessageReady, Received
    <3>3. Made(r.key) /\ CarriesItsSeq(r.key, r.seq) /\ r.key.client = c
      BY <3>2 DEF InFlightCarriesItsSeq, ResponseInFlight
    <3>4. r.key \in CallKey
      BY <3>2 DEF ResponseMsg
    <3> HIDE DEF r
    <3>5. CASE r.key.epoch # epoch[c] \/ r.key.n + MaxMsgSeq < reqNo[c]
      BY <1>3, <3>1, <3>5
    <3>6. CASE r.key.epoch = epoch[c] /\ reqNo[c] <= r.key.n + MaxMsgSeq
      <4> DEFINE back == reqNo[c] - r.key.n
      <4>1. r.key.n \in Nat /\ reqNo[c] \in Nat /\ r.key.n <= reqNo[c]
        BY <1>t, <3>3, <3>4, <3>6 DEF Made, CallKey
      <4>2. back \in Nat /\ back <= MaxMsgSeq
        BY <3>6, <4>1
      <4>3. SeqBefore(msgSeq[c], back) = msgSeq[c] /\ msgSeq[c] \in MsgSeq
        BY <1>t, <2>2, <3>3, <3>6 DEF CarriesItsSeq
      <4>4. back = 0
        <5> HIDE DEF back
        <5>1. QED
          BY <4>2, <4>3, SeqBeforeSelf
      <4>5. r.key.n = reqNo[c]
        BY <4>1, <4>4
      <4>6. QED
        BY <1>3, <3>1, <3>3, <3>4, <3>6, <4>5 DEF Key, CallKey
    <3>7. QED
      BY <1>t, <3>4, <3>5, <3>6, SMTT(30) DEF CallKey
  <2>3. QED
    BY <2>1, <2>2
<1>4. CASE d = c /\ ~RecvResponse(c)
  <2>1. UNCHANGED <<outcome[c], answer[c], reqNo[c], epoch[c]>>
    BY <1>t, <1>4
       DEF ClntNext, NewRequest, SetRequestParameterFails, SendRequest, SendTimedOut,
           ClntInterrupted, RecvTimedOut, Shutdown, Reinitialise,
           StubEnds, clntVars, clntHistory
  <2>2. QED
    BY <1>1, <1>4, <2>1
<1>5. QED
  BY <1>2, <1>3, <1>4

LEMMA InitAnswerInv == Init => AnswerInv
<1> SUFFICES ASSUME Init PROVE AnswerInv
  OBVIOUS
<1>1. InFlightCarriesItsSeq
  BY DEF Init, PipesInit, SrvrInit, InFlightCarriesItsSeq, EmptyPipe
<1>2. AnswerIsCurrentUpToWrap
  BY DEF Init, ClntInit, AnswerIsCurrentUpToWrap
<1>3. QED
  BY <1>1, <1>2, InitTypeOK DEF AnswerInv

LEMMA NextAnswerInv == AnswerInv /\ [Next]_vars => AnswerInv'
<1> SUFFICES ASSUME AnswerInv, [Next]_vars PROVE AnswerInv'
  OBVIOUS
<1> USE DEF AnswerInv
<1>0. TypeOK'
  BY NextTypeOK
<1>1. ASSUME NEW c \in Client, ClntNext(c) /\ UNCHANGED srvrVars PROVE AnswerInv'
  BY <1>0, <1>1, ClntInFlight, ClntAnswer
<1>2. ASSUME UNCHANGED clntVars PROVE AnswerIsCurrentUpToWrap'
  BY <1>2 DEF AnswerIsCurrentUpToWrap, Key, clntVars
<1>3. ASSUME NEW s \in Server, SrvrNext(s) /\ UNCHANGED clntVars PROVE AnswerInv'
  BY <1>0, <1>2, <1>3, SrvrInFlight
<1>4. CASE HelperNext /\ UNCHANGED clntVars
  BY <1>0, <1>2, <1>4, HelperInFlight
<1>5. CASE UNCHANGED vars
  <2>1. UNCHANGED <<clntVars, proc, call, requestPipe, resultPipe>>
    BY <1>5 DEF vars, srvrVars, pipes
  <2>2. InFlightCarriesItsSeq'
    <3>1. \A m : RequestInFlight(m)' <=> RequestInFlight(m)
      BY <2>1 DEF RequestInFlight, NamesItsCaller, Made, CarriesItsSeq, clntVars
    <3>2. \A s : CallInFlight(s)' <=> CallInFlight(s)
      BY <2>1 DEF CallInFlight, NamesItsCaller, Made, CarriesItsSeq, clntVars
    <3>3. \A r, c : ResponseInFlight(r, c)' <=> ResponseInFlight(r, c)
      BY <2>1 DEF ResponseInFlight, Made, CarriesItsSeq, clntVars
    <3>4. QED
      BY <2>1, <3>1, <3>2, <3>3 DEF InFlightCarriesItsSeq
  <2>3. QED
    BY <1>0, <1>2, <2>1, <2>2
<1>6. QED
  BY <1>1, <1>3, <1>4, <1>5 DEF Next

\* Whatever the listeners do, die or restart, each message in flight carries
\* the number and the pipe its session gave it.
THEOREM InFlightNumbered == Spec => []InFlightCarriesItsSeq
<1>1. AnswerInv => InFlightCarriesItsSeq
  BY DEF AnswerInv
<1>2. QED
  BY <1>1, InitAnswerInv, NextAnswerInv, PTL DEF Spec

\* recv_response hands its stub the response to the call the stub made, unless
\* more than MaxMsgSeq calls or an initialisation of the package lie between:
\* the purpose of g_msg_seq.
THEOREM AnswerCurrent == Spec => []AnswerIsCurrentUpToWrap
<1>1. AnswerInv => AnswerIsCurrentUpToWrap
  BY DEF AnswerInv
<1>2. QED
  BY <1>1, InitAnswerInv, NextAnswerInv, PTL DEF Spec

-----------------------------------------------------------------------------
(***************************************************************************)
(* At most once: however sessions give up and listeners are killed and     *)
(* started again, no call is executed twice, and a response tells its      *)
(* caller whether it was executed.                                         *)
(***************************************************************************)
CallsInv == CallsAreSpent /\ CallsAreInOnePlace /\ ExecutionIsKnown

OnceInv == AnswerInv /\ CallsInv /\ OkAnswerWasExecuted

\* No call is put anywhere: the request pipe lost its o oldest messages, the
\* result pipe of c its q[c] oldest, and busy listeners stay as they are.
RequestsTaken(o) ==
  \A i \in 1 .. Len(requestPipe') : IsRequest(i)' =>
    /\ i + o \in 1 .. Len(requestPipe)
    /\ IsRequest(i + o)
    /\ requestPipe'[i] = requestPipe[i + o]
ResponsesTaken(q) ==
  \A c \in Client : \A i \in 1 .. Len(resultPipe'[c]) :
    i + q[c] \in 1 .. Len(resultPipe[c]) /\ resultPipe'[c][i] = resultPipe[c][i + q[c]]
BusyStays ==
  \A s \in Server : Busy(s)' => Busy(s) /\ proc'[s] = proc[s] /\ call'[s] = call[s]

-----------------------------------------------------------------------------
(* Where calls are *)

LEMMA RequestType ==
  ASSUME TypeOK, NEW i \in 1 .. Len(requestPipe), IsRequest(i)
  PROVE  requestPipe[i] \in RequestMsg /\ requestPipe[i].key \in CallKey
BY DEF TypeOK, PipesTypeOK, IsRequest, InterruptMsg, PingMsg, RequestMsg

LEMMA CallType ==
  ASSUME TypeOK, NEW s \in Server
  PROVE  call[s] \in Call /\ call[s].key \in CallKey
BY DEF TypeOK, SrvrTypeOK, Call

LEMMA ResponseType ==
  ASSUME TypeOK, NEW c \in Client, NEW i \in 1 .. Len(resultPipe[c])
  PROVE  resultPipe[c][i] \in ResponseMsg /\ resultPipe[c][i].key \in CallKey
<1>1. resultPipe[c] \in Seq(ResponseMsg)
  BY DEF TypeOK, PipesTypeOK
<1>2. resultPipe[c][i] \in ResponseMsg
  BY <1>1
<1>3. QED
  BY <1>2 DEF ResponseMsg

LEMMA ResponsesDifferSame ==
  ASSUME ResponsesDiffer, UNCHANGED resultPipe
  PROVE  ResponsesDiffer'
BY DEF ResponsesDiffer

\* Taking calls away disturbs nothing.
LEMMA TakenSpent ==
  ASSUME TypeOK, CallsAreSpent, UNCHANGED executed,
         \A k \in CallKey : Spent(k) => Spent(k)',
         NEW o \in Nat, RequestsTaken(o),
         NEW q \in [Client -> Nat], ResponsesTaken(q), BusyStays
  PROVE  CallsAreSpent'
<1>1. RequestsSpent'
  BY RequestType DEF CallsAreSpent, RequestsSpent, RequestsTaken
<1>2. BusySpent'
  BY CallType DEF CallsAreSpent, BusySpent, BusyStays
<1>3. ResponsesSpent'
  <2> SUFFICES ASSUME NEW c \in Client, NEW i \in 1 .. Len(resultPipe'[c])
               PROVE  Spent(resultPipe[c][i].key)'
    BY DEF ResponsesSpent
  <2> DEFINE j == i + q[c]
  <2>1. j \in 1 .. Len(resultPipe[c]) /\ resultPipe'[c][i] = resultPipe[c][j]
    BY DEF ResponsesTaken
  <2> HIDE DEF j
  <2>2. Spent(resultPipe[c][j].key)
    BY <2>1 DEF CallsAreSpent, ResponsesSpent
  <2>3. resultPipe[c][j].key \in CallKey
    BY <2>1, ResponseType
  <2>4. PICK k \in CallKey : k = resultPipe[c][j].key
    BY <2>3
  <2>5. Spent(k)'
    BY <2>2, <2>4
  <2>6. resultPipe'[c][i].key = k
    BY <2>1, <2>4
  <2>7. QED
    BY <2>5, <2>6
<1>4. ExecutedSpent'
  BY DEF CallsAreSpent, ExecutedSpent, TypeOK, SrvrTypeOK
<1>5. QED
  BY <1>1, <1>2, <1>3, <1>4 DEF CallsAreSpent

LEMMA TakenInOnePlace ==
  ASSUME CallsAreInOnePlace,
         NEW o \in Nat, RequestsTaken(o),
         NEW q \in [Client -> Nat], ResponsesTaken(q), BusyStays
  PROVE  CallsAreInOnePlace'
<1> USE DEF CallsAreInOnePlace
<1>1. RequestsDiffer'
  <2> SUFFICES ASSUME NEW i \in 1 .. Len(requestPipe'), NEW j \in 1 .. Len(requestPipe'),
                      i # j, IsRequest(i)', IsRequest(j)'
               PROVE  requestPipe'[i].key # requestPipe'[j].key
    BY DEF RequestsDiffer
  <2>1. i + o # j + o
    OBVIOUS
  <2>2. QED
    BY SMTT(30), <2>1 DEF RequestsDiffer, RequestsTaken
<1>2. BusyDiffer'
  BY DEF BusyDiffer, BusyStays
<1>3. ResponsesDiffer'
  <2> SUFFICES ASSUME NEW c \in Client, NEW i \in 1 .. Len(resultPipe'[c]),
                      NEW j \in 1 .. Len(resultPipe'[c]), i # j
               PROVE  resultPipe'[c][i].key # resultPipe'[c][j].key
    BY DEF ResponsesDiffer
  <2>1. i + q[c] # j + q[c]
    OBVIOUS
  <2>2. /\ i + q[c] \in 1 .. Len(resultPipe[c]) /\ resultPipe'[c][i] = resultPipe[c][i + q[c]]
        /\ j + q[c] \in 1 .. Len(resultPipe[c]) /\ resultPipe'[c][j] = resultPipe[c][j + q[c]]
    BY DEF ResponsesTaken
  <2>3. QED
    BY <2>1, <2>2 DEF ResponsesDiffer
<1>4. BusyNotRequested'
  <2> SUFFICES ASSUME NEW s \in Server, NEW i \in 1 .. Len(requestPipe'), Busy(s)', IsRequest(i)'
               PROVE  call'[s].key # requestPipe'[i].key
    BY DEF BusyNotRequested
  <2>1. Busy(s) /\ call'[s] = call[s]
    BY DEF BusyStays
  <2>2. i + o \in 1 .. Len(requestPipe) /\ IsRequest(i + o) /\ requestPipe'[i] = requestPipe[i + o]
    BY DEF RequestsTaken
  <2>3. QED
    BY <2>1, <2>2 DEF BusyNotRequested
<1>5. RespondedNotRequested'
  <2> SUFFICES ASSUME NEW c \in Client, NEW j \in 1 .. Len(resultPipe'[c]),
                      NEW i \in 1 .. Len(requestPipe'), IsRequest(i)'
               PROVE  resultPipe'[c][j].key # requestPipe'[i].key
    BY DEF RespondedNotRequested
  <2>1. j + q[c] \in 1 .. Len(resultPipe[c]) /\ resultPipe'[c][j] = resultPipe[c][j + q[c]]
    BY DEF ResponsesTaken
  <2>2. i + o \in 1 .. Len(requestPipe) /\ IsRequest(i + o) /\ requestPipe'[i] = requestPipe[i + o]
    BY DEF RequestsTaken
  <2>3. QED
    BY <2>1, <2>2 DEF RespondedNotRequested
<1>6. RespondedNotBusy'
  <2> SUFFICES ASSUME NEW c \in Client, NEW j \in 1 .. Len(resultPipe'[c]),
                      NEW s \in Server, Busy(s)'
               PROVE  resultPipe'[c][j].key # call'[s].key
    BY DEF RespondedNotBusy
  <2>1. /\ j + q[c] \in 1 .. Len(resultPipe[c])
        /\ resultPipe'[c][j] = resultPipe[c][j + q[c]]
    BY DEF ResponsesTaken
  <2>2. Busy(s) /\ call'[s] = call[s]
    BY DEF BusyStays
  <2>3. QED
    BY <2>1, <2>2 DEF RespondedNotBusy
<1>7. QED
  BY <1>1, <1>2, <1>3, <1>4, <1>5, <1>6

LEMMA TakenKnown ==
  ASSUME ExecutionIsKnown, UNCHANGED executed,
         NEW o \in Nat, RequestsTaken(o),
         NEW q \in [Client -> Nat], ResponsesTaken(q), BusyStays
  PROVE  ExecutionIsKnown'
<1>1. RequestsNotExecuted'
  BY DEF ExecutionIsKnown, RequestsNotExecuted, RequestsTaken
<1>2. BusyKnown'
  BY DEF ExecutionIsKnown, BusyKnown, BusyStays, Busy
<1>3. ResponsesKnown'
  <2> SUFFICES ASSUME NEW c \in Client, NEW i \in 1 .. Len(resultPipe'[c])
               PROVE  resultPipe'[c][i].code = "OK" <=> resultPipe'[c][i].key \in executed
    BY DEF ResponsesKnown
  <2>1. /\ i + q[c] \in 1 .. Len(resultPipe[c])
        /\ resultPipe'[c][i] = resultPipe[c][i + q[c]]
    BY DEF ResponsesTaken
  <2>2. QED
    BY <2>1 DEF ExecutionIsKnown, ResponsesKnown
<1>4. QED
  BY <1>1, <1>2, <1>3 DEF ExecutionIsKnown

LEMMA TakenCallsInv ==
  ASSUME TypeOK, CallsInv, UNCHANGED executed,
         \A k \in CallKey : Spent(k) => Spent(k)',
         NEW o \in Nat, RequestsTaken(o),
         NEW q \in [Client -> Nat], ResponsesTaken(q), BusyStays
  PROVE  CallsInv'
BY TakenSpent, TakenInOnePlace, TakenKnown DEF CallsInv

-----------------------------------------------------------------------------
(* Sessions *)

\* A call that was sent stays so: the next call of its session is another.
LEMMA SpentStays ==
  ASSUME TypeOK, NEW c \in Client, ClntNext(c), NEW k \in CallKey, Spent(k)
  PROVE  Spent(k)'
<1>t. /\ k.client \in Client /\ k.epoch \in Nat /\ k.n \in Nat
      /\ stage \in [Client -> Stage]
      /\ reqNo \in [Client -> Nat] /\ epoch \in [Client -> Nat]
  BY DEF CallKey, TypeOK, ClntTypeOK
<1>1. ASSUME NEW m \in Method, NewRequest(c, m) PROVE Spent(k)'
  <2>1. /\ reqNo' = [reqNo EXCEPT ![c] = @ + 1]
        /\ stage' = [stage EXCEPT ![c] = "built"]
        /\ epoch' = epoch
    BY <1>1 DEF NewRequest
  <2>2. CASE k.client = c
    <3>1. \/ k.epoch < epoch'[c]
          \/ k.epoch = epoch'[c] /\ k.n < reqNo'[c]
      BY <1>t, <2>1, <2>2 DEF Spent, Made
    <3>2. Key(c)'.n = reqNo'[c] /\ Key(c)'.epoch = epoch'[c]
      BY DEF Key
    <3>3. k # Key(c)'
      BY <1>t, <2>1, <3>1, <3>2
    <3>4. Made(k)'
      BY <1>t, <2>1, <2>2, <3>1 DEF Made
    <3>5. QED
      BY <2>2, <3>3, <3>4 DEF Spent
  <2>3. CASE k.client # c
    BY <1>t, <2>1, <2>3 DEF Spent, Made, Key
  <2>4. QED
    BY <2>2, <2>3
<1>2. CASE Reinitialise(c)
  <2>1. /\ epoch' = [epoch EXCEPT ![c] = @ + 1]
        /\ reqNo' = [reqNo EXCEPT ![c] = 0]
        /\ stage' = stage /\ stage[c] = "idle"
    BY <1>2 DEF Reinitialise
  <2>2. CASE k.client = c
    BY <1>t, <2>1, <2>2 DEF Spent, Made
  <2>3. CASE k.client # c
    BY <1>t, <2>1, <2>3 DEF Spent, Made, Key
  <2>4. QED
    BY <2>2, <2>3
<1>3. ASSUME UNCHANGED clntHistory, \A d \in Client : stage'[d] = "built" => stage[d] = "built"
      PROVE  Spent(k)'
  BY <1>t, <1>3 DEF Spent, Made, Key, clntHistory
<1>4. CASE \/ SetRequestParameterFails(c) \/ SendRequest(c) \/ SendTimedOut(c)
           \/ ClntInterrupted(c) \/ RecvResponse(c) \/ RecvTimedOut(c) \/ Shutdown(c)
  <2>1. UNCHANGED clntHistory
    BY <1>4
       DEF SetRequestParameterFails, SendRequest, SendTimedOut, ClntInterrupted, RecvResponse,
           RecvTimedOut, Shutdown, clntVars, clntHistory
  <2>2. \A d \in Client : stage'[d] = "built" => stage[d] = "built"
    BY <1>t, <1>4
       DEF SetRequestParameterFails, SendRequest, SendTimedOut, ClntInterrupted, RecvResponse,
           RecvTimedOut, Shutdown, StubEnds, clntVars
  <2>3. QED
    BY <1>3, <2>1, <2>2
<1>5. QED
  BY <1>1, <1>2, <1>4 DEF ClntNext

\* The request a session sends is in no other place.
LEMMA SendCallsInv ==
  ASSUME TypeOK, TypeOK', CallsInv, NEW c \in Client, SendRequest(c), ClntNext(c),
         UNCHANGED srvrVars
  PROVE  CallsInv'
<1> USE DEF CallsInv
<1>t. /\ requestPipe \in Seq(RequestMsg \cup {InterruptMsg, PingMsg})
      /\ requestPipe' = Append(requestPipe, Request(c))
      /\ UNCHANGED <<resultPipe, proc, call, executed>>
  BY DEF TypeOK, PipesTypeOK, SendRequest, SendMessage, srvrVars
<1>k. \A k \in CallKey : Spent(k) => Spent(k)' /\ k # Key(c)
  BY SpentStays DEF Spent, SendRequest, Key
<1>n. Request(c).key = Key(c)
  BY DEF Request
<1>x. Key(c)' = Key(c)
  BY DEF SendRequest, clntHistory, Key
<1>s. Spent(Key(c))'
  BY DEF Spent, Made, Key, SendRequest, StubEnds, clntHistory, TypeOK, ClntTypeOK, Stage
<1>i. \A i \in 1 .. Len(requestPipe') :
        \/ i \in 1 .. Len(requestPipe) /\ requestPipe'[i] = requestPipe[i]
        \/ i = Len(requestPipe) + 1 /\ requestPipe'[i] = Request(c)
  BY <1>t
<1>o. \A i \in 1 .. Len(requestPipe') : IsRequest(i)' =>
        \/ /\ i \in 1 .. Len(requestPipe)
           /\ IsRequest(i)
           /\ requestPipe'[i].key = requestPipe[i].key
           /\ requestPipe[i].key # Key(c)
           /\ Spent(requestPipe[i].key)'
        \/ i = Len(requestPipe) + 1 /\ requestPipe'[i].key = Key(c)
  BY <1>i, <1>k, <1>n, RequestType DEF IsRequest, CallsAreSpent, RequestsSpent
<1>b. \A s \in Server : Busy(s) => call[s].key # Key(c) /\ Spent(call[s].key)'
  BY <1>t, <1>k, CallType DEF CallsAreSpent, BusySpent
<1>r. \A d \in Client : \A j \in 1 .. Len(resultPipe[d]) :
        resultPipe[d][j].key # Key(c) /\ Spent(resultPipe[d][j].key)'
  BY <1>t, <1>k, ResponseType DEF CallsAreSpent, ResponsesSpent
<1>e. \A k \in executed : k # Key(c) /\ Spent(k)'
  BY <1>k DEF CallsAreSpent, ExecutedSpent, TypeOK, SrvrTypeOK
<1>1. CallsAreSpent'
  <2>1. RequestsSpent'
    BY <1>o, <1>s, <1>x DEF RequestsSpent
  <2>2. BusySpent' /\ ResponsesSpent' /\ ExecutedSpent'
    BY <1>t, <1>b, <1>r, <1>e DEF BusySpent, ResponsesSpent, ExecutedSpent, Busy
  <2>3. QED
    BY <2>1, <2>2 DEF CallsAreSpent
<1>2. CallsAreInOnePlace'
  <2> USE DEF CallsAreInOnePlace
  <2>1. RequestsDiffer'
    BY <1>o DEF RequestsDiffer
  <2>2. BusyDiffer' /\ ResponsesDiffer' /\ RespondedNotBusy'
    <3>1. BusyDiffer' /\ RespondedNotBusy'
      BY <1>t DEF BusyDiffer, RespondedNotBusy, Busy
    <3>2. QED
      BY <1>t, <3>1, ResponsesDifferSame
  <2>3. BusyNotRequested'
    BY <1>t, <1>o, <1>b DEF BusyNotRequested, Busy
  <2>4. RespondedNotRequested'
    BY <1>t, <1>o, <1>r DEF RespondedNotRequested
  <2>5. QED
    BY <2>1, <2>2, <2>3, <2>4
<1>3. ExecutionIsKnown'
  <2>1. RequestsNotExecuted'
    BY <1>t, <1>o, <1>e DEF ExecutionIsKnown, RequestsNotExecuted
  <2>2. BusyKnown' /\ ResponsesKnown'
    BY <1>t DEF ExecutionIsKnown, BusyKnown, ResponsesKnown
  <2>3. QED
    BY <2>1, <2>2 DEF ExecutionIsKnown
<1>4. QED
  BY <1>1, <1>2, <1>3

\* A session that sends nothing takes its responses in their order.
LEMMA ClntResponsesTaken ==
  ASSUME TypeOK, NEW c \in Client, ClntNext(c), ~SendRequest(c)
  PROVE  \E q \in [Client -> Nat] : ResponsesTaken(q)
<1> DEFINE none == [d \in Client |-> 0]
           one  == [d \in Client |-> IF d = c THEN 1 ELSE 0]
<1>t. resultPipe \in [Client -> Seq(ResponseMsg)]
  BY DEF TypeOK, PipesTypeOK
<1>1. none \in [Client -> Nat] /\ one \in [Client -> Nat]
  OBVIOUS
<1>2. CASE resultPipe' = resultPipe \/ resultPipe' = [resultPipe EXCEPT ![c] = <<>>]
  <2>1. ASSUME NEW d \in Client, NEW i \in 1 .. Len(resultPipe'[d])
        PROVE  i + 0 \in 1 .. Len(resultPipe[d]) /\ resultPipe'[d][i] = resultPipe[d][i + 0]
    <3>1. CASE resultPipe'[d] = resultPipe[d]
      BY <1>t, <3>1
    <3>2. CASE resultPipe'[d] = <<>>
      BY <3>2
    <3>3. QED
      BY <1>t, <1>2, <3>1, <3>2
  <2>2. ResponsesTaken(none)
    BY <2>1 DEF ResponsesTaken
  <2>3. QED
    BY <1>1, <2>2
<1>3. CASE RecvResponse(c)
  <2>1. resultPipe[c] # <<>> /\ resultPipe' = [resultPipe EXCEPT ![c] = Tail(@)]
    BY <1>3 DEF RecvResponse, MessageReady, ReceiveMessage
  <2>2. ResponsesTaken(one)
    <3> SUFFICES ASSUME NEW d \in Client, NEW i \in 1 .. Len(resultPipe'[d])
                 PROVE  /\ i + one[d] \in 1 .. Len(resultPipe[d])
                        /\ resultPipe'[d][i] = resultPipe[d][i + one[d]]
      BY DEF ResponsesTaken
    <3>1. CASE d = c
      BY <1>t, <2>1, <3>1, TailIsOld
    <3>2. CASE d # c
      BY <1>t, <2>1, <3>2
    <3>3. QED
      BY <3>1, <3>2
  <2>3. QED
    BY <1>1, <2>2
<1>4. QED
  BY <1>2, <1>3
     DEF ClntNext, NewRequest, SetRequestParameterFails, SendTimedOut, ClntInterrupted,
         RecvTimedOut, Shutdown, Reinitialise, EmptyPipe, pipes

\* A session that sends nothing only takes responses away.
LEMMA ClntCallsInv ==
  ASSUME TypeOK, TypeOK', CallsInv, NEW c \in Client, ClntNext(c), UNCHANGED srvrVars
  PROVE  CallsInv'
<1>1. CASE SendRequest(c)
  BY <1>1, SendCallsInv
<1>2. CASE ~SendRequest(c)
  <2>1. requestPipe' = requestPipe
    BY <1>2
       DEF ClntNext, NewRequest, SetRequestParameterFails, SendTimedOut, ClntInterrupted,
           RecvResponse, RecvTimedOut, Shutdown, Reinitialise, pipes
  <2>2. RequestsTaken(0)
    BY <2>1 DEF RequestsTaken, IsRequest, TypeOK, PipesTypeOK
  <2>3. \E q \in [Client -> Nat] : ResponsesTaken(q)
    BY <1>2, ClntResponsesTaken
  <2>4. BusyStays /\ UNCHANGED executed
    BY DEF BusyStays, Busy, srvrVars
  <2>5. \A k \in CallKey : Spent(k) => Spent(k)'
    BY SpentStays
  <2>6. QED
    BY <2>2, <2>3, <2>4, <2>5, TakenCallsInv
<1>3. QED
  BY <1>1, <1>2

-----------------------------------------------------------------------------
(* Listeners *)

LEMMA SpentSame ==
  ASSUME UNCHANGED clntVars, NEW k, Spent(k)
  PROVE  Spent(k)'
BY DEF Spent, Made, Key, clntVars

\* Receiving moves the oldest request to the structure of the listener.
LEMMA RecvCallsInv ==
  ASSUME TypeOK, CallsInv, NEW s \in Server, RecvRequest(s), proc'[s] = "exec",
         UNCHANGED clntVars
  PROVE  CallsInv'
<1> USE DEF CallsInv
<1>t. /\ requestPipe \in Seq(RequestMsg \cup {InterruptMsg, PingMsg}) /\ requestPipe # <<>>
      /\ requestPipe' = Tail(requestPipe)
      /\ proc \in [Server -> Running \cup Ended] /\ call \in [Server -> Call]
      /\ UNCHANGED <<resultPipe, executed>>
  BY DEF TypeOK, PipesTypeOK, SrvrTypeOK, RecvRequest, MessageReady, ReceiveMessage
<1>h. /\ 1 \in 1 .. Len(requestPipe) /\ IsRequest(1)
      /\ call' = [call EXCEPT ![s] = ReceivedCall(requestPipe[1])]
      /\ proc' = [proc EXCEPT ![s] = "exec"]
      /\ proc[s] = "recv"
  BY <1>t DEF RecvRequest, Received, IsRequest
<1>c. call'[s].key = requestPipe[1].key /\ call'[s].error = "OK"
  BY <1>t, <1>h DEF ReceivedCall
<1>o. \A i \in 1 .. Len(requestPipe') :
        /\ i + 1 \in 1 .. Len(requestPipe) /\ i + 1 # 1
        /\ requestPipe'[i] = requestPipe[i + 1]
        /\ IsRequest(i)' => IsRequest(i + 1)
  BY <1>t, TailIsOld DEF IsRequest
<1>b. \A t \in Server : t # s => proc'[t] = proc[t] /\ call'[t] = call[t]
  BY <1>t, <1>h
<1>1. CallsAreSpent'
  <2> USE DEF CallsAreSpent
  <2>1. RequestsSpent'
    BY <1>o, SpentSame DEF RequestsSpent
  <2>2. BusySpent'
    BY <1>h, <1>c, <1>b, SpentSame DEF BusySpent, RequestsSpent, Busy
  <2>3. ResponsesSpent' /\ ExecutedSpent'
    BY <1>t, SpentSame DEF ResponsesSpent, ExecutedSpent
  <2>4. QED
    BY <2>1, <2>2, <2>3
<1>2. CallsAreInOnePlace'
  <2> USE DEF CallsAreInOnePlace
  <2>1. RequestsDiffer'
    <3> SUFFICES ASSUME NEW i \in 1 .. Len(requestPipe'), NEW j \in 1 .. Len(requestPipe'),
                        i # j, IsRequest(i)', IsRequest(j)'
                 PROVE  requestPipe'[i].key # requestPipe'[j].key
      BY DEF RequestsDiffer
    <3>1. i + 1 # j + 1
      OBVIOUS
    <3>2. QED
      BY SMTT(30), <1>o, <3>1 DEF RequestsDiffer
  <2>2. BusyDiffer'
    BY <1>h, <1>c, <1>b DEF BusyDiffer, BusyNotRequested, Busy
  <2>3. ResponsesDiffer'
    BY <1>t, ResponsesDifferSame
  <2>4. BusyNotRequested'
    <3> SUFFICES ASSUME NEW t \in Server, NEW i \in 1 .. Len(requestPipe'), Busy(t)', IsRequest(i)'
                 PROVE  call'[t].key # requestPipe'[i].key
      BY DEF BusyNotRequested
    <3> DEFINE j == i + 1
    <3>0. /\ j \in 1 .. Len(requestPipe) /\ j # 1 /\ IsRequest(j)
          /\ requestPipe'[i] = requestPipe[j]
      BY <1>o
    <3> HIDE DEF j
    <3>1. CASE t = s
      <4>1. requestPipe[1].key # requestPipe[j].key
        BY <1>h, <3>0 DEF RequestsDiffer
      <4>2. QED
        BY <1>c, <3>0, <3>1, <4>1
    <3>2. CASE t # s
      <4>1. call[t].key # requestPipe[j].key
        BY <1>b, <3>0, <3>2 DEF BusyNotRequested, Busy
      <4>2. QED
        BY <1>b, <3>0, <3>2, <4>1
    <3>3. QED
      BY <3>1, <3>2
  <2>5. RespondedNotRequested'
    <3> SUFFICES ASSUME NEW c \in Client, NEW j \in 1 .. Len(resultPipe[c]),
                        NEW i \in 1 .. Len(requestPipe'), IsRequest(i)'
                 PROVE  resultPipe[c][j].key # requestPipe'[i].key
      BY <1>t DEF RespondedNotRequested
    <3>1. /\ i + 1 \in 1 .. Len(requestPipe) /\ IsRequest(i + 1)
          /\ requestPipe'[i] = requestPipe[i + 1]
      BY <1>o
    <3>2. resultPipe[c][j].key # requestPipe[i + 1].key
      BY <3>1 DEF RespondedNotRequested
    <3>3. QED
      BY <3>1, <3>2
  <2>6. RespondedNotBusy'
    <3> SUFFICES ASSUME NEW c \in Client, NEW j \in 1 .. Len(resultPipe[c]),
                        NEW t \in Server, Busy(t)'
                 PROVE  resultPipe[c][j].key # call'[t].key
      BY <1>t DEF RespondedNotBusy
    <3>1. CASE t = s
      BY <1>h, <1>c, <3>1 DEF RespondedNotRequested
    <3>2. CASE t # s
      BY <1>b, <3>2 DEF RespondedNotBusy, Busy
    <3>3. QED
      BY <3>1, <3>2
  <2>7. QED
    BY <2>1, <2>2, <2>3, <2>4, <2>5, <2>6
<1>3. ExecutionIsKnown'
  <2> USE DEF ExecutionIsKnown
  <2>1. RequestsNotExecuted'
    BY <1>t, <1>o DEF RequestsNotExecuted
  <2>2. BusyKnown'
    BY <1>t, <1>h, <1>c, <1>b DEF RequestsNotExecuted, BusyKnown
  <2>3. ResponsesKnown'
    BY <1>t DEF ResponsesKnown
  <2>4. QED
    BY <2>1, <2>2, <2>3
<1>4. QED
  BY <1>1, <1>2, <1>3

\* Execution adds the key of a call that is nowhere else, and leaves it in the
\* structure with error OK, or drops it.
LEMMA ExecCallsInv ==
  ASSUME TypeOK, CallsInv, NEW s \in Server, ExecCall(s), UNCHANGED clntVars
  PROVE  CallsInv'
<1> USE DEF CallsInv
<1> DEFINE k == call[s].key
           error == NativeParse(call[s].method, call[s].error)
<1>t. /\ proc \in [Server -> Running \cup Ended] /\ call \in [Server -> Call]
      /\ UNCHANGED <<requestPipe, resultPipe>>
  BY DEF TypeOK, SrvrTypeOK, ExecCall, pipes
<1>b. \A t \in Server : t # s => proc'[t] = proc[t] /\ call'[t] = call[t]
  BY <1>t DEF ExecCall, ClearCall
<1>p. proc[s] = "exec" /\ Busy(s)
  BY DEF ExecCall, Busy
<1>e. executed' = IF error = "OK" THEN executed \cup {k} ELSE executed
  BY DEF ExecCall
<1>s. Busy(s)' => proc'[s] = "send" /\ call'[s].key = k /\ call'[s].error = error
  <2>1. CASE Responds(LookupFunction(call[s].method))
    <3>1. call' = [call EXCEPT ![s] = [call[s] EXCEPT !.error = error]]
      BY <2>1 DEF ExecCall
    <3>2. proc' = [proc EXCEPT ![s] = "send"]
      BY <2>1 DEF ExecCall
    <3> HIDE DEF error
    <3>3. QED
      BY <1>t, <3>1, <3>2 DEF Call
  <2>2. CASE ~Responds(LookupFunction(call[s].method))
    BY <1>t, <2>2 DEF ExecCall, AfterRequest, Busy
  <2>3. QED
    BY <2>1, <2>2
<1>n. k \notin executed
  BY <1>p DEF ExecutionIsKnown, BusyKnown
<1> HIDE DEF k, error
<1>1. CallsAreSpent'
  <2> USE DEF CallsAreSpent
  <2>1. RequestsSpent' /\ ResponsesSpent'
    BY <1>t, SpentSame DEF RequestsSpent, ResponsesSpent, IsRequest
  <2>2. BusySpent'
    BY <1>p, <1>b, <1>s, SpentSame DEF BusySpent, Busy, k
  <2>3. ExecutedSpent'
    BY <1>e, <1>p, SpentSame DEF ExecutedSpent, BusySpent, k
  <2>4. QED
    BY <2>1, <2>2, <2>3
<1>2. CallsAreInOnePlace'
  <2> USE DEF CallsAreInOnePlace
  <2>1. RequestsDiffer' /\ ResponsesDiffer' /\ RespondedNotRequested'
    BY <1>t DEF RequestsDiffer, ResponsesDiffer, RespondedNotRequested, IsRequest
  <2>2. BusyDiffer'
    BY <1>b, <1>s, <1>p DEF BusyDiffer, Busy, k
  <2>3. BusyNotRequested'
    BY <1>t, <1>b, <1>s, <1>p DEF BusyNotRequested, IsRequest, Busy, k
  <2>4. RespondedNotBusy'
    BY <1>t, <1>b, <1>s, <1>p DEF RespondedNotBusy, Busy, k
  <2>5. QED
    BY <2>1, <2>2, <2>3, <2>4
<1>3. ExecutionIsKnown'
  <2> USE DEF ExecutionIsKnown
  <2>1. RequestsNotExecuted'
    BY <1>t, <1>e, <1>p DEF RequestsNotExecuted, IsRequest, CallsAreInOnePlace, BusyNotRequested, k
  <2>2. BusyKnown'
    <3> SUFFICES ASSUME NEW t \in Server
                 PROVE  /\ proc'[t] = "exec" => call'[t].key \notin executed' /\ call'[t].error = "OK"
                        /\ proc'[t] = "send" => (call'[t].error = "OK" <=> call'[t].key \in executed')
      BY DEF BusyKnown
    <3>1. CASE t = s
      BY <1>s, <1>e, <1>n, <3>1 DEF Busy
    <3>2. CASE t # s
      <4>1. Busy(t) => call[t].key # k
        BY <1>p, <3>2 DEF CallsAreInOnePlace, BusyDiffer, k
      <4>2. QED
        BY <1>b, <1>e, <3>2, <4>1 DEF BusyKnown, Busy
    <3>3. QED
      BY <3>1, <3>2
  <2>3. ResponsesKnown'
    <3>1. \A c \in Client : \A i \in 1 .. Len(resultPipe[c]) : resultPipe[c][i].key # k
      BY <1>p DEF CallsAreInOnePlace, RespondedNotBusy, k
    <3>2. QED
      BY <1>t, <1>e, <3>1 DEF ResponsesKnown
  <2>4. QED
    BY <2>1, <2>2, <2>3
<1>4. QED
  BY <1>1, <1>2, <1>3

\* The response takes the place of the call in the listener.
LEMMA RespondCallsInv ==
  ASSUME TypeOK, CallsInv, NEW s \in Server, SendResponse(s), UNCHANGED clntVars
  PROVE  CallsInv'
<1> USE DEF CallsInv
<1> DEFINE p == call[s].pipe
<1>t. /\ proc \in [Server -> Running \cup Ended] /\ call \in [Server -> Call]
      /\ resultPipe \in [Client -> Seq(ResponseMsg)]
      /\ UNCHANGED <<requestPipe, executed>>
  BY DEF TypeOK, PipesTypeOK, SrvrTypeOK, SendResponse
<1>b. \A t \in Server : t # s => proc'[t] = proc[t] /\ call'[t] = call[t]
  BY <1>t DEF SendResponse, ClearCall
<1>p. /\ proc[s] = "send" /\ Busy(s) /\ ~Busy(s)'
      /\ p \in Client
  BY <1>t DEF SendResponse, CanSend, Busy, AfterRequest, Call
<1>r. resultPipe' = [resultPipe EXCEPT ![p] = Append(@, Response(s))]
  BY DEF SendResponse, SendMessage
<1>m. Response(s).key = call[s].key /\ Response(s).code = call[s].error
  BY DEF Response
<1> HIDE DEF p
<1>o. \A c \in Client : \A i \in 1 .. Len(resultPipe'[c]) :
        \/ i \in 1 .. Len(resultPipe[c]) /\ resultPipe'[c][i] = resultPipe[c][i]
        \/ /\ c = p /\ i = Len(resultPipe[c]) + 1
           /\ resultPipe'[c][i] = Response(s)
  <2> SUFFICES ASSUME NEW c \in Client, NEW i \in 1 .. Len(resultPipe'[c])
               PROVE  \/ i \in 1 .. Len(resultPipe[c]) /\ resultPipe'[c][i] = resultPipe[c][i]
                      \/ /\ c = p /\ i = Len(resultPipe[c]) + 1
                         /\ resultPipe'[c][i] = Response(s)
    OBVIOUS
  <2>1. CASE c # p
    BY <1>t, <1>r, <2>1
  <2>2. CASE c = p
    <3>1. resultPipe'[c] = Append(resultPipe[c], Response(s)) /\ resultPipe[c] \in Seq(ResponseMsg)
      BY <1>t, <1>p, <1>r, <2>2
    <3>2. QED
      BY <2>2, <3>1
  <2>3. QED
    BY <2>1, <2>2
<1>1. CallsAreSpent'
  <2> USE DEF CallsAreSpent
  <2>1. RequestsSpent' /\ ExecutedSpent'
    BY <1>t, SpentSame DEF RequestsSpent, ExecutedSpent, IsRequest
  <2>2. BusySpent'
    BY <1>b, <1>p, SpentSame DEF BusySpent, Busy
  <2>3. ResponsesSpent'
    <3> SUFFICES ASSUME NEW c \in Client, NEW i \in 1 .. Len(resultPipe'[c])
                 PROVE  Spent(resultPipe[c][i].key)'
      BY DEF ResponsesSpent
    <3>1. PICK k : k = resultPipe'[c][i].key
      OBVIOUS
    <3>2. Spent(k)
      BY <1>o, <1>m, <1>p, <3>1 DEF ResponsesSpent, BusySpent
    <3>3. Spent(k)'
      BY <3>2, SpentSame
    <3>4. QED
      BY <3>1, <3>3
  <2>4. QED
    BY <2>1, <2>2, <2>3
<1>2. CallsAreInOnePlace'
  <2> USE DEF CallsAreInOnePlace
  <2>1. RequestsDiffer'
    BY <1>t DEF RequestsDiffer, IsRequest
  <2>b. ASSUME NEW t \in Server, Busy(t)' PROVE t # s /\ Busy(t) /\ call'[t] = call[t]
    BY <1>b, <1>p, <2>b DEF Busy
  <2>2. BusyDiffer' /\ BusyNotRequested'
    <3>1. BusyDiffer'
      BY <2>b DEF BusyDiffer
    <3>2. BusyNotRequested'
      <4>1. \A i : IsRequest(i)' => IsRequest(i)
        BY <1>t DEF IsRequest
      <4>2. QED
        BY <1>t, <2>b, <4>1 DEF BusyNotRequested
    <3>3. QED
      BY <3>1, <3>2
  <2>3. ResponsesDiffer'
    <3> SUFFICES ASSUME NEW c \in Client, NEW i \in 1 .. Len(resultPipe'[c]),
                        NEW j \in 1 .. Len(resultPipe'[c]), i # j
                 PROVE  resultPipe'[c][i].key # resultPipe'[c][j].key
      BY DEF ResponsesDiffer
    <3>1. CASE /\ i \in 1 .. Len(resultPipe[c]) /\ resultPipe'[c][i] = resultPipe[c][i]
               /\ j \in 1 .. Len(resultPipe[c]) /\ resultPipe'[c][j] = resultPipe[c][j]
      BY <3>1 DEF ResponsesDiffer
    <3>2. CASE /\ i \in 1 .. Len(resultPipe[c]) /\ resultPipe'[c][i] = resultPipe[c][i]
               /\ resultPipe'[c][j] = Response(s)
      BY <1>m, <1>p, <3>2 DEF RespondedNotBusy
    <3>3. CASE /\ j \in 1 .. Len(resultPipe[c]) /\ resultPipe'[c][j] = resultPipe[c][j]
               /\ resultPipe'[c][i] = Response(s)
      BY <1>m, <1>p, <3>3 DEF RespondedNotBusy
    <3>4. CASE i = Len(resultPipe[c]) + 1 /\ j = Len(resultPipe[c]) + 1
      BY <3>4
    <3>5. QED
      BY <1>o, <3>1, <3>2, <3>3, <3>4
  <2>4. RespondedNotRequested'
    <3> SUFFICES ASSUME NEW c \in Client, NEW j \in 1 .. Len(resultPipe'[c]),
                        NEW i \in 1 .. Len(requestPipe'), IsRequest(i)'
                 PROVE  resultPipe'[c][j].key # requestPipe'[i].key
      BY DEF RespondedNotRequested
    <3>1. i \in 1 .. Len(requestPipe) /\ IsRequest(i) /\ requestPipe'[i] = requestPipe[i]
      BY <1>t DEF IsRequest
    <3>2. call[s].key # requestPipe[i].key
      BY <1>p, <3>1 DEF BusyNotRequested
    <3>3. CASE j \in 1 .. Len(resultPipe[c]) /\ resultPipe'[c][j] = resultPipe[c][j]
      BY <3>1, <3>3 DEF RespondedNotRequested
    <3>4. CASE resultPipe'[c][j] = Response(s)
      BY <1>m, <3>1, <3>2, <3>4
    <3>5. QED
      BY <1>o, <3>3, <3>4
  <2>5. RespondedNotBusy'
    <3> SUFFICES ASSUME NEW c \in Client, NEW j \in 1 .. Len(resultPipe'[c]),
                        NEW t \in Server, Busy(t)'
                 PROVE  resultPipe'[c][j].key # call'[t].key
      BY DEF RespondedNotBusy
    <3>1. t # s /\ Busy(t) /\ call'[t] = call[t]
      BY <1>b, <1>p DEF Busy
    <3>2. call[t].key # call[s].key
      BY <1>p, <3>1 DEF BusyDiffer
    <3>3. QED
      BY <1>o, <1>m, <3>1, <3>2 DEF RespondedNotBusy
  <2>6. QED
    BY <2>1, <2>2, <2>3, <2>4, <2>5
<1>3. ExecutionIsKnown'
  <2> USE DEF ExecutionIsKnown
  <2>1. RequestsNotExecuted'
    BY <1>t DEF RequestsNotExecuted, IsRequest
  <2>2. BusyKnown'
    BY <1>t, <1>b, <1>p DEF BusyKnown, Busy
  <2>3. ResponsesKnown'
    <3> SUFFICES ASSUME NEW c \in Client, NEW i \in 1 .. Len(resultPipe'[c])
                 PROVE  resultPipe'[c][i].code = "OK" <=> resultPipe'[c][i].key \in executed
      BY <1>t DEF ResponsesKnown
    <3>1. call[s].error = "OK" <=> call[s].key \in executed
      BY <1>p DEF BusyKnown
    <3>2. CASE resultPipe'[c][i] = Response(s)
      BY <1>m, <3>1, <3>2
    <3>3. CASE i \in 1 .. Len(resultPipe[c]) /\ resultPipe'[c][i] = resultPipe[c][i]
      BY <3>3 DEF ResponsesKnown
    <3>4. QED
      BY <1>o, <3>2, <3>3
  <2>4. QED
    BY <2>1, <2>2, <2>3
<1>4. QED
  BY <1>1, <1>2, <1>3

\* Whatever else a listener, a helper or ping does to the request pipe takes
\* requests away at most.
LEMMA OtherRequestsTaken ==
  ASSUME TypeOK,
         \/ requestPipe' = requestPipe
         \/ requestPipe' = <<>>
         \/ requestPipe # <<>> /\ requestPipe' = Tail(requestPipe)
         \/ requestPipe' = Append(requestPipe, InterruptMsg)
         \/ requestPipe' = Append(requestPipe, PingMsg)
  PROVE  \E o \in Nat : RequestsTaken(o)
<1>t. requestPipe \in Seq(RequestMsg \cup {InterruptMsg, PingMsg})
  BY DEF TypeOK, PipesTypeOK
<1>1. CASE requestPipe # <<>> /\ requestPipe' = Tail(requestPipe)
  <2>1. RequestsTaken(1)
    BY <1>t, <1>1, TailIsOld DEF RequestsTaken, IsRequest
  <2>2. QED
    BY <2>1
<1>2. CASE requestPipe' = requestPipe \/ requestPipe' = <<>>
  <2>1. ASSUME NEW i \in 1 .. Len(requestPipe') PROVE i + 0 = i /\ requestPipe' = requestPipe
    BY <1>t, <1>2, <2>1
  <2>2. RequestsTaken(0)
    BY <2>1 DEF RequestsTaken, IsRequest
  <2>3. QED
    BY <2>2
<1>3. CASE \/ requestPipe' = Append(requestPipe, InterruptMsg)
           \/ requestPipe' = Append(requestPipe, PingMsg)
  <2>1. ASSUME NEW i \in 1 .. Len(requestPipe'), IsRequest(i)'
        PROVE  i + 0 = i /\ i \in 1 .. Len(requestPipe) /\ requestPipe'[i] = requestPipe[i]
    <3>1. PICK m \in {InterruptMsg, PingMsg} : requestPipe' = Append(requestPipe, m)
      BY <1>3
    <3>2. m.type # "REQUEST"
      BY DEF InterruptMsg, PingMsg
    <3>3. requestPipe'[Len(requestPipe) + 1] = m /\ i \in 1 .. Len(requestPipe) + 1
      BY <1>t, <3>1
    <3>4. i # Len(requestPipe) + 1
      BY <2>1, <3>2, <3>3 DEF IsRequest
    <3>5. QED
      BY <1>t, <3>1, <3>3, <3>4
  <2>2. RequestsTaken(0)
    BY <2>1 DEF RequestsTaken, IsRequest
  <2>3. QED
    BY <2>2
<1>4. QED
  BY <1>1, <1>2, <1>3

LEMMA OtherCallsInv ==
  ASSUME TypeOK, CallsInv, UNCHANGED <<clntVars, executed, resultPipe>>,
         \/ requestPipe' = requestPipe
         \/ requestPipe' = <<>>
         \/ requestPipe # <<>> /\ requestPipe' = Tail(requestPipe)
         \/ requestPipe' = Append(requestPipe, InterruptMsg)
         \/ requestPipe' = Append(requestPipe, PingMsg),
         BusyStays
  PROVE  CallsInv'
<1>t. resultPipe \in [Client -> Seq(ResponseMsg)]
  BY DEF TypeOK, PipesTypeOK
<1>1. \E o \in Nat : RequestsTaken(o)
  BY OtherRequestsTaken
<1>2. \E q \in [Client -> Nat] : ResponsesTaken(q)
  <2> DEFINE none == [c \in Client |-> 0]
  <2>1. ASSUME NEW c \in Client, NEW i \in 1 .. Len(resultPipe'[c]) PROVE i + 0 = i
    BY <1>t
  <2>2. none \in [Client -> Nat] /\ ResponsesTaken(none)
    BY <2>1 DEF ResponsesTaken
  <2>3. QED
    BY <2>2
<1>3. \A k \in CallKey : Spent(k) => Spent(k)'
  BY SpentSame
<1>4. QED
  BY <1>1, <1>2, <1>3, TakenCallsInv

LEMMA SrvrCallsInv ==
  ASSUME TypeOK, TypeOK', CallsInv, NEW s \in Server, SrvrNext(s), UNCHANGED clntVars
  PROVE  CallsInv'
<1>t. proc \in [Server -> Running \cup Ended] /\ call \in [Server -> Call]
  BY DEF TypeOK, SrvrTypeOK
<1>1. CASE ExecCall(s)
  BY <1>1, ExecCallsInv
<1>2. CASE SendResponse(s)
  BY <1>2, RespondCallsInv
<1>3. CASE RecvRequest(s) /\ proc'[s] = "exec"
  BY <1>3, RecvCallsInv
<1>4. CASE RecvRequest(s) /\ proc'[s] # "exec"
  <2>1. /\ UNCHANGED <<executed, resultPipe>>
        /\ requestPipe # <<>> /\ requestPipe' = Tail(requestPipe)
    BY <1>4 DEF RecvRequest, MessageReady, ReceiveMessage
  <2>2. BusyStays
    BY <1>t, <1>4 DEF RecvRequest, ClearCall, BusyStays, Busy
  <2>3. QED
    BY <2>1, <2>2, OtherCallsInv
<1>5. CASE ~ExecCall(s) /\ ~SendResponse(s) /\ ~RecvRequest(s)
  <2>1. /\ UNCHANGED <<executed, resultPipe>>
        /\ requestPipe' = requestPipe \/ requestPipe' = <<>>
    BY <1>5
       DEF SrvrNext, RecvInterrupted, SendResponseAborts, HandleSignal, HandleUserInterrupt,
           Killed, Restart, EmptyPipe, pipes
  <2>2. BusyStays
    BY <1>t, <1>5
       DEF SrvrNext, RecvInterrupted, SendResponseAborts, HandleSignal, HandleUserInterrupt,
           Killed, Restart, ClearCall, BusyStays, Busy
  <2>3. QED
    BY <2>1, <2>2, OtherCallsInv
<1>6. QED
  BY <1>1, <1>2, <1>3, <1>4, <1>5

LEMMA HelperCallsInv ==
  ASSUME TypeOK, CallsInv, HelperNext, UNCHANGED clntVars
  PROVE  CallsInv'
<1>1. BusyStays /\ UNCHANGED <<executed, resultPipe>>
  BY DEF HelperNext, HelperSends, HelperFails, Ping, BusyStays, Busy, pipes
<1>2. \/ requestPipe' = requestPipe
      \/ requestPipe' = Append(requestPipe, InterruptMsg)
      \/ requestPipe' = Append(requestPipe, PingMsg)
  BY DEF HelperNext, HelperSends, HelperFails, Ping, SendMessage, pipes
<1>3. QED
  BY <1>1, <1>2, OtherCallsInv

-----------------------------------------------------------------------------
(* The strengthened invariant *)

\* The response a stub accepts tells the truth, and execution is never undone.
LEMMA ClntOkAnswer ==
  ASSUME OnceInv, NEW c \in Client, ClntNext(c), UNCHANGED srvrVars
  PROVE  OkAnswerWasExecuted'
<1> SUFFICES ASSUME NEW d \in Client, outcome'[d] = "ok"
             PROVE  answer'[d] \in executed /\ answer'[d].client = d
  BY DEF OkAnswerWasExecuted, srvrVars
<1>t. /\ outcome \in [Client -> Outcome] /\ answer \in [Client -> CallKey]
      /\ resultPipe \in [Client -> Seq(ResponseMsg)]
  BY DEF OnceInv, AnswerInv, TypeOK, ClntTypeOK, PipesTypeOK
<1>1. CASE UNCHANGED <<outcome[d], answer[d]>>
  BY <1>1 DEF OnceInv, OkAnswerWasExecuted
<1>2. CASE d = c /\ RecvResponse(c) /\ Expected(c, Received(resultPipe[c]))
  <2> DEFINE r == Received(resultPipe[c])
  <2>1. r = resultPipe[c][1] /\ 1 \in 1 .. Len(resultPipe[c])
    BY <1>t, <1>2 DEF RecvResponse, MessageReady, Received
  <2>2. /\ outcome'[c] = IF r.code = "OK" THEN "ok" ELSE "server_error"
        /\ answer'[c] = r.key
    BY <1>t, <1>2 DEF RecvResponse, StubEnds
  <2>3. r.key.client = c
    BY <2>1 DEF OnceInv, AnswerInv, InFlightCarriesItsSeq, ResponseInFlight
  <2>4. r.code = "OK" <=> r.key \in executed
    BY <2>1 DEF OnceInv, CallsInv, ExecutionIsKnown, ResponsesKnown
  <2> HIDE DEF r
  <2>5. QED
    BY <1>2, <2>2, <2>3, <2>4
<1>3. CASE d = c /\ ~(RecvResponse(c) /\ Expected(c, Received(resultPipe[c])))
  <2>1. outcome'[c] # "ok" \/ UNCHANGED <<outcome[c], answer[c]>>
    BY <1>t, <1>3
       DEF ClntNext, NewRequest, SetRequestParameterFails, SendRequest, SendTimedOut,
           ClntInterrupted, RecvResponse, RecvTimedOut, Shutdown, Reinitialise, StubEnds, clntVars
  <2>2. QED
    BY <1>1, <1>3, <2>1
<1>4. CASE d # c
  <2>1. UNCHANGED <<outcome[d], answer[d]>>
    BY <1>t, <1>4
       DEF ClntNext, NewRequest, SetRequestParameterFails, SendRequest, SendTimedOut,
           ClntInterrupted, RecvResponse, RecvTimedOut, Shutdown, Reinitialise, StubEnds, clntVars
  <2>2. QED
    BY <1>1, <2>1
<1>5. QED
  BY <1>2, <1>3, <1>4

LEMMA InitOnceInv == Init => OnceInv
<1> SUFFICES ASSUME Init PROVE OnceInv
  OBVIOUS
<1>p. /\ requestPipe = <<>> /\ \A c \in Client : resultPipe[c] = <<>>
      /\ \A s \in Server : ~Busy(s)
      /\ executed = {}
  BY DEF Init, PipesInit, SrvrInit, EmptyPipe, Busy
<1>1. CallsAreSpent
  BY <1>p DEF CallsAreSpent, RequestsSpent, BusySpent, ResponsesSpent, ExecutedSpent
<1>2. CallsAreInOnePlace
  BY <1>p
     DEF CallsAreInOnePlace, RequestsDiffer, BusyDiffer, ResponsesDiffer, BusyNotRequested,
         RespondedNotRequested, RespondedNotBusy
<1>3. ExecutionIsKnown
  BY <1>p DEF ExecutionIsKnown, RequestsNotExecuted, BusyKnown, ResponsesKnown, Busy
<1>4. OkAnswerWasExecuted
  BY DEF Init, ClntInit, OkAnswerWasExecuted
<1>5. QED
  BY <1>1, <1>2, <1>3, <1>4, InitAnswerInv DEF OnceInv, CallsInv

LEMMA NextOnceInv == OnceInv /\ [Next]_vars => OnceInv'
<1> SUFFICES ASSUME OnceInv, [Next]_vars PROVE OnceInv'
  OBVIOUS
<1> USE DEF OnceInv
<1>0. AnswerInv' /\ TypeOK /\ TypeOK'
  BY NextAnswerInv DEF AnswerInv
<1>1. ASSUME NEW c \in Client, ClntNext(c) /\ UNCHANGED srvrVars PROVE OnceInv'
  BY <1>0, <1>1, ClntCallsInv, ClntOkAnswer
<1>2. ASSUME UNCHANGED clntVars, executed \subseteq executed' PROVE OkAnswerWasExecuted'
  BY <1>2 DEF OkAnswerWasExecuted, clntVars
<1>3. ASSUME NEW s \in Server, SrvrNext(s) /\ UNCHANGED clntVars PROVE OnceInv'
  <2>1. executed \subseteq executed'
    BY <1>3
       DEF SrvrNext, RecvRequest, RecvInterrupted, ExecCall, SendResponse, SendResponseAborts,
           HandleSignal, HandleUserInterrupt, Killed, Restart
  <2>2. QED
    BY <1>0, <1>2, <1>3, <2>1, SrvrCallsInv
<1>4. CASE HelperNext /\ UNCHANGED clntVars
  <2>1. executed \subseteq executed'
    BY <1>4 DEF HelperNext, HelperSends, HelperFails, Ping
  <2>2. QED
    BY <1>0, <1>2, <1>4, <2>1, HelperCallsInv
<1>5. CASE UNCHANGED vars
  <2>1. UNCHANGED <<clntVars, executed, resultPipe, requestPipe>> /\ BusyStays
    BY <1>5 DEF vars, srvrVars, pipes, BusyStays, Busy
  <2>2. QED
    BY <1>0, <1>2, <2>1, OtherCallsInv
<1>6. QED
  BY <1>1, <1>3, <1>4, <1>5 DEF Next

-----------------------------------------------------------------------------
(* Theorems *)

\* The function of a request is run at most once, however sessions give up and
\* listeners are signalled, killed and restarted: a request that waits or is
\* held has not been executed, and there is no second copy of it.
THEOREM ExecutedOnce == Spec => []ExecutedAtMostOnce
<1>1. ASSUME OnceInv PROVE ExecutedAtMostOnce
  <2> USE <1>1 DEF OnceInv, CallsInv
  <2>1. requestPipe \in Seq(RequestMsg \cup {InterruptMsg, PingMsg})
    BY DEF AnswerInv, TypeOK, PipesTypeOK
  <2>2. DOMAIN requestPipe = 1 .. Len(requestPipe)
    BY <2>1
  <2>3. \A r \in Requests : \E i \in 1 .. Len(requestPipe) : IsRequest(i) /\ r = requestPipe[i]
    BY <2>2 DEF Requests, IsRequest
  <2>4. \A s \in Held : s \in Server /\ proc[s] = "exec" /\ Busy(s)
    BY DEF Held, Busy
  <2>5. /\ \A r \in Requests : r.key \notin executed
        /\ \A s \in Held : call[s].key \notin executed
    BY <2>3, <2>4 DEF ExecutionIsKnown, RequestsNotExecuted, BusyKnown
  <2>6. /\ \A s, t \in Held : s # t => call[s].key # call[t].key
        /\ \A s \in Held, r \in Requests : call[s].key # r.key
    BY <2>3, <2>4 DEF CallsAreInOnePlace, BusyDiffer, BusyNotRequested
  <2>7. \A i, j \in DOMAIN requestPipe :
          i # j /\ requestPipe[i].type = "REQUEST" /\ requestPipe[j].type = "REQUEST" =>
            requestPipe[i].key # requestPipe[j].key
    BY <2>2 DEF CallsAreInOnePlace, RequestsDiffer, IsRequest
  <2>8. QED
    BY <2>5, <2>6, <2>7 DEF ExecutedAtMostOnce
<1>2. QED
  BY <1>1, InitOnceInv, NextOnceInv, PTL DEF Spec

\* The error code of a response that waits for its caller is OK exactly when
\* the function of the call was run, although every iteration of a listener
\* uses the same structure.
THEOREM ResponseTruthful == Spec => []ResponseTellsExecution
<1>1. ASSUME OnceInv PROVE ResponseTellsExecution
  <2>1. \A c \in Client : DOMAIN resultPipe[c] = 1 .. Len(resultPipe[c])
    BY <1>1 DEF OnceInv, AnswerInv, TypeOK, PipesTypeOK
  <2>2. QED
    BY <1>1, <2>1
       DEF OnceInv, CallsInv, ExecutionIsKnown, ResponsesKnown, ResponseTellsExecution
<1>2. QED
  BY <1>1, InitOnceInv, NextOnceInv, PTL DEF Spec

\* A stub that returns without an exception took the response to a call of its
\* own session whose function was run.
THEOREM OkExecuted == Spec => []OkAnswerWasExecuted
<1>1. OnceInv => OkAnswerWasExecuted
  BY DEF OnceInv
<1>2. QED
  BY <1>1, InitOnceInv, NextOnceInv, PTL DEF Spec

\* The result pipe of a session holds responses to calls of that session only,
\* and no two to the same call.
THEOREM ResponsesRouted == Spec => []ResponsesReachTheirCallers
<1>1. ASSUME OnceInv PROVE ResponsesReachTheirCallers
  <2>1. \A c \in Client : DOMAIN resultPipe[c] = 1 .. Len(resultPipe[c])
    BY <1>1 DEF OnceInv, AnswerInv, TypeOK, PipesTypeOK
  <2>2. \A c \in Client : \A i \in 1 .. Len(resultPipe[c]) : resultPipe[c][i].key.client = c
    BY <1>1 DEF OnceInv, AnswerInv, InFlightCarriesItsSeq, ResponseInFlight
  <2>3. \A c \in Client : \A i, j \in 1 .. Len(resultPipe[c]) :
          i # j => resultPipe[c][i].key # resultPipe[c][j].key
    BY <1>1 DEF OnceInv, CallsInv, CallsAreInOnePlace, ResponsesDiffer
  <2>4. QED
    BY <2>1, <2>2, <2>3 DEF ResponsesReachTheirCallers
<1>2. QED
  BY <1>1, InitOnceInv, NextOnceInv, PTL DEF Spec

-----------------------------------------------------------------------------
(***************************************************************************)
(* The sessions and listeners implement the at-most-once call, and with    *)
(* one listener an answered session has nothing left on the way.           *)
(***************************************************************************)
RpcInv == OnceInv /\ CallsCounted /\ CallsNumbered /\ AnsweredIsOver

-----------------------------------------------------------------------------
(* What is on its way to a listener *)

LEMMA OnTheWayIs ==
  ASSUME NEW k
  PROVE  k \in OnTheWay <=>
           \/ \E i \in 1 .. Len(requestPipe) : IsRequest(i) /\ k = requestPipe[i].key
           \/ \E s \in Server : Busy(s) /\ k = call[s].key
BY DEF OnTheWay

LEMMA OnTheWayNext ==
  ASSUME NEW k
  PROVE  k \in OnTheWay' <=>
           \/ \E i \in 1 .. Len(requestPipe') : IsRequest(i)' /\ k = requestPipe'[i].key
           \/ \E s \in Server : Busy(s)' /\ k = call'[s].key
BY DEF OnTheWay

LEMMA OnTheWayType == TypeOK => OnTheWay \subseteq CallKey
BY OnTheWayIs, RequestType, CallType

LEMMA TakenOnTheWay ==
  ASSUME NEW o \in Nat, RequestsTaken(o), BusyStays
  PROVE  OnTheWay' \subseteq OnTheWay
<1> SUFFICES ASSUME NEW k \in OnTheWay' PROVE k \in OnTheWay
  OBVIOUS
<1>1. ASSUME NEW i \in 1 .. Len(requestPipe'), IsRequest(i)', k = requestPipe'[i].key
      PROVE  k \in OnTheWay
  BY <1>1, OnTheWayIs DEF RequestsTaken
<1>2. ASSUME NEW s \in Server, Busy(s)', k = call'[s].key
      PROVE  k \in OnTheWay
  BY <1>2, OnTheWayIs DEF BusyStays
<1>3. QED
  BY <1>1, <1>2, OnTheWayNext

\* A session puts its current call on the way when it sends, and nothing else.
LEMMA ClntOnTheWay ==
  ASSUME TypeOK, NEW c \in Client, ClntNext(c), UNCHANGED srvrVars
  PROVE  /\ OnTheWay' \subseteq OnTheWay \cup {Key(c)}
         /\ ~SendRequest(c) => OnTheWay' \subseteq OnTheWay
<1>b. BusyStays /\ UNCHANGED <<proc, call>>
  BY DEF BusyStays, Busy, srvrVars
<1>t. requestPipe \in Seq(RequestMsg \cup {InterruptMsg, PingMsg})
  BY DEF TypeOK, PipesTypeOK
<1>1. CASE ~SendRequest(c)
  <2>1. requestPipe' = requestPipe
    BY <1>1
       DEF ClntNext, NewRequest, SetRequestParameterFails, SendTimedOut, ClntInterrupted,
           RecvResponse, RecvTimedOut, Shutdown, Reinitialise, pipes
  <2>2. QED
    BY <1>b, <2>1 DEF OnTheWay, IsRequest, Busy
<1>2. CASE SendRequest(c)
  <2> SUFFICES ASSUME NEW k \in OnTheWay' PROVE k \in OnTheWay \cup {Key(c)}
    BY <1>2
  <2>1. requestPipe' = Append(requestPipe, Request(c)) /\ Request(c).key = Key(c)
    BY <1>2 DEF SendRequest, SendMessage, Request
  <2>2. ASSUME NEW i \in 1 .. Len(requestPipe'), IsRequest(i)', k = requestPipe'[i].key
        PROVE  k \in OnTheWay \cup {Key(c)}
    <3>1. CASE i \in 1 .. Len(requestPipe) /\ requestPipe'[i] = requestPipe[i]
      BY <2>2, <3>1, OnTheWayIs DEF IsRequest
    <3>2. CASE requestPipe'[i] = Request(c)
      BY <2>1, <2>2, <3>2
    <3>3. QED
      BY <1>t, <2>1, <3>1, <3>2
  <2>3. ASSUME NEW s \in Server, Busy(s)', k = call'[s].key PROVE k \in OnTheWay
    BY <1>b, <2>3, OnTheWayIs DEF Busy
  <2>4. QED
    BY <2>2, <2>3, OnTheWayNext
<1>3. QED
  BY <1>1, <1>2

\* A listener puts nothing on the way: it takes requests on or drops them.
LEMMA SrvrOnTheWay ==
  ASSUME TypeOK, NEW s \in Server, SrvrNext(s)
  PROVE  OnTheWay' \subseteq OnTheWay
<1>t. /\ requestPipe \in Seq(RequestMsg \cup {InterruptMsg, PingMsg})
      /\ proc \in [Server -> Running \cup Ended] /\ call \in [Server -> Call]
  BY DEF TypeOK, SrvrTypeOK, PipesTypeOK
<1>1. CASE RecvRequest(s) /\ proc'[s] = "exec"
  <2> SUFFICES ASSUME NEW k \in OnTheWay' PROVE k \in OnTheWay
    OBVIOUS
  <2> DEFINE m == Received(requestPipe)
  <2>1. /\ requestPipe # <<>> /\ requestPipe' = Tail(requestPipe)
        /\ m = requestPipe[1] /\ 1 \in 1 .. Len(requestPipe)
    BY <1>t, <1>1 DEF RecvRequest, MessageReady, ReceiveMessage, Received
  <2>2. IsRequest(1) /\ call' = [call EXCEPT ![s] = ReceivedCall(m)]
        /\ proc' = [proc EXCEPT ![s] = "exec"]
    BY <1>t, <1>1, <2>1 DEF RecvRequest, IsRequest
  <2>3. ReceivedCall(m).key = requestPipe[1].key
    BY <2>1 DEF ReceivedCall
  <2> HIDE DEF m
  <2>4. ASSUME NEW i \in 1 .. Len(requestPipe'), IsRequest(i)', k = requestPipe'[i].key
        PROVE  k \in OnTheWay
    BY <1>t, <2>1, <2>4, TailIsOld, OnTheWayIs DEF IsRequest
  <2>5. ASSUME NEW t \in Server, Busy(t)', k = call'[t].key
        PROVE  k \in OnTheWay
    <3>1. CASE t = s
      BY <1>t, <2>1, <2>2, <2>3, <2>5, <3>1, OnTheWayIs
    <3>2. CASE t # s
      BY <1>t, <2>2, <2>5, <3>2, OnTheWayIs DEF Busy
    <3>3. QED
      BY <3>1, <3>2
  <2>6. QED
    BY <2>4, <2>5, OnTheWayNext
<1>2. CASE RecvRequest(s) /\ proc'[s] # "exec"
  <2>1. requestPipe # <<>> /\ requestPipe' = Tail(requestPipe)
    BY <1>2 DEF RecvRequest, MessageReady, ReceiveMessage
  <2>2. BusyStays
    BY <1>t, <1>2 DEF RecvRequest, ClearCall, BusyStays, Busy
  <2>3. QED
    BY <2>1, <2>2, OtherRequestsTaken, TakenOnTheWay
<1>3. CASE ExecCall(s)
  <2>1. requestPipe' = requestPipe
    BY <1>3 DEF ExecCall, pipes
  <2>2. ASSUME NEW t \in Server, Busy(t)' PROVE Busy(t) /\ call'[t].key = call[t].key
    <3>1. CASE t # s
      BY <1>t, <1>3, <2>2, <3>1 DEF ExecCall, ClearCall, Busy
    <3>2. CASE t = s
      <4>1. proc[s] = "exec"
        BY <1>3 DEF ExecCall
      <4>2. call' = [call EXCEPT ![s].error = NativeParse(call[s].method, call[s].error)]
        BY <1>t, <1>3, <2>2, <3>2 DEF ExecCall, AfterRequest, Busy
      <4>3. call'[s].key = call[s].key
        BY <1>t, <4>2 DEF Call
      <4>4. QED
        BY <3>2, <4>1, <4>3 DEF Busy
    <3>3. QED
      BY <3>1, <3>2
  <2>3. QED
    BY <2>1, <2>2, OnTheWayNext, OnTheWayIs DEF IsRequest
<1>4. CASE ~ExecCall(s) /\ ~RecvRequest(s)
  <2>1. requestPipe' = requestPipe \/ requestPipe' = <<>>
    BY <1>4
       DEF SrvrNext, RecvInterrupted, SendResponse, SendResponseAborts, HandleSignal,
           HandleUserInterrupt, Killed, Restart, EmptyPipe, pipes
  <2>2. BusyStays
    BY <1>t, <1>4
       DEF SrvrNext, RecvInterrupted, SendResponse, SendResponseAborts, HandleSignal,
           HandleUserInterrupt, Killed, Restart, ClearCall, AfterRequest, BusyStays, Busy
  <2>3. QED
    BY <2>1, <2>2, OtherRequestsTaken, TakenOnTheWay
<1>5. QED
  BY <1>1, <1>2, <1>3, <1>4

LEMMA HelperOnTheWay ==
  ASSUME TypeOK, HelperNext
  PROVE  OnTheWay' \subseteq OnTheWay
<1>1. BusyStays
  BY DEF HelperNext, HelperSends, HelperFails, Ping, BusyStays, Busy
<1>2. \/ requestPipe' = requestPipe
      \/ requestPipe' = Append(requestPipe, InterruptMsg)
      \/ requestPipe' = Append(requestPipe, PingMsg)
  BY DEF HelperNext, HelperSends, HelperFails, Ping, SendMessage, pipes
<1>3. QED
  BY <1>1, <1>2, OtherRequestsTaken, TakenOnTheWay

-----------------------------------------------------------------------------
(* Calls counted, numbered and over *)

LEMMA KeyFields ==
  \A c \in Client : Key(c).client = c /\ Key(c).epoch = epoch[c] /\ Key(c).n = reqNo[c]
BY DEF Key

LEMMA ClntCounted ==
  ASSUME TypeOK, CallsCounted, NEW c \in Client, ClntNext(c)
  PROVE  CallsCounted'
<1>t. /\ stage \in [Client -> Stage] /\ outcome \in [Client -> Outcome]
      /\ reqNo \in [Client -> Nat] /\ epoch \in [Client -> Nat]
      /\ MaxRequests \in Nat /\ MaxReinits \in Nat
  BY ClntBoundsAssumption DEF TypeOK, ClntTypeOK
<1> SUFFICES ASSUME NEW d \in Client
             PROVE  /\ stage'[d] # "idle" => outcome'[d] = "none" /\ reqNo'[d] > 0
                    /\ reqNo'[d] <= MaxRequests /\ epoch'[d] <= MaxReinits
  BY DEF CallsCounted
<1>0. /\ stage[d] # "idle" => outcome[d] = "none" /\ reqNo[d] > 0
      /\ reqNo[d] <= MaxRequests /\ epoch[d] <= MaxReinits
  BY DEF CallsCounted
<1>1. CASE \E m \in Method : NewRequest(c, m)
  BY <1>t, <1>0, <1>1 DEF NewRequest
<1>2. CASE Reinitialise(c)
  BY <1>t, <1>0, <1>2 DEF Reinitialise
<1>3. CASE \/ SetRequestParameterFails(c) \/ SendTimedOut(c) \/ ClntInterrupted(c)
           \/ RecvTimedOut(c) \/ Shutdown(c)
  BY <1>t, <1>0, <1>3
     DEF SetRequestParameterFails, SendTimedOut, ClntInterrupted, RecvTimedOut, Shutdown,
         StubEnds, clntVars, clntHistory
<1>4. CASE SendRequest(c) \/ RecvResponse(c)
  BY <1>t, <1>0, <1>4 DEF SendRequest, RecvResponse, StubEnds, clntHistory
<1>5. QED
  BY <1>1, <1>2, <1>3, <1>4 DEF ClntNext

\* How a session comes to have an answer: it keeps the one it had while it
\* does nothing, or accepts a response.
LEMMA AnswerFrom ==
  ASSUME TypeOK, CallsCounted, NEW c \in Client, ClntNext(c), NEW d \in Client,
         outcome'[d] \in {"ok", "server_error"}
  PROVE  \/ /\ UNCHANGED <<outcome[d], answer[d], reqNo[d], epoch[d]>>
            /\ ~(SendRequest(c) /\ d = c)
         \/ /\ d = c /\ RecvResponse(c) /\ resultPipe[c] # <<>>
            /\ answer'[c] = resultPipe[c][1].key
            /\ UNCHANGED <<reqNo, epoch>>
<1>t. /\ stage \in [Client -> Stage] /\ outcome \in [Client -> Outcome]
      /\ reqNo \in [Client -> Nat] /\ epoch \in [Client -> Nat]
      /\ answer \in [Client -> CallKey] /\ resultPipe \in [Client -> Seq(ResponseMsg)]
  BY DEF TypeOK, ClntTypeOK, PipesTypeOK
<1>0. stage[c] # "idle" => outcome[c] = "none"
  BY DEF CallsCounted
<1>1. CASE d # c
  BY <1>t, <1>1
     DEF ClntNext, NewRequest, SetRequestParameterFails, SendRequest, SendTimedOut,
         ClntInterrupted, RecvResponse, RecvTimedOut, Shutdown, Reinitialise, StubEnds,
         clntVars, clntHistory
<1>2. CASE d = c /\ RecvResponse(c)
  <2>1. outcome[c] = "none" /\ resultPipe[c] # <<>> /\ UNCHANGED <<reqNo, epoch>>
    BY <1>0, <1>2 DEF RecvResponse, MessageReady, clntHistory
  <2>2. answer' = [answer EXCEPT ![c] = Received(resultPipe[c]).key]
    BY <1>2, <2>1 DEF RecvResponse
  <2>3. Received(resultPipe[c]) = resultPipe[c][1]
    BY <1>t, <2>1 DEF Received
  <2>4. QED
    BY <1>t, <1>2, <2>1, <2>2, <2>3
<1>3. CASE d = c /\ Shutdown(c)
  BY <1>3 DEF Shutdown, SendRequest, clntVars
<1>4. CASE d = c /\ ~RecvResponse(c) /\ ~Shutdown(c)
  BY <1>t, <1>0, <1>4
     DEF ClntNext, NewRequest, SetRequestParameterFails, SendRequest, SendTimedOut,
         ClntInterrupted, RecvTimedOut, Reinitialise, StubEnds
<1>5. QED
  BY <1>1, <1>2, <1>3, <1>4

\* Where the responses of a session were before it stepped.
LEMMA ClntResponses ==
  ASSUME TypeOK, NEW c \in Client, ClntNext(c),
         NEW d \in Client, NEW i \in 1 .. Len(resultPipe'[d])
  PROVE  \E j \in 1 .. Len(resultPipe[d]) : resultPipe'[d][i] = resultPipe[d][j]
<1>t. resultPipe \in [Client -> Seq(ResponseMsg)]
  BY DEF TypeOK, PipesTypeOK
<1>1. CASE UNCHANGED resultPipe
  BY <1>1
<1>2. CASE resultPipe' = [resultPipe EXCEPT ![c] = EmptyPipe]
  BY <1>t, <1>2 DEF EmptyPipe
<1>3. CASE RecvResponse(c)
  <2>1. resultPipe[c] # <<>> /\ resultPipe' = [resultPipe EXCEPT ![c] = Tail(@)]
    BY <1>3 DEF RecvResponse, MessageReady, ReceiveMessage
  <2>2. CASE d = c
    <3>1. resultPipe'[d] = Tail(resultPipe[d]) /\ resultPipe[d] \in Seq(ResponseMsg)
      BY <1>t, <2>1, <2>2
    <3>2. i + 1 \in 1 .. Len(resultPipe[d]) /\ resultPipe'[d][i] = resultPipe[d][i + 1]
      BY <2>1, <2>2, <3>1, TailIsOld, ZenonT(30)
    <3>3. QED
      BY <3>2
  <2>3. CASE d # c
    BY <1>t, <2>1, <2>3
  <2>4. QED
    BY <2>2, <2>3
<1>4. QED
  BY <1>1, <1>2, <1>3
     DEF ClntNext, NewRequest, SetRequestParameterFails, SendRequest, SendTimedOut,
         ClntInterrupted, RecvTimedOut, Shutdown, Reinitialise, pipes

LEMMA ClntNumbered ==
  ASSUME RpcInv, NEW c \in Client, ClntNext(c), UNCHANGED srvrVars
  PROVE  CallsNumbered'
<1>t. TypeOK /\ CallsCounted /\ CallsNumbered /\ InFlightCarriesItsSeq
  BY DEF RpcInv, OnceInv, AnswerInv
<1>1. ASSUME NEW k \in OnTheWay' PROVE k.n > 0
  <2>1. CASE k \in OnTheWay
    BY <1>t, <2>1 DEF CallsNumbered
  <2>2. CASE SendRequest(c) /\ k = Key(c)
    <3>1. stage[c] # "idle"
      BY <2>2 DEF SendRequest
    <3>2. QED
      BY <1>t, <2>2, <3>1, KeyFields DEF CallsCounted
  <2>3. QED
    BY <1>t, <2>1, <2>2, ClntOnTheWay
<1>2. ASSUME NEW d \in Client, NEW i \in 1 .. Len(resultPipe'[d])
      PROVE  resultPipe'[d][i].key.n > 0
  BY <1>t, ClntResponses DEF CallsNumbered
<1>3. ASSUME NEW d \in Client, outcome'[d] \in {"ok", "server_error"}
      PROVE  answer'[d].n > 0 /\ answer'[d].epoch <= epoch'[d]
  <2>1. CASE UNCHANGED <<outcome[d], answer[d], epoch[d]>>
    BY <1>t, <1>3, <2>1 DEF CallsNumbered
  <2>2. CASE d = c /\ resultPipe[c] # <<>> /\ answer'[c] = resultPipe[c][1].key
             /\ UNCHANGED <<reqNo, epoch>>
    <3>1. 1 \in 1 .. Len(resultPipe[c])
      BY <1>t, <2>2 DEF TypeOK, PipesTypeOK
    <3>2. answer'[c].n > 0
      BY <1>t, <2>2, <3>1 DEF CallsNumbered
    <3>3. Made(answer'[c]) /\ answer'[c].client = c
      BY <1>t, <2>2, <3>1 DEF InFlightCarriesItsSeq, ResponseInFlight
    <3>4. answer'[c].epoch <= epoch[c]
      <4>1. answer'[c] \in CallKey
        BY <1>t, <2>2, <3>1, ResponseType
      <4>2. QED
        BY <1>t, <3>3, <4>1 DEF Made, CallKey, TypeOK, ClntTypeOK
    <3>5. QED
      BY <2>2, <3>2, <3>4
  <2>3. QED
    BY <1>t, <1>3, <2>1, <2>2, AnswerFrom
<1>4. QED
  BY <1>1, <1>2, <1>3 DEF CallsNumbered

LEMMA ClntOver ==
  ASSUME RpcInv, NEW c \in Client, ClntNext(c), UNCHANGED srvrVars
  PROVE  AnsweredIsOver'
<1>t. TypeOK /\ CallsCounted /\ AnsweredIsOver /\ CallsAreInOnePlace
  BY DEF RpcInv, OnceInv, AnswerInv, CallsInv
<1> SUFFICES ASSUME NEW d \in Client, Answered(d)' PROVE Key(d)' \notin OnTheWay'
  BY DEF AnsweredIsOver
<1>0. outcome'[d] \in {"ok", "server_error"} /\ answer'[d] = Key(d)'
  BY DEF Answered
<1>1. CASE UNCHANGED <<outcome[d], answer[d], reqNo[d], epoch[d]>> /\ ~(SendRequest(c) /\ d = c)
  <2>1. Key(d)' = Key(d) /\ Answered(d)
    BY <1>0, <1>1 DEF Key, Answered
  <2>2. Key(d) \notin OnTheWay
    BY <1>t, <2>1 DEF AnsweredIsOver
  <2>3. SendRequest(c) => Key(c) # Key(d)
    BY <1>1, KeyFields
  <2>4. QED
    BY <1>t, <2>1, <2>2, <2>3, ClntOnTheWay
<1>2. CASE d = c /\ RecvResponse(c) /\ resultPipe[c] # <<>>
           /\ answer'[c] = resultPipe[c][1].key /\ UNCHANGED <<reqNo, epoch>>
  <2>1. 1 \in 1 .. Len(resultPipe[c])
    BY <1>t, <1>2 DEF TypeOK, PipesTypeOK
  <2>2. resultPipe[c][1].key \notin OnTheWay
    BY <1>t, <2>1, OnTheWayIs DEF CallsAreInOnePlace, RespondedNotRequested, RespondedNotBusy
  <2>3. ~SendRequest(c)
    BY <1>2 DEF RecvResponse, SendRequest
  <2>4. QED
    BY <1>t, <1>0, <1>2, <2>2, <2>3, ClntOnTheWay
<1>3. QED
  BY <1>t, <1>0, <1>1, <1>2, AnswerFrom

\* What listeners and helpers do keeps these, whatever they take away.
LEMMA OthersRpcInv ==
  ASSUME RpcInv, OnceInv', UNCHANGED clntVars, OnTheWay' \subseteq OnTheWay,
         \A d \in Client : \A i \in 1 .. Len(resultPipe'[d]) :
           resultPipe'[d][i].key.n > 0
  PROVE  RpcInv'
<1>1. CallsCounted'
  BY DEF RpcInv, CallsCounted, clntVars
<1>2. CallsNumbered'
  BY DEF RpcInv, CallsNumbered, clntVars
<1>3. AnsweredIsOver'
  BY DEF RpcInv, AnsweredIsOver, Answered, Key, clntVars
<1>4. QED
  BY <1>1, <1>2, <1>3 DEF RpcInv

LEMMA InitRpcInv == Init => RpcInv
<1> SUFFICES ASSUME Init PROVE RpcInv
  OBVIOUS
<1>1. OnTheWay = {}
  BY DEF OnTheWay, Init, PipesInit, SrvrInit, EmptyPipe, Busy
<1>2. CallsCounted /\ AnsweredIsOver /\ CallsNumbered
  BY <1>1, ClntBoundsAssumption
     DEF Init, PipesInit, ClntInit, CallsCounted, AnsweredIsOver, Answered, CallsNumbered,
         EmptyPipe
<1>3. QED
  BY <1>2, InitOnceInv DEF RpcInv

LEMMA NextRpcInv == RpcInv /\ [Next]_vars => RpcInv'
<1> SUFFICES ASSUME RpcInv, [Next]_vars PROVE RpcInv'
  OBVIOUS
<1>0. OnceInv' /\ TypeOK /\ CallsNumbered
  BY NextOnceInv DEF RpcInv, OnceInv, AnswerInv
<1>t. resultPipe \in [Client -> Seq(ResponseMsg)] /\ call \in [Server -> Call]
  BY <1>0 DEF TypeOK, PipesTypeOK, SrvrTypeOK
<1>r. \A d \in Client : \A i \in 1 .. Len(resultPipe[d]) : resultPipe[d][i].key.n > 0
  BY <1>0 DEF CallsNumbered
<1>1. ASSUME NEW c \in Client, ClntNext(c), UNCHANGED srvrVars PROVE RpcInv'
  BY <1>0, <1>1, ClntCounted, ClntNumbered, ClntOver DEF RpcInv
<1>2. ASSUME NEW s \in Server, SrvrNext(s), UNCHANGED clntVars PROVE RpcInv'
  <2>1. CASE SendResponse(s)
    <3>1. /\ proc[s] = "send" /\ call[s].pipe \in Client
          /\ resultPipe' = [resultPipe EXCEPT ![call[s].pipe] = Append(@, Response(s))]
      BY <1>t, <2>1 DEF SendResponse, CanSend, SendMessage, Call
    <3>2. Response(s).key.n > 0
      BY <1>0, <3>1, OnTheWayIs DEF CallsNumbered, Busy, Response
    <3>3. ASSUME NEW d \in Client, NEW i \in 1 .. Len(resultPipe'[d])
          PROVE  resultPipe'[d][i].key.n > 0
      <4>1. \/ i \in 1 .. Len(resultPipe[d]) /\ resultPipe'[d][i] = resultPipe[d][i]
            \/ resultPipe'[d][i] = Response(s)
        <5>1. CASE d # call[s].pipe
          <6>1. resultPipe'[d] = resultPipe[d]
            BY <1>t, <3>1, <5>1
          <6>2. QED
            BY <6>1
        <5>2. CASE d = call[s].pipe
          <6>1. /\ resultPipe'[d] = Append(resultPipe[d], Response(s))
                /\ resultPipe[d] \in Seq(ResponseMsg)
            BY <1>t, <3>1, <5>2
          <6>2. QED
            BY <6>1
        <5>3. QED
          BY <5>1, <5>2
      <4>2. QED
        BY <1>r, <3>2, <4>1
    <3>4. QED
      BY <1>0, <1>2, <3>3, SrvrOnTheWay, OthersRpcInv
  <2>2. CASE ~SendResponse(s)
    <3>1. resultPipe' = resultPipe
      BY <1>2, <2>2
         DEF SrvrNext, RecvRequest, RecvInterrupted, ExecCall, SendResponseAborts, HandleSignal,
             HandleUserInterrupt, Killed, Restart, pipes
    <3>2. QED
      BY <1>0, <1>r, <1>2, <3>1, SrvrOnTheWay, OthersRpcInv
  <2>3. QED
    BY <2>1, <2>2
<1>3. CASE HelperNext /\ UNCHANGED clntVars
  <2>1. resultPipe' = resultPipe
    BY <1>3 DEF HelperNext, HelperSends, HelperFails, Ping, pipes
  <2>2. QED
    BY <1>0, <1>r, <1>3, <2>1, HelperOnTheWay, OthersRpcInv
<1>4. CASE UNCHANGED vars
  <2>1. OnTheWay' = OnTheWay /\ UNCHANGED <<clntVars, resultPipe>>
    BY <1>4 DEF vars, srvrVars, pipes, OnTheWay, IsRequest, Busy
  <2>2. QED
    BY <1>0, <1>r, <2>1, OthersRpcInv
<1>5. QED
  BY <1>1, <1>2, <1>3, <1>4 DEF Next

-----------------------------------------------------------------------------
(* One life of the package, in which no number repeats *)

\* The sequence numbers of a package lifetime are as many as its calls.
NoRepeats == MaxReinits = 0 /\ MaxRequests <= MaxMsgSeq + 1

LEMMA OneLife ==
  ASSUME RpcInv, NoRepeats
  PROVE  /\ \A c \in Client : epoch[c] = 0 /\ reqNo[c] \in Nat /\ reqNo[c] <= MaxMsgSeq + 1
         /\ \A k \in CallKey : Made(k) => k.epoch = 0 /\ k.n <= reqNo[k.client]
<1>1. \A c \in Client : epoch[c] = 0 /\ reqNo[c] \in Nat /\ reqNo[c] <= MaxMsgSeq + 1
  BY ClntBoundsAssumption, MaxMsgSeqAssumption
     DEF NoRepeats, RpcInv, CallsCounted, OnceInv, AnswerInv, TypeOK, ClntTypeOK
<1>2. QED
  BY <1>1 DEF Made, CallKey

\* An accepted answer is the answer to the current call.
LEMMA AnswerIsCurrentInv ==
  ASSUME RpcInv, NoRepeats
  PROVE  AnswerIsCurrent
<1> SUFFICES ASSUME NEW c \in Client, outcome[c] \in {"ok", "server_error"}
             PROVE  answer[c] = Key(c)
  BY DEF AnswerIsCurrent
<1>1. answer[c].epoch \in Nat /\ answer[c].n \in Nat
  BY DEF RpcInv, OnceInv, AnswerInv, TypeOK, ClntTypeOK, CallKey
<1>2. answer[c].n > 0 /\ answer[c].epoch <= epoch[c]
  BY DEF RpcInv, CallsNumbered
<1>3. \/ answer[c] = Key(c)
      \/ answer[c].epoch # epoch[c]
      \/ answer[c].n + MaxMsgSeq < reqNo[c]
  BY DEF RpcInv, OnceInv, AnswerInv, AnswerIsCurrentUpToWrap
<1>4. QED
  BY <1>1, <1>2, <1>3, OneLife, MaxMsgSeqAssumption

\* Likewise after a step.
LEMMA AnswerIsCurrentNext == NoRepeats /\ RpcInv' => AnswerIsCurrent'
<1>1. NoRepeats /\ RpcInv => AnswerIsCurrent
  BY AnswerIsCurrentInv
<1>2. NoRepeats <=> NoRepeats'
  BY DEF NoRepeats
<1>3. QED
  BY <1>1, <1>2, PTL

\* A call was run as its caller counts it when the listener has run it.
LEMMA RunAsCounted ==
  ASSUME RpcInv, NoRepeats, NEW k \in CallKey, k.epoch = 0
  PROVE  <<k.client, k.n>> \in CallsRun <=> k \in executed
<1>1. ASSUME NEW l \in executed, <<k.client, k.n>> = <<l.client, l.n>> PROVE k \in executed
  <2>1. l \in CallKey /\ Made(l)
    BY DEF RpcInv, OnceInv, AnswerInv, CallsInv, CallsAreSpent, ExecutedSpent, Spent, TypeOK,
           SrvrTypeOK
  <2>2. l.epoch = 0
    BY <2>1, OneLife
  <2>3. l = k
    BY <1>1, <2>1, <2>2 DEF CallKey
  <2>4. QED
    BY <2>3
<1>2. QED
  BY <1>1 DEF CallsRun

LEMMA KeyRunAsCounted ==
  ASSUME RpcInv, NoRepeats, NEW c \in Client
  PROVE  <<c, reqNo[c]>> \in CallsRun <=> Key(c) \in executed
<1>1. Key(c) \in CallKey /\ Key(c).client = c /\ Key(c).n = reqNo[c] /\ Key(c).epoch = 0
  BY OneLife DEF Key, CallKey
<1>2. QED
  BY <1>1, RunAsCounted

-----------------------------------------------------------------------------
(* What callers see *)

LEMMA CallerViewIs ==
  ASSUME TypeOK, NEW c \in Client
  PROVE  /\ stage[c] # "idle" <=> CallerView(c) = "pending"
         /\ stage[c] = "idle" /\ outcome[c] = "ok" => CallerView(c) = "ok"
         /\ stage[c] = "idle" /\ outcome[c] = "sent" => CallerView(c) = "sent"
         /\ stage[c] = "idle" => (outcome[c] = "server_error" <=> CallerView(c) = "refused")
         /\ stage[c] = "idle" /\ outcome[c] \in {"comm_error", "param_error"} =>
              CallerView(c) = "failed"
BY DEF CallerView

LEMMA CallerViewNext ==
  ASSUME TypeOK', NEW c \in Client
  PROVE  /\ stage'[c] # "idle" <=> CallerView(c)' = "pending"
         /\ stage'[c] = "idle" /\ outcome'[c] = "ok" => CallerView(c)' = "ok"
         /\ stage'[c] = "idle" /\ outcome'[c] = "sent" => CallerView(c)' = "sent"
         /\ stage'[c] = "idle" => (outcome'[c] = "server_error" <=> CallerView(c)' = "refused")
         /\ stage'[c] = "idle" /\ outcome'[c] \in {"comm_error", "param_error"} =>
              CallerView(c)' = "failed"
BY DEF CallerView

\* A step of a session changes what its own caller sees.
LEMMA ViewStep ==
  ASSUME NEW c \in Client, NEW how, CallerView(c)' = how,
         \A d \in Client : d # c => stage'[d] = stage[d] /\ outcome'[d] = outcome[d]
  PROVE  View' = [View EXCEPT ![c] = how]
<1>1. \A d \in Client : d # c => CallerView(d)' = CallerView(d)
  BY DEF CallerView
<1>2. QED
  BY <1>1 DEF View

LEMMA ViewStays == UNCHANGED <<stage, outcome>> => View' = View
BY DEF View, CallerView

\* A stub that ends gives its caller one of the ends of a call.
LEMMA StubEndsRefines ==
  ASSUME TypeOK, TypeOK', NEW c \in Client, stage[c] # "idle",
         NEW how \in Outcome \ {"none"}, StubEnds(c, how),
         UNCHANGED <<reqNo, executed>>,
         how = "ok" => <<c, reqNo[c]>> \in CallsRun,
         how = "server_error" => <<c, reqNo[c]>> \notin CallsRun
  PROVE  Rpc!Next
<1>t. stage \in [Client -> Stage] /\ outcome \in [Client -> Outcome]
  BY DEF TypeOK, ClntTypeOK
<1>1. /\ stage'[c] = "idle" /\ outcome'[c] = how
      /\ \A d \in Client : d # c => stage'[d] = stage[d] /\ outcome'[d] = outcome[d]
  BY <1>t DEF StubEnds
<1>2. View[c] = "pending" /\ CallsRun' = CallsRun
  BY CallerViewIs DEF View, CallsRun
<1>3. PICK seen \in {"ok", "refused", "sent", "failed"} :
        /\ CallerView(c)' = seen
        /\ seen = "ok" <=> how = "ok"
        /\ seen = "refused" <=> how = "server_error"
  BY <1>1, CallerViewNext DEF Outcome
<1>4. View' = [View EXCEPT ![c] = seen]
  BY <1>1, <1>3, ViewStep
<1>5. Rpc!Ends(c, seen)
  BY <1>2, <1>3, <1>4 DEF Rpc!Ends, Rpc!Last
<1>6. QED
  BY <1>5 DEF Rpc!Next

-----------------------------------------------------------------------------
(* Step by step *)

LEMMA ClntRefines ==
  ASSUME RpcInv, RpcInv', NoRepeats, NEW c \in Client, ClntNext(c), UNCHANGED srvrVars
  PROVE  Rpc!Next \/ UNCHANGED Rpc!rpcVars
<1>t. /\ TypeOK /\ TypeOK' /\ executed' = executed
      /\ stage \in [Client -> Stage] /\ outcome \in [Client -> Outcome]
      /\ answer \in [Client -> CallKey]
  BY DEF RpcInv, OnceInv, AnswerInv, TypeOK, ClntTypeOK, srvrVars
<1>u. UNCHANGED <<stage, outcome, reqNo>> => UNCHANGED Rpc!rpcVars
  BY <1>t, ViewStays DEF Rpc!rpcVars, CallsRun
<1>1. ASSUME NEW m \in Method, NewRequest(c, m) PROVE Rpc!Next
  <2>1. /\ stage[c] = "idle" /\ stage'[c] = "built"
        /\ reqNo' = [reqNo EXCEPT ![c] = @ + 1]
        /\ \A d \in Client : d # c => stage'[d] = stage[d] /\ outcome'[d] = outcome[d]
    BY <1>t, <1>1 DEF NewRequest
  <2>2. View[c] # "pending" /\ CallsRun' = CallsRun
    BY <1>t, <2>1, CallerViewIs DEF View, CallsRun
  <2>3. CallerView(c)' = "pending"
    BY <1>t, <2>1, CallerViewNext
  <2>4. View' = [View EXCEPT ![c] = "pending"]
    BY <2>1, <2>3, ViewStep
  <2>5. Rpc!Call(c)
    BY <2>1, <2>2, <2>4 DEF Rpc!Call
  <2>6. QED
    BY <2>5 DEF Rpc!Next
<1>2. CASE \/ SetRequestParameterFails(c) \/ SendTimedOut(c) \/ ClntInterrupted(c)
           \/ RecvTimedOut(c)
  <2>1. /\ stage[c] # "idle" /\ reqNo' = reqNo
        /\ StubEnds(c, "param_error") \/ StubEnds(c, "comm_error")
    BY <1>2
       DEF SetRequestParameterFails, SendTimedOut, ClntInterrupted, RecvTimedOut, clntHistory
  <2>2. QED
    BY <1>t, <2>1, StubEndsRefines DEF Outcome
<1>3. CASE SendRequest(c)
  <2>1. CASE Oneway(method[c])
    <3>1. stage[c] # "idle" /\ reqNo' = reqNo /\ StubEnds(c, "sent")
      BY <1>3, <2>1 DEF SendRequest, clntHistory
    <3>2. QED
      BY <1>t, <3>1, StubEndsRefines DEF Outcome
  <2>2. CASE ~Oneway(method[c])
    <3>1. reqNo' = reqNo /\ stage[c] # "idle" /\ stage'[c] # "idle"
          /\ \A d \in Client : d # c => stage'[d] = stage[d] /\ outcome'[d] = outcome[d]
      BY <1>t, <1>3, <2>2 DEF SendRequest, clntHistory
    <3>2. View[c] = "pending" /\ CallerView(c)' = "pending" /\ CallsRun' = CallsRun
      BY <1>t, <3>1, CallerViewIs, CallerViewNext DEF View, CallsRun
    <3>3. View' = View
      BY <3>1, <3>2, ViewStep DEF View
    <3>4. QED
      BY <3>1, <3>2, <3>3 DEF Rpc!rpcVars
  <2>3. QED
    BY <2>1, <2>2
<1>4. CASE RecvResponse(c) /\ Expected(c, Received(resultPipe[c]))
  <2> DEFINE r == Received(resultPipe[c])
             how == IF r.code = "OK" THEN "ok" ELSE "server_error"
  <2>1. r = resultPipe[c][1] /\ 1 \in 1 .. Len(resultPipe[c])
    BY <1>t, <1>4 DEF RecvResponse, MessageReady, Received, TypeOK, PipesTypeOK
  <2>2. /\ stage[c] # "idle" /\ UNCHANGED <<reqNo, epoch>> /\ StubEnds(c, how)
        /\ answer'[c] = r.key
    BY <1>t, <1>4 DEF RecvResponse, clntHistory
  <2>3. outcome'[c] \in {"ok", "server_error"}
    BY <1>t, <2>2 DEF StubEnds
  <2>4. r.key = Key(c)
    BY <2>2, <2>3, AnswerIsCurrentNext DEF AnswerIsCurrent, Key
  <2>5. r.code = "OK" <=> Key(c) \in executed
    BY <2>1, <2>4 DEF RpcInv, OnceInv, CallsInv, ExecutionIsKnown, ResponsesKnown
  <2>6. /\ how = "ok" => <<c, reqNo[c]>> \in CallsRun
        /\ how = "server_error" => <<c, reqNo[c]>> \notin CallsRun
        /\ how \in Outcome \ {"none"}
    BY <2>5, KeyRunAsCounted DEF Outcome
  <2> HIDE DEF how, r
  <2>7. QED
    BY <1>t, <2>2, <2>6, StubEndsRefines
<1>5. CASE RecvResponse(c) /\ ~Expected(c, Received(resultPipe[c]))
  BY <1>u, <1>5 DEF RecvResponse, clntHistory
<1>6. CASE Shutdown(c)
  BY <1>u, <1>6 DEF Shutdown, clntVars
<1>7. CASE Reinitialise(c)
  BY <1>7, OneLife DEF Reinitialise, NoRepeats
<1>8. QED
  BY <1>1, <1>2, <1>3, <1>4, <1>5, <1>6, <1>7 DEF ClntNext

LEMMA ExecRefines ==
  ASSUME RpcInv, NoRepeats, NEW s \in Server, ExecCall(s), UNCHANGED clntVars
  PROVE  Rpc!Next \/ UNCHANGED Rpc!rpcVars
<1> DEFINE k == call[s].key
<1>t. TypeOK /\ k \in CallKey /\ reqNo' = reqNo /\ View' = View
  BY CallType, ViewStays DEF RpcInv, OnceInv, AnswerInv, clntVars
<1>1. proc[s] = "exec" /\ Busy(s)
  BY DEF ExecCall, Busy
<1>2. Made(k) /\ k \notin executed
  BY <1>1
     DEF RpcInv, OnceInv, CallsInv, CallsAreSpent, BusySpent, Spent, ExecutionIsKnown, BusyKnown
<1>3. k \in OnTheWay /\ k.n > 0
  BY <1>1, OnTheWayIs DEF RpcInv, CallsNumbered
<1> HIDE DEF k
<1>4. k.epoch = 0 /\ k.client \in Client /\ k.n \in 1 .. reqNo[k.client]
  BY <1>t, <1>2, <1>3, OneLife DEF CallKey
<1>5. CASE executed' = executed
  BY <1>t, <1>5 DEF Rpc!rpcVars, CallsRun
<1>6. CASE executed' = executed \cup {k}
  <2>1. CallsRun' = CallsRun \cup {<<k.client, k.n>>}
    BY <1>6 DEF CallsRun
  <2>2. <<k.client, k.n>> \notin CallsRun
    BY <1>t, <1>2, <1>4, RunAsCounted
  <2>3. ~(k.n = reqNo[k.client] /\ View[k.client] = "refused")
    <3> SUFFICES ASSUME k.n = reqNo[k.client], CallerView(k.client) = "refused" PROVE FALSE
      BY <1>4 DEF View
    <3>1. outcome[k.client] = "server_error"
      BY <1>t, <1>4, CallerViewIs
    <3>2. Answered(k.client)
      BY <1>4, <3>1, AnswerIsCurrentInv DEF AnswerIsCurrent, Answered
    <3>3. k = Key(k.client)
      BY <1>t, <1>4, OneLife DEF CallKey, Key
    <3>4. QED
      BY <1>3, <1>4, <3>2, <3>3 DEF RpcInv, AnsweredIsOver
  <2>4. Rpc!Execute(k.client, k.n)
    BY <1>t, <1>4, <2>1, <2>2, <2>3 DEF Rpc!Execute
  <2>5. QED
    BY <1>4, <2>4 DEF Rpc!Next
<1>7. QED
  BY <1>5, <1>6 DEF ExecCall, k

LEMMA NextRefines ==
  RpcInv /\ RpcInv' /\ NoRepeats /\ [Next]_vars => [Rpc!Next]_Rpc!rpcVars
<1> SUFFICES ASSUME RpcInv, RpcInv', NoRepeats, [Next]_vars
             PROVE  Rpc!Next \/ UNCHANGED Rpc!rpcVars
  OBVIOUS
<1>u. UNCHANGED <<clntVars, executed>> => UNCHANGED Rpc!rpcVars
  BY ViewStays DEF Rpc!rpcVars, CallsRun, clntVars
<1>1. ASSUME NEW c \in Client, ClntNext(c) /\ UNCHANGED srvrVars
      PROVE  Rpc!Next \/ UNCHANGED Rpc!rpcVars
  BY <1>1, ClntRefines
<1>2. ASSUME NEW s \in Server, SrvrNext(s) /\ UNCHANGED clntVars
      PROVE  Rpc!Next \/ UNCHANGED Rpc!rpcVars
  <2>1. CASE ExecCall(s)
    BY <1>2, <2>1, ExecRefines
  <2>2. CASE ~ExecCall(s)
    BY <1>u, <1>2, <2>2
       DEF SrvrNext, RecvRequest, RecvInterrupted, SendResponse, SendResponseAborts,
           HandleSignal, HandleUserInterrupt, Killed, Restart
  <2>3. QED
    BY <2>1, <2>2
<1>3. CASE HelperNext /\ UNCHANGED clntVars
  BY <1>u, <1>3 DEF HelperNext, HelperSends, HelperFails, Ping
<1>4. CASE UNCHANGED vars
  BY <1>u, <1>4 DEF vars, srvrVars
<1>5. QED
  BY <1>1, <1>2, <1>3, <1>4 DEF Next

LEMMA InitRefines == Init => Rpc!Init
<1> SUFFICES ASSUME Init PROVE Rpc!Init
  OBVIOUS
<1>1. reqNo = [c \in Client |-> 0] /\ CallsRun = {}
  BY DEF Init, ClntInit, SrvrInit, CallsRun
<1>2. View = [c \in Client |-> "none"]
  BY DEF Init, ClntInit, View, CallerView
<1>3. QED
  BY <1>1, <1>2 DEF Rpc!Init

-----------------------------------------------------------------------------
(* Theorems *)

\* The comment at g_msg_seq is right as long as no sequence number repeats
\* within a life of the package: the response a stub accepts is the response
\* to the request it sent.
THEOREM AnswerCurrentInOneLife ==
  ASSUME NoRepeats PROVE Spec => []AnswerIsCurrent
<1>1. RpcInv => AnswerIsCurrent
  BY AnswerIsCurrentInv
<1>2. QED
  BY <1>1, InitRpcInv, NextRpcInv, PTL DEF Spec

\* Clients, listeners, helpers and pipes implement the at-most-once call: every
\* step is a call, an execution, the end of a call or nothing its callers see.
THEOREM RpcImplemented == ASSUME NoRepeats PROVE Spec => ImplementsRpc
<1>1. RpcInv /\ RpcInv' /\ [Next]_vars => [Rpc!Next]_Rpc!rpcVars
  BY NextRefines
<1>2. QED
  BY <1>1, InitRefines, InitRpcInv, NextRpcInv, PTL DEF Spec, ImplementsRpc, Rpc!Spec

-----------------------------------------------------------------------------
(* The order of calls, with one listener *)

OneListener == \A s, t \in Server : s = t

OrderInv == RpcInv /\ CallsAreInTurn /\ AnsweredIsAlone

BusyKeysStay ==
  \A s \in Server : Busy(s)' => Busy(s) /\ call'[s].key = call[s].key

LEMMA ResponsesInTurnSame ==
  ASSUME ResponsesInTurn, UNCHANGED resultPipe
  PROVE  ResponsesInTurn'
<1> SUFFICES ASSUME NEW c \in Client, NEW i \in 1 .. Len(resultPipe[c]),
                    NEW j \in 1 .. Len(resultPipe[c]), i < j
             PROVE  InTurn(resultPipe[c][i].key, resultPipe[c][j].key)
  BY DEF ResponsesInTurn, InTurn, Earlier
<1>1. QED
  BY DEF ResponsesInTurn

\* What only loses calls stays in order.
LEMMA TakenInTurn ==
  ASSUME CallsAreInTurn,
         NEW o \in Nat, RequestsTaken(o),
         NEW q \in [Client -> Nat], ResponsesTaken(q), BusyKeysStay
  PROVE  CallsAreInTurn'
<1> USE DEF CallsAreInTurn
<1>r. \A i \in 1 .. Len(requestPipe') : IsRequest(i)' =>
        /\ i + o \in 1 .. Len(requestPipe) /\ IsRequest(i + o)
        /\ requestPipe'[i] = requestPipe[i + o]
  BY DEF RequestsTaken
<1>q. \A c \in Client : \A i \in 1 .. Len(resultPipe'[c]) :
        i + q[c] \in 1 .. Len(resultPipe[c]) /\ resultPipe'[c][i] = resultPipe[c][i + q[c]]
  BY DEF ResponsesTaken
<1>b. \A s \in Server : Busy(s)' => Busy(s) /\ call'[s].key = call[s].key
  BY DEF BusyKeysStay
<1>1. RequestsInTurn'
  <2> SUFFICES ASSUME NEW i \in 1 .. Len(requestPipe'), NEW j \in 1 .. Len(requestPipe'),
                      i < j, IsRequest(i)', IsRequest(j)'
               PROVE  InTurn(requestPipe'[i].key, requestPipe'[j].key)
    BY DEF RequestsInTurn, InTurn, Earlier
  <2>1. i + o < j + o
    OBVIOUS
  <2>2. QED
    BY <1>r, <2>1 DEF RequestsInTurn
<1>2. BusyInTurn'
  <2> SUFFICES ASSUME NEW s \in Server, NEW i \in 1 .. Len(requestPipe'), Busy(s)', IsRequest(i)'
               PROVE  InTurn(call'[s].key, requestPipe'[i].key)
    BY DEF BusyInTurn, InTurn, Earlier
  <2>1. QED
    BY <1>r, <1>b DEF BusyInTurn
<1>3. ResponsesInTurn'
  <2> SUFFICES ASSUME NEW c \in Client, NEW i \in 1 .. Len(resultPipe'[c]),
                      NEW j \in 1 .. Len(resultPipe'[c]), i < j
               PROVE  InTurn(resultPipe'[c][i].key, resultPipe'[c][j].key)
    BY DEF ResponsesInTurn, InTurn, Earlier
  <2>1. i + q[c] < j + q[c]
    OBVIOUS
  <2>2. /\ i + q[c] \in 1 .. Len(resultPipe[c]) /\ j + q[c] \in 1 .. Len(resultPipe[c])
        /\ resultPipe'[c][i] = resultPipe[c][i + q[c]]
        /\ resultPipe'[c][j] = resultPipe[c][j + q[c]]
    BY <1>q
  <2>3. InTurn(resultPipe[c][i + q[c]].key, resultPipe[c][j + q[c]].key)
    BY <2>1, <2>2 DEF ResponsesInTurn
  <2>4. QED
    BY <2>2, <2>3
<1>4. RespondedBeforeRequested'
  <2> SUFFICES ASSUME NEW c \in Client, NEW j \in 1 .. Len(resultPipe'[c]),
                      NEW i \in 1 .. Len(requestPipe'), IsRequest(i)'
               PROVE  InTurn(resultPipe'[c][j].key, requestPipe'[i].key)
    BY DEF RespondedBeforeRequested, InTurn, Earlier
  <2>1. j + q[c] \in 1 .. Len(resultPipe[c]) /\ resultPipe'[c][j] = resultPipe[c][j + q[c]]
    BY <1>q
  <2>2. /\ i + o \in 1 .. Len(requestPipe) /\ IsRequest(i + o)
        /\ requestPipe'[i] = requestPipe[i + o]
    BY <1>r
  <2>3. InTurn(resultPipe[c][j + q[c]].key, requestPipe[i + o].key)
    BY <2>1, <2>2 DEF RespondedBeforeRequested
  <2>4. QED
    BY <2>1, <2>2, <2>3
<1>5. RespondedBeforeBusy'
  <2> SUFFICES ASSUME NEW c \in Client, NEW j \in 1 .. Len(resultPipe'[c]),
                      NEW s \in Server, Busy(s)'
               PROVE  InTurn(resultPipe'[c][j].key, call'[s].key)
    BY DEF RespondedBeforeBusy, InTurn, Earlier
  <2>1. j + q[c] \in 1 .. Len(resultPipe[c]) /\ resultPipe'[c][j] = resultPipe[c][j + q[c]]
    BY <1>q
  <2>2. InTurn(resultPipe[c][j + q[c]].key, call[s].key)
    BY <1>b, <2>1 DEF RespondedBeforeBusy
  <2>3. QED
    BY <1>b, <2>1, <2>2
<1>6. QED
  BY <1>1, <1>2, <1>3, <1>4, <1>5

\* What a session sends is later than all it sent before.
LEMMA SendInTurn ==
  ASSUME TypeOK, CallsAreSpent, CallsAreInTurn, NEW c \in Client, SendRequest(c),
         UNCHANGED srvrVars
  PROVE  CallsAreInTurn'
<1> USE DEF CallsAreInTurn
<1>t. /\ requestPipe \in Seq(RequestMsg \cup {InterruptMsg, PingMsg})
      /\ requestPipe' = Append(requestPipe, Request(c))
      /\ UNCHANGED <<resultPipe, proc, call>>
      /\ Request(c).key = Key(c)
  BY DEF TypeOK, PipesTypeOK, SendRequest, SendMessage, srvrVars, Request
<1>k. \A k \in CallKey : Spent(k) => InTurn(k, Key(c))
  <2> SUFFICES ASSUME NEW k \in CallKey, Spent(k), k.client = c PROVE Earlier(k, Key(c))
    BY KeyFields DEF InTurn
  <2>1. stage[c] = "built" /\ epoch[c] \in Nat /\ reqNo[c] \in Nat
    BY DEF SendRequest, TypeOK, ClntTypeOK
  <2>2. k # Key(c)
    BY <2>1 DEF Spent
  <2>3. k.epoch # epoch[c] \/ k.n # reqNo[c]
    BY <2>2 DEF CallKey, Key
  <2>4. QED
    BY <2>1, <2>3, KeyFields DEF Spent, Made, CallKey, Earlier
<1>i. \A i \in 1 .. Len(requestPipe') : IsRequest(i)' =>
        \/ /\ i \in 1 .. Len(requestPipe) /\ IsRequest(i)
           /\ requestPipe'[i].key = requestPipe[i].key
           /\ InTurn(requestPipe[i].key, Key(c))
        \/ i = Len(requestPipe) + 1 /\ requestPipe'[i].key = Key(c)
  <2> SUFFICES ASSUME NEW i \in 1 .. Len(requestPipe'), IsRequest(i)'
               PROVE  \/ /\ i \in 1 .. Len(requestPipe) /\ IsRequest(i)
                         /\ requestPipe'[i].key = requestPipe[i].key
                         /\ InTurn(requestPipe[i].key, Key(c))
                      \/ i = Len(requestPipe) + 1 /\ requestPipe'[i].key = Key(c)
    OBVIOUS
  <2>1. \/ i \in 1 .. Len(requestPipe) /\ requestPipe'[i] = requestPipe[i]
        \/ i = Len(requestPipe) + 1 /\ requestPipe'[i] = Request(c)
    BY <1>t
  <2>2. QED
    BY <1>t, <1>k, <2>1, RequestType DEF IsRequest, CallsAreSpent, RequestsSpent
<1>b. \A s \in Server : Busy(s) => InTurn(call[s].key, Key(c))
  BY <1>k, CallType DEF CallsAreSpent, BusySpent
<1>r. \A d \in Client : \A j \in 1 .. Len(resultPipe[d]) : InTurn(resultPipe[d][j].key, Key(c))
  BY <1>k, ResponseType DEF CallsAreSpent, ResponsesSpent
<1>1. RequestsInTurn'
  <2> SUFFICES ASSUME NEW i \in 1 .. Len(requestPipe'), NEW j \in 1 .. Len(requestPipe'),
                      i < j, IsRequest(i)', IsRequest(j)'
               PROVE  InTurn(requestPipe'[i].key, requestPipe'[j].key)
    BY DEF RequestsInTurn, InTurn, Earlier
  <2>1. i \in 1 .. Len(requestPipe)
    BY <1>t, <1>i
  <2>2. QED
    BY <1>t, <1>i, <2>1 DEF RequestsInTurn
<1>2. BusyInTurn'
  <2> SUFFICES ASSUME NEW s \in Server, NEW i \in 1 .. Len(requestPipe'), Busy(s)', IsRequest(i)'
               PROVE  InTurn(call'[s].key, requestPipe'[i].key)
    BY DEF BusyInTurn, InTurn, Earlier
  <2>1. QED
    BY <1>t, <1>i, <1>b DEF BusyInTurn, Busy
<1>3. RespondedBeforeRequested'
  <2> SUFFICES ASSUME NEW d \in Client, NEW j \in 1 .. Len(resultPipe'[d]),
                      NEW i \in 1 .. Len(requestPipe'), IsRequest(i)'
               PROVE  InTurn(resultPipe'[d][j].key, requestPipe'[i].key)
    BY DEF RespondedBeforeRequested, InTurn, Earlier
  <2>1. QED
    BY <1>t, <1>i, <1>r DEF RespondedBeforeRequested
<1>4. ResponsesInTurn'
  BY <1>t, ResponsesInTurnSame
<1>5. RespondedBeforeBusy'
  <2> SUFFICES ASSUME NEW d \in Client, NEW j \in 1 .. Len(resultPipe'[d]),
                      NEW s \in Server, Busy(s)'
               PROVE  InTurn(resultPipe'[d][j].key, call'[s].key)
    BY DEF RespondedBeforeBusy, InTurn, Earlier
  <2>1. QED
    BY <1>t DEF RespondedBeforeBusy, Busy
<1>6. QED
  BY <1>1, <1>2, <1>3, <1>4, <1>5

\* Taking the oldest request keeps it before the rest of the pipe.
LEMMA RecvInTurn ==
  ASSUME TypeOK, CallsAreInTurn, NEW s \in Server, RecvRequest(s), proc'[s] = "exec"
  PROVE  CallsAreInTurn'
<1> USE DEF CallsAreInTurn
<1> DEFINE m == Received(requestPipe)
<1>t. /\ requestPipe \in Seq(RequestMsg \cup {InterruptMsg, PingMsg})
      /\ proc \in [Server -> Running \cup Ended] /\ call \in [Server -> Call]
  BY DEF TypeOK, SrvrTypeOK, PipesTypeOK
<1>p. /\ requestPipe # <<>> /\ requestPipe' = Tail(requestPipe)
      /\ m = requestPipe[1] /\ 1 \in 1 .. Len(requestPipe)
      /\ resultPipe' = resultPipe
  BY <1>t DEF RecvRequest, MessageReady, ReceiveMessage, Received
<1>m. IsRequest(1) /\ call' = [call EXCEPT ![s] = ReceivedCall(m)]
      /\ proc' = [proc EXCEPT ![s] = "exec"]
  BY <1>t, <1>p DEF RecvRequest, IsRequest
<1>k. ReceivedCall(m).key = requestPipe[1].key
  BY <1>p DEF ReceivedCall
<1> HIDE DEF m
<1>r. \A i \in 1 .. Len(requestPipe') : IsRequest(i)' =>
        i + 1 \in 1 .. Len(requestPipe) /\ IsRequest(i + 1) /\ requestPipe'[i] = requestPipe[i + 1]
  BY <1>t, <1>p, TailIsOld DEF IsRequest
<1>b. \A t \in Server : Busy(t)' =>
        \/ t = s /\ call'[t].key = requestPipe[1].key
        \/ Busy(t) /\ call'[t].key = call[t].key
  BY <1>t, <1>m, <1>k DEF Busy
<1>1. RequestsInTurn'
  <2> SUFFICES ASSUME NEW i \in 1 .. Len(requestPipe'), NEW j \in 1 .. Len(requestPipe'),
                      i < j, IsRequest(i)', IsRequest(j)'
               PROVE  InTurn(requestPipe'[i].key, requestPipe'[j].key)
    BY DEF RequestsInTurn, InTurn, Earlier
  <2>1. i + 1 < j + 1
    OBVIOUS
  <2>2. QED
    BY <1>r, <2>1 DEF RequestsInTurn
<1>2. BusyInTurn'
  <2> SUFFICES ASSUME NEW t \in Server, NEW i \in 1 .. Len(requestPipe'), Busy(t)', IsRequest(i)'
               PROVE  InTurn(call'[t].key, requestPipe'[i].key)
    BY DEF BusyInTurn, InTurn, Earlier
  <2>1. 1 < i + 1
    OBVIOUS
  <2>2. QED
    BY <1>p, <1>m, <1>r, <1>b, <2>1 DEF BusyInTurn, RequestsInTurn
<1>3. ResponsesInTurn'
  BY <1>p, ResponsesInTurnSame
<1>4. RespondedBeforeRequested'
  <2> SUFFICES ASSUME NEW c \in Client, NEW j \in 1 .. Len(resultPipe'[c]),
                      NEW i \in 1 .. Len(requestPipe'), IsRequest(i)'
               PROVE  InTurn(resultPipe'[c][j].key, requestPipe'[i].key)
    BY DEF RespondedBeforeRequested, InTurn, Earlier
  <2>1. QED
    BY <1>p, <1>r DEF RespondedBeforeRequested
<1>5. RespondedBeforeBusy'
  <2> SUFFICES ASSUME NEW c \in Client, NEW j \in 1 .. Len(resultPipe'[c]),
                      NEW t \in Server, Busy(t)'
               PROVE  InTurn(resultPipe'[c][j].key, call'[t].key)
    BY DEF RespondedBeforeBusy, InTurn, Earlier
  <2>1. QED
    BY SMTT(30), <1>p, <1>m, <1>b DEF RespondedBeforeBusy, RespondedBeforeRequested
<1>6. QED
  BY <1>1, <1>2, <1>3, <1>4, <1>5

\* The response of the only listener is later than those before it, and no
\* other listener holds an earlier call.
LEMMA RespondInTurn ==
  ASSUME OneListener, TypeOK, CallsAreInTurn, NEW s \in Server, SendResponse(s)
  PROVE  CallsAreInTurn'
<1> USE DEF CallsAreInTurn
<1>t. /\ resultPipe \in [Client -> Seq(ResponseMsg)]
      /\ proc \in [Server -> Running \cup Ended] /\ call \in [Server -> Call]
  BY DEF TypeOK, SrvrTypeOK, PipesTypeOK
<1>p. /\ Busy(s) /\ call[s].pipe \in Client /\ requestPipe' = requestPipe
      /\ resultPipe' = [resultPipe EXCEPT ![call[s].pipe] = Append(@, Response(s))]
      /\ proc'[s] \notin {"exec", "send"}
      /\ Response(s).key = call[s].key
  BY <1>t DEF SendResponse, CanSend, SendMessage, Call, Busy, AfterRequest, Response
<1>b. \A t \in Server : ~Busy(t)'
  BY <1>p DEF OneListener, Busy
<1>r. \A c \in Client : \A j \in 1 .. Len(resultPipe'[c]) :
        \/ j \in 1 .. Len(resultPipe[c]) /\ resultPipe'[c][j] = resultPipe[c][j]
        \/ j = Len(resultPipe[c]) + 1 /\ resultPipe'[c][j] = Response(s)
  BY <1>t, <1>p
<1>1. RequestsInTurn' /\ BusyInTurn' /\ RespondedBeforeBusy'
  BY <1>p, <1>b, SMTT(30)
     DEF RequestsInTurn, BusyInTurn, RespondedBeforeBusy, IsRequest, InTurn, Earlier
<1>2. ResponsesInTurn'
  <2> SUFFICES ASSUME NEW c \in Client, NEW i \in 1 .. Len(resultPipe'[c]),
                      NEW j \in 1 .. Len(resultPipe'[c]), i < j
               PROVE  InTurn(resultPipe'[c][i].key, resultPipe'[c][j].key)
    BY DEF ResponsesInTurn, InTurn, Earlier
  <2>1. i \in 1 .. Len(resultPipe[c]) /\ resultPipe'[c][i] = resultPipe[c][i]
    <3>1. Len(resultPipe[c]) \in Nat
      BY <1>t
    <3>2. QED
      BY <1>r, <3>1
  <2>2. QED
    BY <1>p, <1>r, <2>1 DEF ResponsesInTurn, RespondedBeforeBusy
<1>3. RespondedBeforeRequested'
  <2> SUFFICES ASSUME NEW c \in Client, NEW j \in 1 .. Len(resultPipe'[c]),
                      NEW i \in 1 .. Len(requestPipe'), IsRequest(i)'
               PROVE  InTurn(resultPipe'[c][j].key, requestPipe'[i].key)
    BY DEF RespondedBeforeRequested, InTurn, Earlier
  <2>1. i \in 1 .. Len(requestPipe) /\ IsRequest(i) /\ requestPipe'[i] = requestPipe[i]
    BY <1>p DEF IsRequest
  <2>2. QED
    BY <1>p, <1>r, <2>1 DEF RespondedBeforeRequested, BusyInTurn
<1>4. QED
  BY <1>1, <1>2, <1>3

-----------------------------------------------------------------------------
(* An answered session has nothing left on the way *)

\* Nothing that was sent is later than the current call.
LEMMA NothingLater ==
  ASSUME TypeOK, NEW k \in CallKey, Made(k), k.client \in Client
  PROVE  ~Earlier(Key(k.client), k)
BY KeyFields DEF Made, Earlier, CallKey, TypeOK, ClntTypeOK

\* The session that accepts the response to its current call accepts the last
\* of its responses, and no request of it is left.
LEMMA AcceptedIsLast ==
  ASSUME RpcInv, CallsAreInTurn, NEW c \in Client, resultPipe[c] # <<>>,
         resultPipe[c][1].key = Key(c)
  PROVE  Len(resultPipe[c]) = 1 /\ \A k \in OnTheWay : k.client # c
<1>t. TypeOK /\ resultPipe[c] \in Seq(ResponseMsg)
  BY DEF RpcInv, OnceInv, AnswerInv, TypeOK, PipesTypeOK
<1>n. 1 \in 1 .. Len(resultPipe[c]) /\ Len(resultPipe[c]) \in Nat
  BY <1>t
<1>s. CallsAreSpent
  BY DEF RpcInv, OnceInv, CallsInv
<1>1. ASSUME 2 \in 1 .. Len(resultPipe[c]) PROVE FALSE
  <2> DEFINE k == resultPipe[c][2].key
  <2>1. k \in CallKey /\ Made(k) /\ k.client = c
    BY <1>t, <1>s, <1>1, ResponseType
       DEF CallsAreSpent, ResponsesSpent, Spent, RpcInv, OnceInv, AnswerInv,
           InFlightCarriesItsSeq, ResponseInFlight
  <2>2. InTurn(Key(c), k)
    BY <1>n, <1>1 DEF CallsAreInTurn, ResponsesInTurn
  <2> HIDE DEF k
  <2>3. QED
    BY <1>t, <2>1, <2>2, KeyFields, NothingLater DEF InTurn
<1>2. ASSUME NEW k \in OnTheWay, k.client = c PROVE FALSE
  <2>1. k \in CallKey /\ Made(k)
    BY <1>t, <1>s, OnTheWayIs, OnTheWayType DEF CallsAreSpent, RequestsSpent, BusySpent, Spent
  <2>2. InTurn(Key(c), k)
    BY <1>n, OnTheWayIs DEF CallsAreInTurn, RespondedBeforeRequested, RespondedBeforeBusy
  <2>3. QED
    BY <1>t, <1>2, <2>1, <2>2, KeyFields, NothingLater DEF InTurn
<1>3. Len(resultPipe[c]) = 1
  <2>1. 2 \notin 1 .. Len(resultPipe[c])
    BY <1>1
  <2>2. \A n \in Nat : 1 \in 1 .. n /\ 2 \notin 1 .. n => n = 1
    OBVIOUS
  <2>3. QED
    BY <1>n, <2>1, <2>2
<1>4. QED
  BY <1>2, <1>3

LEMMA ClntOrder ==
  ASSUME OrderInv, NEW c \in Client, ClntNext(c), UNCHANGED srvrVars
  PROVE  CallsAreInTurn' /\ AnsweredIsAlone'
<1>t. /\ TypeOK /\ CallsCounted /\ CallsAreSpent
      /\ resultPipe \in [Client -> Seq(ResponseMsg)]
  BY DEF OrderInv, RpcInv, OnceInv, AnswerInv, CallsInv, TypeOK, PipesTypeOK
<1>1. CallsAreInTurn'
  <2>1. CASE SendRequest(c)
    BY <1>t, <2>1, SendInTurn DEF OrderInv
  <2>2. CASE ~SendRequest(c)
    <3>1. requestPipe' = requestPipe /\ BusyKeysStay
      BY <2>2
         DEF ClntNext, NewRequest, SetRequestParameterFails, SendTimedOut, ClntInterrupted,
             RecvResponse, RecvTimedOut, Shutdown, Reinitialise, pipes, srvrVars,
             BusyKeysStay, Busy
    <3>2. RequestsTaken(0)
      BY <1>t, <3>1 DEF RequestsTaken, IsRequest, TypeOK, PipesTypeOK
    <3>3. \E q \in [Client -> Nat] : ResponsesTaken(q)
      BY <1>t, <2>2, ClntResponsesTaken
    <3>4. QED
      BY <3>1, <3>2, <3>3, TakenInTurn DEF OrderInv
  <2>3. QED
    BY <2>1, <2>2
<1>2. AnsweredIsAlone'
  <2> SUFFICES ASSUME NEW d \in Client, Answered(d)'
               PROVE  resultPipe'[d] = <<>> /\ \A k \in OnTheWay' : k.client # d
    BY DEF AnsweredIsAlone
  <2>0. outcome'[d] \in {"ok", "server_error"} /\ answer'[d] = Key(d)'
    BY DEF Answered
  <2>1. CASE UNCHANGED <<outcome[d], answer[d], reqNo[d], epoch[d]>>
             /\ ~(SendRequest(c) /\ d = c)
    <3>1. Answered(d)
      BY <2>0, <2>1 DEF Key, Answered
    <3>2. resultPipe[d] = <<>> /\ \A k \in OnTheWay : k.client # d
      BY <3>1 DEF OrderInv, AnsweredIsAlone
    <3>3. resultPipe'[d] = <<>>
      <4>1. \A e \in Client : resultPipe'[e] \in Seq(ResponseMsg)
        BY <1>t, NextTypeOK DEF Next, TypeOK, PipesTypeOK
      <4>2. Len(resultPipe'[d]) = 0
        <5>1. 1 \notin 1 .. Len(resultPipe'[d])
          BY <1>t, <3>2, ClntResponses
        <5>2. QED
          BY <4>1, <5>1
      <4>3. QED
        BY <4>1, <4>2
    <3>4. SendRequest(c) => Key(c).client # d
      BY <2>1, KeyFields
    <3>5. QED
      BY <1>t, <3>2, <3>3, <3>4, ClntOnTheWay
  <2>2. CASE d = c /\ RecvResponse(c) /\ resultPipe[c] # <<>>
             /\ answer'[c] = resultPipe[c][1].key /\ UNCHANGED <<reqNo, epoch>>
    <3>1. resultPipe[c][1].key = Key(c)
      BY <2>0, <2>2 DEF Key
    <3>2. Len(resultPipe[c]) = 1 /\ \A k \in OnTheWay : k.client # c
      BY <2>2, <3>1, AcceptedIsLast DEF OrderInv
    <3>3. resultPipe' = [resultPipe EXCEPT ![c] = Tail(@)] /\ ~SendRequest(c)
      BY <2>2 DEF RecvResponse, ReceiveMessage, SendRequest
    <3>4. resultPipe'[c] = Tail(resultPipe[c])
      BY <1>t, <3>3
    <3>5. resultPipe'[c] = <<>>
      <4>1. resultPipe[c] \in Seq(ResponseMsg)
        BY <1>t DEF TypeOK, PipesTypeOK
      <4>2. resultPipe'[c] \in Seq(ResponseMsg) /\ Len(resultPipe'[c]) = 0
        BY <3>2, <3>4, <4>1
      <4>3. QED
        BY <4>2
    <3>6. QED
      BY <1>t, <2>2, <3>2, <3>3, <3>5, ClntOnTheWay
  <2>3. QED
    BY <1>t, <2>0, <2>1, <2>2, AnswerFrom
<1>3. QED
  BY <1>1, <1>2

\* A listener or helper that adds no response takes calls on or away.
LEMMA OthersInTurn ==
  ASSUME TypeOK, CallsAreInTurn, resultPipe' = resultPipe, BusyKeysStay,
         \E o \in Nat : RequestsTaken(o)
  PROVE  CallsAreInTurn'
<1> DEFINE none == [c \in Client |-> 0]
<1>1. ASSUME NEW c \in Client, NEW i \in 1 .. Len(resultPipe'[c]) PROVE i + 0 = i
  BY DEF TypeOK, PipesTypeOK
<1>2. none \in [Client -> Nat] /\ ResponsesTaken(none)
  BY <1>1 DEF ResponsesTaken
<1>3. QED
  BY <1>2, TakenInTurn

LEMMA SrvrInTurn ==
  ASSUME OneListener, TypeOK, CallsAreInTurn, NEW s \in Server, SrvrNext(s)
  PROVE  CallsAreInTurn'
<1>t. /\ requestPipe \in Seq(RequestMsg \cup {InterruptMsg, PingMsg})
      /\ proc \in [Server -> Running \cup Ended] /\ call \in [Server -> Call]
  BY DEF TypeOK, SrvrTypeOK, PipesTypeOK
<1>1. CASE SendResponse(s)
  BY <1>1, RespondInTurn
<1>2. CASE RecvRequest(s) /\ proc'[s] = "exec"
  BY <1>2, RecvInTurn
<1>3. CASE ~SendResponse(s) /\ ~(RecvRequest(s) /\ proc'[s] = "exec")
  <2>1. /\ resultPipe' = resultPipe
        /\ \/ requestPipe' = requestPipe \/ requestPipe' = <<>>
           \/ requestPipe # <<>> /\ requestPipe' = Tail(requestPipe)
    BY <1>3
       DEF SrvrNext, RecvRequest, RecvInterrupted, ExecCall, SendResponseAborts, HandleSignal,
           HandleUserInterrupt, Killed, Restart, MessageReady, ReceiveMessage, EmptyPipe, pipes
  <2>2. BusyKeysStay
    <3> SUFFICES ASSUME NEW t \in Server, Busy(t)'
                 PROVE  Busy(t) /\ call'[t].key = call[t].key
      BY DEF BusyKeysStay
    <3>1. CASE t # s
      BY <1>t, <3>1
         DEF SrvrNext, RecvRequest, RecvInterrupted, ExecCall, SendResponse,
             SendResponseAborts, HandleSignal, HandleUserInterrupt, Killed, Restart, ClearCall,
             Busy
    <3>2. CASE t = s /\ ExecCall(s)
      <4>1. proc[s] = "exec"
        BY <3>2 DEF ExecCall
      <4>2. call' = [call EXCEPT ![s].error = NativeParse(call[s].method, call[s].error)]
        BY <1>t, <3>2 DEF ExecCall, AfterRequest, Busy
      <4>3. call'[s].key = call[s].key
        BY <1>t, <4>2 DEF Call
      <4>4. QED
        BY <3>2, <4>1, <4>3 DEF Busy
    <3>3. CASE t = s /\ ~ExecCall(s)
      BY <1>t, <1>3, <3>3
         DEF SrvrNext, RecvRequest, RecvInterrupted, SendResponseAborts, HandleSignal,
             HandleUserInterrupt, Killed, Restart, Busy
    <3>4. QED
      BY <3>1, <3>2, <3>3
  <2>3. QED
    BY <2>1, <2>2, OtherRequestsTaken, OthersInTurn
<1>4. QED
  BY <1>1, <1>2, <1>3

\* An answered session gets no response: none of its calls is on the way.
LEMMA SrvrAlone ==
  ASSUME OrderInv, NEW s \in Server, SrvrNext(s), UNCHANGED clntVars
  PROVE  AnsweredIsAlone'
<1>t. /\ TypeOK /\ resultPipe \in [Client -> Seq(ResponseMsg)] /\ call \in [Server -> Call]
  BY DEF OrderInv, RpcInv, OnceInv, AnswerInv, TypeOK, PipesTypeOK, SrvrTypeOK
<1> SUFFICES ASSUME NEW d \in Client, Answered(d)'
             PROVE  resultPipe'[d] = <<>> /\ \A k \in OnTheWay' : k.client # d
  BY DEF AnsweredIsAlone
<1>1. Answered(d)
  BY DEF Answered, Key, clntVars
<1>2. resultPipe[d] = <<>> /\ \A k \in OnTheWay : k.client # d
  BY <1>1 DEF OrderInv, AnsweredIsAlone
<1>3. resultPipe'[d] = resultPipe[d]
  <2>1. CASE SendResponse(s)
    <3>1. /\ Busy(s) /\ proc[s] = "send" /\ call[s].pipe \in Client /\ call[s].pipe # NoPipe
          /\ resultPipe' = [resultPipe EXCEPT ![call[s].pipe] = Append(@, Response(s))]
      BY <1>t, <2>1 DEF SendResponse, CanSend, SendMessage, Call, Busy
    <3>2. call[s].key.client = call[s].pipe
      BY <3>1
         DEF OrderInv, RpcInv, OnceInv, AnswerInv, InFlightCarriesItsSeq, CallInFlight,
             NamesItsCaller
    <3>3. call[s].pipe # d
      BY <1>2, <3>1, <3>2, OnTheWayIs
    <3>4. QED
      BY <1>t, <3>1, <3>3
  <2>2. CASE ~SendResponse(s)
    BY <2>2
       DEF SrvrNext, RecvRequest, RecvInterrupted, ExecCall, SendResponseAborts, HandleSignal,
           HandleUserInterrupt, Killed, Restart, pipes
  <2>3. QED
    BY <2>1, <2>2
<1>4. QED
  BY <1>t, <1>2, <1>3, SrvrOnTheWay

LEMMA InitOrderInv == Init => OrderInv
<1> SUFFICES ASSUME Init PROVE OrderInv
  OBVIOUS
<1>1. /\ requestPipe = <<>> /\ \A c \in Client : resultPipe[c] = <<>>
      /\ \A s \in Server : ~Busy(s)
      /\ \A c \in Client : outcome[c] = "none"
  BY DEF Init, PipesInit, ClntInit, SrvrInit, EmptyPipe, Busy
<1>2. CallsAreInTurn /\ AnsweredIsAlone
  BY <1>1
     DEF CallsAreInTurn, RequestsInTurn, BusyInTurn, ResponsesInTurn, RespondedBeforeRequested,
         RespondedBeforeBusy, AnsweredIsAlone, Answered
<1>3. QED
  BY <1>2, InitRpcInv DEF OrderInv

LEMMA NextOrderInv == OneListener => (OrderInv /\ [Next]_vars => OrderInv')
<1> SUFFICES ASSUME OneListener, OrderInv, [Next]_vars PROVE OrderInv'
  OBVIOUS
<1>0. RpcInv' /\ TypeOK /\ CallsAreInTurn
  BY NextRpcInv DEF OrderInv, RpcInv, OnceInv, AnswerInv
<1>1. ASSUME NEW c \in Client, ClntNext(c) /\ UNCHANGED srvrVars PROVE OrderInv'
  BY <1>0, <1>1, ClntOrder DEF OrderInv
<1>2. ASSUME NEW s \in Server, SrvrNext(s) /\ UNCHANGED clntVars PROVE OrderInv'
  BY <1>0, <1>2, SrvrInTurn, SrvrAlone DEF OrderInv
<1>3. CASE HelperNext /\ UNCHANGED clntVars
  <2>1. BusyKeysStay /\ resultPipe' = resultPipe
    BY <1>3 DEF HelperNext, HelperSends, HelperFails, Ping, BusyKeysStay, Busy, pipes
  <2>2. \/ requestPipe' = requestPipe
        \/ requestPipe' = Append(requestPipe, InterruptMsg)
        \/ requestPipe' = Append(requestPipe, PingMsg)
    BY <1>3 DEF HelperNext, HelperSends, HelperFails, Ping, SendMessage, pipes
  <2>3. CallsAreInTurn'
    BY <1>0, <2>1, <2>2, OtherRequestsTaken, OthersInTurn
  <2>4. AnsweredIsAlone'
    BY <1>0, <1>3, <2>1, HelperOnTheWay DEF OrderInv, AnsweredIsAlone, Answered, Key, clntVars
  <2>5. QED
    BY <1>0, <2>3, <2>4 DEF OrderInv
<1>4. CASE UNCHANGED vars
  <2>1. BusyKeysStay /\ UNCHANGED <<requestPipe, resultPipe, clntVars>> /\ OnTheWay' = OnTheWay
    BY <1>4 DEF vars, srvrVars, pipes, BusyKeysStay, Busy, OnTheWay, IsRequest
  <2>2. CallsAreInTurn'
    BY <1>0, <2>1, OtherRequestsTaken, OthersInTurn
  <2>3. AnsweredIsAlone'
    BY <2>1 DEF OrderInv, AnsweredIsAlone, Answered, Key, clntVars
  <2>4. QED
    BY <1>0, <2>2, <2>3 DEF OrderInv
<1>5. QED
  BY <1>1, <1>2, <1>3, <1>4 DEF Next

\* With one listener the calls of a session stay in the order it made them,
\* wherever they are, whatever is killed, purged, lost or initialised again.
THEOREM CallsInTurn == ASSUME OneListener PROVE Spec => []CallsAreInTurn
<1>1. OrderInv /\ [Next]_vars => OrderInv'
  BY NextOrderInv
<1>2. OrderInv => CallsAreInTurn
  BY DEF OrderInv
<1>3. QED
  BY <1>1, <1>2, InitOrderInv, PTL DEF Spec

\* With one listener and no repeated number an accepted answer leaves nothing
\* behind: no response in the pipe of the session and none about to be sent.
THEOREM AnsweredDrained ==
  ASSUME OneListener, NoRepeats PROVE Spec => []AnsweredMeansDrained
<1>1. OrderInv /\ [Next]_vars => OrderInv'
  BY NextOrderInv
<1>2. ASSUME OrderInv PROVE AnsweredMeansDrained
  <2> SUFFICES ASSUME NEW c \in Client, outcome[c] \in {"ok", "server_error"}
               PROVE  /\ resultPipe[c] = <<>>
                      /\ \A s \in Server : proc[s] \in {"exec", "send"} => call[s].pipe # c
    BY DEF AnsweredMeansDrained
  <2> USE <1>2 DEF OrderInv
  <2>1. Answered(c)
    BY AnswerIsCurrentInv DEF AnswerIsCurrent, Answered
  <2>2. resultPipe[c] = <<>> /\ \A k \in OnTheWay : k.client # c
    BY <2>1 DEF AnsweredIsAlone
  <2>3. ASSUME NEW s \in Server, proc[s] \in {"exec", "send"}, call[s].pipe = c PROVE FALSE
    <3>1. call[s].key.client = c
      BY <2>3, NullAssumption
         DEF RpcInv, OnceInv, AnswerInv, InFlightCarriesItsSeq, CallInFlight, NamesItsCaller
    <3>2. call[s].key \in OnTheWay
      BY <2>3, OnTheWayIs DEF Busy
    <3>3. QED
      BY <2>2, <3>1, <3>2
  <2>4. QED
    BY <2>2, <2>3
<1>3. QED
  BY <1>1, <1>2, InitOrderInv, PTL DEF Spec

-----------------------------------------------------------------------------
(* A signalled listener is woken up, or another one takes its INTERRUPT *)

\* An INTERRUPT stays in the pipe behind what others send, and in front of it
\* until it is received.
LEMMA SendKeepsInterrupt ==
  ASSUME TypeOK, InterruptInPipe, NEW m \in RequestMsg \cup {InterruptMsg, PingMsg},
         requestPipe' = SendMessage(requestPipe, m)
  PROVE  InterruptInPipe'
<1>1. PICK i \in 1 .. Len(requestPipe) : requestPipe[i].type = "INTERRUPT"
  BY DEF InterruptInPipe
<1>2. requestPipe \in Seq(RequestMsg \cup {InterruptMsg, PingMsg})
  BY DEF TypeOK, PipesTypeOK
<1>3. /\ i \in 1 .. Len(Append(requestPipe, m))
      /\ Append(requestPipe, m)[i] = requestPipe[i]
  BY <1>2
<1>4. QED
  BY <1>1, <1>3 DEF InterruptInPipe, SendMessage

LEMMA HelperPutsInterrupt ==
  ASSUME TypeOK, requestPipe' = SendMessage(requestPipe, InterruptMsg)
  PROVE  InterruptInPipe'
<1>1. requestPipe \in Seq(RequestMsg \cup {InterruptMsg, PingMsg})
  BY DEF TypeOK, PipesTypeOK
<1>2. /\ Len(requestPipe) + 1 \in 1 .. Len(Append(requestPipe, InterruptMsg))
      /\ Append(requestPipe, InterruptMsg)[Len(requestPipe) + 1] = InterruptMsg
  BY <1>1 DEF InterruptMsg
<1>3. InterruptMsg.type = "INTERRUPT"
  BY DEF InterruptMsg
<1>4. QED
  BY <1>2, <1>3 DEF InterruptInPipe, SendMessage

LEMMA ReceiveKeepsInterrupt ==
  ASSUME TypeOK, InterruptInPipe, MessageReady(requestPipe),
         Received(requestPipe).type # "INTERRUPT",
         requestPipe' = ReceiveMessage(requestPipe)
  PROVE  InterruptInPipe'
<1>1. PICK i \in 1 .. Len(requestPipe) : requestPipe[i].type = "INTERRUPT"
  BY DEF InterruptInPipe
<1>2. requestPipe \in Seq(RequestMsg \cup {InterruptMsg, PingMsg}) /\ requestPipe # <<>>
  BY DEF TypeOK, PipesTypeOK, MessageReady
<1>3. i # 1
  BY <1>1, <1>2 DEF Received
<1>4. /\ i - 1 \in 1 .. Len(Tail(requestPipe))
      /\ Tail(requestPipe)[i - 1] = requestPipe[i]
  BY <1>1, <1>2, <1>3
<1>5. QED
  BY <1>1, <1>4 DEF InterruptInPipe, ReceiveMessage

\* A signalled listener that waits for a message, and what it waits for.
Waits(s) == signo[s] /\ proc[s] = "recv"
Woken(s) == missed[s] \/ helpers > 0 \/ InterruptInPipe

\* A step that leaves the signals and where the listeners are alone, or takes
\* them on, and no INTERRUPT away, keeps listeners that are woken up woken up.
LEMMA StaysWoken ==
  ASSUME SignalledListenerIsWoken,
         \A s \in Server : Waits(s)' /\ ~Waits(s) => Woken(s)',
         \A s \in Server : Waits(s)' /\ Woken(s) => Woken(s)'
  PROVE  SignalledListenerIsWoken'
  BY DEF SignalledListenerIsWoken, Waits, Woken

LEMMA ClntKeepsWoken ==
  ASSUME TypeOK, SignalledListenerIsWoken, NEW c \in Client, ClntNext(c), UNCHANGED srvrVars
  PROVE  SignalledListenerIsWoken'
<1>1. \A s \in Server : (Waits(s)' <=> Waits(s)) /\ (missed[s])' = missed[s] /\ helpers' = helpers
  BY DEF srvrVars, Waits
<1>2. InterruptInPipe => InterruptInPipe'
  <2>1. CASE SendRequest(c)
    <3>1. Request(c) \in RequestMsg
      BY <2>1 DEF SendRequest, Request, RequestMsg, Key, CallKey, TypeOK, ClntTypeOK
    <3>2. QED
      BY <2>1, <3>1, SendKeepsInterrupt DEF SendRequest
  <2>2. CASE ~SendRequest(c)
    <3>1. requestPipe' = requestPipe
      BY <2>2 DEF ClntNext, NewRequest, SetRequestParameterFails, SendTimedOut, ClntInterrupted,
                  RecvResponse, RecvTimedOut, Shutdown, Reinitialise, pipes
    <3>2. QED
      BY <3>1 DEF InterruptInPipe
  <2>3. QED
    BY <2>1, <2>2
<1>3. QED
  BY <1>1, <1>2, StaysWoken DEF Woken

LEMMA SrvrKeepsWoken ==
  ASSUME TypeOK, SignalledListenerIsWoken, NEW s \in Server, SrvrNext(s), UNCHANGED clntVars
  PROVE  SignalledListenerIsWoken'
<1>0. /\ signo \in [Server -> BOOLEAN] /\ proc \in [Server -> Running \cup Ended]
      /\ missed \in [Server -> BOOLEAN] /\ helpers \in Nat
  BY DEF TypeOK, SrvrTypeOK
<1> SUFFICES /\ \A t \in Server : Waits(t)' /\ ~Waits(t) => Woken(t)'
             /\ \A t \in Server : Waits(t)' /\ Woken(t) => Woken(t)'
  BY StaysWoken
<1>1. CASE RecvRequest(s)
  <2>1. /\ signo' = signo /\ helpers' = helpers
        /\ \A t \in Server : t # s => proc'[t] = proc[t]
        /\ proc'[s] # "recv"
    BY <1>0, <1>1 DEF RecvRequest
  <2>2. \A t \in Server : Waits(t)' => Waits(t) /\ t # s
    BY <2>1 DEF Waits
  <2>3. CASE Received(requestPipe).type = "INTERRUPT"
    <3>1. missed' = Misses(s)
      BY <1>1, <2>3 DEF RecvRequest
    <3>2. \A t \in Server : Waits(t) /\ t # s => missed'[t]
      BY <3>1 DEF Misses, Waits
    <3>3. QED
      BY <2>2, <3>2 DEF Woken
  <2>4. CASE Received(requestPipe).type # "INTERRUPT"
    <3>1. missed' = missed
      BY <1>1, <2>4 DEF RecvRequest
    <3>2. InterruptInPipe => InterruptInPipe'
      BY <1>1, <2>4, ReceiveKeepsInterrupt DEF RecvRequest
    <3>3. QED
      BY <2>1, <2>2, <3>1, <3>2 DEF Woken
  <2>5. QED
    BY <2>3, <2>4
<1>2. CASE \/ RecvInterrupted(s) \/ ExecCall(s) \/ SendResponse(s) \/ SendResponseAborts(s)
           \/ Killed(s)
  <2>1. /\ signo' = signo /\ helpers' = helpers /\ missed' = missed /\ requestPipe' = requestPipe
    BY <1>2 DEF RecvInterrupted, ExecCall, SendResponse, SendResponseAborts, Killed, pipes
  <2>2. \A t \in Server : Waits(t)' => Waits(t)
    BY <1>0, <1>2 DEF RecvInterrupted, ExecCall, SendResponse, SendResponseAborts, Killed,
                      AfterRequest, Waits
  <2>3. QED
    BY <2>1, <2>2 DEF Woken, InterruptInPipe
<1>3. CASE HandleSignal(s) \/ HandleUserInterrupt(s)
  <2>1. helpers' > 0
    BY <1>0, <1>3 DEF HandleSignal, HandleUserInterrupt
  <2>2. QED
    BY <2>1 DEF Woken
<1>4. CASE Restart(s)
  <2>1. helpers' = helpers /\ ~signo'[s]
    BY <1>0, <1>4 DEF Restart
  <2>2. \A t \in Server : t # s => signo'[t] = signo[t] /\ proc'[t] = proc[t]
    BY <1>0, <1>4 DEF Restart
  <2>3. \A t \in Server : Waits(t)' => Waits(t) /\ t # s
    BY <2>1, <2>2 DEF Waits
  <2>4. CASE PurgeAtStart /\ InterruptInPipe
    <3>1. \A t \in Server : t # s => missed'[t] = Misses(s)[t]
      BY <1>4, <2>4, MissesType DEF Restart
    <3>2. \A t \in Server : Waits(t) /\ t # s => missed'[t]
      BY <3>1 DEF Misses, Waits
    <3>3. QED
      BY <2>3, <3>2 DEF Woken
  <2>5. CASE ~(PurgeAtStart /\ InterruptInPipe)
    <3>1. \A t \in Server : t # s => missed'[t] = missed[t]
      BY <1>0, <1>4, <2>5 DEF Restart
    <3>2. InterruptInPipe => requestPipe' = requestPipe
      BY <1>4, <2>5 DEF Restart
    <3>3. InterruptInPipe => InterruptInPipe'
      BY <3>2 DEF InterruptInPipe
    <3>4. QED
      BY <2>1, <2>3, <3>1, <3>3 DEF Woken
  <2>6. QED
    BY <2>4, <2>5
<1>5. QED
  BY <1>1, <1>2, <1>3, <1>4 DEF SrvrNext

LEMMA HelperKeepsWoken ==
  ASSUME TypeOK, SignalledListenerIsWoken, HelperNext
  PROVE  SignalledListenerIsWoken'
<1>1. CASE HelperSends
  <2>1. InterruptInPipe'
    BY <1>1, HelperPutsInterrupt DEF HelperSends
  <2>2. QED
    BY <2>1 DEF SignalledListenerIsWoken
<1>2. CASE HelperFails
  BY <1>2 DEF HelperFails, SignalledListenerIsWoken
<1>3. CASE Ping
  <2>1. InterruptInPipe => InterruptInPipe'
    BY <1>3, SendKeepsInterrupt DEF Ping
  <2>2. \A s \in Server : (Waits(s)' <=> Waits(s)) /\ (missed[s])' = missed[s] /\ helpers' = helpers
    BY <1>3 DEF Ping, Waits
  <2>3. QED
    BY <2>1, <2>2, StaysWoken DEF Woken
<1>4. QED
  BY <1>1, <1>2, <1>3 DEF HelperNext

\* For any number of listeners on the request pipe: a signalled one that is
\* blocked in receive_message has a helper on its way or an INTERRUPT in the
\* pipe, or another listener took or purged one while it was blocked.
THEOREM SignalWakesListeners == Spec => []SignalledListenerIsWoken
<1>1. Init => SignalledListenerIsWoken
  BY DEF Init, SrvrInit, SignalledListenerIsWoken
<1>2. TypeOK /\ SignalledListenerIsWoken /\ [Next]_vars => SignalledListenerIsWoken'
  <2> SUFFICES ASSUME TypeOK, SignalledListenerIsWoken, [Next]_vars
               PROVE  SignalledListenerIsWoken'
    OBVIOUS
  <2>1. CASE UNCHANGED vars
    BY <2>1 DEF vars, srvrVars, pipes, SignalledListenerIsWoken, InterruptInPipe
  <2>2. CASE Next
    BY <2>2, ClntKeepsWoken, SrvrKeepsWoken, HelperKeepsWoken DEF Next
  <2>3. QED
    BY <2>1, <2>2
<1>3. QED
  BY <1>1, <1>2, TypeCorrect, PTL DEF Spec
=============================================================================
