---------------------------- MODULE EpcMessages ----------------------------
(***************************************************************************)
(* What an EPC client session and an EPC listener share: the methods of    *)
(* the IDL, the messages of protocol 7 (NATIVE) with their sequence        *)
(* numbers, and the two kinds of database pipe they travel in.             *)
(*                                                                         *)
(* A message also carries a key, which names the call it belongs to.  The  *)
(* code has no such field: it is a history value for the properties, and   *)
(* no guard reads it.                                                      *)
(***************************************************************************)
EXTENDS Naturals, Sequences, DbmsPipe

CONSTANTS
  Client,             \* client database sessions
  Method,             \* functions a client stub can name in a request
  OnewayMethod,       \* those the IDL declares oneway
  InterfaceMethod,    \* those whose interface the listener program registers
  ServedMethod,       \* those in the function table of that interface
  SkewedMethod,       \* served, but from another version of the IDL: parsing
                      \* the IN parameters of the request fails
  MaxMsgSeq,          \* c_max_msg_seq, 65535 in the code
  RequestPipeSize,    \* max_pipe_size of the request pipe, in messages
  ResultPipeSize,     \* size of a result pipe, in messages
  NoPipe,             \* the absent result pipe of a oneway request
  NoFunction          \* the NULL function pointer

ASSUME ClientAssumption == Client # {}
ASSUME MethodAssumption ==
  /\ OnewayMethod \subseteq Method
  /\ InterfaceMethod \subseteq Method
  /\ ServedMethod \subseteq InterfaceMethod
  /\ SkewedMethod \subseteq ServedMethod
ASSUME MaxMsgSeqAssumption == MaxMsgSeq \in Nat
ASSUME PipeSizeAssumption ==
  /\ RequestPipeSize \in Nat \ {0}
  /\ ResultPipeSize \in Nat \ {0}
ASSUME NullAssumption == NoPipe \notin Client /\ NoFunction \notin Method

VARIABLES
  requestPipe,        \* the pipe all listeners of the program receive from
  resultPipe          \* resultPipe[c]: 'EPC$' || unique_session_name of c

pipes == <<requestPipe, resultPipe>>

\* The members of epc__error_t that occur on this path.
ErrorCode == {"OK", "PARSE_ERROR", "FUNCTION_UNKNOWN", "INTERFACE_UNKNOWN",
              "RECEIVE_ERROR", "MSG_INTERRUPTED"}

MsgSeq == 0 .. MaxMsgSeq

\* Mutants of NextMsgSeq: one test later, one test earlier.
NextMsgSeqWrapsLate(seq) == IF seq > MaxMsgSeq THEN 0 ELSE seq + 1
NextMsgSeqWrapsEarly(seq) == IF seq + 1 >= MaxMsgSeq THEN 0 ELSE seq + 1

\* new_request: incremented before use, wrapping from MaxMsgSeq to 0.
NextMsgSeq(seq) == IF seq + 1 > MaxMsgSeq THEN 0 ELSE seq + 1

\* The n-th call of client c since its epc_clnt package was initialised for
\* the epoch-th time.
CallKey == [client : Client, epoch : Nat, n : Nat]

\* A request as epc_clnt packs it: PROTOCOL, MSG SEQ, the message (here the
\* method it names) and the result pipe unless the call is oneway.
RequestMsg == [type : {"REQUEST"}, seq : MsgSeq, method : Method,
               pipe : Client \cup {NoPipe}, key : CallKey]

\* send_request_interrupt and ping pack a string where a request has its
\* PROTOCOL number.
InterruptMsg == [type |-> "INTERRUPT"]
PingMsg      == [type |-> "PING"]

ResponseMsg == [seq : MsgSeq, code : ErrorCode, key : CallKey]

PipesTypeOK ==
  /\ requestPipe \in Seq(RequestMsg \cup {InterruptMsg, PingMsg})
  /\ resultPipe \in [Client -> Seq(ResponseMsg)]

PipesInit ==
  /\ requestPipe = EmptyPipe
  /\ resultPipe = [c \in Client |-> EmptyPipe]
=============================================================================
