--------------------------- MODULE EpcClntObject ---------------------------
(***************************************************************************)
(* The settings of an interface in a session, and the calls that use them. *)
(* A setting constructs the object of the interface, changes it and stores *)
(* it; a stub constructs it, sends its request over the pipe, HTTP or TCP  *)
(* connection the object names, and stores it when it ends.  Storing does  *)
(* something only when the object is dirty: the type STD_OBJECT, which is  *)
(* not part of the repository, is modelled from how that flag is used.     *)
(***************************************************************************)
EXTENDS Integers, SequencesExt

CONSTANTS
  Pipe, DefaultPipe,  \* names of request pipes
  Url,                \* HTTP connections
  Host, Charset,      \* an open TCP connection has a host and a character set
  Null,
  Timeout,            \* of set_request_send_timeout, and the like for others
  MaxLen,             \* bound: length of a request
  Calls               \* bound: calls over one TCP connection

Protocol == {"NATIVE", "SOAP", "XMLRPC"}
Method == {"PIPE", "HTTP", "TCP"}
Connection == [host : Host \cup {Null}, charset : Charset \cup {Null}]

\* Attributes of the type EPC_CLNT_OBJECT.
Object ==
  [dirty : BOOLEAN, protocol : Protocol, method : Method, tcp : Connection,
   url : Url \cup {Null}, pipe : Pipe, timeout : Timeout]

ASSUME ClntObjectAssumption ==
  /\ DefaultPipe \in Pipe /\ 10 \in Timeout
  /\ Null \notin Url \cup Pipe \cup Host \cup Charset \cup Object
  /\ MaxLen \in Nat \ {0} /\ Calls \in Nat

VARIABLES
  stored,   \* the object std_object_mgr keeps, or Null
  self,     \* l_epc_clnt_object of the stub that runs, or Null
  proc,     \* what the stub does
  g_msg,    \* the request: pairs of a call and a position
  offset,   \* l_offset
  stream,   \* stream[h]: what was written to the connection with host h
  wanted,   \* history: what the settings asked for
  went,     \* history: where the last call went
  calls     \* calls over TCP, bounded by Calls

call == <<self, proc, g_msg, offset, stream, went, calls>>
vars == <<stored, wanted, call>>

NoConnection == [host |-> Null, charset |-> Null]

\* The object the constructor makes.
Default ==
  [dirty |-> FALSE, protocol |-> "NATIVE", method |-> "PIPE",
   tcp |-> NoConnection, url |-> Null, pipe |-> DefaultPipe, timeout |-> 10]

\* Storing is what makes the constructor find the same object again.
Constructed == IF stored = Null THEN Default ELSE stored

\* Mutant of Store: the object stays marked.
StoreMarked(object) == stored' = IF object.dirty THEN object ELSE Constructed

Store(object) ==
  stored' = IF object.dirty THEN [object EXCEPT !.dirty = FALSE] ELSE Constructed

NotCalled ==
  /\ self = Null /\ proc = "idle" /\ g_msg = <<>> /\ offset = 1
  /\ went = Null /\ calls = 0 /\ stream = [h \in Host |-> <<>>]
Asked == [method |-> "PIPE", target |-> DefaultPipe, protocol |-> "NATIVE", timeout |-> 10]

Init == stored = Null /\ wanted = Asked /\ NotCalled

-----------------------------------------------------------------------------
(* The settings.                                                           *)

\* PL/SQL comparison: with Null it is not true.
Equal(a, b) == a = b /\ a # Null

\* Mutant of FromUrl: the object is not marked.
FromUrlClean(url, object) == [object EXCEPT !.url = url]

\* connection2epc_clnt_info_obj, for HTTP and for TCP.
FromUrl(url, object) ==
  IF Equal(object.url, url) THEN object ELSE [object EXCEPT !.url = url, !.dirty = TRUE]
FromConnection(c, object) ==
  IF Equal(object.tcp.host, c.host) /\ Equal(object.tcp.charset, c.charset)
  THEN object
  ELSE [object EXCEPT !.tcp = c, !.dirty = TRUE]

\* Mutant of ToConnection: a field is not copied.
ToConnectionWithoutCharset(object) == [object.tcp EXCEPT !.charset = Null]

\* epc_clnt_info_obj2connection.
ToConnection(object) == object.tcp

Set(object, asked) ==
  /\ proc = "idle" /\ Store(object) /\ wanted' = asked
  /\ UNCHANGED call

SetProtocol(p) ==
  LET object == Constructed
  IN  Set(IF object.protocol = p THEN object ELSE [object EXCEPT !.protocol = p, !.dirty = TRUE],
          [wanted EXCEPT !.protocol = p])

SetHttp(url) ==
  Set([FromUrl(url, [Constructed EXCEPT !.method = "HTTP"]) EXCEPT !.protocol = "SOAP"],
      [wanted EXCEPT !.method = "HTTP", !.target = url, !.protocol = "SOAP"])

\* The program has opened the connection.
SetTcp(c) ==
  Set([FromConnection(c, [Constructed EXCEPT !.method = "TCP"]) EXCEPT !.protocol = "XMLRPC"],
      [wanted EXCEPT !.method = "TCP", !.target = c, !.protocol = "XMLRPC"])

\* Mutant of SameInfo: the protocol is not compared.
SameInfoOfAnyProtocol(object, p) == object.method = "PIPE" /\ object.pipe = p
SameInfo(object, p) == object.method = "PIPE" /\ object.pipe = p /\ object.protocol = "NATIVE"

SetPipe(p) ==
  LET object == Constructed
  IN  Set(IF SameInfo(object, p) THEN object
          ELSE [object EXCEPT !.method = "PIPE", !.pipe = p, !.protocol = "NATIVE", !.dirty = TRUE],
          [wanted EXCEPT !.method = "PIPE", !.target = p, !.protocol = "NATIVE"])

\* The timeouts and the namespaces are set alike.
SetTimeout(t) ==
  LET object == Constructed
  IN  Set(IF object.timeout = t THEN object ELSE [object EXCEPT !.timeout = t, !.dirty = TRUE],
          [wanted EXCEPT !.timeout = t])

\* A program that starts anew deletes its objects.
DeleteObjects ==
  /\ proc = "idle" /\ stored' = Null /\ wanted' = Asked
  /\ UNCHANGED call

-----------------------------------------------------------------------------
(* A call of a stub.                                                       *)
NewRequest ==
  /\ proc = "idle" /\ calls < Calls
  /\ stored' = Constructed /\ self' = Constructed
  /\ g_msg' = [n \in 1 .. MaxLen |-> <<calls, n>>]
  /\ offset' = 1 /\ proc' = "sending" /\ went' = Null
  /\ calls' = IF Constructed.method = "TCP" THEN calls + 1 ELSE calls
  /\ UNCHANGED <<stream, wanted>>

\* Connection methods and protocols that go together.
Supported(object) ==
  \/ object.method = "PIPE"
  \/ object.method = "HTTP" /\ object.protocol # "NATIVE"
  \/ object.method = "TCP" /\ object.protocol = "XMLRPC"

\* The stub stores its object, in its exception handler when it raises.
Leave(object) == Store(object) /\ self' = Null /\ proc' = "idle"

ProgramError ==
  /\ proc = "sending" /\ ~Supported(self)
  /\ Leave(self)
  /\ UNCHANGED <<g_msg, offset, stream, wanted, went, calls>>

Target(object) ==
  CASE object.method = "PIPE" -> object.pipe
    [] object.method = "HTTP" -> object.url
    [] object.method = "TCP" -> object.tcp
Sent ==
  /\ proc' = "sent"
  /\ went' = [method |-> self.method, target |-> Target(self), protocol |-> self.protocol, timeout |-> self.timeout]

\* Over a pipe or HTTP the request is one message.
SendWhole ==
  /\ proc = "sending" /\ Supported(self) /\ self.method # "TCP"
  /\ Sent
  /\ UNCHANGED <<stored, self, g_msg, offset, stream, wanted, calls>>

\* Mutant of Rest: the offset is not used.
RestFromStart == g_msg
Rest == SubSeq(g_msg, offset, Len(g_msg))

\* utl_tcp.write_text writes n characters; the loop ends when it has written
\* all of them, or none.
WriteText(n) ==
  /\ proc = "sending" /\ Supported(self) /\ self.method = "TCP" /\ n <= Len(g_msg) - offset + 1
  /\ stream' = [stream EXCEPT ![self.tcp.host] = @ \o SubSeq(Rest, 1, n)]
  /\ offset' = offset + n
  /\ IF n = 0 \/ offset' > Len(g_msg)
     THEN Sent /\ self' = FromConnection(ToConnection(self), self)
     ELSE UNCHANGED <<proc, went, self>>
  /\ UNCHANGED <<stored, g_msg, wanted, calls>>

\* write_text fails; what was written stays written.
WriteFails ==
  /\ proc = "sending" /\ Supported(self) /\ self.method = "TCP"
  /\ Leave(FromConnection(ToConnection(self), self))
  /\ UNCHANGED <<g_msg, offset, stream, wanted, went, calls>>

\* The response arrives, or an exception tells that it does not.
RecvResponse ==
  /\ proc = "sent"
  /\ Leave(IF self.method = "TCP" THEN FromConnection(ToConnection(self), self) ELSE self)
  /\ UNCHANGED <<g_msg, offset, stream, wanted, went, calls>>

Next ==
  \/ \E p \in Protocol : SetProtocol(p)
  \/ \E url \in Url : SetHttp(url)
  \/ \E h \in Host, s \in Charset \cup {Null} : SetTcp([host |-> h, charset |-> s])
  \/ \E p \in Pipe : SetPipe(p)
  \/ \E t \in Timeout : SetTimeout(t)
  \/ DeleteObjects
  \/ NewRequest \/ ProgramError \/ SendWhole
  \/ \E n \in 0 .. MaxLen : WriteText(n)
  \/ WriteFails \/ RecvResponse

Spec == Init /\ [][Next]_vars

-----------------------------------------------------------------------------
\* The variables have their types; the stored object is never dirty, so that
\* the constructor does not raise program_error.
TypeOK ==
  /\ stored # Null => stored \in Object /\ ~stored.dirty
  /\ proc \in {"idle", "sending", "sent"}
  /\ proc # "idle" => self \in Object /\ stored # Null
  /\ offset \in 1 .. MaxLen + 1 /\ calls \in 0 .. Calls

\* When a pipe was set last, calls go to that pipe in the protocol set since,
\* whatever was set before.
PipeSettingsReachCalls ==
  went # Null /\ proc # "idle" /\ wanted.method = "PIPE" =>
    /\ went.method = "PIPE" /\ went.target = wanted.target
    /\ went.protocol = wanted.protocol

\* A connection that was set is remembered, also when the switch to it is not,
\* and a timeout is.
SettingsAreRemembered ==
  stored # Null =>
    /\ wanted.method = "HTTP" => stored.url = wanted.target
    /\ wanted.method = "TCP" => stored.tcp = wanted.target
    /\ stored.timeout = wanted.timeout

\* What is written to a TCP connection ends with the beginning of the request,
\* in order, and nothing of this request is before that: a call that returns
\* without having met a write of nothing has written it whole and once.
WrittenInOrder ==
  proc # "idle" /\ self.method = "TCP" =>
    LET written == stream[self.tcp.host]
        before  == Len(written) - (offset - 1)
    IN  /\ before >= 0
        /\ \A k \in 1 .. before : written[k][1] # g_msg[1][1]
        /\ \A k \in 1 .. offset - 1 : written[before + k] = g_msg[k]

\* A call leaves the settings as they were: what it copies to a connection and
\* back is the same.
Calling == proc # "idle"
CallsKeepSettings == [][Calling => stored' = stored]_vars

=============================================================================
