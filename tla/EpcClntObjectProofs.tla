------------------------ MODULE EpcClntObjectProofs ------------------------
(***************************************************************************)
(* Whatever is set in whatever order, the stored object is clean and       *)
(* well-formed, a pipe that was set is the one that calls use, and what    *)
(* was set is remembered.                                                  *)
(*                                                                         *)
(* The object that matters is the one the next constructor returns, which  *)
(* need not be stored yet.  While a stub runs its own object differs from  *)
(* that in the mark only: what it copied to a connection and back is the   *)
(* same.                                                                   *)
(***************************************************************************)
EXTENDS EpcClntObject, SequenceTheorems, TLAPS

Settings ==
  [method : Method, target : Pipe \cup Url \cup Connection,
   protocol : Protocol, timeout : Timeout]

\* An object has what was set last: the pipe with its protocol, the
\* connection information, the timeout.
HasPipe(object, asked) ==
  asked.method = "PIPE" =>
    /\ object.method = "PIPE" /\ object.pipe = asked.target
    /\ object.protocol = asked.protocol
HasInfo(object, asked) ==
  /\ asked.method = "HTTP" => object.url = asked.target
  /\ asked.method = "TCP" => object.tcp = asked.target
  /\ object.timeout = asked.timeout
Has(object, asked) == HasPipe(object, asked) /\ HasInfo(object, asked)

Stored ==
  /\ stored # Null => stored \in Object /\ stored.dirty = FALSE
  /\ wanted \in Settings
  /\ Has(Constructed, wanted)

Cleaned(object) == [object EXCEPT !.dirty = FALSE]

Called ==
  /\ proc \in {"idle", "sending", "sent"}
  /\ offset \in 1 .. MaxLen + 1 /\ calls \in 0 .. Calls
  /\ proc # "idle" =>
       stored # Null /\ self \in Object /\ Cleaned(self) = stored /\ Len(g_msg) = MaxLen
  /\ proc # "idle" /\ went # Null =>
       /\ went.method = self.method /\ went.target = Target(self)
       /\ went.protocol = self.protocol

IInv == Stored /\ Called

\* The object the constructor makes is well-formed and not marked.
LEMMA DefaultIsObject == Default \in Object /\ Default.dirty = FALSE
BY ClntObjectAssumption DEF Default, Object, Protocol, Method, Connection, NoConnection

\* The constructor always returns a well-formed object that is not marked.
LEMMA ConstructedIsObject ==
  ASSUME Stored
  PROVE  Constructed \in Object /\ Constructed.dirty = FALSE /\ Constructed # Null
BY DefaultIsObject, ClntObjectAssumption DEF Stored, Constructed

\* Removing the mark leaves an object with the same settings.
LEMMA CleanedIsObject ==
  ASSUME NEW object \in Object
  PROVE  /\ Cleaned(object) \in Object /\ Cleaned(object) # Null
         /\ Cleaned(object).dirty = FALSE
         /\ \A asked : Has(object, asked) => Has(Cleaned(object), asked)
BY ClntObjectAssumption DEF Cleaned, Object, Has, HasPipe, HasInfo

\* A setting keeps the invariant when the object it stores has what was asked,
\* or, not being marked, leaves one that has.
LEMMA SettingKeeps ==
  ASSUME IInv, NEW object \in Object, NEW asked \in Settings,
         proc = "idle", wanted' = asked, UNCHANGED call,
         stored' = IF object.dirty THEN [object EXCEPT !.dirty = FALSE] ELSE Constructed,
         IF object.dirty THEN Has(object, asked) ELSE Has(Constructed, asked)
  PROVE  IInv'
<1>1. /\ stored' \in Object /\ stored'.dirty = FALSE /\ stored' # Null
      /\ Has(stored', asked)
  <2>1. CASE object.dirty
    <3>1. stored' = Cleaned(object)
      BY <2>1 DEF Cleaned
    <3>2. QED BY <2>1, <3>1, CleanedIsObject
  <2>2. CASE ~object.dirty
    BY <2>2, ConstructedIsObject DEF IInv
  <2>3. QED BY <2>1, <2>2
<1>2. Constructed' = stored'
  BY <1>1 DEF Constructed
<1>3. Stored'
  BY <1>1, <1>2 DEF Stored
<1>4. Called'
  BY DEF IInv, Called, call
<1>5. QED BY <1>3, <1>4 DEF IInv


-----------------------------------------------------------------------------
(* The settings: each one makes an object that has what was asked, or leaves *)
(* the constructed one, which then has it already.                           *)

\* What a setting may store, given the object constructed and what was asked
\* before.
Good(old, object, asked) ==
  /\ object \in Object /\ asked \in Settings
  /\ IF object.dirty THEN Has(object, asked) ELSE Has(old, asked)

LEMMA ProtocolIsGood ==
  ASSUME NEW old \in Object, old.dirty = FALSE, NEW asked \in Settings, Has(old, asked),
         NEW p \in Protocol
  PROVE  Good(old, IF old.protocol = p THEN old ELSE [old EXCEPT !.protocol = p, !.dirty = TRUE],
              [asked EXCEPT !.protocol = p])
<1>1. [asked EXCEPT !.protocol = p] \in Settings
  BY DEF Settings
<1>2. CASE old.protocol = p
  BY <1>1, <1>2 DEF Good, Has, HasPipe, HasInfo, Settings
<1>3. CASE old.protocol # p
  BY <1>1, <1>3 DEF Good, Has, HasPipe, HasInfo, Settings, Object
<1>4. QED BY <1>2, <1>3

LEMMA HttpIsGood ==
  ASSUME NEW old \in Object, old.dirty = FALSE, NEW asked \in Settings, Has(old, asked),
         NEW url \in Url
  PROVE  Good(old, [FromUrl(url, [old EXCEPT !.method = "HTTP"]) EXCEPT !.protocol = "SOAP"],
              [asked EXCEPT !.method = "HTTP", !.target = url, !.protocol = "SOAP"])
<1>1. [asked EXCEPT !.method = "HTTP", !.target = url, !.protocol = "SOAP"] \in Settings
  BY DEF Settings, Method, Protocol
<1>2. CASE old.url = url
  <2>1. FromUrl(url, [old EXCEPT !.method = "HTTP"]) = [old EXCEPT !.method = "HTTP"]
    BY <1>2, ClntObjectAssumption DEF FromUrl, Equal, Object
  <2>2. QED
    BY <1>1, <1>2, <2>1 DEF Good, Has, HasPipe, HasInfo, Settings, Object, Method, Protocol
<1>3. CASE old.url # url
  <2>1. FromUrl(url, [old EXCEPT !.method = "HTTP"])
          = [old EXCEPT !.method = "HTTP", !.url = url, !.dirty = TRUE]
    BY <1>3 DEF FromUrl, Equal, Object
  <2>2. QED
    BY <1>1, <2>1 DEF Good, Has, HasPipe, HasInfo, Settings, Object, Method, Protocol
<1>4. QED BY <1>2, <1>3

LEMMA TcpIsGood ==
  ASSUME NEW old \in Object, old.dirty = FALSE, NEW asked \in Settings, Has(old, asked),
         NEW c \in Connection
  PROVE  Good(old, [FromConnection(c, [old EXCEPT !.method = "TCP"]) EXCEPT !.protocol = "XMLRPC"],
              [asked EXCEPT !.method = "TCP", !.target = c, !.protocol = "XMLRPC"])
<1>1. [asked EXCEPT !.method = "TCP", !.target = c, !.protocol = "XMLRPC"] \in Settings
  BY DEF Settings, Method, Protocol
<1>2. CASE Equal(old.tcp.host, c.host) /\ Equal(old.tcp.charset, c.charset)
  <2>1. FromConnection(c, [old EXCEPT !.method = "TCP"]) = [old EXCEPT !.method = "TCP"]
    BY <1>2 DEF FromConnection, Object
  <2>2. old.tcp = c
    BY <1>2 DEF Equal, Object, Connection
  <2>3. QED
    BY <1>1, <2>1, <2>2 DEF Good, Has, HasPipe, HasInfo, Settings, Object, Method, Protocol
<1>3. CASE ~(Equal(old.tcp.host, c.host) /\ Equal(old.tcp.charset, c.charset))
  <2>1. FromConnection(c, [old EXCEPT !.method = "TCP"])
          = [old EXCEPT !.method = "TCP", !.tcp = c, !.dirty = TRUE]
    BY <1>3 DEF FromConnection, Object
  <2>2. QED
    BY <1>1, <2>1 DEF Good, Has, HasPipe, HasInfo, Settings, Object, Method, Protocol
<1>4. QED BY <1>2, <1>3

LEMMA PipeIsGood ==
  ASSUME NEW old \in Object, old.dirty = FALSE, NEW asked \in Settings, Has(old, asked),
         NEW p \in Pipe
  PROVE  Good(old, IF SameInfo(old, p) THEN old
                   ELSE [old EXCEPT !.method = "PIPE", !.pipe = p, !.protocol = "NATIVE", !.dirty = TRUE],
              [asked EXCEPT !.method = "PIPE", !.target = p, !.protocol = "NATIVE"])
<1>1. [asked EXCEPT !.method = "PIPE", !.target = p, !.protocol = "NATIVE"] \in Settings
  BY DEF Settings, Method, Protocol
<1>2. CASE SameInfo(old, p)
  BY <1>1, <1>2 DEF SameInfo, Good, Has, HasPipe, HasInfo, Settings
<1>3. CASE ~SameInfo(old, p)
  BY <1>1, <1>3 DEF Good, Has, HasPipe, HasInfo, Settings, Object, Method, Protocol
<1>4. QED BY <1>2, <1>3

LEMMA TimeoutIsGood ==
  ASSUME NEW old \in Object, old.dirty = FALSE, NEW asked \in Settings, Has(old, asked),
         NEW t \in Timeout
  PROVE  Good(old, IF old.timeout = t THEN old ELSE [old EXCEPT !.timeout = t, !.dirty = TRUE],
              [asked EXCEPT !.timeout = t])
<1>1. [asked EXCEPT !.timeout = t] \in Settings
  BY DEF Settings
<1>2. CASE old.timeout = t
  BY <1>1, <1>2 DEF Good, Has, HasPipe, HasInfo, Settings
<1>3. CASE old.timeout # t
  BY <1>1, <1>3 DEF Good, Has, HasPipe, HasInfo, Settings, Object
<1>4. QED BY <1>2, <1>3

\* An action that stores something good keeps the invariant.
LEMMA SetKeeps ==
  ASSUME IInv, NEW object, NEW asked, Good(Constructed, object, asked), Set(object, asked)
  PROVE  IInv'
BY SettingKeeps DEF Good, Set, Store


LEMMA ConstructedHas ==
  ASSUME IInv
  PROVE  /\ Constructed \in Object /\ Constructed.dirty = FALSE
         /\ wanted \in Settings /\ Has(Constructed, wanted)
BY ConstructedIsObject DEF IInv, Stored

LEMMA SettingsKeep ==
  ASSUME IInv
  PROVE  /\ \A p \in Protocol : SetProtocol(p) => IInv'
         /\ \A url \in Url : SetHttp(url) => IInv'
         /\ \A c \in Connection : SetTcp(c) => IInv'
         /\ \A p \in Pipe : SetPipe(p) => IInv'
         /\ \A t \in Timeout : SetTimeout(t) => IInv'
<1>1. ASSUME NEW p \in Protocol, SetProtocol(p) PROVE IInv'
  BY ONLY IInv, <1>1, ConstructedHas, ProtocolIsGood, SetKeeps DEF SetProtocol
<1>2. ASSUME NEW url \in Url, SetHttp(url) PROVE IInv'
  BY ONLY IInv, <1>2, ConstructedHas, HttpIsGood, SetKeeps DEF SetHttp
<1>3. ASSUME NEW c \in Connection, SetTcp(c) PROVE IInv'
  BY ONLY IInv, <1>3, ConstructedHas, TcpIsGood, SetKeeps DEF SetTcp
<1>4. ASSUME NEW p \in Pipe, SetPipe(p) PROVE IInv'
  BY ONLY IInv, <1>4, ConstructedHas, PipeIsGood, SetKeeps DEF SetPipe
<1>5. ASSUME NEW t \in Timeout, SetTimeout(t) PROVE IInv'
  BY ONLY IInv, <1>5, ConstructedHas, TimeoutIsGood, SetKeeps DEF SetTimeout
<1>6. QED BY <1>1, <1>2, <1>3, <1>4, <1>5

-----------------------------------------------------------------------------
(* The calls.                                                              *)

\* What a stub copies to a connection and back is the same, but for the mark.
LEMMA CopiedBack ==
  ASSUME NEW object \in Object
  PROVE  LET back == FromConnection(ToConnection(object), object)
         IN  back \in Object /\ Cleaned(back) = Cleaned(object)
               /\ back.method = object.method /\ Target(back) = Target(object)
               /\ back.protocol = object.protocol /\ back.tcp = object.tcp
<1>1. [object EXCEPT !.tcp = object.tcp, !.dirty = TRUE] = [object EXCEPT !.dirty = TRUE]
  BY DEF Object
<1>2. FromConnection(ToConnection(object), object) \in {object, [object EXCEPT !.dirty = TRUE]}
  BY <1>1 DEF FromConnection, ToConnection
<1>3. Cleaned([object EXCEPT !.dirty = TRUE]) = Cleaned(object)
  BY DEF Cleaned, Object
<1>4. [object EXCEPT !.dirty = TRUE] \in Object
  BY DEF Object
<1>5. /\ [object EXCEPT !.dirty = TRUE].method = object.method
      /\ [object EXCEPT !.dirty = TRUE].protocol = object.protocol
      /\ [object EXCEPT !.dirty = TRUE].tcp = object.tcp
      /\ Target([object EXCEPT !.dirty = TRUE]) = Target(object)
  BY DEF Object, Target, Method
<1>6. QED BY <1>2, <1>3, <1>4, <1>5

\* Leaving a stub with an object that is the stored one but for its mark
\* stores the same object again.
LEMMA LeaveKeeps ==
  ASSUME IInv, proc # "idle", NEW object \in Object, Cleaned(object) = Cleaned(self),
         Leave(object), UNCHANGED <<g_msg, offset, stream, wanted, went, calls>>
  PROVE  IInv' /\ stored' = stored
<1>1. stored = Cleaned(object) /\ stored # Null
  <2>1. Cleaned(self) = stored /\ stored # Null
    BY DEF IInv, Called
  <2>2. QED BY <2>1
<1>2. stored' = stored
  BY <1>1 DEF Leave, Store, Cleaned, Constructed
<1>3. Constructed' = Constructed
  BY <1>2 DEF Constructed
<1>4. Stored'
  BY <1>2, <1>3 DEF IInv, Stored
<1>5. Called'
  BY DEF IInv, Called, Leave
<1>6. QED BY <1>2, <1>4, <1>5 DEF IInv


\* The steps of a call keep the invariant and what is stored.
LEMMA CallKeeps ==
  ASSUME IInv,
         \/ ProgramError \/ SendWhole \/ WriteFails \/ RecvResponse
         \/ \E n \in 0 .. MaxLen : WriteText(n)
  PROVE  IInv' /\ stored' = stored
<1> USE DEF IInv
<1>0. self \in Object
  BY DEF Called, ProgramError, SendWhole, WriteFails, RecvResponse, WriteText
<1>1. CASE ProgramError
  BY <1>0, <1>1, LeaveKeeps DEF ProgramError
<1>2. CASE WriteFails
  BY <1>0, <1>2, CopiedBack, LeaveKeeps DEF WriteFails
<1>3. CASE RecvResponse
  BY <1>0, <1>3, CopiedBack, LeaveKeeps DEF RecvResponse
<1>4. ASSUME stored' = stored, wanted' = wanted PROVE Stored'
  BY <1>4 DEF Stored, Constructed
<1>5. CASE SendWhole
  <2>1. Called'
    BY <1>5 DEF SendWhole, Called, Sent
  <2>2. QED BY <1>4, <1>5, <2>1 DEF SendWhole
<1>6. ASSUME NEW n \in 0 .. MaxLen, WriteText(n) PROVE IInv' /\ stored' = stored
  <2>1. offset' \in 1 .. MaxLen + 1
    <3>1. MaxLen \in Nat /\ offset \in 1 .. MaxLen + 1 /\ Len(g_msg) = MaxLen
      BY <1>6, ClntObjectAssumption DEF Called, WriteText
    <3>2. n <= Len(g_msg) - offset + 1 /\ offset' = offset + n
      BY <1>6 DEF WriteText
    <3> HIDE DEF IInv
    <3>3. QED
      BY <3>1, <3>2
  <2>2. CASE n = 0 \/ offset' > Len(g_msg)
    <3>1. Sent /\ self' = FromConnection(ToConnection(self), self)
      BY <1>6, <2>2 DEF WriteText
    <3>2. /\ self' \in Object /\ Cleaned(self') = Cleaned(self) /\ self'.method = self.method
          /\ Target(self') = Target(self) /\ self'.protocol = self.protocol
      BY <1>0, <3>1, CopiedBack
    <3>3. Called'
      BY <1>6, <2>1, <3>1, <3>2 DEF Called, WriteText, Sent
    <3>4. QED BY <1>4, <1>6, <3>3 DEF WriteText
  <2>3. CASE ~(n = 0 \/ offset' > Len(g_msg))
    <3>1. Called'
      BY <1>6, <2>1, <2>3 DEF Called, WriteText
    <3>2. QED BY <1>4, <1>6, <3>1 DEF WriteText
  <2>4. QED BY <2>2, <2>3
<1>7. QED BY <1>1, <1>2, <1>3, <1>5, <1>6

LEMMA NewRequestKeeps ==
  ASSUME IInv, NewRequest
  PROVE  IInv'
<1>1. /\ Constructed \in Object /\ Constructed.dirty = FALSE /\ Constructed # Null
      /\ wanted \in Settings /\ Has(Constructed, wanted)
  BY ConstructedIsObject, ConstructedHas DEF IInv
<1>2. Constructed' = Constructed
  BY <1>1 DEF NewRequest, Constructed
<1>3. Stored'
  BY <1>1, <1>2 DEF NewRequest, Stored
<1>4. Cleaned(Constructed) = Constructed
  BY <1>1 DEF Cleaned, Object
<1>5. Len(g_msg') = MaxLen
  BY ClntObjectAssumption DEF NewRequest
<1>6. calls' \in 0 .. Calls /\ offset' \in 1 .. MaxLen + 1
  BY ClntObjectAssumption DEF NewRequest, IInv, Called
<1>7. Called'
  BY <1>1, <1>4, <1>5, <1>6 DEF NewRequest, Called
<1>8. QED BY <1>3, <1>7 DEF IInv

LEMMA DefaultHasAsked == Has(Default, Asked) /\ Asked \in Settings
BY ClntObjectAssumption
   DEF Has, HasPipe, HasInfo, Default, Asked, Settings, Method, Protocol

LEMMA DeleteKeeps ==
  ASSUME IInv, DeleteObjects
  PROVE  IInv'
<1>1. Stored'
  BY DefaultHasAsked DEF DeleteObjects, Stored, Constructed
<1>2. Called'
  BY DEF IInv, DeleteObjects, call, Called
<1>3. QED BY <1>1, <1>2 DEF IInv

LEMMA Initially ==
  ASSUME Init
  PROVE  IInv
<1>1. Stored
  BY DefaultHasAsked DEF Init, Stored, Constructed
<1>2. Called
  BY ClntObjectAssumption DEF Init, NotCalled, Called
<1>3. QED BY <1>1, <1>2 DEF IInv

\* The invariant is kept; while a stub runs the stored object does not change.
LEMMA StepKeeps ==
  ASSUME IInv, [Next]_vars
  PROVE  IInv' /\ (Calling => stored' = stored)
<1>1. CASE UNCHANGED vars
  <2>1. Stored'
    BY <1>1 DEF IInv, Stored, Constructed, vars
  <2>2. Called'
    BY <1>1 DEF IInv, Called, vars, call
  <2>3. QED BY <1>1, <2>1, <2>2 DEF IInv, vars
<1>2. CASE Next /\ ~Calling
  <2>1. ASSUME NEW h \in Host, NEW s \in Charset \cup {Null}, SetTcp([host |-> h, charset |-> s])
        PROVE  IInv'
    <3>1. [host |-> h, charset |-> s] \in Connection
      BY DEF Connection
    <3>2. QED BY <2>1, <3>1, SettingsKeep
  <2>2. QED
    BY <1>2, <2>1, SettingsKeep, CallKeeps, NewRequestKeeps, DeleteKeeps DEF Next
<1>3. CASE Next /\ Calling
  BY <1>3, CallKeeps
     DEF Next, Calling, Set, SetProtocol, SetHttp, SetTcp, SetPipe, SetTimeout,
         DeleteObjects, NewRequest
<1>4. QED BY <1>1, <1>2, <1>3

LEMMA InvariantHolds == Spec => []IInv
<1>1. Init => IInv
  BY Initially
<1>2. IInv /\ [Next]_vars => IInv'
  BY StepKeeps
<1>3. QED BY <1>1, <1>2, PTL DEF Spec

-----------------------------------------------------------------------------
(* The connections.                                                        *)

\* The calls that wrote the first n characters to host h were made before call
\* number c.
WrittenBefore(h, n, c) == \A k \in 1 .. n : stream[h][k][1] < c

\* A connection ends with the request up to a position.
Ends(written, request, o) ==
  \A k \in 1 .. o - 1 : written[Len(written) - (o - 1) + k] = request[k]

\* A call over TCP has the last number given; what it has written of its
\* request is at the end of its connection, and everything else is older.
Writing(h) ==
  /\ h \in Host /\ calls > 0
  /\ \A n \in 1 .. MaxLen : g_msg[n] = <<calls - 1, n>>
  /\ \A g \in Host : g # h => WrittenBefore(g, Len(stream[g]), calls - 1)
  /\ offset - 1 <= Len(stream[h])
  /\ WrittenBefore(h, Len(stream[h]) - (offset - 1), calls - 1)
  /\ Ends(stream[h], g_msg, offset)

OverTcp == proc # "idle" /\ self.method = "TCP"

Streams ==
  /\ stream \in [Host -> Seq(Nat \X Nat)] /\ g_msg \in Seq(Nat \X Nat)
  /\ Constructed.method = "TCP" => Constructed.tcp.host \in Host
  /\ OverTcp => Writing(self.tcp.host)
  /\ ~OverTcp => \A h \in Host : WrittenBefore(h, Len(stream[h]), calls)

\* When the call is over, all that was written is of calls made before the next.
LEMMA WritingEnds ==
  ASSUME IInv, stream \in [Host -> Seq(Nat \X Nat)], NEW h \in Host, Writing(h),
         Len(g_msg) = MaxLen
  PROVE  \A g \in Host : WrittenBefore(g, Len(stream[g]), calls)
<1>t. /\ offset \in 1 .. MaxLen + 1 /\ calls \in Nat /\ MaxLen \in Nat
      /\ \A g \in Host : Len(stream[g]) \in Nat
      /\ \A g \in Host : \A k \in 1 .. Len(stream[g]) : stream[g][k][1] \in Nat
  <2>1. \A g \in Host : stream[g] \in Seq(Nat \X Nat)
    OBVIOUS
  <2>2. \A g \in Host : \A k \in 1 .. Len(stream[g]) : stream[g][k] \in Nat \X Nat
    BY <2>1
  <2>3. QED
    BY <2>1, <2>2, ClntObjectAssumption, SMTT(30) DEF IInv, Called
<1> SUFFICES ASSUME NEW g \in Host, NEW k \in 1 .. Len(stream[g])
             PROVE  stream[g][k][1] < calls
  BY DEF WrittenBefore
<1>1. CASE g # h
  <2>1. stream[g][k][1] < calls - 1
    BY <1>1 DEF Writing, WrittenBefore
  <2>2. QED
    BY <1>t, <2>1
<1>2. CASE g = h
  <2> DEFINE before == Len(stream[h]) - (offset - 1)
  <2>1. CASE k <= before
    <3>1. k \in 1 .. before
      BY <1>t, <1>2, <2>1 DEF Writing
    <3>2. stream[g][k][1] < calls - 1
      BY <1>2, <3>1 DEF Writing, WrittenBefore
    <3>3. QED
      BY <1>t, <3>2
  <2>2. CASE ~(k <= before)
    <3>1. k - before \in 1 .. offset - 1 /\ before + (k - before) = k
      BY <1>t, <1>2, <2>2 DEF Writing
    <3>2. stream[h][k] = g_msg[k - before]
      BY <3>1 DEF Writing, Ends
    <3>3. k - before \in 1 .. MaxLen
      BY <1>t, <3>1
    <3>4. stream[h][k] = <<calls - 1, k - before>>
      BY <3>2, <3>3 DEF Writing
    <3>5. QED
      BY <1>t, <1>2, <3>4
  <2>3. QED
    BY <2>1, <2>2
<1>3. QED
  BY <1>1, <1>2

\* A setting or a deletion leaves the connections alone, and makes an object
\* that uses TCP name one.
LEMMA SettingConnects ==
  ASSUME IInv, Streams, proc = "idle", UNCHANGED call,
         Constructed'.method = "TCP" => Constructed'.tcp.host \in Host
  PROVE  Streams'
BY DEF Streams, OverTcp, WrittenBefore, call

\* What a setting constructs next.
LEMMA SetConstructs ==
  ASSUME IInv, NEW object \in Object, NEW asked, Set(object, asked)
  PROVE  Constructed' = Cleaned(object) \/ Constructed' = Constructed
<1>1. CASE object.dirty
  <2>1. stored' = Cleaned(object) /\ Cleaned(object) # Null
    BY <1>1, CleanedIsObject DEF Set, Store, Cleaned
  <2>2. QED
    BY <2>1 DEF Constructed
<1>2. CASE ~object.dirty
  <2>1. stored' = Constructed /\ Constructed # Null
    BY <1>2, ConstructedIsObject DEF Set, Store, IInv
  <2>2. QED
    BY <2>1 DEF Constructed
<1>3. QED
  BY <1>1, <1>2

LEMMA SetConnects ==
  ASSUME IInv, Streams, NEW object \in Object, NEW asked, Set(object, asked),
         object.method = "TCP" => object.tcp.host \in Host
  PROVE  Streams'
<1>1. proc = "idle" /\ UNCHANGED call
  BY DEF Set
<1>2. Cleaned(object).method = object.method /\ Cleaned(object).tcp = object.tcp
  BY DEF Cleaned, Object
<1>3. Constructed'.method = "TCP" => Constructed'.tcp.host \in Host
  BY <1>2, SetConstructs DEF Streams
<1>4. QED
  BY <1>1, <1>3, SettingConnects

LEMMA SettingsConnect ==
  ASSUME IInv, Streams
  PROVE  /\ \A p \in Protocol : SetProtocol(p) => Streams'
         /\ \A url \in Url : SetHttp(url) => Streams'
         /\ \A c \in Connection : c.host \in Host /\ SetTcp(c) => Streams'
         /\ \A p \in Pipe : SetPipe(p) => Streams'
         /\ \A t \in Timeout : SetTimeout(t) => Streams'
<1> DEFINE old == Constructed
<1>0. /\ old \in Object /\ old.dirty = FALSE /\ wanted \in Settings /\ Has(old, wanted)
      /\ old.method = "TCP" => old.tcp.host \in Host
  BY ConstructedHas DEF Streams
<1>1. ASSUME NEW p \in Protocol, SetProtocol(p) PROVE Streams'
  <2> DEFINE object == IF old.protocol = p THEN old
                       ELSE [old EXCEPT !.protocol = p, !.dirty = TRUE]
  <2>1. object \in Object
    BY <1>0, ProtocolIsGood DEF Good
  <2>2. object.method = old.method /\ object.tcp = old.tcp
    BY <1>0 DEF Object
  <2>3. Set(object, [wanted EXCEPT !.protocol = p])
    BY <1>1 DEF SetProtocol
  <2> HIDE DEF object, old
  <2>4. QED
    BY <1>0, <2>1, <2>2, <2>3, SetConnects
<1>2. ASSUME NEW url \in Url, SetHttp(url) PROVE Streams'
  <2> DEFINE object == [FromUrl(url, [old EXCEPT !.method = "HTTP"]) EXCEPT !.protocol = "SOAP"]
             asked == [wanted EXCEPT !.method = "HTTP", !.target = url, !.protocol = "SOAP"]
  <2>1. object \in Object
    BY <1>0, HttpIsGood DEF Good
  <2>2. object.method = "HTTP"
    BY <1>0 DEF Object, FromUrl
  <2>3. Set(object, asked)
    BY <1>2 DEF SetHttp
  <2> HIDE DEF object, asked, old
  <2>4. QED
    BY <2>1, <2>2, <2>3, SetConnects
<1>3. ASSUME NEW c \in Connection, c.host \in Host, SetTcp(c) PROVE Streams'
  <2> DEFINE object == [FromConnection(c, [old EXCEPT !.method = "TCP"]) EXCEPT !.protocol = "XMLRPC"]
             asked == [wanted EXCEPT !.method = "TCP", !.target = c, !.protocol = "XMLRPC"]
  <2>1. object \in Object
    BY <1>0, TcpIsGood DEF Good
  <2>2. object.tcp.host = c.host
    BY <1>0 DEF Object, FromConnection, Equal
  <2>3. Set(object, asked)
    BY <1>3 DEF SetTcp
  <2> HIDE DEF object, asked, old
  <2>4. QED
    BY <1>3, <2>1, <2>2, <2>3, SetConnects
<1>4. ASSUME NEW p \in Pipe, SetPipe(p) PROVE Streams'
  <2> DEFINE object == IF SameInfo(old, p) THEN old
                       ELSE [old EXCEPT !.method = "PIPE", !.pipe = p, !.protocol = "NATIVE",
                                        !.dirty = TRUE]
             asked == [wanted EXCEPT !.method = "PIPE", !.target = p, !.protocol = "NATIVE"]
  <2>1. object \in Object
    BY <1>0, PipeIsGood DEF Good
  <2>2. object.method = "PIPE" \/ object = old
    BY <1>0 DEF Object
  <2>3. Set(object, asked)
    BY <1>4 DEF SetPipe
  <2> HIDE DEF object, asked, old
  <2>4. QED
    BY <1>0, <2>1, <2>2, <2>3, SetConnects
<1>5. ASSUME NEW t \in Timeout, SetTimeout(t) PROVE Streams'
  <2> DEFINE object == IF old.timeout = t THEN old ELSE [old EXCEPT !.timeout = t, !.dirty = TRUE]
  <2>1. object \in Object
    BY <1>0, TimeoutIsGood DEF Good
  <2>2. object.method = old.method /\ object.tcp = old.tcp
    BY <1>0 DEF Object
  <2>3. Set(object, [wanted EXCEPT !.timeout = t])
    BY <1>5 DEF SetTimeout
  <2> HIDE DEF object, old
  <2>4. QED
    BY <1>0, <2>1, <2>2, <2>3, SetConnects
<1>6. QED
  BY <1>1, <1>2, <1>3, <1>4, <1>5

\* A new request has the next number, larger than that of anything written.
LEMMA NewRequestWrites ==
  ASSUME IInv, Streams, NewRequest
  PROVE  Streams'
<1>t. /\ calls \in Nat /\ stream \in [Host -> Seq(Nat \X Nat)] /\ stream' = stream
      /\ g_msg' \in Seq(Nat \X Nat)
  BY ClntObjectAssumption DEF IInv, Called, Streams, NewRequest
<1>1. Constructed' = Constructed
  BY ConstructedIsObject DEF NewRequest, Constructed, IInv
<1>2. \A h \in Host : WrittenBefore(h, Len(stream[h]), calls)
  BY DEF Streams, OverTcp, NewRequest
<1>3. CASE Constructed.method # "TCP"
  <2>1. ~OverTcp' /\ calls' = calls
    BY <1>3 DEF NewRequest, OverTcp
  <2>2. QED
    BY <1>t, <1>1, <1>2, <1>3, <2>1 DEF Streams, WrittenBefore
<1>4. CASE Constructed.method = "TCP"
  <2>1. OverTcp' /\ calls' = calls + 1 /\ calls' - 1 = calls /\ offset' - 1 = 0
    BY <1>t, <1>4 DEF NewRequest, OverTcp
  <2>2. self'.tcp.host \in Host
    BY <1>4 DEF NewRequest, Streams
  <2>3. \A n \in 1 .. MaxLen : g_msg'[n] = <<calls, n>>
    BY DEF NewRequest
  <2>4. \A h \in Host : Len(stream[h]) \in Nat /\ Len(stream[h]) - 0 = Len(stream[h])
    BY <1>t
  <2>5. Writing(self.tcp.host)'
    BY <1>t, <1>2, <2>1, <2>2, <2>3, <2>4 DEF Writing, WrittenBefore, Ends
  <2>6. QED
    BY <1>t, <1>1, <1>4, <2>1, <2>5 DEF Streams
<1>5. QED
  BY <1>3, <1>4

\* A part of a sequence.
LEMMA Part ==
  ASSUME NEW T, NEW s, NEW m \in Int, NEW e \in Int, \A i \in m .. e : s[i] \in T,
         NEW part, part = SubSeq(s, m, e)
  PROVE  /\ part \in Seq(T) /\ Len(part) = IF m <= e THEN e - m + 1 ELSE 0
         /\ \A i \in 1 .. e - m + 1 : part[i] = s[m + i - 1]
<1>1. part \in Seq(T)
  BY SubSeqProperties
<1>2. Len(part) = IF m <= e THEN e - m + 1 ELSE 0
  BY SubSeqProperties
<1>3. \A i \in 1 .. e - m + 1 : part[i] = s[m + i - 1]
  BY SubSeqProperties
<1>4. QED
  BY <1>1, <1>2, <1>3

\* The next n characters of a request put behind the first o - 1 of them.
LEMMA Appended ==
  ASSUME NEW T, NEW request \in Seq(T), NEW written \in Seq(T),
         NEW o \in Nat, NEW n \in Nat, o >= 1, n <= Len(request) - o + 1,
         o - 1 <= Len(written),
         Ends(written, request, o),
         NEW new, new = written \o SubSeq(SubSeq(request, o, Len(request)), 1, n)
  PROVE  /\ new \in Seq(T)
         /\ o + n - 1 <= Len(new)
         /\ Len(new) - (o + n - 1) = Len(written) - (o - 1)
         /\ \A k \in 1 .. Len(written) - (o - 1) : new[k] = written[k]
         /\ Ends(new, request, o + n)
<1>t. PICK r \in Nat, w \in Nat : r = Len(request) /\ w = Len(written)
  OBVIOUS
<1> DEFINE rest == SubSeq(request, o, Len(request))
           text == SubSeq(rest, 1, n)
<1>2. /\ rest \in Seq(T) /\ Len(rest) = r - o + 1
      /\ \A j \in 1 .. r - o + 1 : rest[j] = request[o + j - 1]
  <2>1. o \in Int /\ Len(request) \in Int /\ \A i \in o .. Len(request) : request[i] \in T
    BY <1>t
  <2>2. /\ rest \in Seq(T)
        /\ Len(rest) = IF o <= Len(request) THEN Len(request) - o + 1 ELSE 0
        /\ \A j \in 1 .. Len(request) - o + 1 : rest[j] = request[o + j - 1]
    BY <2>1, Part
  <2> HIDE DEF rest
  <2>3. Len(rest) = r - o + 1
    BY <1>t, <2>2
  <2>4. 1 .. Len(request) - o + 1 = 1 .. r - o + 1
    BY <1>t
  <2>5. QED
    BY <2>2, <2>3, <2>4, Zenon
<1> HIDE DEF rest
<1>4. /\ text \in Seq(T) /\ Len(text) = n
      /\ \A j \in 1 .. n : text[j] = request[o + j - 1]
  <2>1. 1 \in Int /\ n \in Int /\ \A i \in 1 .. n : rest[i] \in T
    <3>1. \A i \in 1 .. n : i \in 1 .. Len(rest)
      BY <1>t, <1>2
    <3>2. \A i \in 1 .. Len(rest) : rest[i] \in T
      BY <1>2
    <3>3. QED
      BY <3>1, <3>2
  <2>2. /\ text \in Seq(T) /\ Len(text) = IF 1 <= n THEN n - 1 + 1 ELSE 0
        /\ \A j \in 1 .. n - 1 + 1 : text[j] = rest[1 + j - 1]
    BY <2>1, Part
  <2> HIDE DEF text
  <2>3. \A j \in 1 .. n : text[j] = rest[j]
    <3>1. n - 1 + 1 = n /\ \A j \in 1 .. n : 1 + j - 1 = j
      OBVIOUS
    <3>2. QED
      BY <2>2, <3>1
  <2>4. \A j \in 1 .. n : rest[j] = request[o + j - 1]
    <3>1. \A j \in 1 .. n : j \in 1 .. r - o + 1
      BY <1>t
    <3>2. QED
      BY <1>2, <3>1, Zenon
  <2>5. Len(text) = n
    BY <2>2
  <2>6. QED
    BY <2>2, <2>3, <2>4, <2>5, Zenon
<1> HIDE DEF text
<1>5. \A j \in 1 .. n : text[j] = request[o + j - 1]
  BY <1>4
<1>6. new = written \o text
  BY DEF text, rest
<1>7. /\ new \in Seq(T) /\ Len(new) = w + n
      /\ \A k \in 1 .. w : new[k] = written[k]
      /\ \A j \in 1 .. n : new[w + j] = text[j]
  <2>1. /\ written \o text \in Seq(T) /\ Len(written \o text) = Len(written) + Len(text)
        /\ \A i \in 1 .. Len(written) + Len(text) :
             (written \o text)[i] = IF i <= Len(written) THEN written[i] ELSE text[i - Len(written)]
    BY <1>4, ConcatProperties, Zenon
  <2>2. /\ new \in Seq(T) /\ Len(new) = w + n
        /\ \A i \in 1 .. w + n : new[i] = IF i <= w THEN written[i] ELSE text[i - w]
    BY <1>t, <1>4, <1>6, <2>1
  <2>3. ASSUME NEW k \in 1 .. w PROVE new[k] = written[k]
    BY <1>t, <2>2
  <2>4. ASSUME NEW j \in 1 .. n PROVE new[w + j] = text[j]
    <3>1. w + j \in 1 .. w + n /\ ~(w + j <= w) /\ w + j - w = j
      BY <1>t
    <3>2. new[w + j] = IF w + j <= w THEN written[w + j] ELSE text[w + j - w]
      BY <2>2, <3>1
    <3>3. QED
      BY <3>1, <3>2
  <2>5. QED
    BY <2>2, <2>3, <2>4
<1>8. Len(new) - (o + n - 1) = Len(written) - (o - 1)
  BY <1>t, <1>7
<1>9. Len(new) \in Nat /\ o + n - 1 <= Len(new)
  BY <1>t, <1>7
<1>10. \A k \in 1 .. w - (o - 1) : k \in 1 .. w
  BY <1>t
<1>11. Ends(new, request, o + n)
  <2> SUFFICES ASSUME NEW k \in 1 .. (o + n) - 1
               PROVE  new[Len(new) - ((o + n) - 1) + k] = request[k]
    BY Zenon DEF Ends
  <2>0. Len(new) - ((o + n) - 1) + k = w - (o - 1) + k
    BY <1>t, <1>8, SMTT(30)
  <2>1. CASE k <= o - 1
    <3>1. w - (o - 1) + k \in 1 .. w /\ k \in 1 .. o - 1
      BY <1>t, <2>1
    <3>2. QED
      BY <1>t, <1>7, <2>0, <3>1 DEF Ends
  <2>2. CASE ~(k <= o - 1)
    <3>1. PICK j \in 1 .. n : k = o - 1 + j
      <4>1. k - (o - 1) \in 1 .. n /\ k = o - 1 + (k - (o - 1))
        BY <2>2
      <4>2. QED
        BY <4>1
    <3>2. w - (o - 1) + k = w + j /\ o + j - 1 = k
      BY <1>t, <3>1
    <3>3. QED
      BY <1>5, <1>7, <2>0, <3>2, SMTT(30)
  <2>3. QED
    BY <2>1, <2>2
<1>12. QED
  BY <1>t, <1>7, <1>8, <1>9, <1>10, <1>11, Zenon

\* A write puts the next characters behind those that are written.
LEMMA TextWritten ==
  ASSUME IInv, Streams, NEW n \in 0 .. MaxLen, WriteText(n)
  PROVE  Streams'
<1>t. /\ stream \in [Host -> Seq(Nat \X Nat)] /\ calls \in Nat /\ MaxLen \in Nat
      /\ offset \in 1 .. MaxLen + 1 /\ Len(g_msg) = MaxLen /\ self \in Object
      /\ g_msg \in Seq(Nat \X Nat)
  BY ClntObjectAssumption DEF IInv, Called, Streams, WriteText
<1>h. PICK h : h = self.tcp.host
  OBVIOUS
<1>w. OverTcp /\ Writing(h) /\ h \in Host
  BY <1>h DEF WriteText, OverTcp, Streams, Writing
<1>o. /\ stream' = [stream EXCEPT ![h] = stream[h] \o SubSeq(SubSeq(g_msg, offset, Len(g_msg)), 1, n)]
      /\ offset' = offset + n /\ n <= Len(g_msg) - offset + 1
      /\ UNCHANGED <<calls, g_msg, stored>>
  BY <1>h DEF WriteText, Rest
<1>1. self' \in Object /\ OverTcp' /\ self'.tcp.host = h
  <2>1. CASE n = 0 \/ offset' > Len(g_msg)
    <3>1. self' = FromConnection(ToConnection(self), self) /\ proc' = "sent"
      BY <2>1 DEF WriteText, Sent
    <3>2. QED
      BY <1>t, <1>h, <1>w, <3>1, CopiedBack DEF OverTcp
  <2>2. CASE ~(n = 0 \/ offset' > Len(g_msg))
    BY <1>t, <1>h, <1>w, <2>2 DEF WriteText, OverTcp
  <2>3. QED
    BY <2>1, <2>2
<1>2. PICK written : written = stream[h] /\ written \in Seq(Nat \X Nat)
  BY <1>t, <1>w
<1>3. PICK new : new = written \o SubSeq(SubSeq(g_msg, offset, Len(g_msg)), 1, n)
  OBVIOUS
<1>4. stream' = [stream EXCEPT ![h] = new] /\ stream'[h] = new
  BY <1>t, <1>w, <1>o, <1>2, <1>3
<1>5. /\ offset - 1 <= Len(written)
      /\ Ends(written, g_msg, offset)
      /\ \A k \in 1 .. Len(written) - (offset - 1) : written[k][1] < calls - 1
  BY <1>w, <1>2 DEF Writing, WrittenBefore
<1>6. offset \in Nat /\ offset >= 1 /\ n \in Nat
  BY <1>t
<1>7. /\ new \in Seq(Nat \X Nat)
      /\ offset + n - 1 <= Len(new)
      /\ Len(new) - (offset + n - 1) = Len(written) - (offset - 1)
      /\ \A k \in 1 .. Len(written) - (offset - 1) : new[k] = written[k]
      /\ Ends(new, g_msg, offset + n)
  <2>1. /\ g_msg \in Seq(Nat \X Nat) /\ n <= Len(g_msg) - offset + 1
        /\ written \in Seq(Nat \X Nat)
    BY <1>t, <1>o, <1>2
  <2>2. PICK T : T = Nat \X Nat
    OBVIOUS
  <2>3. g_msg \in Seq(T) /\ written \in Seq(T)
    BY <2>1, <2>2
  <2> USE <1>3, <1>5, <1>6, <2>1, <2>3, Appended
  <2>4. new \in Seq(T)
    OBVIOUS
  <2>5. offset + n - 1 <= Len(new)
    OBVIOUS
  <2>6. Len(new) - (offset + n - 1) = Len(written) - (offset - 1)
    OBVIOUS
  <2>7. \A k \in 1 .. Len(written) - (offset - 1) : new[k] = written[k]
    OBVIOUS
  <2>8. Ends(new, g_msg, offset + n)
    OBVIOUS
  <2>9. QED
    BY <2>2, <2>4, <2>5, <2>6, <2>7, <2>8
<1>8. stream' \in [Host -> Seq(Nat \X Nat)]
  BY <1>t, <1>w, <1>4, <1>7
<1>9. Writing(self.tcp.host)'
  <2>1. \A k \in 1 .. Len(new) - (offset + n - 1) : new[k][1] < calls - 1
    BY <1>5, <1>7
  <2>2. \A g \in Host : g # h => stream'[g] = stream[g]
    BY <1>t, <1>4
  <2>3. h \in Host /\ calls > 0 /\ \A m \in 1 .. MaxLen : g_msg[m] = <<calls - 1, m>>
    BY <1>w DEF Writing
  <2>4. \A g \in Host : g # h => \A k \in 1 .. Len(stream[g]) : stream[g][k][1] < calls - 1
    BY <1>w DEF Writing, WrittenBefore
  <2>5. offset' - 1 = offset + n - 1
    BY <1>t, <1>o
  <2>6. QED
    BY <1>1, <1>4, <1>7, <1>o, <2>1, <2>2, <2>3, <2>4, <2>5 DEF Writing, WrittenBefore
<1>10. Constructed' = Constructed
  BY <1>o DEF Constructed
<1>11. QED
  BY <1>t, <1>1, <1>8, <1>9, <1>10, <1>o DEF Streams

\* A call that ends leaves the connections alone.
LEMMA LeavingConnects ==
  ASSUME IInv, Streams, proc # "idle", proc' = "idle",
         UNCHANGED <<g_msg, offset, stream, calls, stored>>
  PROVE  Streams'
<1>1. \A h \in Host : WrittenBefore(h, Len(stream[h]), calls)
  <2>1. CASE OverTcp
    <3>1. Writing(self.tcp.host) /\ self.tcp.host \in Host
      BY <2>1 DEF Streams, Writing
    <3>2. Len(g_msg) = MaxLen /\ stream \in [Host -> Seq(Nat \X Nat)]
      BY DEF IInv, Called, Streams
    <3>3. QED
      BY <3>1, <3>2, WritingEnds
  <2>2. CASE ~OverTcp
    BY <2>2 DEF Streams
  <2>3. QED
    BY <2>1, <2>2
<1>2. ~OverTcp' /\ Constructed' = Constructed
  BY DEF OverTcp, Constructed
<1>3. QED
  BY <1>1, <1>2 DEF Streams, WrittenBefore

\* The step of a call: writing it over TCP is the only one that matters.
LEMMA CallConnects ==
  ASSUME IInv, Streams, Next, Calling
  PROVE  Streams'
<1>s. stored' = stored
  BY StepKeeps
<1>1. CASE SendWhole
  <2>1. UNCHANGED <<stored, self, g_msg, offset, stream, calls>> /\ ~OverTcp /\ ~OverTcp'
    BY <1>1 DEF SendWhole, OverTcp
  <2>2. QED
    BY <2>1 DEF Streams, WrittenBefore, Constructed
<1>2. CASE \E n \in 0 .. MaxLen : WriteText(n)
  BY <1>2, TextWritten
<1>3. CASE ProgramError \/ WriteFails \/ RecvResponse
  BY <1>3, <1>s, LeavingConnects
     DEF ProgramError, WriteFails, RecvResponse, Leave, Calling
<1>4. QED
  BY <1>1, <1>2, <1>3
     DEF Next, Calling, Set, SetProtocol, SetHttp, SetTcp, SetPipe, SetTimeout,
         DeleteObjects, NewRequest

LEMMA StreamsStep ==
  ASSUME IInv, Streams, [Next]_vars
  PROVE  Streams'
<1>1. CASE UNCHANGED vars
  BY <1>1 DEF vars, call, Streams, OverTcp, Writing, WrittenBefore, Constructed
<1>2. CASE Next /\ ~Calling
  <2>1. CASE DeleteObjects
    <3>1. Constructed'.method = "PIPE" /\ proc = "idle" /\ UNCHANGED call
      BY <2>1 DEF DeleteObjects, Constructed, Default
    <3>2. QED
      BY <3>1, SettingConnects
  <2>2. \A h \in Host, s \in Charset \cup {Null} :
          LET c == [host |-> h, charset |-> s] IN c \in Connection /\ c.host \in Host
    BY DEF Connection
  <2>3. QED
    BY <1>2, <2>1, <2>2, SettingsConnect, NewRequestWrites
       DEF Next, Calling, ProgramError, SendWhole, WriteText, WriteFails, RecvResponse
<1>3. CASE Next /\ Calling
  BY <1>3, CallConnects
<1>4. QED
  BY <1>1, <1>2, <1>3

LEMMA StreamsHold == Spec => [](IInv /\ Streams)
<1>1. Init => Streams
  <2> SUFFICES ASSUME Init PROVE Streams
    OBVIOUS
  <2>1. g_msg = <<>> /\ stream = [h \in Host |-> <<>>] /\ ~OverTcp /\ Constructed = Default
    BY DEF Init, NotCalled, OverTcp, Constructed
  <2>2. \A h \in Host : Len(stream[h]) = 0
    BY <2>1
  <2>3. QED
    BY <2>1, <2>2 DEF Streams, WrittenBefore, Default
<1>2. IInv /\ Streams /\ [Next]_vars => Streams'
  BY StreamsStep
<1>3. QED
  BY <1>1, <1>2, InvariantHolds, PTL DEF Spec

-----------------------------------------------------------------------------
\* The stored object is well-formed and never marked: the constructor does
\* not raise program_error.
THEOREM ClntObjectTypesOK == Spec => []TypeOK
<1>1. IInv => TypeOK
  BY DEF IInv, Stored, Called, TypeOK
<1>2. QED BY <1>1, InvariantHolds, PTL

\* A pipe that was set last is where calls go.
THEOREM PipeIsUsed == Spec => []PipeSettingsReachCalls
<1>1. ASSUME IInv PROVE PipeSettingsReachCalls
  <2>1. SUFFICES ASSUME went # Null, proc # "idle", wanted.method = "PIPE"
        PROVE  /\ went.method = "PIPE" /\ went.target = wanted.target
               /\ went.protocol = wanted.protocol
    BY DEF PipeSettingsReachCalls
  <2>2. /\ self \in Object /\ Cleaned(self) = stored /\ stored # Null
        /\ went.method = self.method /\ went.target = Target(self)
        /\ went.protocol = self.protocol
    BY <1>1, <2>1 DEF IInv, Called
  <2>3. /\ stored.method = self.method /\ stored.pipe = self.pipe
        /\ stored.protocol = self.protocol
    BY <2>2 DEF Cleaned, Object
  <2>4. /\ stored.method = "PIPE" /\ stored.pipe = wanted.target
        /\ stored.protocol = wanted.protocol
    BY <1>1, <2>1, <2>2 DEF IInv, Stored, Constructed, Has, HasPipe
  <2>5. QED BY <2>2, <2>3, <2>4 DEF Target
<1>2. QED BY <1>1, InvariantHolds, PTL

\* A connection or timeout that was set is remembered.
THEOREM SettingsRemembered == Spec => []SettingsAreRemembered
<1>1. IInv => SettingsAreRemembered
  BY DEF IInv, Stored, Constructed, Has, HasInfo, SettingsAreRemembered
<1>2. QED BY <1>1, InvariantHolds, PTL

\* No step of a call changes the settings.
THEOREM CallsKeep == Spec => CallsKeepSettings
<1>1. IInv /\ [Next]_vars => [Calling => stored' = stored]_vars
  BY StepKeeps
<1>2. QED BY <1>1, InvariantHolds, PTL DEF Spec, CallsKeepSettings

\* What is written to a connection ends with the beginning of the request, in
\* order and once, behind what other calls wrote.
THEOREM WrittenOrderly == Spec => []WrittenInOrder
<1>1. ASSUME IInv, Streams PROVE WrittenInOrder
  <2>1. SUFFICES ASSUME OverTcp
        PROVE  LET written == stream[self.tcp.host]
                   before  == Len(written) - (offset - 1)
               IN  /\ before >= 0
                   /\ \A k \in 1 .. before : written[k][1] # g_msg[1][1]
                   /\ \A k \in 1 .. offset - 1 : written[before + k] = g_msg[k]
    BY DEF WrittenInOrder, OverTcp
  <2>2. PICK h \in Host : h = self.tcp.host /\ Writing(h)
    BY <1>1, <2>1 DEF Streams, Writing
  <2>3. /\ offset \in Nat /\ calls \in Nat /\ MaxLen \in Nat \ {0}
        /\ stream[h] \in Seq(Nat \X Nat)
    BY <1>1, ClntObjectAssumption DEF IInv, Called, Streams
  <2>4. PICK written : written = stream[h] /\ written \in Seq(Nat \X Nat)
    BY <2>3
  <2>5. PICK before : before = Len(written) - (offset - 1)
    OBVIOUS
  <2>6. before >= 0 /\ before <= Len(written) /\ before \in Int
    <3>1. offset >= 1 /\ offset - 1 <= Len(written)
      BY <1>1, <2>2, <2>4 DEF IInv, Called, Writing
    <3>2. QED
      BY <2>3, <2>4, <2>5, <3>1
  <2>7. g_msg[1][1] = calls - 1
    BY <2>2, <2>3 DEF Writing
  <2>8. \A k \in 1 .. before : written[k][1] < calls - 1
    BY <2>2, <2>4, <2>5 DEF Writing, WrittenBefore
  <2>9. \A k \in 1 .. before : written[k][1] \in Nat
    <3>1. \A k \in 1 .. Len(written) : written[k] \in Nat \X Nat
      BY <2>4
    <3>2. QED
      BY <2>4, <2>6, <3>1
  <2>10. \A k \in 1 .. before : written[k][1] # calls - 1
    BY <2>3, <2>8, <2>9
  <2>11. \A k \in 1 .. offset - 1 : written[before + k] = g_msg[k]
    BY <2>2, <2>4, <2>5 DEF Writing, Ends
  <2>12. QED
    BY <2>2, <2>4, <2>5, <2>6, <2>7, <2>10, <2>11
<1>2. QED BY <1>1, StreamsHold, PTL

=============================================================================
