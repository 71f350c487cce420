------------------------------- MODULE EpcXml -------------------------------
(***************************************************************************)
(* A listener serving SOAP and XML-RPC requests: the document a stub       *)
(* writes, the parser that reports it element by element to the callbacks  *)
(* of epc_xml.c, epc__exec_call and the response.                          *)
(*                                                                         *)
(* The parser itself is Oracle's.  What the model knows of it is how it is *)
(* called and what it calls: start_document first, then a callback for     *)
(* each event of the document in their order, error_handler when it finds  *)
(* an error, whereupon it returns a code that is not zero.  It may report  *)
(* characters, those of the method name included, in several pieces.       *)
(***************************************************************************)
EXTENDS EpcParameters

CONSTANTS
  Registered,   \* functions of the interfaces the listener knows
  Calls,        \* Calls[f]: lists of what callers pass for the parameters of f
  Result,       \* Result[f]: lists of what f may store in its parameters
  Markup,       \* Markup[x]: event sequences a parser may report for XML text x
  Digits,       \* Digits[n]: pieces a parser may report for the numeral of n
  NamePieces,   \* NamePieces[f]: pieces a parser may report for the name of f
  MaxPieces     \* bound: pieces of a text

VARIABLES
  proc,         \* where the listener is in epc__handle_request
  request,      \* the call a stub made: its protocol, function and arguments, and
                \* in which pieces the parser reports them: name and contents
  document,     \* what the parser reports: the events of each part of a request
  at,           \* the part and the event it reports next
  level,        \* epc__xml_ctx: level of the open element
  num,          \* epc__xml_ctx: num_parameters, index of the last argument found
  function,     \* epc__call->function, a function or "none"
  error,        \* epc__call->epc__error
  ecode,        \* xmlparsebuf returned a code other than XMLERR_OK
  response,     \* epc__call->msg_response
  data,         \* data[f][i]: buffer of parameter i of f
  seen,         \* history: the buffers when the function was run, <<>> before
  answer        \* history: the response sent to the request

ctx == <<level, num>>
call == <<function, error, ecode, response>>
history == <<seen, answer>>
vars == <<proc, request, document, at, ctx, call, data, history>>

Protocol == {"SOAP", "XMLRPC"}
Start(name, attrs) == [ev |-> "start", name |-> name, text |-> attrs]
Characters(text) == [ev |-> "text", name |-> "", text |-> text]
End(name) == [ev |-> "end", name |-> name, text |-> <<>>]
Malformed == [ev |-> "error", name |-> "", text |-> <<>>]

Nothing == [kind |-> "none", values |-> <<>>]
Fault == [kind |-> "fault", values |-> <<>>]

-----------------------------------------------------------------------------
(* The document a stub writes: set_request_parameter and send_request.     *)

\* The types XML-RPC has for those of the IDL; XML travels as a string.
XmlrpcType == [STRING |-> "string", XML |-> "string", DATE |-> "dateTime.iso8601",
               INT |-> "int", LONG |-> "int"]

\* Events for a text in pieces.  A piece ends where ends says.
Pieces(text) ==
  LET piece(ends, k) == SubSeq(text, IF k = 1 THEN 1 ELSE ends[k - 1] + 1, ends[k])
      inside == {cuts \in SUBSET (1 .. Len(text) - 1) : Cardinality(cuts) < MaxPieces}
  IN  {[k \in 1 .. Len(ends) |-> Characters(piece(ends, k))] :
         ends \in {Ascending(cuts \cup {Len(text)}) : cuts \in inside}}
InPieces(texts) == [k \in 1 .. Len(texts) |-> Characters(texts[k])]

\* Event sequences a parser may report for the text a client writes for value
\* v.  The end of a CDATA section inside the text ends it too early, and what
\* follows is not well-formed: the parser stops at its first error.
Cdata(v) ==
  LET ends == {k \in 1 .. Len(v) : v[k] = "]]>"}
  IN  IF ends = {} THEN Pieces(v)
      ELSE IF Min(ends) = 1 THEN {<<Malformed>>}
      ELSE {Append(events, Malformed) : events \in Pieces(SubSeq(v, 1, Min(ends) - 1))}
Content(protocol, p, v) ==
  CASE p.type \in {"INT", "LONG"} -> {InPieces(texts) : texts \in {<<Numeral(v)>>} \cup Digits[v]}
    [] p.type = "DATE" -> Pieces(v)
    [] p.type = "XML" /\ protocol = "SOAP" -> Markup[v]
    [] OTHER -> Cdata(v)

\* The call raises an exception before anything is sent: NULL, which for a
\* text is the empty one, a text that is too long, and a date in SOAP.
Raises(protocol, p, v) ==
  \/ p.type \in Texts /\ v = <<>>
  \/ p.type \in {"STRING", "XML"} /\ Bytes(v) > p.size - 1
  \/ p.type = "DATE" /\ protocol = "SOAP"

\* The tags a stub writes around the arguments, and around each of them.
Opening(r) ==
  IF r.protocol = "SOAP"
  THEN <<Start("SOAP-ENV:Envelope", <<>>), Start("SOAP-ENV:Body", <<>>), Start(r.function, <<>>)>>
  ELSE <<Start("methodCall", <<>>), Start("methodName", <<>>)>>
         \o InPieces([k \in 1 .. Len(r.name) |-> <<r.name[k]>>])
         \o <<End("methodName"), Start("params", <<>>)>>
Closing(r) ==
  IF r.protocol = "SOAP"
  THEN <<End(r.function), End("SOAP-ENV:Body"), End("SOAP-ENV:Envelope")>>
  ELSE <<End("params"), End("methodCall")>>
Before(protocol, p) ==
  IF protocol = "SOAP" THEN <<Start(p.name, <<>>)>>
  ELSE <<Start("param", <<>>), Start("value", <<>>), Start(XmlrpcType[p.type], <<>>)>>
Behind(protocol, p) ==
  IF protocol = "SOAP" THEN <<End(p.name)>>
  ELSE <<End(XmlrpcType[p.type]), End("value"), End("param")>>
Argument(protocol, p, content) == Before(protocol, p) \o content \o Behind(protocol, p)

\* The parts of a document: its beginning, each argument and its end.
ArgumentOf(f, k) == Params[f][In(f)[k]]
Document(r) ==
  LET n == Len(In(r.function))
  IN  [part \in 1 .. n + 2 |->
         CASE part = 1 -> Opening(r)
           [] part = n + 2 -> Closing(r)
           [] OTHER -> Argument(r.protocol, ArgumentOf(r.function, part - 1), r.contents[part - 1])]

\* What a parser may find in the name of the method, and in the arguments.
Names(protocol, f) == {<<f>>} \cup (IF protocol = "XMLRPC" THEN NamePieces[f] ELSE {})
Contents(protocol, f, args) ==
  LET found(k) == Content(protocol, ArgumentOf(f, k), args[k])
  IN  {contents \in [1 .. Len(In(f)) -> UNION {found(k) : k \in 1 .. Len(In(f))}] :
         \A k \in 1 .. Len(In(f)) : contents[k] \in found(k)}

-----------------------------------------------------------------------------
\* Values have the type of their parameter.  What a parser reports for an XML
\* text is nested, and an error ends it.
Passed(type) == IF type = "INT" THEN Number ELSE ValueOf(type)

Count(events, j, ev) == Cardinality({i \in 1 .. j : events[i].ev = ev})
Depth(events, j) == Count(events, j, "start") - Count(events, j, "end")
EventSet ==
  [ev : {"start"}, name : Char, text : Seq(Char \X Char)]
    \cup [ev : {"text"}, name : {""}, text : Seq(Char)]
    \cup [ev : {"end"}, name : Char, text : {<<>>}]
    \cup {Malformed}
IsMarkup(events) ==
  /\ events \in Seq(EventSet)
  /\ \A j \in 1 .. Len(events) :
       /\ events[j] = Malformed => j = Len(events)
       /\ Depth(events, j) \in Nat
  /\ Depth(events, Len(events)) = 0 \/ Malformed \in ToSet(events)

\* Pieces that are two or more.  The end of a name is no other function's: no
\* name of an interface ends in that of another.
IsDivided(pieces, Piece) == \A s \in pieces : s \in Seq(Piece) /\ Len(s) > 1

ASSUME XmlAssumption ==
  /\ Registered \subseteq Function /\ "none" \notin Function
  /\ {"<", "/", ">", " ", "="} \subseteq Char /\ MaxPieces \in Nat
  /\ \A f \in Function : \A i \in Index(f) : Params[f][i].type \in Texts => Params[f][i].size > 0
  /\ \A f \in Function : \A args \in Calls[f] :
       /\ DOMAIN args = DOMAIN In(f)
       /\ \A k \in DOMAIN args :
            /\ args[k] \in Passed(ArgumentOf(f, k).type)
            /\ ArgumentOf(f, k).type = "XML" => \A events \in Markup[args[k]] : IsMarkup(events)
            /\ ArgumentOf(f, k).type \notin Texts => IsDivided(Digits[args[k]], Seq(Char))
  /\ \A f \in Function : IsDivided(NamePieces[f], Char)
  /\ \A f \in Function : \A name \in NamePieces[f] : Last(name) \notin Registered
  /\ \A f \in Registered : \A values \in Result[f] :
       /\ DOMAIN values = DOMAIN Results(f)
       /\ \A k \in DOMAIN values : values[k] \in ValueOf(Params[f][Results(f)[k]].type)

-----------------------------------------------------------------------------
\* The process starts: add_interface has allocated the buffers.
Fresh(junk) ==
  [f \in Registered |-> [i \in Index(f) |-> IF junk THEN Junk(Params[f][i]) ELSE NoData(Params[f][i])]]

Beginning == [part |-> 1, event |-> 1]

Init ==
  /\ proc = "idle"
  /\ request = [protocol |-> "SOAP", function |-> "none", name |-> <<>>, args |-> <<>>, contents |-> <<>>]
  /\ document = <<>> /\ at = Beginning
  /\ level = 0 /\ num = 0
  /\ function = "none" /\ error = "OK" /\ ecode = FALSE /\ response = Nothing
  /\ \E junk \in BOOLEAN : data = Fresh(junk)
  /\ seen = <<>> /\ answer = Nothing

\* A stub makes call r, and the listener receives the request.
ReceiveRequest(r) ==
  /\ proc = "idle"
  /\ \A k \in DOMAIN r.args : ~Raises(r.protocol, ArgumentOf(r.function, k), r.args[k])
  /\ request' = r
  /\ document' = Document(r) /\ at' = Beginning
  /\ proc' = "received"
  /\ function' = "none" /\ error' = "OK" /\ ecode' = FALSE /\ UNCHANGED response
  /\ seen' = <<>> /\ answer' = Nothing
  /\ UNCHANGED <<ctx, data>>

-----------------------------------------------------------------------------
(* Callbacks of the parser.  An assertion that fails ends the process.     *)

Abort ==
  /\ proc' = "aborted"
  /\ UNCHANGED <<request, document, at, ctx, call, data, history>>

Asserted(condition, callback) == IF condition THEN callback ELSE Abort

\* The parser reports the next event, which is one of kind ev.
AtEvent == proc = "parsing" /\ at.part \in DOMAIN document
Event == document[at.part][at.event]
Reports(protocol, ev) == AtEvent /\ request.protocol = protocol /\ Event.ev = ev
Reported ==
  /\ at' = IF at.event < Len(document[at.part]) THEN [at EXCEPT !.event = @ + 1]
           ELSE [part |-> at.part + 1, event |-> 1]
  /\ UNCHANGED <<proc, request, document, history>>

\* The parser returns.
Parsed == proc' = "parsed" /\ document' = <<>> /\ at' = Beginning

\* Mutant of StartDocument: the index of the last argument is not reset.
StartDocumentKeepsNum ==
  /\ proc = "received" /\ proc' = "parsing"
  /\ function' = "none" /\ error' = "OK" /\ level' = 0
  /\ UNCHANGED <<ecode, response, num, request, document, at, data, history>>
StartDocument ==
  /\ proc = "received" /\ proc' = "parsing"
  /\ function' = "none" /\ error' = "OK" /\ UNCHANGED <<ecode, response>>
  /\ num' = 0 /\ level' = 0
  /\ UNCHANGED <<request, document, at, data, history>>

\* start_element, levels of the envelope and the body.
SoapEnvelope ==
  /\ Reports("SOAP", "start") /\ level < 2
  /\ Asserted(Event.name \in {"SOAP-ENV:Envelope", "SOAP-ENV:Body"},
            Reported /\ level' = level + 1 /\ UNCHANGED <<num, call, data>>)

\* Mutant of Nullify: the buffers keep what the last request left in them.
KeepData(f) == data
Nullify(f) == [data EXCEPT ![f] = [i \in Index(f) |-> NoData(Params[f][i])]]

\* The method is looked up; a fault is written for one that is unknown, and
\* no later lookup resets the error.
LookupMethod(f) ==
  IF f \in Registered
  THEN function' = f /\ data' = Nullify(f) /\ UNCHANGED <<error, ecode, response>>
  ELSE /\ function' = "none" /\ error' = "FUNCTION_UNKNOWN" /\ response' = Fault
       /\ UNCHANGED <<ecode, data>>

\* start_element, level of the method.
SoapMethod ==
  /\ Reports("SOAP", "start") /\ level = 2
  /\ Asserted(function = "none",
            Reported /\ level' = 3 /\ UNCHANGED num /\ LookupMethod(Event.name))

\* The next parameter after num that is not OUT, 0 when there is none.
\* Mutant of NextArgument: OUT parameters are not skipped.
NextArgumentOfAnyMode == IF num < Len(Params[function]) THEN num + 1 ELSE 0
NextArgument ==
  LET left == {i \in ToSet(In(function)) : i > num} IN IF left = {} THEN 0 ELSE Min(left)

\* start_element, level of an argument.
SoapArgument ==
  /\ Reports("SOAP", "start") /\ level = 3
  /\ Asserted(/\ function # "none"
            /\ NextArgument # 0
            /\ Params[function][NextArgument].name = Event.name,
            Reported /\ level' = 4 /\ num' = NextArgument /\ UNCHANGED <<call, data>>)

\* The parser is inside an argument.
IsArgument == function # "none" /\ num # 0 /\ Params[function][num].mode # "OUT"

\* A tag inside an XML argument is appended to the argument, its attributes
\* as " name=value": the quotes are not written back.
AppendTag(text) ==
  data' = [data EXCEPT ![function][num] = Snprintf(Params[function][num], @, text)]
Attributes(attrs) ==
  [n \in 1 .. 4 * Len(attrs) |->
     LET attr == attrs[(n + 3) \div 4]
     IN  <<" ", attr[1], "=", attr[2]>>[1 + ((n + 3) % 4)]]
StartTag(e) == <<"<", e.name>> \o Attributes(e.text) \o <<">">>
EndTag(e) == <<"<", "/", e.name, ">">>
SoapNested ==
  /\ Reports("SOAP", "start") /\ level >= 4
  /\ Asserted(IsArgument /\ Params[function][num].type = "XML",
            Reported /\ level' = level + 1 /\ AppendTag(StartTag(Event)) /\ UNCHANGED <<num, call>>)

\* end_element.
SoapEnd ==
  /\ Reports("SOAP", "end") /\ Reported
  /\ level' = level - 1
  /\ IF level > 4 THEN AppendTag(EndTag(Event)) ELSE UNCHANGED data
  /\ UNCHANGED <<num, call>>

\* error_handler, and the end of parsing.  For XML-RPC it leaves epc__error.
ErrorHandler ==
  /\ response' = Fault
  /\ error' = IF request.protocol = "SOAP" THEN "PARSE_ERROR" ELSE error

\* set_parameter.  On an overflow the callback returns an error code, and so
\* does the parser; whether it calls error_handler for it is the parser's.
StoreContent ==
  LET stored == SetParameter(Params[function][num], data[function][num], Event.text)
  IN  /\ data' = [data EXCEPT ![function][num] = stored.data]
      /\ IF stored.error = "OK"
         THEN Reported /\ UNCHANGED call
         ELSE /\ Parsed /\ ecode' = TRUE
              /\ ErrorHandler \/ UNCHANGED <<error, response>>
              /\ UNCHANGED <<request, function, history>>
      /\ UNCHANGED ctx

\* element_content.
SoapContent ==
  Reports("SOAP", "text") /\ Asserted(IsArgument, StoreContent)

\* start_element: everything but an argument only counts the level.
XmlrpcElement ==
  /\ Reports("XMLRPC", "start") /\ level # 4
  /\ Reported /\ level' = level + 1 /\ UNCHANGED <<num, call, data>>

\* start_element, level of an argument: the element is named for its type.
XmlrpcArgument ==
  /\ Reports("XMLRPC", "start") /\ level = 4
  /\ Asserted(function # "none" /\ NextArgument # 0,
            /\ Reported /\ level' = 5 /\ num' = NextArgument
            /\ error' = LET type == Params[function][NextArgument].type
                        IN  IF type = "XML" \/ XmlrpcType[type] = Event.name
                            THEN error ELSE "DATATYPE_UNKNOWN"
            /\ UNCHANGED <<function, ecode, response, data>>)

\* element_content: <interface>.<function> or a piece of it, or an argument.
\* A piece is looked up like a name.
XmlrpcMethodName ==
  /\ Reports("XMLRPC", "text") /\ level = 2
  /\ Asserted(function = "none",
            Reported /\ LookupMethod(Event.text[1]) /\ UNCHANGED ctx)
XmlrpcContent ==
  Reports("XMLRPC", "text") /\ level = 5 /\ Asserted(IsArgument, StoreContent)

XmlrpcEnd ==
  /\ Reports("XMLRPC", "end") /\ Reported
  /\ level' = level - 1
  /\ UNCHANGED <<num, call, data>>

ReportError ==
  /\ AtEvent /\ Event = Malformed
  /\ ErrorHandler
  /\ Parsed /\ ecode' = TRUE
  /\ UNCHANGED <<request, ctx, function, data, history>>

EndDocument ==
  /\ proc = "parsing" /\ ~AtEvent
  /\ Parsed
  /\ UNCHANGED <<request, ctx, call, data, history>>

-----------------------------------------------------------------------------
\* What f stores in its parameters fits in their buffers.
Fits(p, v) == p.type \in Texts => Bytes(v) < p.size
Filled(f, buffers, values) ==
  [i \in Index(f) |->
     IF \E k \in DOMAIN values : Results(f)[k] = i
     THEN values[CHOOSE k \in DOMAIN values : Results(f)[k] = i]
     ELSE buffers[i]]

\* epc__exec_call after parsing: the errors it expects of a parser, or the call.
Expected == {"PARSE_ERROR", "INTERFACE_UNKNOWN", "FUNCTION_UNKNOWN", "PARAMETER_UNKNOWN"}
ExecCall ==
  /\ proc = "parsed"
  /\ IF ecode \/ error # "OK"
     THEN Asserted(error \in Expected,
                 proc' = "called" /\ UNCHANGED <<request, document, at, ctx, call, data, history>>)
     ELSE Asserted(function # "none",
                 /\ proc' = "called"
                 /\ seen' = data[function]
                 /\ \E values \in Result[function] :
                      /\ \A k \in DOMAIN values : Fits(Params[function][Results(function)[k]], values[k])
                      /\ data' = [data EXCEPT ![function] = Filled(function, @, values)]
                 /\ UNCHANGED <<request, document, at, ctx, call, answer>>)

\* epc__response_soap and epc__response_xmlrpc: an element for each parameter
\* that is not IN; an XML text is left out of the one XML-RPC has for it.
SoapResults == [k \in 1 .. Len(Out(function)) |-> data[function][Out(function)[k]]]
XmlrpcResults ==
  [k \in 1 .. Len(Out(function)) |->
     LET i == Out(function)[k] IN IF Params[function][i].type = "XML" THEN <<>> ELSE data[function][i]]
Response ==
  [kind |-> "result", values |-> IF request.protocol = "SOAP" THEN SoapResults ELSE XmlrpcResults]

\* The rest of epc__handle_request: a response, unless the function is oneway.
\* One that is and failed ends the loop, and the process with it.
Respond ==
  /\ proc = "called"
  /\ IF function # "none" /\ function \in Oneway
     THEN /\ proc' = IF error = "OK" THEN "idle" ELSE "ended"
          /\ UNCHANGED <<request, document, at, ctx, call, data, history>>
     ELSE Asserted(function # "none",
                 /\ proc' = "idle" /\ error' = "OK"
                 /\ response' = Response /\ answer' = Response
                 /\ UNCHANGED <<request, document, at, ctx, function, ecode, data, seen>>)

\* epcdaemon starts the listener again.
Restart ==
  /\ proc \in {"aborted", "ended"}
  /\ proc' = "idle" /\ document' = <<>> /\ at' = Beginning /\ level' = 0 /\ num' = 0
  /\ function' = "none" /\ error' = "OK" /\ ecode' = FALSE /\ response' = Nothing
  /\ \E junk \in BOOLEAN : data' = Fresh(junk)
  /\ UNCHANGED <<request, history>>

Callback ==
  \/ StartDocument \/ EndDocument \/ ReportError
  \/ SoapEnvelope \/ SoapMethod \/ SoapArgument \/ SoapNested \/ SoapContent \/ SoapEnd
  \/ XmlrpcElement \/ XmlrpcArgument \/ XmlrpcMethodName \/ XmlrpcContent \/ XmlrpcEnd

Next ==
  \/ \E protocol \in Protocol, f \in Function : \E args \in Calls[f] :
       \E name \in Names(protocol, f), contents \in Contents(protocol, f, args) :
         ReceiveRequest([protocol |-> protocol, function |-> f, name |-> name,
                         args |-> args, contents |-> contents])
  \/ Callback
  \/ ExecCall
  \/ Respond
  \/ Restart

Spec == Init /\ [][Next]_vars

-----------------------------------------------------------------------------
\* Every variable has the values the code declares for it.
TypeOK ==
  /\ proc \in {"idle", "received", "parsing", "parsed", "called", "ended", "aborted"}
  /\ request.protocol \in Protocol
  /\ request.function \in Function \cup {"none"}
  /\ level \in Nat /\ num \in Nat
  /\ function \in Registered \cup {"none"}
  /\ error \in Expected \cup {"OK", "DATATYPE_UNKNOWN"}
  /\ ecode \in BOOLEAN
  /\ \A r \in {response, answer} : r.kind \in {"none", "fault", "result"}
  /\ \A f \in Registered : \A i \in Index(f) :
       LET p == Params[f][i]
       IN  CASE p.type \in Texts -> Bytes(data[f][i]) < p.size
            [] p.type = "INT" -> data[f][i] \in IntMin .. IntMax
            [] OTHER -> data[f][i] \in Int

\* What the callbacks write back for the events of an XML argument.
Written(event) ==
  CASE event.ev = "start" -> StartTag(event)
    [] event.ev = "text" -> event.text
    [] event.ev = "end" -> EndTag(event)
    [] OTHER -> <<>>
WrittenBack(events) ==
  LET written[j \in 0 .. Len(events)] ==
        IF j = 0 THEN <<>> ELSE written[j - 1] \o Written(events[j])
  IN  written[Len(events)]

\* What a parameter that is no XML text holds after text was stored in it.
Read(p, text) ==
  CASE p.type = "INT" -> ToInt(Strtol(text))
    [] p.type = "LONG" -> Strtol(text)
    [] OTHER -> text

\* What a function finds of argument arg, which the parser reported as content.
\* XML is put together again, in SOAP as its events are written back, if that
\* fits.  Another argument that is reported in one piece is what the stub was
\* called with, an integer narrowed; of one that is not, only the last piece is
\* left, because set_parameter overwrites what it stored of the others.
Arrives(protocol, p, arg, content, value) ==
  IF p.type = "XML"
  THEN /\ Bytes(WrittenBack(content)) < p.size => value = WrittenBack(content)
       /\ protocol = "XMLRPC" => value = arg
  ELSE /\ value = Read(p, Last(content).text)
       /\ Len(content) = 1 => value = IF p.type = "INT" THEN ToInt(arg) ELSE arg

\* A function that is run finds in its parameters what the stub was called
\* with, as far as Arrives says, and nothing that an earlier request, another
\* argument or the process start left: every buffer is filled piece by piece
\* from callbacks that only know the level and the index of the last argument.
ArgumentsAreTheDocument ==
  seen # <<>> =>
    /\ request.function = function
    /\ \A k \in DOMAIN request.args :
         Arrives(request.protocol, ArgumentOf(function, k), request.args[k], request.contents[k],
                 seen[In(function)[k]])
    /\ \A i \in Index(function) : Params[function][i].mode = "OUT" => seen[i] = NoData(Params[function][i])

\* A document stays paired with the table: while the parser is inside an
\* argument, num is the index of the parameter that argument was written for.
PointerIsOpenArgument ==
  LET depth == IF request.protocol = "SOAP" THEN 4 ELSE 5
  IN  AtEvent /\ level >= depth => IsArgument /\ num = In(function)[at.part - 1]

\* A request a stub makes for a registered function with arguments that fit
\* is never what ends the listener, whatever was served before it; unless the
\* parser reports the name of the method in pieces, the first of which may be
\* a function too: element_content asserts that it has found none yet.
StubRequestsAreServed ==
  proc = "aborted" => \/ request.function \notin Registered
                      \/ Len(request.name) > 1
                      \/ ecode

\* A response that carries results follows a run of the function: where the
\* parser met an error the client gets the fault that error_handler wrote.
FaultTellsFailure == answer.kind = "result" => seen # <<>>

=============================================================================
