----------------------------- MODULE EpcMarshal -----------------------------
(***************************************************************************)
(* The NATIVE protocol: a stub writes its arguments one after the other,   *)
(* each with its type and its length, the listener reads them back into    *)
(* the buffers of the parameters, and the results travel the same way in   *)
(* the other direction.  The writers and the listener count bytes, the     *)
(* reader in the database counts characters.                               *)
(*                                                                         *)
(* A type is one character here as in the code, and so is a length, which  *)
(* is two or four hexadecimal digits there.  Names fit in their buffers:   *)
(* the types of EPC_CLNT bound them.                                       *)
(***************************************************************************)
EXTENDS EpcParameters

CONSTANTS
  Registered,   \* functions of the interfaces the listener knows
  Value,        \* Value[type]: what callers pass for a parameter of that type
  Result,       \* Result[f]: lists of what f may store in its parameters
  MaxRequest,   \* bytes a request may have
  MaxResponse,  \* bytes a response may have, MAX_MSG_RESPONSE_LEN
  MaxLength,    \* bound: no buffer has more bytes
  HexDigits     \* HexDigits[n]: length n as a text, which is one character

VARIABLES
  proc,         \* what the stub, or the listener while the stub waits, does
  called,       \* the function the stub calls and the arguments it has packed
  g_msg,        \* the message of the session, written and then read
  msg_request,  \* the request as the listener received it, from ptr on
  function,     \* epc__call->function, a function or "none"
  error,        \* epc__call->epc__error
  nr,           \* arguments the listener has read
  data,         \* data[f][i]: buffer of parameter i of f
  results,      \* values the stub has got
  outcome,      \* how the stub ended: "returned", "raised" or not yet
  ran, seen,    \* history: the function was run in this call, and with what
  stored        \* history: texts of the results the function stored

stub == <<called, g_msg, results, outcome>>
listener == <<msg_request, function, error, nr, data>>
history == <<ran, seen, stored>>
vars == <<proc, stub, listener, history>>

-----------------------------------------------------------------------------
Digit == [STRING |-> "1", INT |-> "2", LONG |-> "3", XML |-> "7", DATE |-> "8"]
Hex(n) == HexDigits[n]
IsLength(c) == \E n \in 0 .. MaxLength : Hex(n) = c
Length(c) == CHOOSE n \in 0 .. MaxLength : Hex(n) = c
Rest(msg, n) == SubSeq(msg, n + 1, Len(msg))

\* A value on its way: data type, data length, the data as a string.
\* Mutant of Field: the writer counts characters.
FieldInCharacters(type, text) == <<Digit[type], Hex(Len(text))>> \o text

Field(type, text) == <<Digit[type], Hex(Bytes(text))>> \o text
TextOf(type, value) == IF type \in Texts THEN value ELSE Numeral(value)

\* Error codes in a response, its first field.
Code == [OK |-> 0, PARSE_ERROR |-> -6, FUNCTION_UNKNOWN |-> -12]

\* set_request_parameter raises an exception: NULL, which for a text is the
\* empty one, or a text that is too long for the parameter.
Raises(p, value) ==
  \/ p.type \in Texts /\ value = <<>>
  \/ p.type \in {"STRING", "XML"} /\ Bytes(value) > p.size - 1

\* A text that is too long for its parameter, or the variable of the return
\* value, and a number that is none raise an exception.
BadResult(f, i, text) ==
  \/ Params[f][i].type \in {"STRING", "XML"} /\ Bytes(text) > Params[f][i].size - 1
  \/ Params[f][i].type \notin Texts /\ text # <<>> /\ \A n \in Number : Numeral(n) # text

\* The function stores results that fit in their buffers.
Fits(p, value) == p.type \in Texts => Bytes(value) < p.size

\* Values have the type of their parameter, dates fit in their buffers, digits
\* take one byte, and a response has room for the error code.
Typed(f, values) ==
  /\ DOMAIN values = DOMAIN Results(f)
  /\ \A k \in DOMAIN values : values[k] \in ValueOf(Params[f][Results(f)[k]].type)
ASSUME MarshalAssumption ==
  /\ Registered \subseteq Function /\ "none" \notin Function
  /\ "demo" \in Char /\ \A type \in DOMAIN Digit : Digit[type] \in Char \ TwoBytes
  /\ \A f \in Function : \A i \in Index(f) :
       LET p == Params[f][i]
       IN  /\ p.type \in Texts => p.size \in 1 .. MaxLength
           /\ p.type = "DATE" => \A value \in Value["DATE"] : Bytes(value) < p.size
  /\ MaxRequest \in Nat /\ MaxResponse \in Nat /\ MaxLength \in Nat \ {0, 1}
  /\ HexDigits \in [0 .. MaxLength -> Char \ TwoBytes] /\ IsInjective(HexDigits)
  /\ \A type \in Type :
       Value[type] \subseteq IF type \in Texts THEN Seq(Char) ELSE Number
  /\ \A f \in Registered : \A values \in Result[f] : Typed(f, values)
  /\ \A e \in DOMAIN Code : Code[e] \in Number /\ Bytes(Field("INT", Numeral(Code[e]))) <= MaxResponse

Fresh(junk) ==
  [f \in Registered |-> [i \in Index(f) |-> IF junk THEN Junk(Params[f][i]) ELSE NoData(Params[f][i])]]

Init ==
  /\ proc = "idle"
  /\ called = [function |-> "none", args |-> <<>>] /\ g_msg = <<>>
  /\ msg_request = <<>> /\ function = "none" /\ error = "OK" /\ nr = 0
  /\ \E junk \in BOOLEAN : data = Fresh(junk)
  /\ results = <<>> /\ outcome = "none"
  /\ ran = FALSE /\ seen = <<>> /\ stored = <<>>

-----------------------------------------------------------------------------
(* The stub packs the request.                                             *)

\* The stub leaves, and the session calls again.
Leave(how) == proc' = "idle" /\ outcome' = how

NewRequest(f) ==
  /\ proc = "idle" /\ proc' = "packing"
  /\ called' = [function |-> f, args |-> <<>>]
  /\ g_msg' = Field("STRING", <<"demo">>) \o Field("STRING", <<f>>)
  /\ results' = <<>> /\ outcome' = "none"
  /\ ran' = FALSE /\ seen' = <<>> /\ stored' = <<>>
  /\ UNCHANGED listener

Caller == called.function
Packed == Len(called.args)

SetRequestParameter(value) ==
  LET p == Params[Caller][In(Caller)[Packed + 1]]
  IN  /\ ~Raises(p, value)
      /\ called' = [called EXCEPT !.args = Append(@, value)]
      /\ g_msg' = g_msg \o Field(p.type, TextOf(p.type, value))
      /\ UNCHANGED <<proc, results, outcome, listener, history>>

SetRequestRaises(value) ==
  /\ Raises(Params[Caller][In(Caller)[Packed + 1]], value)
  /\ Leave("raised")
  /\ UNCHANGED <<called, g_msg, results, listener, history>>

Pack ==
  /\ proc = "packing" /\ Packed < Len(In(Caller))
  /\ \E value \in Value[Params[Caller][In(Caller)[Packed + 1]].type] :
       SetRequestParameter(value) \/ SetRequestRaises(value)

\* pack_message raises an exception when the buffer overflows.
SendRequest ==
  /\ proc = "packing" /\ Packed = Len(In(Caller))
  /\ IF Bytes(g_msg) > MaxRequest
     THEN Leave("raised") /\ UNCHANGED listener
     ELSE /\ proc' = "sent" /\ UNCHANGED outcome
          /\ msg_request' = g_msg /\ function' = "none" /\ error' = "OK"
          /\ UNCHANGED <<nr, data>>
  /\ UNCHANGED <<called, g_msg, results, history>>

-----------------------------------------------------------------------------
(* The listener reads it, epc__native_parse.                               *)

\* epc__native_parse_argument: an assertion that the type is the expected one
\* ends the process.
Expected(type) == msg_request # <<>> /\ msg_request[1] = Digit[type]

\* Data of len bytes, which strncpy copies from ptr on.
Argument(msg) == Cut(Rest(msg, 2), Length(msg[2]))
After(msg) == Rest(msg, 2 + Len(Argument(msg)))

\* The names of the interface and the function, and their lookup.
ParseNames ==
  /\ proc = "sent" /\ Expected("STRING")
  /\ LET name == Argument(After(msg_request))[1]
     IN  IF name \in Registered
         THEN function' = name /\ UNCHANGED error
         ELSE UNCHANGED function /\ error' = "FUNCTION_UNKNOWN"
  /\ msg_request' = After(After(msg_request)) /\ nr' = 0
  /\ proc' = "parsing"
  /\ UNCHANGED <<stub, data, history>>

\* Mutant of Parameter: OUT parameters are not skipped.
ParameterOfAnyMode == nr + 1
Parameter == In(function)[nr + 1]

\* epc__set_parameter.  A buffer that is too small is a PARSE_ERROR.
ParseParameter ==
  /\ proc = "parsing" /\ error = "OK" /\ nr < Len(In(function))
  /\ LET p == Params[function][Parameter]
         set == SetParameter(p, data[function][Parameter], Argument(msg_request))
     IN  IF ~Expected(p.type)
         THEN proc' = "aborted" /\ UNCHANGED listener
         ELSE /\ IF IsLength(msg_request[2]) /\ set.error = "OK"
                 THEN /\ data' = [data EXCEPT ![function][Parameter] = set.data]
                      /\ msg_request' = After(msg_request) /\ nr' = nr + 1
                      /\ UNCHANGED error
                 ELSE error' = "PARSE_ERROR" /\ UNCHANGED <<data, msg_request, nr>>
              /\ UNCHANGED <<proc, function>>
  /\ UNCHANGED <<stub, history>>

\* The function runs and stores its results.
Execute ==
  /\ proc = "parsing" /\ error = "OK" /\ nr = Len(In(function))
  /\ ran' = TRUE /\ seen' = [k \in 1 .. nr |-> data[function][In(function)[k]]]
  /\ \E values \in Result[function] :
       /\ \A k \in DOMAIN values : Fits(Params[function][Results(function)[k]], values[k])
       /\ data' = [data EXCEPT ![function] =
                     [i \in Index(function) |->
                        IF \E k \in DOMAIN values : Results(function)[k] = i
                        THEN values[CHOOSE k \in DOMAIN values : Results(function)[k] = i]
                        ELSE @[i]]]
       /\ stored' = [k \in DOMAIN values |->
                       TextOf(Params[function][Results(function)[k]].type, values[k])]
  /\ proc' = "executed"
  /\ UNCHANGED <<stub, msg_request, function, error, nr>>

\* epc__response_native appends each value with snprintf, which cuts off what
\* does not fit in the message, and epc__handle_request sends the response.
\* No response is sent for a oneway function, whose stub has returned; an
\* error that is not reported ends the loop, and the process with it.
Appended(msg, field) == msg \o Cut(field, MaxResponse - Bytes(msg))
\* Mutant of Returned: IN parameters are not skipped.
ReturnedOfAnyMode == IF function = "none" THEN <<>> ELSE [k \in 1 .. Len(Results(function)) |-> k]
Returned == IF function = "none" THEN <<>> ELSE Results(function)
FirstField == Appended(<<>>, Field("INT", Numeral(Code[error])))
ResultField(i) == Field(Params[function][i].type, TextOf(Params[function][i].type, data[function][i]))
Written[k \in 0 .. Len(Returned)] ==
  IF k = 0 THEN FirstField ELSE Appended(Written[k - 1], ResultField(Returned[k]))
Response == Written[Len(Returned)]

Respond ==
  /\ proc = "executed" \/ (proc = "parsing" /\ error # "OK")
  /\ IF function \in Oneway
     THEN /\ proc' = IF error = "OK" THEN "idle" ELSE "ended"
          /\ outcome' = "returned" /\ UNCHANGED g_msg
     ELSE /\ g_msg' = Response
          /\ proc' = "received" /\ UNCHANGED outcome
  /\ UNCHANGED <<called, results, msg_request, function, error, nr, data, history>>

\* epcdaemon starts the listener again; a stub that waits gives up.
Restart ==
  /\ proc \in {"aborted", "ended"} /\ proc' = "idle"
  /\ outcome' = IF outcome = "none" THEN "raised" ELSE outcome
  /\ \E junk \in BOOLEAN : data' = Fresh(junk)
  /\ UNCHANGED <<called, g_msg, results, msg_request, function, error, nr, history>>

-----------------------------------------------------------------------------
(* The stub unpacks the response, get_response_parameter.                  *)

\* A field of which the length was cut off is NULL, and so is the rest.
Counted == IF Len(g_msg) < 2 THEN 0 ELSE Length(g_msg[2])
Readable(type) ==
  /\ g_msg # <<>> /\ g_msg[1] = Digit[type]
  /\ Len(g_msg) > 1 => IsLength(g_msg[2])

Taken == SubSeq(g_msg, 3, IF 2 + Counted > Len(g_msg) THEN Len(g_msg) ELSE 2 + Counted)

\* Mutant of CodeIsOK: the error code is not looked at.
CodeNotChecked == TRUE
CodeIsOK == Readable("INT") /\ Taken = Numeral(0)

RecvResponse ==
  /\ proc = "received"
  /\ g_msg' = Rest(g_msg, 2 + Counted)
  /\ IF CodeIsOK THEN proc' = "unpacking" /\ UNCHANGED outcome ELSE Leave("raised")
  /\ UNCHANGED <<called, results, listener, history>>

Wanted == Results(Caller)[Len(results) + 1]

GetResponseParameter ==
  /\ proc = "unpacking" /\ Len(results) < Len(Results(Caller))
  /\ IF ~Readable(Params[Caller][Wanted].type)
     THEN Leave("raised") /\ UNCHANGED <<g_msg, results>>
     ELSE /\ g_msg' = Rest(g_msg, 2 + Counted)
          /\ IF BadResult(Caller, Wanted, Taken)
             THEN Leave("raised") /\ UNCHANGED results
             ELSE results' = Append(results, Taken) /\ UNCHANGED <<proc, outcome>>
  /\ UNCHANGED <<called, listener, history>>

Return ==
  /\ proc = "unpacking" /\ Len(results) = Len(Results(Caller))
  /\ Leave("returned")
  /\ UNCHANGED <<called, g_msg, results, listener, history>>

Next ==
  \/ \E f \in Function : NewRequest(f)
  \/ Pack \/ SendRequest
  \/ ParseNames \/ ParseParameter \/ Execute \/ Respond
  \/ Restart
  \/ RecvResponse \/ GetResponseParameter \/ Return

Spec == Init /\ [][Next]_vars

-----------------------------------------------------------------------------
\* The variables have their types, and every buffer holds at most what fits
\* in it with a terminating zero.
TypeOK ==
  /\ proc \in {"idle", "packing", "sent", "parsing", "executed", "received", "unpacking", "aborted", "ended"}
  /\ called.function \in Function \cup {"none"}
  /\ function \in Registered \cup {"none"}
  /\ error \in DOMAIN Code
  /\ nr \in Nat /\ ran \in BOOLEAN
  /\ outcome \in {"none", "returned", "raised"}
  /\ Bytes(msg_request) <= MaxRequest
  /\ proc = "received" => Bytes(g_msg) <= MaxResponse
  /\ \A f \in Registered : \A i \in Index(f) :
       LET p == Params[f][i]
       IN  CASE p.type \in Texts -> Bytes(data[f][i]) < p.size
            [] p.type = "INT" -> data[f][i] \in IntMin .. IntMax
            [] OTHER -> data[f][i] \in Int

\* The type of argument k of the call, and what the function may see of it.
ArgumentType(k) == Params[Caller][In(Caller)[k]].type
ArrivesAs(type, arg, value) ==
  CASE type = "XML" -> IsSuffix(arg, value)
    [] type = "INT" -> value = ToInt(arg)
    [] OTHER -> value = arg

\* A function runs with the arguments its stub was called with, also when they
\* have characters of more than one byte: writer and reader agree on where
\* each begins.  An integer is narrowed, and an XML text is appended to what
\* its buffer held, which nothing clears.
ArgumentsArrive ==
  ran =>
    /\ function = Caller /\ Len(seen) = Packed
    /\ \A k \in 1 .. Packed : ArrivesAs(ArgumentType(k), called.args[k], seen[k])

\* No stub with arguments it accepts ends the listener or gets a PARSE_ERROR,
\* but for an XML argument that overflows the buffer it is appended to.
StubRequestsParse ==
  /\ proc # "aborted"
  /\ error = "PARSE_ERROR" => \E k \in 1 .. Len(In(function)) : Params[function][In(function)[k]].type = "XML"

\* Bytes of a response with the first k texts, none of them cut off.
Size(texts, k) ==
  LET size[i \in 0 .. Len(texts)] ==
        IF i = 0 THEN Bytes(Field("INT", Numeral(0))) ELSE size[i - 1] + 2 + Bytes(texts[i])
  IN  size[k]
Whole(k) == Size(stored, k) <= MaxResponse
SingleBytes(k) == \A i \in 1 .. k : Bytes(stored[i]) = Len(stored[i])

\* A stub gets what the function stored, each value in its own parameter, as
\* far as the response was not cut off and a byte was a character.
ResultsReturn ==
  \A k \in 1 .. Len(results) : Whole(k) /\ SingleBytes(k) => results[k] = stored[k]

\* A call of a function with a response returns only when the function ran in
\* it, with all of its results read.
ReturnedMeansExecuted ==
  outcome = "returned" /\ Caller \notin Oneway =>
    ran /\ Len(results) = Len(Results(Caller))

=============================================================================
