------------------------------- MODULE EpcIdl -------------------------------
(***************************************************************************)
(* The IDL compiler.  The parser adds functions and their parameters to an *)
(* interface; from it the compiler writes, in different places of idl_prs, *)
(* a PL/SQL package (.pks, .pkb, .pke), the declarations of the C          *)
(* functions (.h) and the tables and skeletons of the listener (.c).       *)
(* These texts meet when a program calls a stub: a call runs the stub that *)
(* was written, statement by statement, against the table and the skeleton *)
(* that were written for it, in the NATIVE protocol.                       *)
(*                                                                         *)
(* A name is the position of its function or parameter, 0 for the return   *)
(* value; a text is its source and its length.                             *)
(***************************************************************************)
EXTENDS EpcSelection

CONSTANTS
  Types,          \* types that are declared
  Size,           \* sizes of char[n] that are declared
  MaxDateLen,     \* MAX_DATE_LEN
  MaxFunctions,   \* MAX_FUNCTIONS
  MaxParameters,  \* MAX_PARAMETERS
  Functions,      \* bound: functions an interface declares
  Parameters      \* bound: parameters an interface declares

Mode == {"IN", "INOUT", "OUT"}
Number == {"INT", "LONG"}
Sized == {"STRING", "XML"}
Texts == Sized \cup {"DATE"}
Type == Number \cup Texts \cup {"VOID"}

ASSUME IdlAssumption ==
  /\ Types \subseteq Type /\ Size \subseteq Nat /\ Size # {} /\ MaxDateLen \in Nat
  /\ MaxFunctions \in Nat /\ MaxParameters \in Nat
  /\ Functions \in Nat /\ Parameters \in Nat

VARIABLES
  pc,         \* what the compiler does, how it ended, or "deployed"
  option,     \* the options -c and -p it was given, and an include text
  interface,  \* _interface.functions
  files,      \* files[name]: what was written, for each function
  stub,       \* the stub that runs: its function, statement, variables
  g_msg,      \* the message of its session
  request,    \* the request on its way to the listener
  server      \* the listener: what it did with it

compiler == <<pc, option, interface, files>>
vars == <<compiler, stub, g_msg, request, server>>

-----------------------------------------------------------------------------
(* The parser.                                                             *)

\* Mutant of InitParameter: the size the lexer left is kept.
InitParameterKeepsSize(mode, type, size) == [mode |-> mode, type |-> type, size |-> size]

\* The lexer sets a size for strings and XML only; for other types it is that
\* of a token before.
InitParameter(mode, type, size) ==
  [mode |-> mode, type |-> type,
   size |-> CASE type \in Sized -> size [] type = "DATE" -> MaxDateLen [] OTHER -> 0]

Option == {"c", "p", "include"}
Idle == [function |-> 0, line |-> 0, vars |-> <<>>, args |-> <<>>, outcome |-> "none"]
Unserved == [actuals |-> <<>>, results |-> <<>>, code |-> "none"]

Init ==
  /\ pc = "functions" /\ interface = <<>> /\ files = <<>>
  /\ option \in SUBSET Option
  /\ stub = Idle /\ g_msg = <<>> /\ request = <<>> /\ server = Unserved

Parsed == UNCHANGED <<option, files, stub, g_msg, request, server>>
Declared == FoldLeft(LAMBDA n, fun : n + Len(fun.parameters), 0, interface)

\* Nothing checks that the tables have room: writing past one is undefined.
AddFunction(type, size, oneway) ==
  /\ pc = "functions" /\ Len(interface) < Functions
  /\ oneway => type = "VOID"
  /\ interface' = Append(interface, [result |-> InitParameter("OUT", type, size),
                                     oneway |-> oneway, parameters |-> <<>>])
  /\ pc' = IF Len(interface) < MaxFunctions THEN "parameters" ELSE "overrun"
  /\ Parsed

\* A parameter of a oneway function may have any mode: in_parameter_list asks
\* for an [in] one only when it comes first, and a comma may come before it.
AddParameter(mode, type, size) ==
  /\ pc = "parameters" /\ Declared < Parameters
  /\ interface' = [interface EXCEPT ![Len(interface)].parameters =
                     Append(@, InitParameter(mode, type, size))]
  /\ pc' = IF Len(Last(interface).parameters) < MaxParameters THEN "parameters" ELSE "overrun"
  /\ Parsed

FunctionParsed == pc = "parameters" /\ pc' = "functions" /\ UNCHANGED interface /\ Parsed

\* yyparse returns; only then something is generated, and nothing when -c and
\* -p were both given.
InterfaceParsed ==
  /\ pc = "functions"
  /\ pc' = IF "c" \notin option THEN "pks" ELSE IF "p" \notin option THEN "h" ELSE "done"
  /\ UNCHANGED interface /\ Parsed

SyntaxError ==
  /\ pc \in {"functions", "parameters"} /\ pc' = "failed"
  /\ UNCHANGED interface /\ Parsed

-----------------------------------------------------------------------------
(* What is generated.                                                      *)
Parameter(fun, i) == IF i = 0 THEN fun.result ELSE fun.parameters[i]

\* The type declares a function when there is a return value, a procedure
\* otherwise; the parameters follow in order.
Signature(fun) ==
  [returns |-> fun.result.type # "VOID",
   formals |-> [i \in 1 .. Len(fun.parameters) |-> fun.parameters[i].mode]]

\* A statement of a stub, on the variable of parameter var; p_max_bytes is
\* passed for strings and XML.
NoLimit == -1
Statement(op, fun, var, size) ==
  [op |-> op, var |-> var, type |-> Parameter(fun, var).type, size |-> size]
Plain(op) == [op |-> op, var |-> 0, type |-> "VOID", size |-> NoLimit]
Limit(p) == IF p.type \in Sized THEN p.size ELSE NoLimit
Used(fun, modes) ==
  Ascending({i \in 1 .. Len(fun.parameters) : fun.parameters[i].mode \in modes /\ fun.parameters[i].type # "VOID"})
Access(op, fun, modes) ==
  LET used == Used(fun, modes)
  IN  [k \in 1 .. Len(used) |-> Statement(op, fun, used[k], Limit(fun.parameters[used[k]]))]

Setup(fun) ==
  <<Plain("new_request")>>
  \o Access("set_request_parameter", fun, {"IN", "INOUT"})
  \o <<Plain("send_request")>>
  \o (IF fun.oneway THEN <<>> ELSE <<Plain("recv_response")>>)

GetReturnValue(fun) ==
  IF fun.result.type = "VOID" THEN <<>>
  ELSE <<Statement("get_response_parameter", fun, 0, NoLimit)>>

\* Mutant of GetResults: the return value is read first.
GetResultsReturnFirst(fun) ==
  GetReturnValue(fun) \o Access("get_response_parameter", fun, {"INOUT", "OUT"})

GetResults(fun) ==
  Access("get_response_parameter", fun, {"INOUT", "OUT"}) \o GetReturnValue(fun)

\* The variable of the return value is declared when there is one.
Body(fun) ==
  [signature |-> Signature(fun),
   variable |-> IF fun.result.type = "VOID" THEN <<>> ELSE <<fun.result.size>>,
   statements |-> Setup(fun) \o GetResults(fun) \o <<Plain("store")>>]

\* The body that calls a library: PARAMETERS lists the parameters and RETURN.
BodyExt(fun) ==
  [signature |-> Signature(fun),
   parameters |-> [i \in 1 .. Len(fun.parameters) |-> fun.parameters[i].type]
                  \o (IF fun.result.type = "VOID" THEN <<>> ELSE <<"RETURN">>)]

\* extern declaration: numbers that are not [in] are pointers.
Declaration(fun) ==
  [i \in 1 .. Len(fun.parameters) |-> fun.parameters[i].mode # "IN" /\ fun.parameters[i].type \notin Texts]

\* Mutant of BufferSize: no room for the terminating zero.
BufferSizeWithoutZero(p) == IF p.type \in Texts THEN p.size ELSE 8

\* get_size; a number has the size of its type.
BufferSize(p) == CASE p.type \in Texts -> p.size + 1 [] p.type = "VOID" -> 0 [] OTHER -> 8

\* The row of a function: its return value is the last parameter.
Entry(p) == [mode |-> p.mode, type |-> p.type, size |-> BufferSize(p)]
Table(fun) ==
  [oneway |-> fun.oneway,
   parameters |-> Append([i \in 1 .. Len(fun.parameters) |-> Entry(fun.parameters[i])], Entry(fun.result))]

\* Mutant of Variable: variables are numbered without the OUT parameters.
VariableOfArgument(fun, i) ==
  Cardinality({j \in 1 .. i : fun.parameters[j].mode # "OUT"}) + 1

\* The buffer l_<parameter> points to; the return value has the last one.
Variable(fun, i) == IF i = 0 THEN Len(fun.parameters) + 1 ELSE i

\* Mutant of ByReference: only the mode decides.
ByReferenceOfMode(p) == p.mode # "IN"
ByReference(p) == p.mode # "IN" \/ p.type \in Texts

\* What strncpy copies of a returned text, before it is terminated.
Copied(p) == p.size

\* The skeleton: the actual parameters, those that are values with a *, and
\* the buffer and size of the strncpy or the assignment of the return value.
Skeleton(fun) ==
  [actuals |-> [i \in 1 .. Len(fun.parameters) |->
                  [data |-> Variable(fun, i), pointer |-> ByReference(fun.parameters[i])]],
   result |-> IF fun.result.type = "VOID" THEN <<>>
              ELSE <<[data |-> Variable(fun, 0), size |-> Copied(fun.result)]>>]

-----------------------------------------------------------------------------
(* Writing the files, one after the other, a text per function.            *)
Write(file, next, texts) ==
  /\ pc = file /\ pc' = next
  /\ files' = [n \in DOMAIN files \cup {file} |->
                 IF n = file THEN texts ELSE files[n]]
  /\ UNCHANGED <<option, interface, stub, g_msg, request, server>>

GeneratePlsqlHeader == Write("pks", "pkb", [k \in DOMAIN interface |-> Signature(interface[k])])
GeneratePlsqlBody == Write("pkb", "pke", [k \in DOMAIN interface |-> Body(interface[k])])
GeneratePlsqlBodyExt ==
  Write("pke", IF "p" \in option THEN "done" ELSE "h", [k \in DOMAIN interface |-> BodyExt(interface[k])])

\* An include text has the declarations, and the header has not.
Declarations ==
  IF "include" \in option THEN <<>> ELSE [k \in DOMAIN interface |-> Declaration(interface[k])]
GenerateHeader == Write("h", "c", Declarations)

\* print_variable_definition asserts that no parameter is void, when the
\* tables have been written and the skeleton has not.
HasVoid == \E k \in 1 .. Len(interface) : \E i \in 1 .. Len(interface[k].parameters) :
             interface[k].parameters[i].type = "VOID"
Source(fun) == [table |-> Table(fun), skeleton |-> Skeleton(fun)]
GenerateCSource == ~HasVoid /\ Write("c", "done", [k \in DOMAIN interface |-> Source(interface[k])])
VoidParameter ==
  /\ pc = "c" /\ HasVoid /\ pc' = "aborted"
  /\ UNCHANGED <<option, interface, files, stub, g_msg, request, server>>

\* A file cannot be opened.
OpenError ==
  /\ pc \in {"pks", "pkb", "pke", "h", "c"} /\ pc' = "failed"
  /\ UNCHANGED <<option, interface, files, stub, g_msg, request, server>>

-----------------------------------------------------------------------------
(* A call of a stub.                                                       *)
Value(from, nr, len) == [from |-> from, nr |-> nr, len |-> len]
Nothing == Value("none", 0, 0)
Length(p) == IF p.type \in Texts THEN p.size ELSE 1

\* The caller passes a value to every parameter that takes one, texts as long
\* as they may be; that of parameter long is longer.
Call(k, long) ==
  LET fun == interface[k]
      passed == [i \in 0 .. Len(fun.parameters) |->
                   IF i = 0 \/ Parameter(fun, i).mode = "OUT" THEN Nothing
                   ELSE Value("arg", i, Length(fun.parameters[i]) + (IF i = long THEN 1 ELSE 0))]
  IN  /\ pc = "done" /\ option \cap {"c", "p"} = {} /\ pc' = "deployed"
      /\ long # 0 => fun.parameters[long].type \in Sized
      /\ stub' = [function |-> k, line |-> 1, vars |-> passed, args |-> passed, outcome |-> "none"]
      /\ UNCHANGED <<option, interface, files, g_msg, request, server>>

Code == files["pkb"][stub.function]
Line == Code.statements[stub.line]
Runs(op) == stub.outcome = "none" /\ stub.function # 0 /\ Line.op = op
Raise == stub' = [stub EXCEPT !.outcome = "raised"]
Proceed == stub' = [stub EXCEPT !.line = @ + 1]
Field(type, value) == [type |-> type, value |-> value]

NewRequest ==
  /\ Runs("new_request") /\ Proceed
  /\ g_msg' = <<Field("STRING", Value("interface", 0, 1)), Field("STRING", Value("function", 0, 1))>>
  /\ UNCHANGED <<compiler, request, server>>

SetRequestParameter ==
  /\ Runs("set_request_parameter")
  /\ LET value == stub.vars[Line.var]
     IN  IF Line.size # NoLimit /\ value.len > Line.size
         THEN Raise /\ UNCHANGED g_msg
         ELSE Proceed /\ g_msg' = Append(g_msg, Field(Line.type, value))
  /\ UNCHANGED <<compiler, request, server>>

\* The message of the session stays what it is.
SendRequest ==
  /\ Runs("send_request") /\ Proceed
  /\ request' = g_msg
  /\ UNCHANGED <<compiler, g_msg, server>>

\* The listener parses the request by the table, calls the function through
\* the skeleton and answers unless the function is oneway.  A value of the
\* wrong type ends it; a text that does not fit is a PARSE_ERROR.
Row == files["c"][stub.function]
Columns == Row.table.parameters
In == Ascending({i \in 1 .. Len(Columns) : Columns[i].mode # "OUT"})
Out == Ascending({i \in 1 .. Len(Columns) : Columns[i].mode # "IN" /\ Columns[i].type # "VOID"})
Matches ==
  /\ Len(request) = Len(In) + 2
  /\ \A k \in 1 .. Len(In) : request[k + 2].type = Columns[In[k]].type
Fits ==
  \A k \in 1 .. Len(In) :
    Columns[In[k]].type \in Texts => request[k + 2].value.len < Columns[In[k]].size
Buffers ==
  [i \in 1 .. Len(Columns) |->
     IF Columns[i].mode = "OUT" THEN Nothing
     ELSE request[(CHOOSE k \in 1 .. Len(In) : In[k] = i) + 2].value]

\* The function fills its [out] parameters and returns a text that may be
\* longer than declared, which strncpy cuts.
Stored(extra) ==
  LET fun == interface[stub.function]
  IN  [i \in 0 .. Len(fun.parameters) |->
         Value("res", i, Length(Parameter(fun, i)) + (IF i = 0 THEN extra ELSE 0))]
After(data, stored) ==
  LET fun == interface[stub.function]
      target(i) == Row.skeleton.actuals[i].data
      written(i) == fun.parameters[i].mode # "IN"
  IN  [d \in 1 .. Len(data) |->
         IF \E r \in ToSet(Row.skeleton.result) : r.data = d
         THEN [stored[0] EXCEPT !.len = IF fun.result.type \in Texts THEN Min({@, Row.skeleton.result[1].size}) ELSE @]
         ELSE IF \E i \in 1 .. Len(fun.parameters) : written(i) /\ target(i) = d
         THEN stored[CHOOSE i \in 1 .. Len(fun.parameters) : written(i) /\ target(i) = d]
         ELSE data[d]]
Answer(data) == [k \in 1 .. Len(Out) |-> Field(Columns[Out[k]].type, data[Out[k]])]

Serve(extra) ==
  /\ request # <<>> /\ server.code = "none"
  /\ extra > 0 => interface[stub.function].result.type \in Texts
  /\ IF ~Matches THEN server' = [server EXCEPT !.code = "ABORTED"]
     ELSE IF ~Fits THEN server' = [server EXCEPT !.code = "PARSE_ERROR"]
     ELSE server' = [code |-> "OK",
                     actuals |-> [i \in 1 .. Len(Row.skeleton.actuals) |-> Buffers[Row.skeleton.actuals[i].data]],
                     results |-> IF Row.table.oneway THEN <<>> ELSE Answer(After(Buffers, Stored(extra)))]
  /\ UNCHANGED <<compiler, stub, g_msg, request>>

RecvResponse ==
  /\ Runs("recv_response") /\ server.code # "none"
  /\ IF server.code = "OK" THEN Proceed /\ g_msg' = server.results ELSE Raise /\ UNCHANGED g_msg
  /\ UNCHANGED <<compiler, request, server>>

\* The return value goes to a variable of its size.
GetResponseParameter ==
  /\ Runs("get_response_parameter")
  /\ LET limit == IF Line.var = 0 /\ Line.type \in Sized THEN Code.variable[1] ELSE Line.size
     IN  IF g_msg = <<>> \/ Head(g_msg).type # Line.type
            \/ (limit # NoLimit /\ Head(g_msg).value.len > limit)
         THEN Raise /\ UNCHANGED g_msg
         ELSE /\ stub' = [stub EXCEPT !.line = @ + 1, !.vars[Line.var] = Head(g_msg).value]
              /\ g_msg' = Tail(g_msg)
  /\ UNCHANGED <<compiler, request, server>>

StoreAndReturn ==
  /\ Runs("store")
  /\ stub' = [stub EXCEPT !.outcome = "returned"]
  /\ UNCHANGED <<compiler, g_msg, request, server>>

Next ==
  \/ \E type \in Types, size \in Size, oneway \in BOOLEAN : AddFunction(type, size, oneway)
  \/ \E mode \in Mode, type \in Types, size \in Size : AddParameter(mode, type, size)
  \/ FunctionParsed \/ InterfaceParsed \/ SyntaxError
  \/ GeneratePlsqlHeader \/ GeneratePlsqlBody \/ GeneratePlsqlBodyExt
  \/ GenerateHeader \/ GenerateCSource \/ VoidParameter \/ OpenError
  \/ \E k \in 1 .. Len(interface) : \E long \in 0 .. Len(interface[k].parameters) : Call(k, long)
  \/ NewRequest \/ SetRequestParameter \/ SendRequest
  \/ \E extra \in {0, 1} : Serve(extra)
  \/ RecvResponse \/ GetResponseParameter \/ StoreAndReturn

Spec == Init /\ [][Next]_vars

-----------------------------------------------------------------------------
\* The variables have their types; every parameter has the size of its type,
\* whatever token came before it in the interface.
ParameterOK(p) ==
  /\ p.mode \in Mode /\ p.type \in Type
  /\ CASE p.type \in Sized -> p.size \in Size [] p.type = "DATE" -> p.size = MaxDateLen [] OTHER -> p.size = 0
TypeOK ==
  /\ pc \in {"functions", "parameters", "overrun", "failed", "pks", "pkb", "pke", "h", "c", "aborted", "done", "deployed"}
  /\ option \in SUBSET Option
  /\ DOMAIN files \subseteq {"pks", "pkb", "pke", "h", "c"}
  /\ \A k \in 1 .. Len(interface) :
       /\ ParameterOK(interface[k].result)
       /\ \A i \in 1 .. Len(interface[k].parameters) : ParameterOK(interface[k].parameters[i])
  /\ stub.function \in 0 .. Len(interface) /\ stub.outcome \in {"none", "returned", "raised"}
  /\ server.code \in {"none", "OK", "PARSE_ERROR", "ABORTED"}

\* The texts written from one function fit together: package bodies have the
\* signature of their package, a stub reads no [out] and assigns no [in]
\* parameter and has a variable for what it returns, PARAMETERS names every
\* parameter, and where the header declares the C function an actual parameter
\* is a pointer when that of the declaration is.
Written(names) == names \subseteq DOMAIN files
StubCompiles(header, body) ==
  /\ body.signature = header
  /\ header.returns <=> body.variable # <<>>
  /\ \A n \in 1 .. Len(body.statements) :
       LET s == body.statements[n]
       IN  /\ s.op = "set_request_parameter" => header.formals[s.var] # "OUT"
           /\ s.op = "get_response_parameter" =>
                IF s.var = 0 THEN header.returns ELSE header.formals[s.var] # "IN"
GeneratedCodeCompiles ==
  /\ Written({"pks", "pkb"}) =>
       \A k \in 1 .. Len(interface) : StubCompiles(files["pks"][k], files["pkb"][k])
  /\ Written({"pks", "pke"}) =>
       \A k \in 1 .. Len(interface) :
         LET header == files["pks"][k]
         IN  Len(files["pke"][k].parameters) = Len(header.formals) + (IF header.returns THEN 1 ELSE 0)
  /\ Written({"h", "c"}) =>
       \A k \in DOMAIN files["h"] :
         LET actuals == files["c"][k].skeleton.actuals
         IN  /\ Len(actuals) = Len(files["h"][k])
             /\ \A i \in 1 .. Len(actuals) :
                  actuals[i].pointer <=> (files["h"][k][i] \/ files["c"][k].table.parameters[i].type \in Texts)

\* Whatever a generated stub sends, the table generated with it accepts: types
\* and order agree, and a text the stub lets pass fits in its buffer.
StubsAndTablesAgree == server.code \in {"none", "OK"}

\* The function gets the arguments of the caller, each in its own position.
ArgumentsInTheirPlace ==
  server.code = "OK" =>
    \A i \in 1 .. Len(server.actuals) :
      stub.args[i] # Nothing => server.actuals[i] = stub.args[i]

\* A stub that returns has set every [out] parameter and the return value to
\* what the function stored for it, cut to the declared length; it raises only
\* because of an argument that is too long.
Callee == interface[stub.function]
IsResult(i) == Parameter(Callee, i).mode # "IN" /\ Parameter(Callee, i).type # "VOID"
ResultsInTheirPlace ==
  stub.function # 0 /\ ~Callee.oneway =>
    /\ stub.outcome = "returned" =>
         \A i \in 0 .. Len(Callee.parameters) :
           stub.vars[i] = IF IsResult(i) THEN Value("res", i, Length(Parameter(Callee, i))) ELSE stub.args[i]
    /\ stub.outcome = "raised" =>
         \E i \in 1 .. Len(Callee.parameters) : stub.args[i].len > Length(Callee.parameters[i])

=============================================================================
