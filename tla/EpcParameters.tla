--------------------------- MODULE EpcParameters ---------------------------
(***************************************************************************)
(* The parameters of remote functions (epc__parameter_t) and the buffer    *)
(* each of them has in the listener, which keeps its contents from one     *)
(* request to the next.  A text is a sequence of characters; a numeral is  *)
(* one character.                                                          *)
(***************************************************************************)
EXTENDS EpcSelection

CONSTANTS
  Function,     \* functions that clients have a stub for
  Params,       \* Params[f]: table of f, its return value as the last entry
  Oneway,       \* functions without a response
  IntMin,       \* idl_int_t holds IntMin .. IntMax
  IntMax,
  Char,         \* characters
  Number,       \* numbers that occur
  Decimal,      \* Decimal[n]: number n as a text, which is one character
  TwoBytes      \* characters that take two bytes

Mode == {"IN", "INOUT", "OUT"}
Type == {"STRING", "XML", "DATE", "INT", "LONG", "VOID"}

ASSUME ParametersAssumption ==
  /\ IntMin \in Int /\ IntMax \in Nat /\ IntMin <= 0
  /\ IntMin .. IntMax \subseteq Number /\ Number \subseteq Int
  /\ Decimal \in [Number -> Char] /\ IsInjective(Decimal)
  /\ Function \subseteq Char /\ "?" \in Char /\ Oneway \subseteq Function
  /\ DOMAIN Params = Function
  /\ \A f \in Function :
       /\ Len(Params[f]) > 0 /\ Last(Params[f]).mode = "OUT"
       /\ \A i \in 1 .. Len(Params[f]) :
            /\ Params[f][i].mode \in Mode
            /\ Params[f][i].type \in Type
            /\ Params[f][i].type = "VOID" => Params[f][i].mode = "OUT"
            /\ Params[f][i].size \in Nat

Texts == {"STRING", "XML", "DATE"}

Index(f) == 1 .. Len(Params[f])
In(f) == Ascending({i \in Index(f) : Params[f][i].mode # "OUT"})
Out(f) == Ascending({i \in Index(f) : Params[f][i].mode # "IN"})

\* Parameters with a result.
Results(f) ==
  Ascending({i \in Index(f) : Params[f][i].mode # "IN" /\ Params[f][i].type # "VOID"})

\* What the buffer of a parameter of some type may hold.
ValueOf(type) ==
  CASE type \in Texts -> Seq(Char)
    [] type = "INT" -> IntMin .. IntMax
    [] OTHER -> Number

\* Number of bytes of a text: strlen, lengthb.
Bytes(text) == Len(text) + Cardinality({k \in 1 .. Len(text) : text[k] \in TwoBytes})

\* The longest beginning of a text that fits in n bytes: what snprintf keeps.
Cut(text, n) ==
  SubSeq(text, 1, Max({k \in 0 .. Len(text) : Bytes(SubSeq(text, 1, k)) <= n}))

\* to_char and sprintf of a number; strtol, which returns 0 for other texts.
Numeral(n) == <<Decimal[n]>>
Strtol(text) ==
  IF \E n \in Number : Numeral(n) = text
  THEN CHOOSE n \in Number : Numeral(n) = text
  ELSE 0

\* A number narrowed to idl_int_t by the cast of what strtol returns.
ToInt(n) == IntMin + ((n - IntMin) % (IntMax - IntMin + 1))

\* What nullify_parameters stores in the buffer of p, what malloc may have left
\* in a new one, and appending to it with snprintf, which cuts off what does
\* not fit.  p.size counts a terminating zero.
NoData(p) == IF p.type \in Texts THEN <<>> ELSE 0
Junk(p) == IF p.type \in Texts THEN Cut(<<"?">>, p.size - 1) ELSE IntMax
Snprintf(p, data, text) == data \o Cut(text, p.size - 1 - Bytes(data))

Stored(data, error) == [data |-> data, error |-> error]

\* Mutant of SetParameter: an XML text that comes in pieces is not appended.
SetParameterReplacesXml(p, data, piece) ==
  IF p.type \notin Texts THEN Stored(ToInt(Strtol(piece)), "OK")
  ELSE IF Bytes(piece) < p.size THEN Stored(piece, "OK")
  ELSE Stored(data, "BUFFER_OVERFLOW")

\* Mutant of SetParameter: no place is left for the terminating zero.
SetParameterOffByOne(p, data, piece) ==
  CASE p.type = "XML" /\ Bytes(piece) + Bytes(data) <= p.size -> Stored(data \o piece, "OK")
    [] p.type \in {"STRING", "DATE"} /\ Bytes(piece) <= p.size -> Stored(piece, "OK")
    [] p.type = "INT" -> Stored(ToInt(Strtol(piece)), "OK")
    [] p.type = "LONG" -> Stored(Strtol(piece), "OK")
    [] OTHER -> Stored(data, "BUFFER_OVERFLOW")

\* epc__set_parameter: data is what the buffer of p holds, piece what is
\* stored in it, the result what it holds afterwards and the error.  An XML
\* text is appended, others replaced.
SetParameter(p, data, piece) ==
  CASE p.type = "XML" ->
         IF Bytes(piece) + Bytes(data) < p.size
         THEN Stored(data \o piece, "OK")
         ELSE Stored(data, "BUFFER_OVERFLOW")
    [] p.type \in {"STRING", "DATE"} ->
         IF Bytes(piece) < p.size
         THEN Stored(piece, "OK")
         ELSE Stored(data, "BUFFER_OVERFLOW")
    [] p.type = "INT" -> Stored(ToInt(Strtol(piece)), "OK")
    [] p.type = "LONG" -> Stored(Strtol(piece), "OK")

=============================================================================
