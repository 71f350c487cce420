------------------------------ MODULE MCEpcXml ------------------------------
(***************************************************************************)
(* Functions and values for EpcXml: an argument of every type and mode, an *)
(* OUT parameter before arguments, a oneway function and one that the      *)
(* listener does not know.                                                 *)
(***************************************************************************)
EXTENDS EpcXml, TLC

P(name, mode, type, size) == [name |-> name, mode |-> mode, type |-> type, size |-> size]

MCParams ==
  [mix |-> <<P("o", "OUT", "STRING", 3), P("x", "INOUT", "XML", 9), P("n", "IN", "INT", 4),
             P("result", "OUT", "INT", 4)>>,
   log |-> <<P("s", "IN", "STRING", 3), P("d", "IN", "DATE", 18), P("result", "OUT", "VOID", 0)>>,
   logs |-> <<P("s", "IN", "STRING", 3), P("l", "INOUT", "LONG", 8), P("result", "OUT", "STRING", 3)>>,
   old |-> <<P("n", "IN", "LONG", 8), P("result", "OUT", "VOID", 0)>>]

\* 12 is a number that only an Oracle integer holds.  Its digits, and the sign
\* of a negative one, may come in a piece of their own.
MCIntMin == -4
MCNumber == -4 .. 12
MCChar == STRING
MCDecimal == [n \in MCNumber |-> ToString(n)]
MCDigits ==
  [n \in MCNumber |->
     CASE n < 0 -> {<<<<"-">>, <<MCDecimal[-n]>>>>}
       [] n > 9 -> {<<<<"1">>, <<MCDecimal[n - 10]>>>>}
       [] OTHER -> {}]

\* The name of logs may be reported in two pieces, the first of which is the
\* name of another function or of none.
MCNamePieces == [f \in Function |-> IF f = "logs" THEN {<<"log", "s">>, <<"lo", "gs">>} ELSE {}]

\* XML texts and what a parser reports for them: an element with content,
\* characters that may come in two pieces, an empty element that is written
\* back longer than it was, one that is not closed, and an attribute, whose
\* quotes are not written back.
Element == <<"<", "b", ">", "x", "<", "/", "b", ">">>
Chars == <<"x", "y">>
Empty == <<"<", "b", "/", ">", "x", "x">>
Unclosed == <<"<", "b", ">">>
Attribute == <<"<", "b", " ", "a", "=", "'v'", "/", ">">>

MCMarkup ==
  Element :> {<<Start("b", <<>>), Characters(<<"x">>), End("b")>>}
  @@ Chars :> {<<Characters(Chars)>>, <<Characters(<<"x">>), Characters(<<"y">>)>>}
  @@ Empty :> {<<Start("b", <<>>), End("b"), Characters(<<"x", "x">>)>>}
  @@ Unclosed :> {<<Start("b", <<>>), Malformed>>}
  @@ Attribute :> {<<Start("b", <<<<"a", "v">>>>), End("b")>>}

\* Values of each type, and lists of them for the parameters ps.
MCValue ==
  [STRING |-> {<<>>, <<"a", "b">>, <<"a", "]]>">>, <<"a", "a", "a">>},
   XML |-> {Element, Chars, Empty, Unclosed, Attribute},
   DATE |-> {<<"d", "t">>}, INT |-> {12}, LONG |-> {-1}, VOID |-> {}]
Lists(f, ps, value) ==
  FoldLeft(LAMBDA lists, i : {Append(l, v) : l \in lists, v \in value[Params[f][i].type]}, {<<>>}, ps)
MCCalls == [f \in Function |-> Lists(f, In(f), MCValue)]

\* Values whose documents are well-formed; functions store these.
MCWellFormed ==
  [STRING |-> {<<"a">>}, XML |-> {Chars}, DATE |-> {<<"d", "t">>}, INT |-> {1}, LONG |-> {1}, VOID |-> {}]
MCResult == [f \in Registered |-> Lists(f, Results(f), MCWellFormed)]

\* Strings that end the CDATA section they travel in.
MCMalformedCalls ==
  [f \in Function |-> Lists(f, In(f), [MCWellFormed EXCEPT !.STRING = {<<"a">>, <<"]]>">>}])]
=============================================================================
