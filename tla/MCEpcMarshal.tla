---------------------------- MODULE MCEpcMarshal ----------------------------
(***************************************************************************)
(* Functions and values for EpcMarshal: an argument of every type and mode,*)
(* texts that look like the digit of a type, a oneway function and one that*)
(* the listener does not know.                                             *)
(***************************************************************************)
EXTENDS EpcMarshal, TLC

P(mode, type, size) == [mode |-> mode, type |-> type, size |-> size]

MCParams ==
  [mix |-> <<P("IN", "STRING", 3), P("OUT", "STRING", 4), P("INOUT", "INT", 4), P("OUT", "LONG", 8)>>,
   log |-> <<P("IN", "DATE", 18), P("IN", "STRING", 4), P("IN", "XML", 4), P("OUT", "VOID", 0)>>,
   say |-> <<P("INOUT", "XML", 4), P("OUT", "STRING", 3), P("IN", "STRING", 3), P("OUT", "VOID", 0)>>,
   old |-> <<P("IN", "LONG", 8), P("OUT", "VOID", 0)>>]

MCIntMin == -4
MCNumber == (-12 .. 3) \cup {9}
MCChar == STRING
MCDecimal == [n \in MCNumber |-> ToString(n)]
MCHexDigits == [n \in 0 .. MaxLength |-> "#" \o ToString(n)]

\* 9 is a number that only an Oracle integer holds.
MCValue ==
  [STRING |-> {<<>>, <<"2">>, <<"e", "a">>, <<"a", "b", "c", "d">>},
   XML |-> {<<"x">>, <<"<", "/>">>}, DATE |-> {<<"now">>}, INT |-> {-4, 1, 9}, LONG |-> {1, 9}, VOID |-> {}]

\* Lists of these values are what functions store.
MCResultOf ==
  [STRING |-> {<<>>, <<"3">>, <<"e">>, <<"a", "b", "c">>}, XML |-> {<<"x">>}, DATE |-> {<<"now">>},
   INT |-> {-4, 1}, LONG |-> {9}, VOID |-> {}]
MCResult ==
  [f \in Registered |->
     FoldLeft(LAMBDA lists, i : {Append(l, v) : l \in lists, v \in MCResultOf[Params[f][i].type]},
              {<<>>}, Results(f))]
=============================================================================
