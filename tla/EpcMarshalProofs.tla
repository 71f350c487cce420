--------------------------- MODULE EpcMarshalProofs ---------------------------
(***************************************************************************)
(* What the stub packs the listener reads: for every table of parameters,  *)
(* all texts and numbers, and every size of the buffers and the messages.  *)
(***************************************************************************)
EXTENDS EpcMarshal, EpcParameterProofs

Values == UNION {Value[type] : type \in Type}

-----------------------------------------------------------------------------
(* Fields.                                                                 *)

LEMMA CodesAreText ==
  \A type \in Type \ {"VOID"} : type \in DOMAIN Digit /\ Digit[type] \in Char \ TwoBytes
BY MarshalAssumption DEF Type, Digit

LEMMA LengthIsText ==
  ASSUME NEW n \in 0 .. MaxLength
  PROVE  Hex(n) \in Char \ TwoBytes /\ IsLength(Hex(n)) /\ Length(Hex(n)) = n
<1>1. /\ HexDigits \in [0 .. MaxLength -> Char \ TwoBytes]
      /\ \A m \in 0 .. MaxLength : HexDigits[m] = HexDigits[n] => m = n
  BY MarshalAssumption DEF IsInjective
<1>2. QED
  BY <1>1 DEF Hex, IsLength, Length

LEMMA PairIsText ==
  ASSUME NEW a \in Char, NEW b \in Char
  PROVE  <<a, b>> \in Text /\ Len(<<a, b>>) = 2
BY DEF Text

\* A short text is one that has a length.
Sendable == {text \in Text : Bytes(text) <= MaxLength}

LEMMA FieldParts ==
  ASSUME NEW type \in Type \ {"VOID"}, NEW text \in Sendable
  PROVE  \E a, b \in Char :
           /\ a = Digit[type] /\ b = Hex(Bytes(text)) /\ IsLength(b) /\ Length(b) = Bytes(text)
           /\ Field(type, text) = <<a, b>> \o text
<1>1. Bytes(text) \in 0 .. MaxLength
  BY BytesType, MarshalAssumption DEF Sendable
<1>2. QED
  BY <1>1, CodesAreText, LengthIsText DEF Field

LEMMA FieldIsText ==
  ASSUME NEW type \in Type \ {"VOID"}, NEW text \in Sendable
  PROVE  Field(type, text) \in Text /\ Len(Field(type, text)) = 2 + Len(text)
<1>1. PICK a \in Char, b \in Char : Field(type, text) = <<a, b>> \o text
  BY FieldParts
<1>2. text \in Text
  BY DEF Sendable
<1>3. QED
  BY <1>1, <1>2, PairIsText, Joined

\* The reader finds the type, the text and what follows it.
Reads(msg, type, text, rest) ==
  /\ msg \in Text /\ msg # <<>> /\ msg[1] = Digit[type] /\ IsLength(msg[2])
  /\ Argument(msg) = text /\ After(msg) = rest

LEMMA FieldIsRead ==
  ASSUME NEW type \in Type \ {"VOID"}, NEW text \in Sendable, NEW rest \in Text,
         NEW msg, msg = Field(type, text) \o rest
  PROVE  Reads(msg, type, text, rest)
<1>1. PICK a \in Char, b \in Char :
        /\ a = Digit[type] /\ b = Hex(Bytes(text)) /\ IsLength(b) /\ Length(b) = Bytes(text)
        /\ Field(type, text) = <<a, b>> \o text
  BY FieldParts, Zenon
<1>2. text \in Text /\ Len(text) \in Nat /\ Bytes(text) \in Nat
  BY BytesType DEF Sendable
<1>3. PICK head \in Text : head = <<a, b>> /\ Len(head) = 2 /\ head[1] = a /\ head[2] = b
  BY PairIsText
<1>4. text \o rest \in Text /\ msg = head \o (text \o rest)
  <2>1. Field(type, text) = head \o text
    BY <1>1, <1>3
  <2>2. text \o rest \in Text /\ (head \o text) \o rest = head \o (text \o rest)
    BY <1>2, <1>3, Joined, JoinedAgain
  <2>3. QED
    BY <2>1, <2>2
<1>5. msg \in Text /\ msg # <<>> /\ msg[1] = a /\ msg[2] = b
  <2>1. msg \in Text /\ Len(msg) = 2 + Len(text \o rest) /\ Len(text \o rest) \in Nat
    BY <1>3, <1>4, Joined
  <2>2. 1 \in 1 .. Len(head) /\ 2 \in 1 .. Len(head)
    BY <1>3
  <2>3. msg[1] = head[1] /\ msg[2] = head[2]
    BY <1>4, <2>2, First
  <2>4. msg # <<>>
    BY <2>1
  <2>5. QED
    BY <1>3, <2>1, <2>3, <2>4
<1>6. Rest(msg, 2) = text \o rest
  <2>1. SubSeq(head \o (text \o rest), Len(head) + 1, Len(head \o (text \o rest))) = text \o rest
    BY <1>4, JoinedParts, Zenon
  <2>2. QED
    BY <1>3, <1>4, <2>1 DEF Rest
<1>7. Argument(msg) = text
  BY <1>1, <1>2, <1>5, <1>6, CutOfJoined DEF Argument
<1>8. After(msg) = rest
  <2>1. Field(type, text) \in Text /\ Len(Field(type, text)) = 2 + Len(text)
    BY FieldIsText
  <2>2. SubSeq(msg, Len(Field(type, text)) + 1, Len(msg)) = rest
    BY <2>1, JoinedParts
  <2>3. QED
    BY <1>7, <2>1, <2>2 DEF After, Rest
<1>9. QED
  BY <1>1, <1>5, <1>7, <1>8 DEF Reads

-----------------------------------------------------------------------------
(* Parameters and their values.                                            *)

LEMMA TableIs ==
  ASSUME NEW f \in Function, NEW i \in Index(f)
  PROVE  /\ Params[f][i].type \in Type /\ Params[f][i].size \in Nat
         /\ Params[f][i].type = "VOID" => Params[f][i].mode = "OUT"
         /\ Params[f][i].type \in Texts => Params[f][i].size \in 1 .. MaxLength
BY ParametersAssumption, MarshalAssumption DEF Index

LEMMA NumeralIsSendable ==
  ASSUME NEW n \in Number
  PROVE  Numeral(n) \in Sendable
<1>1. MaxLength \in Nat \ {0, 1}
  BY MarshalAssumption
<1>2. QED
  BY <1>1, NumeralIsText DEF Sendable

\* An argument that set_request_parameter accepts has a text.
LEMMA AcceptedIsSendable ==
  ASSUME NEW f \in Function, NEW i \in Index(f), NEW p, p = Params[f][i], p.type # "VOID",
         NEW value \in Value[p.type], ~Raises(p, value)
  PROVE  /\ TextOf(p.type, value) \in Sendable
         /\ p.type \in Texts => value \in Text /\ Bytes(value) < p.size
         /\ p.type \notin Texts => value \in Number
<1>1. p.type \in Type /\ p.size \in Nat /\ (p.type \in Texts => p.size \in 1 .. MaxLength)
  BY TableIs
<1>2. CASE p.type \notin Texts
  <2>1. value \in Number
    BY <1>1, <1>2, MarshalAssumption
  <2>2. QED
    BY <1>2, <2>1, NumeralIsSendable DEF TextOf
<1>3. CASE p.type \in Texts
  <2>1. value \in Text /\ Bytes(value) \in Nat
    <3>1. value \in Seq(Char)
      BY <1>1, <1>3, MarshalAssumption
    <3>2. QED
      BY <3>1, BytesType DEF Text
  <2>2. Bytes(value) < p.size
    <3>1. CASE p.type \in {"STRING", "XML"}
      BY <1>1, <2>1, <3>1 DEF Raises
    <3>2. CASE p.type = "DATE"
      BY <3>2, MarshalAssumption
    <3>3. QED
      BY <1>3, <3>1, <3>2 DEF Texts
  <2>3. Bytes(value) <= MaxLength
    <3>1. MaxLength \in Nat /\ p.size \in 1 .. MaxLength
      BY <1>1, <1>3, MarshalAssumption
    <3>2. QED
      BY <2>1, <2>2, <3>1
  <2>4. QED
    BY <1>3, <2>1, <2>2, <2>3 DEF TextOf, Sendable
<1>4. QED
  BY <1>2, <1>3

\* What a buffer holds has a text.
LEMMA HeldIsSendable ==
  ASSUME NEW f \in Function, NEW i \in Index(f), Params[f][i].type # "VOID",
         NEW value, Holds(Params[f][i], value)
  PROVE  TextOf(Params[f][i].type, value) \in Sendable
<1>1. PICK p : p = Params[f][i]
  OBVIOUS
<1>2. p.type \in Type /\ (p.type \in Texts => p.size \in 1 .. MaxLength)
  BY <1>1, TableIs
<1>3. CASE p.type \in Texts
  <2>1. value \in Text /\ Bytes(value) < p.size /\ Bytes(value) \in Nat /\ MaxLength \in Nat
    BY <1>1, <1>3, BytesType, MarshalAssumption DEF Holds
  <2>2. QED
    BY <1>1, <1>2, <1>3, <2>1 DEF TextOf, Sendable
<1>4. CASE p.type \notin Texts
  <2>1. value \in Number
    <3>1. p.type \in {"INT", "LONG"}
      BY <1>1, <1>2, <1>4 DEF Type, Texts
    <3>2. QED
      BY <1>1, <3>1, ParametersAssumption DEF Holds
  <2>2. QED
    BY <1>1, <1>4, <2>1, NumeralIsSendable DEF TextOf
<1>5. QED
  BY <1>3, <1>4

LEMMA EndIsSuffix ==
  ASSUME NEW s \in Text, NEW t \in Text
  PROVE  IsSuffix(t, s \o t)
<1> DEFINE u == s \o t
<1>1. /\ u \in Text /\ Len(s) \in Nat /\ Len(t) \in Nat /\ Len(u) = Len(s) + Len(t)
      /\ \A k \in 1 .. Len(t) : u[Len(s) + k] = t[k]
  BY Joined
<1> HIDE DEF u
<1>2. \A text \in Text :
        /\ Reverse(text) \in Text /\ Len(Reverse(text)) = Len(text)
        /\ \A k \in 1 .. Len(text) : Reverse(text)[k] = text[Len(text) - k + 1]
  <2> TAKE text \in Text
  <2>1. Len(text) \in Nat /\ text \in Seq(Char)
    BY DEF Text
  <2>2. \A k \in 1 .. Len(text) : Len(text) - k + 1 \in 1 .. Len(text)
    BY <2>1
  <2>3. Reverse(text) = [k \in 1 .. Len(text) |-> text[Len(text) - k + 1]]
    BY DEF Reverse
  <2>4. \A k \in 1 .. Len(text) : text[Len(text) - k + 1] \in Char
    BY <2>1, <2>2
  <2>5. QED
    BY <2>1, <2>3, <2>4 DEF Text
<1>3. PICK a \in Text, b \in Text :
        /\ a = Reverse(t) /\ Len(a) = Len(t) /\ b = Reverse(u) /\ Len(b) = Len(u)
        /\ \A k \in 1 .. Len(t) : a[k] = b[k]
  <2>1. \A k \in 1 .. Len(t) : Reverse(t)[k] = Reverse(u)[k]
    <3> TAKE k \in 1 .. Len(t)
    <3>1. /\ k \in 1 .. Len(u) /\ Len(t) - k + 1 \in 1 .. Len(t)
          /\ Len(u) - k + 1 = Len(s) + (Len(t) - k + 1)
      BY <1>1
    <3>2. Reverse(t)[k] = t[Len(t) - k + 1] /\ Reverse(u)[k] = u[Len(u) - k + 1]
      BY <1>1, <1>2, <3>1
    <3>3. QED
      BY <1>1, <3>1, <3>2
  <2>2. QED
    BY <1>1, <1>2, <2>1
<1>4. Len(a) \in 0 .. Len(b)
  BY <1>1, <1>3
<1>5. SubSeq(b, 1, Len(a)) = a
  <2>1. PICK c \in Text, d \in Text :
          /\ c = SubSeq(b, 1, Len(a)) /\ Len(c) = Len(a)
          /\ d = SubSeq(b, Len(a) + 1, Len(b)) /\ Len(d) = Len(b) - Len(a)
          /\ b = c \o d
    BY <1>4, SplitInTwo, Zenon
  <2>2. Len(c) = Len(a) /\ b = c \o d
    BY <2>1, Zenon
  <2>3. \A k \in 1 .. Len(a) : c[k] = a[k]
    <3> TAKE k \in 1 .. Len(a)
    <3>1. b[k] = c[k]
      BY <2>2, First
    <3>2. QED
      BY <1>3, <3>1
  <2>4. c = a
    BY <2>2, <2>3, SeqEqual DEF Text
  <2>5. QED
    BY <2>1, <2>4, Zenon
<1>6. SubSeq(a, 1, Len(a)) = a
  BY SubSeqFull DEF Text
<1>7. Len(a) <= Len(b)
  BY <1>1, <1>3
<1>8. QED
  BY <1>3, <1>5, <1>6, <1>7, Zenon DEF IsSuffix, IsPrefix, u

\* The text of an accepted argument is stored as that argument, or it is an
\* XML text that does not fit behind what its buffer holds.
LEMMA ArgumentIsStored ==
  ASSUME NEW f \in Function, NEW i \in Index(f), NEW p, p = Params[f][i], p.type # "VOID",
         NEW value \in Value[p.type], ~Raises(p, value), NEW held, Holds(p, held),
         NEW set, set = SetParameter(p, held, TextOf(p.type, value))
  PROVE  /\ Holds(p, set.data)
         /\ set.error = "OK" => ArrivesAs(p.type, value, set.data)
         /\ set.error # "OK" => p.type = "XML"
<1>1. /\ TextOf(p.type, value) \in Text
      /\ p.type \in Texts => value \in Text /\ Bytes(value) < p.size
      /\ p.type \notin Texts => value \in Number
  BY AcceptedIsSendable DEF Sendable
<1>2. Holds(p, set.data)
  BY <1>1, BufferHolds
<1>3. CASE p.type = "XML"
  <2>1. held \in Text /\ value \in Text /\ TextOf(p.type, value) = value
    BY <1>1, <1>3 DEF Holds, Texts, TextOf
  <2>2. IsSuffix(value, held \o value)
    BY <2>1, EndIsSuffix
  <2>3. set.error = "OK" => set.data = held \o value
    BY <1>3, <2>1 DEF SetParameter, Stored
  <2>4. QED
    BY <1>2, <1>3, <2>2, <2>3 DEF ArrivesAs
<1>4. CASE p.type \in {"STRING", "DATE"}
  <2>1. set.data = value /\ set.error = "OK"
    BY <1>1, <1>4 DEF SetParameter, Stored, TextOf, Texts
  <2>2. QED
    BY <1>2, <1>4, <2>1 DEF ArrivesAs
<1>5. CASE p.type \in {"INT", "LONG"}
  <2>1. value \in Number /\ TextOf(p.type, value) = Numeral(value)
    BY <1>1, <1>5 DEF TextOf, Texts
  <2>2. Strtol(Numeral(value)) = value
    BY <2>1, NumeralIsRead
  <2>3. set.error = "OK" /\ set.data = IF p.type = "INT" THEN ToInt(value) ELSE value
    BY <1>5, <2>1, <2>2 DEF SetParameter, Stored
  <2>4. QED
    BY <1>2, <1>5, <2>3 DEF ArrivesAs
<1>6. QED
  <2>1. p.type \in Type
    BY TableIs
  <2>2. QED
    BY <1>3, <1>4, <1>5, <2>1 DEF Type

-----------------------------------------------------------------------------
(* The request.                                                            *)

ArgumentField(f, args, k) ==
  LET type == Params[f][In(f)[k]].type IN Field(type, TextOf(type, args[k]))

\* follow[k] is what follows in the request from argument k on.
Follows(f, args, follow) ==
  /\ follow \in [1 .. Len(args) + 1 -> Text]
  /\ follow[Len(args) + 1] = <<>>
  /\ \A k \in 1 .. Len(args) : follow[k] = ArgumentField(f, args, k) \o follow[k + 1]

Names(f) == Field("STRING", <<"demo">>) \o Field("STRING", <<f>>)
IsRequest(f, args, msg) ==
  \E follow : Follows(f, args, follow) /\ msg = Names(f) \o follow[1]
IsLeft(f, args, n, msg) ==
  \E follow : Follows(f, args, follow) /\ msg = follow[n + 1]

\* The stub could pack the arguments.
Accepts(f, args) ==
  /\ Len(args) <= Len(In(f))
  /\ \A k \in 1 .. Len(args) :
       /\ args[k] \in Value[Params[f][In(f)[k]].type]
       /\ ~Raises(Params[f][In(f)[k]], args[k])

LEMMA CharacterIsSendable ==
  ASSUME NEW c \in Char
  PROVE  <<c>> \in Sendable
<1>1. MaxLength \in Nat \ {0, 1}
  BY MarshalAssumption
<1>2. QED
  BY <1>1, CharacterIsText DEF Sendable

LEMMA NamesAreText ==
  ASSUME NEW f \in Function
  PROVE  /\ <<"demo">> \in Sendable /\ <<f>> \in Sendable
         /\ Field("STRING", <<"demo">>) \in Text /\ Field("STRING", <<f>>) \in Text
         /\ Names(f) \in Text /\ "STRING" \in Type \ {"VOID"}
<1>1. <<"demo">> \in Sendable /\ <<f>> \in Sendable
  <2>1. "demo" \in Char /\ f \in Char
    BY MarshalAssumption, ParametersAssumption
  <2>2. QED
    BY <2>1, CharacterIsSendable
<1>2. "STRING" \in Type \ {"VOID"}
  BY DEF Type
<1>3. Field("STRING", <<"demo">>) \in Text /\ Field("STRING", <<f>>) \in Text
  BY <1>1, <1>2, FieldIsText
<1>4. QED
  BY <1>1, <1>2, <1>3, Joined DEF Names

LEMMA ArgumentFieldIsText ==
  ASSUME NEW f \in Function, NEW k \in 1 .. Len(In(f)), NEW type, type = Params[f][In(f)[k]].type,
         NEW value \in Value[type], ~Raises(Params[f][In(f)[k]], value)
  PROVE  /\ TextOf(type, value) \in Sendable /\ type \in Type \ {"VOID"}
         /\ Field(type, TextOf(type, value)) \in Text
<1>1. PICK i \in Index(f) : i = In(f)[k] /\ Params[f][i].type \in Type \ {"VOID"}
  BY ArgumentIs
<1>2. TextOf(type, value) \in Sendable
  BY <1>1, AcceptedIsSendable
<1>3. QED
  BY <1>1, <1>2, FieldIsText

LEMMA FirstRequest ==
  ASSUME NEW f \in Function
  PROVE  IsRequest(f, <<>>, Names(f)) /\ Accepts(f, <<>>)
<1> DEFINE follow == [k \in 1 .. 1 |-> <<>>]
<1>1. follow \in [1 .. Len(<<>>) + 1 -> Text] /\ follow[1] = <<>> /\ Len(<<>>) = 0
  BY BytesOfNothing
<1>2. Follows(f, <<>>, follow)
  BY <1>1 DEF Follows
<1>3. Names(f) = Names(f) \o follow[1]
  BY <1>1, NamesAreText, JoinedToNothing
<1>4. Len(In(f)) \in Nat
  BY ArgumentIs
<1>5. Accepts(f, <<>>)
  BY <1>1, <1>4 DEF Accepts
<1> HIDE DEF follow
<1>6. IsRequest(f, <<>>, Names(f))
  BY <1>2, <1>3, Zenon DEF IsRequest
<1>7. QED
  BY <1>5, <1>6

\* One more argument.
LEMMA LongerRequest ==
  ASSUME NEW f \in Function, NEW args \in Seq(Values), Accepts(f, args), NEW msg,
         IsRequest(f, args, msg), Len(args) < Len(In(f)),
         NEW p, p = Params[f][In(f)[Len(args) + 1]],
         NEW value \in Value[p.type], ~Raises(p, value)
  PROVE  /\ Accepts(f, Append(args, value)) /\ Append(args, value) \in Seq(Values)
         /\ IsRequest(f, Append(args, value), msg \o Field(p.type, TextOf(p.type, value)))
<1>1. PICK n \in Nat : n = Len(args) /\ n + 1 \in 1 .. Len(In(f))
  BY ArgumentIs
<1>2. PICK field \in Text : field = Field(p.type, TextOf(p.type, value)) /\ p.type \in Type
  BY <1>1, ArgumentFieldIsText
<1>3. PICK longer \in Seq(Values) :
        /\ longer = Append(args, value) /\ Len(longer) = n + 1 /\ longer[n + 1] = value
        /\ \A k \in 1 .. n : longer[k] = args[k]
  <2>1. value \in Values
    BY <1>2 DEF Values
  <2>2. QED
    <3>1. /\ Append(args, value) \in Seq(Values) /\ Len(Append(args, value)) = Len(args) + 1
          /\ \A k \in 1 .. Len(args) : Append(args, value)[k] = args[k]
          /\ Append(args, value)[Len(args) + 1] = value
      BY <2>1, AppendProperties
    <3>2. QED
      BY <1>1, <3>1
<1>4. Accepts(f, longer)
  <2>1. ASSUME NEW k \in 1 .. n + 1
        PROVE  longer[k] \in Value[Params[f][In(f)[k]].type] /\ ~Raises(Params[f][In(f)[k]], longer[k])
    <3>1. CASE k \in 1 .. n
      BY <1>1, <1>3, <3>1 DEF Accepts
    <3>2. CASE k = n + 1
      BY <1>1, <1>3, <3>2
    <3>3. QED
      BY <3>1, <3>2
  <2>2. QED
    BY <1>1, <1>3, <2>1 DEF Accepts
<1>5. PICK follow : Follows(f, args, follow) /\ msg = Names(f) \o follow[1]
  BY DEF IsRequest
<1>6. /\ follow \in [1 .. n + 1 -> Text] /\ follow[n + 1] = <<>>
      /\ \A k \in 1 .. n : follow[k] = ArgumentField(f, args, k) \o follow[k + 1]
  BY <1>1, <1>5 DEF Follows
<1> DEFINE more == [k \in 1 .. n + 2 |-> IF k <= n + 1 THEN follow[k] \o field ELSE <<>>]
<1>7. /\ more \in [1 .. n + 2 -> Text] /\ more[n + 2] = <<>>
      /\ \A k \in 1 .. n + 1 : more[k] = follow[k] \o field
  <2>1. \A k \in 1 .. n + 1 : follow[k] \in Text /\ follow[k] \o field \in Text
    BY <1>6, Joined
  <2>2. <<>> \in Text
    BY BytesOfNothing
  <2>3. QED
    BY <2>1, <2>2
<1> HIDE DEF more
<1>8. ASSUME NEW k \in 1 .. n + 1
      PROVE  more[k] = ArgumentField(f, longer, k) \o more[k + 1]
  <2>1. CASE k = n + 1
    <3>1. ArgumentField(f, longer, k) = field
      BY <1>1, <1>2, <1>3, <2>1 DEF ArgumentField
    <3>2. more[k] = <<>> \o field /\ more[k + 1] = <<>>
      <4>1. k + 1 = n + 2
        BY <2>1
      <4>2. QED
        BY <1>6, <1>7, <2>1, <4>1
    <3>3. <<>> \o field = field \o <<>>
      BY JoinedToNothing
    <3>4. QED
      BY <3>1, <3>2, <3>3
  <2>2. CASE k \in 1 .. n
    <3>0. k \in 1 .. n + 1 /\ k + 1 \in 1 .. n + 1
      BY <2>2
    <3>1. PICK here \in Text : here = ArgumentField(f, args, k) /\ here = ArgumentField(f, longer, k)
      <4>1. ArgumentField(f, args, k) = ArgumentField(f, longer, k)
        BY <1>3, <2>2 DEF ArgumentField
      <4>2. /\ k \in 1 .. Len(In(f)) /\ args[k] \in Value[Params[f][In(f)[k]].type]
            /\ ~Raises(Params[f][In(f)[k]], args[k])
        BY <1>1, <2>2, ArgumentIs DEF Accepts
      <4>3. ArgumentField(f, args, k) \in Text
        BY <4>2, ArgumentFieldIsText DEF ArgumentField
      <4>4. QED
        BY <4>1, <4>3
    <3>2. follow[k] = here \o follow[k + 1] /\ follow[k + 1] \in Text
      BY <1>6, <2>2, <3>0, <3>1
    <3>3. (here \o follow[k + 1]) \o field = here \o (follow[k + 1] \o field)
      BY <3>2, JoinedAgain
    <3>4. more[k] = follow[k] \o field /\ more[k + 1] = follow[k + 1] \o field
      BY <1>7, <3>0
    <3>5. QED
      BY <3>1, <3>2, <3>3, <3>4
  <2>3. QED
    BY <2>1, <2>2
<1>9. Follows(f, longer, more)
  BY <1>3, <1>7, <1>8, SMTT(30) DEF Follows
<1>10. msg \o field = Names(f) \o more[1]
  <2>1. follow[1] \in Text /\ more[1] = follow[1] \o field
    BY <1>6, <1>7
  <2>2. (Names(f) \o follow[1]) \o field = Names(f) \o (follow[1] \o field)
    BY <2>1, NamesAreText, JoinedAgain, ZenonT(40)
  <2>3. QED
    BY <1>5, <2>1, <2>2
<1>11. QED
  BY <1>2, <1>3, <1>4, <1>9, <1>10 DEF IsRequest

LEMMA BytesLeft ==
  ASSUME NEW s \in Text, NEW t \in Text
  PROVE  Bytes(t) <= Bytes(s \o t)
BY BytesAddUp, BytesType

\* The listener finds the name of the function.
LEMMA NamesAreRead ==
  ASSUME NEW f \in Function, NEW args \in Seq(Values), NEW msg, IsRequest(f, args, msg)
  PROVE  /\ msg \in Text /\ msg # <<>> /\ msg[1] = Digit["STRING"]
         /\ Argument(After(msg)) = <<f>>
         /\ After(After(msg)) \in Text /\ Bytes(After(After(msg))) <= Bytes(msg)
         /\ IsLeft(f, args, 0, After(After(msg)))
<1>1. PICK follow : Follows(f, args, follow) /\ msg = Names(f) \o follow[1]
  BY DEF IsRequest
<1>2. PICK rest \in Text : rest = follow[1] /\ msg = Names(f) \o rest
  <2>1. 1 \in 1 .. Len(args) + 1
    OBVIOUS
  <2>2. QED
    BY <1>1, <2>1 DEF Follows
<1>3. PICK one \in Text, two \in Text :
        one = Field("STRING", <<"demo">>) /\ two = Field("STRING", <<f>>) /\ Names(f) = one \o two
  BY NamesAreText DEF Names
<1>4. PICK tail \in Text : tail = two \o rest
  BY Joined
<1>5. msg = one \o tail
  <2>1. (one \o two) \o rest = one \o (two \o rest)
    BY JoinedAgain
  <2>2. QED
    BY <1>2, <1>3, <1>4, <2>1
<1>6. /\ msg \in Text /\ msg # <<>> /\ msg[1] = Digit["STRING"]
      /\ After(msg) = tail
  <2>1. msg = Field("STRING", <<"demo">>) \o tail
    BY <1>3, <1>5
  <2>2. "STRING" \in Type \ {"VOID"} /\ <<"demo">> \in Sendable
    BY NamesAreText
  <2>3. Reads(msg, "STRING", <<"demo">>, tail)
    BY <1>4, <2>1, <2>2, FieldIsRead
  <2>4. QED
    BY <2>3 DEF Reads
<1>7. Argument(tail) = <<f>> /\ After(tail) = rest
  <2>1. tail = Field("STRING", <<f>>) \o rest
    BY <1>3, <1>4
  <2>2. "STRING" \in Type \ {"VOID"} /\ <<f>> \in Sendable
    BY NamesAreText
  <2>3. Reads(tail, "STRING", <<f>>, rest)
    BY <1>2, <2>1, <2>2, FieldIsRead
  <2>4. QED
    BY <2>3 DEF Reads
<1>8. Bytes(rest) <= Bytes(msg)
  <2>1. Bytes(rest) <= Bytes(Names(f) \o rest)
    BY NamesAreText, BytesLeft
  <2>2. QED
    BY <1>2, <2>1
<1>9. QED
  BY <1>1, <1>2, <1>6, <1>7, <1>8 DEF IsLeft

\* The listener finds the next argument.
LEMMA ArgumentIsRead ==
  ASSUME NEW f \in Function, NEW args \in Seq(Values), Accepts(f, args),
         NEW n \in Nat, n < Len(args), NEW msg, IsLeft(f, args, n, msg),
         NEW type, type = Params[f][In(f)[n + 1]].type
  PROVE  /\ msg # <<>> /\ msg[1] = Digit[type] /\ IsLength(msg[2])
         /\ Argument(msg) = TextOf(type, args[n + 1])
         /\ After(msg) \in Text /\ Bytes(After(msg)) <= Bytes(msg)
         /\ IsLeft(f, args, n + 1, After(msg))
<1>1. PICK follow : Follows(f, args, follow) /\ msg = follow[n + 1]
  BY DEF IsLeft
<1>2. n + 1 \in 1 .. Len(args) /\ n + 1 \in 1 .. Len(In(f)) /\ n + 2 \in 1 .. Len(args) + 1
  BY ArgumentIs DEF Accepts
<1>3. PICK rest \in Text : rest = follow[n + 1 + 1] /\ msg = ArgumentField(f, args, n + 1) \o rest
  <2>1. /\ \A k \in 1 .. Len(args) + 1 : follow[k] \in Text
        /\ follow[n + 1] = ArgumentField(f, args, n + 1) \o follow[n + 1 + 1]
    BY <1>1, <1>2, Zenon DEF Follows
  <2>2. n + 1 + 1 \in 1 .. Len(args) + 1
    BY <1>2
  <2>3. QED
    BY <1>1, <2>1, <2>2, Zenon
<1>4. PICK text \in Sendable :
        /\ text = TextOf(type, args[n + 1]) /\ type \in Type \ {"VOID"}
        /\ Field(type, text) \in Text /\ ArgumentField(f, args, n + 1) = Field(type, text)
  BY <1>2, ArgumentFieldIsText DEF Accepts, ArgumentField
<1>5. /\ msg \in Text /\ msg # <<>> /\ msg[1] = Digit[type] /\ IsLength(msg[2])
      /\ Argument(msg) = text /\ After(msg) = rest
  <2>1. msg = Field(type, text) \o rest
    BY <1>3, <1>4
  <2>2. Reads(msg, type, text, rest)
    BY <1>3, <1>4, <2>1, FieldIsRead
  <2>3. QED
    BY <2>2 DEF Reads
<1>6. Bytes(rest) <= Bytes(msg)
  BY <1>3, <1>4, BytesLeft
<1>7. QED
  BY <1>1, <1>3, <1>4, <1>5, <1>6 DEF IsLeft

-----------------------------------------------------------------------------
(* The response.                                                           *)

CodeField == Field("INT", Numeral(Code[error]))

\* A response, as far as it is written: it fits, and begins with the code.
Begins(msg) ==
  /\ msg \in Text /\ Bytes(msg) <= MaxResponse
  /\ \E rest \in Text : msg = CodeField \o rest

LEMMA CodeIsText ==
  ASSUME error \in DOMAIN Code
  PROVE  /\ Code[error] \in Number /\ Numeral(Code[error]) \in Sendable
         /\ "INT" \in Type \ {"VOID"} /\ CodeField \in Text
         /\ Bytes(CodeField) <= MaxResponse /\ MaxResponse \in Nat
<1>1. Code[error] \in Number /\ Bytes(CodeField) <= MaxResponse /\ MaxResponse \in Nat
  BY MarshalAssumption DEF CodeField
<1>2. "INT" \in Type \ {"VOID"}
  BY DEF Type
<1>3. Numeral(Code[error]) \in Sendable
  BY <1>1, NumeralIsSendable
<1>4. QED
  BY <1>1, <1>2, <1>3, FieldIsText DEF CodeField

LEMMA FirstFieldBegins ==
  ASSUME error \in DOMAIN Code
  PROVE  Begins(FirstField) /\ FirstField = CodeField
<1>1. MaxResponse - Bytes(<<>>) = MaxResponse
  BY BytesOfNothing, CodeIsText
<1>2. FirstField = <<>> \o Cut(CodeField, MaxResponse)
  BY <1>1, Zenon DEF FirstField, Appended, CodeField
<1>3. Cut(CodeField, MaxResponse) = CodeField
  BY CodeIsText, CutOfShort
<1>4. FirstField = CodeField /\ CodeField = CodeField \o <<>> /\ <<>> \in Text
  BY <1>2, <1>3, CodeIsText, JoinedToNothing
<1>5. QED
  BY <1>4, CodeIsText DEF Begins

LEMMA AppendedBegins ==
  ASSUME error \in DOMAIN Code, NEW msg, Begins(msg), NEW field \in Text
  PROVE  Begins(Appended(msg, field))
<1>1. PICK rest \in Text : msg = CodeField \o rest
  BY DEF Begins
<1>2. /\ msg \in Text /\ Bytes(msg) \in Nat /\ Bytes(msg) <= MaxResponse
      /\ MaxResponse \in Nat /\ CodeField \in Text
  BY CodeIsText, BytesType DEF Begins
<1>3. PICK room \in Nat : room = MaxResponse - Bytes(msg)
  BY <1>2
<1>4. PICK kept \in Text : kept = Cut(field, room) /\ Bytes(kept) <= room
  BY CutFits
<1>5. Appended(msg, field) = msg \o kept
  BY <1>3, <1>4, Zenon DEF Appended
<1>6. msg \o kept \in Text /\ Bytes(msg \o kept) <= MaxResponse
  <2>1. Bytes(msg \o kept) = Bytes(msg) + Bytes(kept) /\ Bytes(kept) \in Nat
    BY <1>2, <1>4, BytesAddUp, BytesType
  <2>2. QED
    BY <1>2, <1>3, <1>4, <2>1, Joined
<1>7. msg \o kept = CodeField \o (rest \o kept) /\ rest \o kept \in Text
  <2>1. (CodeField \o rest) \o kept = CodeField \o (rest \o kept)
    BY <1>2, <1>4, JoinedAgain, ZenonT(40)
  <2>2. rest \o kept \in Text
    BY <1>4, Joined
  <2>3. QED
    BY <1>1, <2>1, <2>2
<1>8. QED
  BY <1>5, <1>6, <1>7 DEF Begins

Buffers ==
  /\ DOMAIN data = Registered
  /\ \A f \in Registered :
       DOMAIN data[f] = Index(f) /\ \A i \in Index(f) : Holds(Params[f][i], data[f][i])

LEMMA ResultFieldIsText ==
  ASSUME Buffers, function \in Registered \cup {"none"}, NEW k \in 1 .. Len(Returned)
  PROVE  ResultField(Returned[k]) \in Text
<1>1. function \in Registered /\ function \in Function /\ Returned = Results(function)
  BY MarshalAssumption DEF Returned
<1>2. PICK i \in Index(function) : i = Returned[k] /\ Params[function][i].type \in Type \ {"VOID"}
  BY <1>1, ResultIs
<1>3. Holds(Params[function][i], data[function][i])
  BY <1>1 DEF Buffers
<1>4. TextOf(Params[function][i].type, data[function][i]) \in Sendable
  BY <1>1, <1>2, <1>3, HeldIsSendable
<1>5. QED
  BY <1>2, <1>4, FieldIsText DEF ResultField

LEMMA ReturnedCount ==
  ASSUME function \in Registered \cup {"none"}
  PROVE  Len(Returned) \in Nat
<1>1. CASE function = "none"
  BY <1>1 DEF Returned
<1>2. CASE function # "none"
  BY <1>2, MarshalAssumption, ResultIs DEF Returned
<1>3. QED
  BY <1>1, <1>2

\* Written is defined: each field is appended to a text.
LEMMA WrittenIs ==
  ASSUME Buffers, function \in Registered \cup {"none"}, error \in DOMAIN Code
  PROVE  Written = [k \in 0 .. Len(Returned) |->
                      IF k = 0 THEN FirstField ELSE Appended(Written[k - 1], ResultField(Returned[k]))]
<1> DEFINE Beginnings == {msg \in Text : Begins(msg)}
           next == [p \in (1 .. Len(Returned)) \X Beginnings |-> Appended(p[2], ResultField(Returned[p[1]]))]
           Body(W) == [k \in 0 .. Len(Returned) |->
                         IF k = 0 THEN FirstField ELSE Appended(W[k - 1], ResultField(Returned[k]))]
<1>1. FirstField \in Beginnings
  BY FirstFieldBegins DEF Begins
<1>2. ASSUME NEW k \in 1 .. Len(Returned), NEW msg \in Beginnings
      PROVE  Appended(msg, ResultField(Returned[k])) \in Beginnings
  BY ResultFieldIsText, AppendedBegins DEF Begins
<1>3. next \in [(1 .. Len(Returned)) \X Beginnings -> Beginnings]
  BY <1>2
<1>4. \A k \in 1 .. Len(Returned), msg \in Beginnings :
        next[<<k, msg>>] = Appended(msg, ResultField(Returned[k]))
  OBVIOUS
<1> HIDE DEF Beginnings, next
<1>5. PICK g \in [0 .. Len(Returned) -> Beginnings] : Follow(g, Len(Returned), FirstField, next)
  BY <1>1, <1>3, ReturnedCount, Recursion
<1>6. g = Body(g)
  <2>1. ASSUME NEW k \in 0 .. Len(Returned), k # 0
        PROVE  g[k] = Appended(g[k - 1], ResultField(Returned[k]))
    <3>1. k \in 1 .. Len(Returned) /\ k - 1 \in 0 .. Len(Returned)
      BY <2>1, ReturnedCount
    <3>2. g[k] = next[<<k, g[k - 1]>>] /\ g[k - 1] \in Beginnings
      BY <1>5, <3>1 DEF Follow
    <3>3. QED
      BY <1>4, <3>1, <3>2
  <2>2. g[0] = FirstField
    BY <1>5 DEF Follow
  <2>3. QED
    BY <2>1, <2>2
<1>7. \E W : W = Body(W)
  BY <1>6
<1>8. (CHOOSE W : W = Body(W)) = Body(CHOOSE W : W = Body(W))
  <2> HIDE DEF Body
  <2>1. QED
    BY <1>7, Zenon
<1>9. Written = CHOOSE W : W = Body(W)
  BY Zenon DEF Written
<1>10. Written = Body(Written)
  BY <1>8, <1>9
<1>11. QED
  BY <1>10

LEMMA WrittenBegins ==
  ASSUME Buffers, function \in Registered \cup {"none"}, error \in DOMAIN Code
  PROVE  \A k \in 0 .. Len(Returned) : Begins(Written[k])
<1>1. PICK n \in Nat : n = Len(Returned)
  BY ReturnedCount
<1> DEFINE Done == {k \in Nat : k <= n => Begins(Written[k])}
<1>2. 0 \in Done
  <2>1. Written[0] = FirstField
    BY <1>1, WrittenIs
  <2>2. QED
    BY <2>1, FirstFieldBegins
<1>3. ASSUME NEW k \in Nat, k \in Done PROVE k + 1 \in Done
  <2> SUFFICES ASSUME k + 1 <= n PROVE Begins(Written[k + 1])
    OBVIOUS
  <2>1. k + 1 \in 0 .. Len(Returned) /\ k + 1 \in 1 .. Len(Returned) /\ k + 1 # 0 /\ k + 1 - 1 = k
    BY <1>1
  <2>2. Written[k + 1] = Appended(Written[k], ResultField(Returned[k + 1]))
    BY <2>1, WrittenIs
  <2>3. Begins(Written[k]) /\ ResultField(Returned[k + 1]) \in Text
    BY <1>3, <2>1, ResultFieldIsText
  <2>4. QED
    BY <2>2, <2>3, AppendedBegins
<1>4. Nat \subseteq Done
  <2> HIDE DEF Done
  <2>1. QED
    BY <1>2, <1>3, Induction
<1>5. QED
  BY <1>1, <1>4

LEMMA ResponseBegins ==
  ASSUME Buffers, function \in Registered \cup {"none"}, error \in DOMAIN Code
  PROVE  Begins(Response)
<1>1. Len(Returned) \in 0 .. Len(Returned)
  BY ReturnedCount
<1>2. QED
  BY <1>1, WrittenBegins DEF Response

\* A response of which the code is read as OK was sent with OK.
LEMMA CodeIsRead ==
  ASSUME error \in DOMAIN Code, Begins(g_msg), CodeIsOK
  PROVE  error = "OK"
<1>1. PICK rest \in Text : g_msg = CodeField \o rest
  BY DEF Begins
<1>2. PICK text \in Sendable : text = Numeral(Code[error]) /\ CodeField = Field("INT", text)
  BY CodeIsText DEF CodeField
<1>3. PICK a \in Char, b \in Char :
        /\ a = Digit["INT"] /\ b = Hex(Bytes(text)) /\ IsLength(b) /\ Length(b) = Bytes(text)
        /\ Field("INT", text) = <<a, b>> \o text
  BY CodeIsText, FieldParts, Zenon
<1>4. /\ text \in Text /\ Len(text) = 1 /\ text[1] = Decimal[Code[error]] /\ Bytes(text) \in 1 .. 2
  BY <1>2, CodeIsText, NumeralIsText DEF Numeral
<1>5. PICK head \in Text : head = <<a, b>> /\ Len(head) = 2 /\ head[1] = a /\ head[2] = b
  BY PairIsText
<1>6. PICK field \in Text :
        /\ field = CodeField /\ Len(field) = 3 /\ field[2] = b /\ field[3] = Decimal[Code[error]]
  <2>1. PICK field \in Text : field = CodeField
    BY CodeIsText
  <2>2. field = head \o text
    BY <1>2, <1>3, <1>5, <2>1
  <2>3. Len(field) = 3
    <3>1. Len(head \o text) = Len(head) + Len(text)
      BY <1>4, <1>5, Joined
    <3>2. QED
      BY <1>4, <1>5, <2>2, <3>1
  <2>4. field[2] = head[2]
    <3>1. 2 \in 1 .. Len(head)
      BY <1>5
    <3>2. QED
      BY <2>2, <3>1, First
  <2>5. field[3] = text[1]
    <3>1. 1 \in 1 .. Len(text) /\ Len(head) + 1 = 3
      BY <1>4, <1>5
    <3>2. \A k \in 1 .. Len(text) : (head \o text)[Len(head) + k] = text[k]
      BY <1>4, <1>5, Joined
    <3>3. (head \o text)[Len(head) + 1] = text[1]
      BY <3>1, <3>2, Zenon
    <3>4. QED
      BY <2>2, <3>1, <3>3
  <2>6. QED
    BY <1>4, <1>5, <2>1, <2>3, <2>4, <2>5
<1>7. /\ g_msg \in Seq(Char) /\ Len(g_msg) \in Nat /\ Len(g_msg) >= 3
      /\ g_msg[2] = b /\ g_msg[3] = Decimal[Code[error]]
  <2>1. g_msg = field \o rest
    BY <1>1, <1>6
  <2>2. g_msg \in Text /\ Len(g_msg) = 3 + Len(rest) /\ Len(rest) \in Nat
    <3>1. field \o rest \in Text /\ Len(field \o rest) = Len(field) + Len(rest) /\ Len(rest) \in Nat
      BY <1>1, <1>6, Joined
    <3>2. QED
      BY <1>6, <2>1, <3>1
  <2>3. 2 \in 1 .. Len(field) /\ 3 \in 1 .. Len(field)
    BY <1>6
  <2>4. g_msg[2] = field[2] /\ g_msg[3] = field[3]
    BY <2>1, <2>3, First
  <2>5. QED
    BY <1>6, <2>2, <2>4 DEF Text
<1>8. Counted = Bytes(text)
  BY <1>3, <1>7 DEF Counted
<1>9. PICK end \in Nat : end >= 3 /\ end <= Len(g_msg) /\ Taken = SubSeq(g_msg, 3, end)
  <2>1. CASE 2 + Counted > Len(g_msg)
    BY <1>7, <2>1 DEF Taken
  <2>2. CASE ~(2 + Counted > Len(g_msg))
    <3>1. 2 + Counted \in Nat /\ 2 + Counted >= 3
      BY <1>4, <1>8
    <3>2. QED
      BY <1>7, <2>2, <3>1 DEF Taken
  <2>3. QED
    BY <2>1, <2>2
<1>10. Taken[1] = g_msg[3]
  <2>1. \A k \in 3 .. end : g_msg[k] \in Char
    BY <1>7, <1>9
  <2>2. QED
    BY <1>7, <1>9, <2>1, SubSeqProperties
<1>11. Decimal[Code[error]] = Decimal[0]
  BY <1>7, <1>10 DEF CodeIsOK, Numeral
<1>12. Code[error] = 0
  <2>1. 0 \in Number
    BY ParametersAssumption
  <2>2. QED
    BY <1>11, <2>1, CodeIsText, ParametersAssumption DEF IsInjective
<1>13. QED
  BY <1>12 DEF Code

-----------------------------------------------------------------------------
(* The invariant.                                                          *)

CallTypes ==
  /\ proc \in {"idle", "packing", "sent", "parsing", "executed", "received", "unpacking", "ended"}
  /\ called \in [function : Function \cup {"none"}, args : Seq(Values)]
  /\ function \in Registered \cup {"none"}
  /\ error \in DOMAIN Code
  /\ nr \in Nat /\ ran \in BOOLEAN
  /\ outcome \in {"none", "returned", "raised"}
  /\ msg_request \in Text /\ Bytes(msg_request) <= MaxRequest

\* The stub has packed arguments that set_request_parameter accepts.
Accepted ==
  /\ Caller = "none" => Packed = 0
  /\ Caller # "none" => Accepts(Caller, called.args)

\* How far the call is.
Progress ==
  /\ proc # "idle" => Caller # "none"
  /\ proc \in {"packing", "sent", "parsing"} => ~ran
  /\ proc \notin {"idle", "ended"} => outcome = "none"
  /\ proc \in {"parsing", "executed"} => function \in {Caller, "none"}
  /\ proc = "executed" => error = "OK"
  /\ proc = "executed" \/ (proc = "received" /\ error = "OK") \/ proc = "unpacking" => ran

\* The first n arguments are in the buffers of their parameters.
AreHeld(n) ==
  \A k \in 1 .. n : ArrivesAs(ArgumentType(k), called.args[k], data[Caller][In(Caller)[k]])

\* The request and what is left of it.
Request ==
  /\ proc = "packing" => IsRequest(Caller, called.args, g_msg)
  /\ proc = "sent" =>
       IsRequest(Caller, called.args, msg_request) /\ error = "OK" /\ function = "none"
  /\ proc \in {"sent", "parsing"} => Packed = Len(In(Caller))
  /\ proc = "parsing" /\ error = "OK" =>
       /\ function = Caller /\ nr <= Packed
       /\ IsLeft(Caller, called.args, nr, msg_request) /\ AreHeld(nr)

\* The response begins with the error code.
Responded == proc = "received" => Begins(g_msg)

MarshalInv ==
  /\ CallTypes /\ Buffers /\ Accepted /\ Progress /\ Request /\ Responded
  /\ ArgumentsArrive /\ StubRequestsParse /\ ReturnedMeansExecuted

LEMMA FreshHolds ==
  ASSUME NEW junk \in BOOLEAN, data' = Fresh(junk)
  PROVE  Buffers'
<1>1. ASSUME NEW f \in Registered, NEW i \in Index(f)
      PROVE  Holds(Params[f][i], Junk(Params[f][i])) /\ Holds(Params[f][i], NoData(Params[f][i]))
  <2>1. f \in Function
    BY MarshalAssumption
  <2>2. Params[f][i].type \in Texts => Params[f][i].size \in Nat /\ Params[f][i].size > 0
    BY <2>1, TableIs
  <2>3. QED
    BY <2>2, NothingIsHeld
<1>2. QED
  BY <1>1 DEF Fresh, Buffers

LEMMA MarshalInit == Init => MarshalInv
<1> SUFFICES ASSUME Init PROVE MarshalInv
  OBVIOUS
<1>1. Buffers
  <2>1. PICK junk \in BOOLEAN : data = Fresh(junk)
    BY DEF Init
  <2>2. ASSUME NEW f \in Registered, NEW i \in Index(f)
        PROVE  Holds(Params[f][i], Junk(Params[f][i])) /\ Holds(Params[f][i], NoData(Params[f][i]))
    <3>1. f \in Function
      BY MarshalAssumption
    <3>2. Params[f][i].type \in Texts => Params[f][i].size \in Nat /\ Params[f][i].size > 0
      BY <3>1, TableIs
    <3>3. QED
      BY <3>2, NothingIsHeld
  <2>3. QED
    BY <2>1, <2>2 DEF Fresh, Buffers
<1>2. CallTypes
  <2>1. <<>> \in Text /\ Bytes(<<>>) <= MaxRequest
    BY BytesOfNothing, MarshalAssumption
  <2>2. <<>> \in Seq(Values)
    OBVIOUS
  <2>3. QED
    BY <2>1, <2>2 DEF Init, CallTypes, Code
<1>3. Accepted /\ Progress /\ Request /\ Responded
  BY DEF Init, Accepted, Progress, Request, Responded, Caller, Packed
<1>4. ArgumentsArrive /\ StubRequestsParse /\ ReturnedMeansExecuted
  BY DEF Init, ArgumentsArrive, StubRequestsParse, ReturnedMeansExecuted
<1>5. QED
  BY <1>1, <1>2, <1>3, <1>4 DEF MarshalInv

-----------------------------------------------------------------------------
(* The steps of the stub before the request is sent.                       *)

LEMMA NewRequestStep ==
  ASSUME MarshalInv, NEW f \in Function, NewRequest(f)
  PROVE  MarshalInv'
<1>1. /\ proc' = "packing" /\ called' = [function |-> f, args |-> <<>>] /\ f # "none"
      /\ g_msg' = Names(f) /\ results' = <<>> /\ outcome' = "none" /\ ran' = FALSE
      /\ UNCHANGED <<msg_request, function, error, nr, data>>
  BY MarshalAssumption DEF NewRequest, listener, Names
<1>2. Accepts(f, <<>>) /\ IsRequest(f, <<>>, Names(f))
  BY FirstRequest
<1>3. CallTypes'
  <2>1. <<>> \in Seq(Values)
    OBVIOUS
  <2>2. called' \in [function : Function \cup {"none"}, args : Seq(Values)]
    BY <1>1, <2>1
  <2>3. QED
    BY <1>1, <2>2 DEF CallTypes, MarshalInv
<1>4. Buffers'
  BY <1>1 DEF Buffers, MarshalInv
<1>5. Accepted' /\ Progress' /\ Request' /\ Responded'
  BY <1>1, <1>2 DEF Accepted, Progress, Request, Responded, Caller, Packed
<1>6. ArgumentsArrive' /\ StubRequestsParse' /\ ReturnedMeansExecuted'
  BY <1>1 DEF MarshalInv, ArgumentsArrive, StubRequestsParse, ReturnedMeansExecuted
<1>7. QED
  BY <1>3, <1>4, <1>5, <1>6 DEF MarshalInv

LEMMA SetRequestStep ==
  ASSUME MarshalInv, proc = "packing", Packed < Len(In(Caller)),
         NEW value \in Value[Params[Caller][In(Caller)[Packed + 1]].type],
         SetRequestParameter(value)
  PROVE  MarshalInv'
<1>1. PICK p : p = Params[Caller][In(Caller)[Packed + 1]]
  OBVIOUS
<1>2. /\ ~Raises(p, value) /\ called' = [called EXCEPT !.args = Append(@, value)]
      /\ g_msg' = g_msg \o Field(p.type, TextOf(p.type, value))
      /\ UNCHANGED <<proc, results, outcome, msg_request, function, error, nr, data, ran, seen, stored>>
  BY <1>1 DEF SetRequestParameter, listener, history
<1>3. PICK f \in Function : f = Caller
  BY DEF MarshalInv, CallTypes, Progress, Caller
<1>4. PICK args \in Seq(Values) : args = called.args
  BY DEF MarshalInv, CallTypes
<1>5. Accepts(f, args) /\ IsRequest(f, args, g_msg) /\ f # "none"
  BY <1>3, <1>4, MarshalAssumption DEF MarshalInv, Accepted, Request
<1>6. /\ Accepts(f, Append(args, value)) /\ Append(args, value) \in Seq(Values)
      /\ IsRequest(f, Append(args, value), g_msg')
  BY <1>1, <1>2, <1>3, <1>4, <1>5, LongerRequest DEF Packed
<1>7. /\ called' \in [function : Function \cup {"none"}, args : Seq(Values)]
      /\ called'.function = f /\ called'.args = Append(args, value)
  BY <1>2, <1>3, <1>4, <1>6 DEF MarshalInv, CallTypes, Caller
<1>8. CallTypes'
  BY <1>2, <1>7 DEF CallTypes, MarshalInv
<1>9. Buffers'
  BY <1>2 DEF Buffers, MarshalInv
<1>10. Accepted' /\ Progress' /\ Request' /\ Responded'
  BY <1>2, <1>3, <1>5, <1>6, <1>7
     DEF MarshalInv, Accepted, Progress, Request, Responded, Caller, Packed
<1>11. ArgumentsArrive' /\ StubRequestsParse' /\ ReturnedMeansExecuted'
  BY <1>2, <1>3, <1>7
     DEF MarshalInv, Progress, ArgumentsArrive, StubRequestsParse, ReturnedMeansExecuted, Caller
<1>12. QED
  BY <1>8, <1>9, <1>10, <1>11 DEF MarshalInv

\* The stub leaves, and everything stays as it was.
LEMMA LeaveStep ==
  ASSUME MarshalInv, Leave("raised"), UNCHANGED <<called, results, listener, history>>
  PROVE  MarshalInv'
<1>1. /\ proc' = "idle" /\ outcome' = "raised"
      /\ UNCHANGED <<called, results, msg_request, function, error, nr, data, ran, seen, stored>>
  BY DEF Leave, listener, history
<1>2. CallTypes'
  BY <1>1 DEF CallTypes, MarshalInv
<1>3. Buffers'
  BY <1>1 DEF Buffers, MarshalInv
<1>4. Accepted' /\ Progress' /\ Request' /\ Responded'
  BY <1>1 DEF MarshalInv, Accepted, Progress, Request, Responded, Caller, Packed
<1>5. ArgumentsArrive' /\ StubRequestsParse' /\ ReturnedMeansExecuted'
  BY <1>1 DEF MarshalInv, ArgumentsArrive, StubRequestsParse, ReturnedMeansExecuted, Caller,
              Packed, ArgumentType
<1>6. QED
  BY <1>2, <1>3, <1>4, <1>5 DEF MarshalInv

LEMMA PackStep ==
  ASSUME MarshalInv, Pack
  PROVE  MarshalInv'
<1>1. PICK value \in Value[Params[Caller][In(Caller)[Packed + 1]].type] :
        SetRequestParameter(value) \/ SetRequestRaises(value)
  BY DEF Pack
<1>2. CASE SetRequestParameter(value)
  BY <1>1, <1>2, SetRequestStep DEF Pack
<1>3. CASE SetRequestRaises(value)
  BY <1>3, LeaveStep DEF SetRequestRaises
<1>4. QED
  BY <1>1, <1>2, <1>3

LEMMA SendRequestStep ==
  ASSUME MarshalInv, SendRequest
  PROVE  MarshalInv'
<1>1. CASE Bytes(g_msg) > MaxRequest
  BY <1>1, LeaveStep DEF SendRequest
<1>2. CASE ~(Bytes(g_msg) > MaxRequest)
  <2>1. /\ proc = "packing" /\ proc' = "sent" /\ Packed = Len(In(Caller)) /\ outcome' = outcome
        /\ msg_request' = g_msg /\ function' = "none" /\ error' = "OK"
        /\ UNCHANGED <<nr, data, called, g_msg, results, ran, seen, stored>>
    BY <1>2 DEF SendRequest, history
  <2>2. Caller \in Function /\ called.args \in Seq(Values)
    BY <2>1 DEF MarshalInv, CallTypes, Progress, Caller
  <2>3. IsRequest(Caller, called.args, g_msg)
    BY <2>1 DEF MarshalInv, Request
  <2>4. g_msg \in Text /\ Bytes(g_msg) \in Nat
    BY <2>2, <2>3, NamesAreRead, BytesType
  <2>5. CallTypes'
    BY <1>2, <2>1, <2>4, MarshalAssumption DEF CallTypes, MarshalInv, Code
  <2>6. Buffers'
    BY <2>1 DEF Buffers, MarshalInv
  <2>7. Accepted' /\ Progress' /\ Request' /\ Responded'
    BY <2>1, <2>3 DEF MarshalInv, Accepted, Progress, Request, Responded, Caller, Packed
  <2>8. ArgumentsArrive' /\ StubRequestsParse' /\ ReturnedMeansExecuted'
    BY <2>1 DEF MarshalInv, Progress, ArgumentsArrive, StubRequestsParse, ReturnedMeansExecuted, Caller
  <2>9. QED
    BY <2>5, <2>6, <2>7, <2>8 DEF MarshalInv
<1>3. QED
  BY <1>1, <1>2

-----------------------------------------------------------------------------
(* The steps of the listener.                                              *)

LEMMA ParseNamesStep ==
  ASSUME MarshalInv, ParseNames
  PROVE  MarshalInv'
<1>1. PICK f \in Function : f = Caller /\ f # "none"
  BY MarshalAssumption DEF MarshalInv, CallTypes, Progress, Caller, ParseNames
<1>2. PICK args \in Seq(Values) : args = called.args /\ Len(args) = Len(In(f)) /\ Len(args) \in Nat
  BY <1>1 DEF MarshalInv, CallTypes, Request, ParseNames, Packed
<1>3. proc = "sent" /\ IsRequest(f, args, msg_request) /\ error = "OK"
  BY <1>1, <1>2 DEF MarshalInv, Request, ParseNames
<1>4. /\ Argument(After(msg_request)) = <<f>>
      /\ After(After(msg_request)) \in Text
      /\ Bytes(After(After(msg_request))) <= Bytes(msg_request)
      /\ IsLeft(f, args, 0, After(After(msg_request)))
  BY <1>3, NamesAreRead
<1>5. /\ \/ f \in Registered /\ function' = f /\ error' = "OK"
         \/ f \notin Registered /\ function' = function /\ error' = "FUNCTION_UNKNOWN"
      /\ msg_request' = After(After(msg_request)) /\ nr' = 0 /\ proc' = "parsing"
      /\ UNCHANGED <<called, g_msg, results, outcome, data, ran, seen, stored>>
  <2>1. Argument(After(msg_request))[1] = f
    BY <1>4
  <2>2. QED
    BY <1>3, <2>1 DEF ParseNames, stub, history
<1>6. CallTypes'
  <2>1. Bytes(msg_request) <= MaxRequest /\ Bytes(msg_request) \in Nat
    BY BytesType DEF MarshalInv, CallTypes
  <2>2. Bytes(msg_request') <= MaxRequest /\ msg_request' \in Text
    <3>1. Bytes(After(After(msg_request))) \in Nat
      BY <1>4, BytesType
    <3>2. QED
      BY <1>4, <1>5, <2>1, <3>1, MarshalAssumption
  <2>3. QED
    BY <1>5, <2>2 DEF CallTypes, MarshalInv, Code
<1>7. Buffers'
  BY <1>5 DEF Buffers, MarshalInv
<1>8. function = "none"
  BY <1>3 DEF MarshalInv, Progress, Request
<1>9. Accepted' /\ Progress' /\ Request' /\ Responded'
  BY <1>1, <1>2, <1>3, <1>4, <1>5, <1>8
     DEF MarshalInv, Accepted, Progress, Request, Responded, Caller, Packed, AreHeld
<1>10. ArgumentsArrive' /\ StubRequestsParse' /\ ReturnedMeansExecuted'
  BY <1>1, <1>3, <1>5
     DEF MarshalInv, Progress, ArgumentsArrive, StubRequestsParse, ReturnedMeansExecuted, Caller
<1>11. QED
  BY <1>6, <1>7, <1>9, <1>10 DEF MarshalInv

LEMMA StoresOne ==
  ASSUME Buffers, NEW f \in Registered, NEW i \in Index(f), NEW value, Holds(Params[f][i], value),
         data' = [data EXCEPT ![f][i] = value]
  PROVE  /\ Buffers' /\ data'[f][i] = value
         /\ \A j \in Index(f) : j # i => data'[f][j] = data[f][j]
<1>1. /\ DOMAIN data' = Registered /\ data'[f] = [data[f] EXCEPT ![i] = value]
      /\ \A g \in Registered : g # f => data'[g] = data[g]
  BY DEF Buffers
<1>2. /\ DOMAIN data'[f] = Index(f) /\ data'[f][i] = value
      /\ \A j \in Index(f) : j # i => data'[f][j] = data[f][j]
  BY <1>1 DEF Buffers
<1>3. ASSUME NEW g \in Registered
      PROVE  DOMAIN data'[g] = Index(g) /\ \A j \in Index(g) : Holds(Params[g][j], data'[g][j])
  <2>1. CASE g # f
    BY <1>1, <2>1 DEF Buffers
  <2>2. CASE g = f
    <3>1. ASSUME NEW j \in Index(f) PROVE Holds(Params[f][j], data'[f][j])
      <4>1. CASE j = i
        BY <1>2, <4>1
      <4>2. CASE j # i
        BY <1>2, <4>2 DEF Buffers
      <4>3. QED
        BY <4>1, <4>2
    <3>2. QED
      BY <1>2, <2>2, <3>1
  <2>3. QED
    BY <2>1, <2>2
<1>4. QED
  BY <1>1, <1>2, <1>3 DEF Buffers

\* The argument that comes next is the one that was packed for this parameter.
LEMMA ParseParameterStep ==
  ASSUME MarshalInv, ParseParameter
  PROVE  MarshalInv'
<1>1. PICK f \in Function : f = Caller /\ f = function /\ f # "none" /\ f \in Registered
  BY MarshalAssumption DEF MarshalInv, CallTypes, Progress, Request, Caller, ParseParameter
<1>2. PICK args \in Seq(Values) : args = called.args /\ Len(args) = Len(In(f)) /\ Accepts(f, args)
  BY <1>1 DEF MarshalInv, CallTypes, Accepted, Request, ParseParameter, Packed, Caller
<1>3. /\ proc = "parsing" /\ error = "OK" /\ nr \in Nat /\ nr < Len(args) /\ AreHeld(nr)
      /\ IsLeft(f, args, nr, msg_request)
  BY <1>1, <1>2 DEF MarshalInv, CallTypes, Request, ParseParameter, Caller
<1>4. PICK i \in Index(f) : i = In(f)[nr + 1] /\ i = Parameter /\ Params[f][i].type # "VOID"
  <2>1. nr + 1 \in 1 .. Len(In(f))
    BY <1>2, <1>3
  <2>2. QED
    BY <1>1, <2>1, ArgumentIs DEF Parameter
<1>5. PICK p : p = Params[f][i]
  OBVIOUS
<1>6. PICK value \in Value[p.type] : value = args[nr + 1] /\ ~Raises(p, value)
  <2>1. nr + 1 \in 1 .. Len(args)
    BY <1>2, <1>3
  <2>2. QED
    BY <1>2, <1>4, <1>5, <2>1 DEF Accepts
<1>7. /\ msg_request # <<>> /\ msg_request[1] = Digit[p.type] /\ IsLength(msg_request[2])
      /\ Argument(msg_request) = TextOf(p.type, value)
      /\ After(msg_request) \in Text /\ Bytes(After(msg_request)) <= Bytes(msg_request)
      /\ IsLeft(f, args, nr + 1, After(msg_request))
  <2>1. PICK type : type = p.type /\ type = Params[f][In(f)[nr + 1]].type
    BY <1>4, <1>5
  <2>2. /\ msg_request # <<>> /\ msg_request[1] = Digit[type] /\ IsLength(msg_request[2])
        /\ Argument(msg_request) = TextOf(type, args[nr + 1])
        /\ After(msg_request) \in Text /\ Bytes(After(msg_request)) <= Bytes(msg_request)
        /\ IsLeft(f, args, nr + 1, After(msg_request))
    BY <1>2, <1>3, <2>1, ArgumentIsRead
  <2>3. QED
    BY <1>6, <2>1, <2>2
<1>8. PICK set : set = SetParameter(p, data[f][i], TextOf(p.type, value))
  OBVIOUS
<1>9. /\ Holds(p, set.data)
      /\ set.error = "OK" => ArrivesAs(p.type, value, set.data)
      /\ set.error # "OK" => p.type = "XML"
  <2>1. Holds(p, data[f][i])
    BY <1>1, <1>5 DEF MarshalInv, Buffers
  <2>2. QED
    BY <1>4, <1>5, <1>6, <1>8, <2>1, ArgumentIsStored
<1>10. Expected(p.type)
  BY <1>7 DEF Expected
<1>11. /\ UNCHANGED <<proc, function, called, g_msg, results, outcome, ran, seen, stored>>
       /\ \/ /\ set.error = "OK" /\ data' = [data EXCEPT ![f][i] = set.data]
             /\ msg_request' = After(msg_request) /\ nr' = nr + 1 /\ error' = error
          \/ /\ set.error # "OK" /\ error' = "PARSE_ERROR"
             /\ UNCHANGED <<data, msg_request, nr>>
  BY <1>1, <1>4, <1>5, <1>7, <1>8, <1>10 DEF ParseParameter, stub, history
<1>12. CASE set.error # "OK"
  <2>1. error' = "PARSE_ERROR" /\ UNCHANGED <<data, msg_request, nr>>
    BY <1>11, <1>12
  <2>2. CallTypes'
    BY <1>11, <2>1 DEF CallTypes, MarshalInv, Code
  <2>3. Buffers'
    BY <2>1 DEF Buffers, MarshalInv
  <2>4. Accepted' /\ Progress' /\ Request' /\ Responded'
    BY <1>3, <1>11, <2>1 DEF MarshalInv, Accepted, Progress, Request, Responded, Caller, Packed
  <2>5. StubRequestsParse'
    <3>1. nr + 1 \in 1 .. Len(In(f)) /\ Params[f][In(f)[nr + 1]].type = "XML"
      BY <1>2, <1>3, <1>4, <1>5, <1>9, <1>12
    <3>2. QED
      BY <1>1, <1>3, <1>11, <3>1 DEF StubRequestsParse
  <2>6. ArgumentsArrive' /\ ReturnedMeansExecuted'
    BY <1>3, <1>11 DEF MarshalInv, Progress, ArgumentsArrive, ReturnedMeansExecuted, Caller
  <2>7. QED
    BY <2>2, <2>3, <2>4, <2>5, <2>6 DEF MarshalInv
<1>13. CASE set.error = "OK"
  <2>1. /\ data' = [data EXCEPT ![f][i] = set.data]
        /\ msg_request' = After(msg_request) /\ nr' = nr + 1 /\ error' = error
    BY <1>11, <1>13
  <2>2. /\ Buffers' /\ data'[f][i] = set.data
        /\ \A j \in Index(f) : j # i => data'[f][j] = data[f][j]
    BY <1>1, <1>5, <1>9, <2>1, StoresOne DEF MarshalInv
  <2>3. CallTypes'
    <3>1. /\ Bytes(msg_request) <= MaxRequest /\ Bytes(msg_request) \in Nat
          /\ Bytes(After(msg_request)) \in Nat /\ MaxRequest \in Nat
      BY <1>7, BytesType, MarshalAssumption DEF MarshalInv, CallTypes
    <3>2. msg_request' \in Text /\ Bytes(msg_request') <= MaxRequest /\ nr' \in Nat
      BY <1>3, <1>7, <2>1, <3>1
    <3>3. QED
      BY <1>11, <2>1, <3>2 DEF CallTypes, MarshalInv
  <2>4. Accepted' /\ Progress' /\ Responded'
    BY <1>3, <1>11, <2>1 DEF MarshalInv, Accepted, Progress, Responded, Caller, Packed
  <2>5. ASSUME NEW k \in 1 .. nr + 1
        PROVE  ArrivesAs(Params[f][In(f)[k]].type, args[k], data'[f][In(f)[k]])
    <3>1. CASE k = nr + 1
      BY <1>4, <1>5, <1>6, <1>9, <1>13, <2>2, <3>1
    <3>2. CASE k \in 1 .. nr
      <4>1. k \in 1 .. Len(In(f)) /\ nr + 1 \in 1 .. Len(In(f)) /\ k # nr + 1
        BY <1>2, <1>3, <3>2
      <4>2. In(f)[k] \in Index(f) /\ In(f)[k] # i
        BY <1>4, <4>1, ArgumentIs
      <4>3. ArrivesAs(Params[f][In(f)[k]].type, args[k], data[f][In(f)[k]])
        BY <1>1, <1>2, <1>3, <3>2 DEF AreHeld, ArgumentType
      <4>4. QED
        BY <2>2, <4>2, <4>3
    <3>3. QED
      BY <1>3, <3>1, <3>2
  <2>6. AreHeld(nr)'
    BY <1>1, <1>2, <1>11, <2>1, <2>5 DEF AreHeld, ArgumentType, Caller
  <2>7. Request'
    <3>1. nr + 1 <= Len(args)
      BY <1>2, <1>3, ArgumentIs
    <3>2. QED
      BY <1>1, <1>2, <1>3, <1>7, <1>11, <2>1, <2>6, <3>1 DEF Request, MarshalInv, Caller, Packed
  <2>8. ArgumentsArrive' /\ StubRequestsParse' /\ ReturnedMeansExecuted'
    BY <1>3, <1>11, <2>1
       DEF MarshalInv, Progress, ArgumentsArrive, StubRequestsParse, ReturnedMeansExecuted, Caller
  <2>9. QED
    BY <2>2, <2>3, <2>4, <2>7, <2>8 DEF MarshalInv
<1>14. QED
  BY <1>12, <1>13

\* A function stores values of the right type in its own parameters.
LEMMA ResultsHold ==
  ASSUME Buffers, function \in Registered, NEW values \in Result[function],
         \A k \in DOMAIN values : Fits(Params[function][Results(function)[k]], values[k]),
         data' = [data EXCEPT ![function] =
                    [i \in Index(function) |->
                       IF \E k \in DOMAIN values : Results(function)[k] = i
                       THEN values[CHOOSE k \in DOMAIN values : Results(function)[k] = i]
                       ELSE @[i]]]
  PROVE  /\ Buffers' /\ DOMAIN values = 1 .. Len(Results(function))
         /\ \A k \in 1 .. Len(Results(function)) :
              data'[function][Results(function)[k]] = values[k]
<1> DEFINE f == function
<1>1. f \in Function /\ Typed(f, values)
  BY MarshalAssumption
<1>2. /\ DOMAIN data' = Registered /\ DOMAIN data'[f] = Index(f)
      /\ \A g \in Registered : g # f => data'[g] = data[g]
      /\ \A i \in Index(f) :
           data'[f][i] = IF \E k \in DOMAIN values : Results(f)[k] = i
                         THEN values[CHOOSE k \in DOMAIN values : Results(f)[k] = i]
                         ELSE data[f][i]
  BY DEF Buffers
<1>3. ASSUME NEW k \in DOMAIN values
      PROVE  Holds(Params[f][Results(f)[k]], values[k])
  <2>1. k \in 1 .. Len(Results(f))
    BY <1>1, ResultIs DEF Typed
  <2>2. PICK p : p = Params[f][Results(f)[k]]
    OBVIOUS
  <2>3. p.type \in Type \ {"VOID"} /\ values[k] \in ValueOf(p.type) /\ Fits(p, values[k])
    BY <1>1, <2>1, <2>2, ResultIs DEF Typed
  <2>4. CASE p.type \in Texts
    BY <2>2, <2>3, <2>4 DEF ValueOf, Fits, Holds, Texts, Text
  <2>5. CASE p.type = "INT"
    BY <2>2, <2>3, <2>5 DEF ValueOf, Holds, Texts
  <2>6. CASE p.type = "LONG"
    BY <2>2, <2>3, <2>6 DEF ValueOf, Holds, Texts
  <2>7. QED
    BY <2>3, <2>4, <2>5, <2>6 DEF Type, Texts
<1>4. ASSUME NEW i \in Index(f) PROVE Holds(Params[f][i], data'[f][i])
  <2>1. CASE \E k \in DOMAIN values : Results(f)[k] = i
    <3>1. PICK k \in DOMAIN values : k = (CHOOSE l \in DOMAIN values : Results(f)[l] = i) /\ Results(f)[k] = i
      BY <2>1
    <3>2. QED
      BY <1>2, <1>3, <2>1, <3>1
  <2>2. CASE ~\E k \in DOMAIN values : Results(f)[k] = i
    BY <1>2, <2>2 DEF Buffers
  <2>3. QED
    BY <2>1, <2>2
<1>5. ASSUME NEW g \in Registered
      PROVE  DOMAIN data'[g] = Index(g) /\ \A j \in Index(g) : Holds(Params[g][j], data'[g][j])
  <2>1. CASE g = f
    BY <1>2, <1>4, <2>1
  <2>2. CASE g # f
    BY <1>2, <2>2 DEF Buffers
  <2>3. QED
    BY <2>1, <2>2
<1>6. DOMAIN values = 1 .. Len(Results(f))
  BY <1>1, ResultIs DEF Typed
<1>7. ASSUME NEW k \in 1 .. Len(Results(f)) PROVE data'[f][Results(f)[k]] = values[k]
  <2>1. /\ Results(f)[k] \in Index(f)
        /\ \A l \in 1 .. Len(Results(f)) : l # k => Results(f)[l] # Results(f)[k]
    BY <1>1, ResultIs
  <2>2. k = CHOOSE l \in DOMAIN values : Results(f)[l] = Results(f)[k]
    BY <1>6, <2>1
  <2>3. \E l \in DOMAIN values : Results(f)[l] = Results(f)[k]
    BY <1>6
  <2>4. QED
    BY <1>2, <2>1, <2>2, <2>3, Zenon
<1>8. QED
  BY <1>2, <1>5, <1>6, <1>7 DEF Buffers

LEMMA ExecuteStep ==
  ASSUME MarshalInv, Execute
  PROVE  MarshalInv'
<1>1. PICK f \in Function : f = Caller /\ f = function /\ f # "none" /\ f \in Registered
  BY MarshalAssumption DEF MarshalInv, CallTypes, Progress, Request, Caller, Execute
<1>2. PICK args \in Seq(Values) : args = called.args /\ Len(args) = Len(In(f))
  BY <1>1 DEF MarshalInv, CallTypes, Request, Execute, Packed, Caller
<1>3. /\ proc = "parsing" /\ error = "OK" /\ nr \in Nat /\ nr = Len(args) /\ AreHeld(nr)
      /\ ran' = TRUE /\ seen' = [k \in 1 .. nr |-> data[f][In(f)[k]]] /\ proc' = "executed"
      /\ UNCHANGED <<called, g_msg, results, outcome, msg_request, function, error, nr>>
  BY <1>1, <1>2 DEF MarshalInv, CallTypes, Request, Execute, Caller, stub
<1>4. Buffers'
  <2>1. PICK values \in Result[function] :
          /\ \A k \in DOMAIN values : Fits(Params[function][Results(function)[k]], values[k])
          /\ data' = [data EXCEPT ![function] =
                        [i \in Index(function) |->
                           IF \E k \in DOMAIN values : Results(function)[k] = i
                           THEN values[CHOOSE k \in DOMAIN values : Results(function)[k] = i]
                           ELSE @[i]]]
    BY Zenon DEF Execute
  <2>2. QED
    BY <1>1, <2>1, ResultsHold DEF MarshalInv
<1>5. CallTypes'
  BY <1>3 DEF CallTypes, MarshalInv
<1>6. Accepted' /\ Progress' /\ Request' /\ Responded'
  BY <1>1, <1>3 DEF MarshalInv, Accepted, Progress, Request, Responded, Caller, Packed
<1>7. ArgumentsArrive'
  <2>1. Len(seen') = nr /\ \A k \in 1 .. nr : seen'[k] = data[f][In(f)[k]]
    BY <1>3
  <2>2. QED
    BY <1>1, <1>2, <1>3, <2>1 DEF ArgumentsArrive, AreHeld, ArgumentType, Caller, Packed
<1>8. StubRequestsParse' /\ ReturnedMeansExecuted'
  BY <1>1, <1>3 DEF MarshalInv, Progress, StubRequestsParse, ReturnedMeansExecuted, Caller
<1>9. QED
  BY <1>4, <1>5, <1>6, <1>7, <1>8 DEF MarshalInv

LEMMA RespondStep ==
  ASSUME MarshalInv, Respond
  PROVE  MarshalInv'
<1>1. /\ proc = "executed" \/ (proc = "parsing" /\ error # "OK")
      /\ UNCHANGED <<called, results, msg_request, function, error, nr, data, ran, seen, stored>>
  BY DEF Respond, history
<1>2. Buffers' /\ Accepted'
  BY <1>1 DEF MarshalInv, Buffers, Accepted, Caller, Packed
<1>3. ArgumentsArrive'
  BY <1>1 DEF MarshalInv, ArgumentsArrive, ArgumentType, Caller, Packed
<1>4. CASE function \in Oneway
  <2>1. proc' = (IF error = "OK" THEN "idle" ELSE "ended") /\ outcome' = "returned" /\ g_msg' = g_msg
    BY <1>4 DEF Respond
  <2>2. Caller \in Oneway /\ Caller # "none"
    BY <1>1, <1>4, ParametersAssumption, MarshalAssumption DEF MarshalInv, Progress
  <2>3. CallTypes'
    BY <1>1, <2>1 DEF CallTypes, MarshalInv
  <2>4. Progress' /\ Request' /\ Responded'
    BY <1>1, <2>1, <2>2 DEF MarshalInv, Progress, Request, Responded, Caller
  <2>5. StubRequestsParse' /\ ReturnedMeansExecuted'
    BY <1>1, <2>1, <2>2 DEF MarshalInv, StubRequestsParse, ReturnedMeansExecuted, Caller
  <2>6. QED
    BY <1>2, <1>3, <2>3, <2>4, <2>5 DEF MarshalInv
<1>5. CASE function \notin Oneway
  <2>1. g_msg' = Response /\ proc' = "received" /\ outcome' = outcome
    BY <1>5 DEF Respond
  <2>2. Begins(Response)
    BY ResponseBegins DEF MarshalInv, CallTypes
  <2>3. CallTypes'
    BY <1>1, <2>1 DEF CallTypes, MarshalInv
  <2>4. Responded'
    BY <1>1, <2>1, <2>2 DEF Responded, Begins, CodeField
  <2>5. Progress' /\ Request'
    BY <1>1, <2>1 DEF MarshalInv, Progress, Request, Caller
  <2>6. StubRequestsParse' /\ ReturnedMeansExecuted'
    BY <1>1, <2>1 DEF MarshalInv, StubRequestsParse, ReturnedMeansExecuted, Caller
  <2>7. QED
    BY <1>2, <1>3, <2>3, <2>4, <2>5, <2>6 DEF MarshalInv
<1>6. QED
  BY <1>4, <1>5

LEMMA RestartStep ==
  ASSUME MarshalInv, Restart
  PROVE  MarshalInv'
<1>1. /\ proc' = "idle" /\ outcome' = IF outcome = "none" THEN "raised" ELSE outcome
      /\ UNCHANGED <<called, g_msg, results, msg_request, function, error, nr, ran, seen, stored>>
  BY DEF Restart, history
<1>2. Buffers'
  BY FreshHolds DEF Restart
<1>3. CallTypes'
  BY <1>1 DEF CallTypes, MarshalInv
<1>4. Accepted' /\ Progress' /\ Request' /\ Responded'
  BY <1>1 DEF MarshalInv, Accepted, Progress, Request, Responded, Caller, Packed
<1>5. ArgumentsArrive' /\ StubRequestsParse' /\ ReturnedMeansExecuted'
  BY <1>1 DEF MarshalInv, ArgumentsArrive, StubRequestsParse, ReturnedMeansExecuted, Caller,
              Packed, ArgumentType
<1>6. QED
  BY <1>2, <1>3, <1>4, <1>5 DEF MarshalInv

-----------------------------------------------------------------------------
(* The steps of the stub after the response was sent.                      *)

\* The stub goes on, or leaves without an exception.
LEMMA UnpackStep ==
  ASSUME MarshalInv, UNCHANGED <<called, listener, history>>,
         \/ proc' = "unpacking" /\ ran /\ outcome' = "none" /\ Caller # "none"
         \/ /\ proc' = "idle" /\ outcome' = "returned"
            /\ ran /\ results' = results /\ Len(results) = Len(Results(Caller))
  PROVE  MarshalInv'
<1>1. UNCHANGED <<called, msg_request, function, error, nr, data, ran, seen, stored>>
  BY DEF listener, history
<1>2. CallTypes'
  BY <1>1 DEF CallTypes, MarshalInv
<1>3. Buffers'
  BY <1>1 DEF Buffers, MarshalInv
<1>4. Accepted' /\ Progress' /\ Request' /\ Responded'
  BY <1>1 DEF MarshalInv, Accepted, Progress, Request, Responded, Caller, Packed
<1>5. ArgumentsArrive' /\ StubRequestsParse' /\ ReturnedMeansExecuted'
  BY <1>1 DEF MarshalInv, ArgumentsArrive, StubRequestsParse, ReturnedMeansExecuted, Caller,
              Packed, ArgumentType
<1>6. QED
  BY <1>2, <1>3, <1>4, <1>5 DEF MarshalInv

LEMMA RecvResponseStep ==
  ASSUME MarshalInv, RecvResponse
  PROVE  MarshalInv'
<1>1. CASE CodeIsOK
  <2>1. proc = "received" /\ Begins(g_msg) /\ error \in DOMAIN Code
    BY DEF MarshalInv, CallTypes, Responded, RecvResponse
  <2>2. error = "OK"
    BY <1>1, <2>1, CodeIsRead
  <2>3. ran /\ outcome = "none" /\ Caller # "none"
    BY <2>1, <2>2 DEF MarshalInv, Progress
  <2>4. QED
    BY <1>1, <2>3, UnpackStep DEF RecvResponse
<1>2. CASE ~CodeIsOK
  BY <1>2, LeaveStep DEF RecvResponse
<1>3. QED
  BY <1>1, <1>2

\* A result that the stub does not get raises an exception.
LEMMA GetResponseStep ==
  ASSUME MarshalInv, GetResponseParameter
  PROVE  MarshalInv'
<1>1. ran /\ outcome = "none" /\ Caller # "none" /\ proc = "unpacking"
  BY DEF MarshalInv, Progress, GetResponseParameter
<1>2. UNCHANGED <<called, listener, history>>
  BY DEF GetResponseParameter
<1>3. \/ Leave("raised") /\ results' = results
      \/ UNCHANGED <<proc, outcome>>
  BY DEF GetResponseParameter
<1>4. QED
  BY <1>1, <1>2, <1>3, LeaveStep, UnpackStep

LEMMA ReturnStep ==
  ASSUME MarshalInv, Return
  PROVE  MarshalInv'
<1>1. /\ ran /\ Len(results) = Len(Results(Caller)) /\ proc' = "idle" /\ outcome' = "returned"
      /\ UNCHANGED <<called, results, listener, history>>
  BY DEF MarshalInv, Progress, Return, Leave
<1>2. QED
  BY <1>1, UnpackStep

LEMMA MarshalNext == MarshalInv /\ [Next]_vars => MarshalInv'
<1> SUFFICES ASSUME MarshalInv, [Next]_vars PROVE MarshalInv'
  OBVIOUS
<1>1. CASE UNCHANGED vars
  <2>1. UNCHANGED <<proc, called, g_msg, msg_request, function, error, nr, data, results, outcome,
                    ran, seen, stored>>
    BY <1>1 DEF vars, stub, listener, history
  <2>2. CallTypes' /\ Buffers' /\ Accepted' /\ Progress' /\ Responded'
    BY <2>1 DEF MarshalInv, CallTypes, Buffers, Accepted, Progress, Responded, Begins, CodeField,
                Caller, Packed
  <2>3. Request'
    BY <2>1 DEF MarshalInv, Request, AreHeld, ArgumentType, Caller, Packed
  <2>4. ArgumentsArrive' /\ StubRequestsParse' /\ ReturnedMeansExecuted'
    BY <2>1 DEF MarshalInv, ArgumentsArrive, StubRequestsParse, ReturnedMeansExecuted, Caller,
                Packed, ArgumentType
  <2>5. QED
    BY <2>2, <2>3, <2>4 DEF MarshalInv
<1>2. CASE Next
  BY <1>2, NewRequestStep, PackStep, SendRequestStep, ParseNamesStep, ParseParameterStep,
     ExecuteStep, RespondStep, RestartStep, RecvResponseStep, GetResponseStep, ReturnStep DEF Next
<1>3. QED
  BY <1>1, <1>2

-----------------------------------------------------------------------------
(* The results.                                                            *)

\* Size is defined: it counts the bytes of one field after the other.
LEMMA SizeIs ==
  ASSUME NEW n \in Nat, NEW texts \in [1 .. n -> Text]
  PROVE  /\ Size(texts, 0) = Bytes(Field("INT", Numeral(0)))
         /\ \A k \in 1 .. n : Size(texts, k) = Size(texts, k - 1) + 2 + Bytes(texts[k])
         /\ \A k \in 0 .. n : Size(texts, k) \in Nat
<1> DEFINE start == Bytes(Field("INT", Numeral(0)))
           next == [p \in (1 .. n) \X Nat |-> p[2] + 2 + Bytes(texts[p[1]])]
           Body(S) == [i \in 0 .. Len(texts) |->
                         IF i = 0 THEN start ELSE S[i - 1] + 2 + Bytes(texts[i])]
<1>0. Len(texts) = n
  OBVIOUS
<1>1. start \in Nat
  <2>1. 0 \in Number /\ "INT" \in Type \ {"VOID"}
    BY ParametersAssumption DEF Type
  <2>2. Field("INT", Numeral(0)) \in Text
    BY <2>1, NumeralIsSendable, FieldIsText
  <2>3. QED
    BY <2>2, BytesType
<1>2. \A k \in 1 .. n : Bytes(texts[k]) \in Nat
  BY BytesType
<1>3. /\ next \in [(1 .. n) \X Nat -> Nat]
      /\ \A k \in 1 .. n, b \in Nat : next[<<k, b>>] = b + 2 + Bytes(texts[k])
  BY <1>2, SMTT(30)
<1> HIDE DEF start, next
<1>4. PICK g \in [0 .. n -> Nat] : Follow(g, n, start, next)
  BY <1>1, <1>3, Recursion
<1>5. g = Body(g)
  <2>1. ASSUME NEW k \in 0 .. n, k # 0
        PROVE  g[k] = g[k - 1] + 2 + Bytes(texts[k])
    <3>1. k \in 1 .. n /\ k - 1 \in 0 .. n
      BY <2>1
    <3>2. g[k] = next[<<k, g[k - 1]>>] /\ g[k - 1] \in Nat
      BY <1>4, <3>1 DEF Follow
    <3>3. QED
      BY <1>3, <3>1, <3>2
  <2>2. g[0] = start
    BY <1>4 DEF Follow
  <2>3. QED
    BY <1>0, <2>1, <2>2
<1>6. PICK S : S = (CHOOSE W : W = Body(W)) /\ S = Body(S)
  <2>1. \E W : W = Body(W)
    BY <1>5
  <2> HIDE DEF Body
  <2>2. QED
    BY <2>1, Zenon
<1>7. \A k : Size(texts, k) = S[k]
  BY <1>6, Zenon DEF Size, start
<1>8. /\ S[0] = start
      /\ \A k \in 1 .. n : S[k] = S[k - 1] + 2 + Bytes(texts[k])
  <2>1. \A i \in 0 .. n :
          Body(S)[i] = IF i = 0 THEN start ELSE S[i - 1] + 2 + Bytes(texts[i])
    BY <1>0
  <2> HIDE DEF Body
  <2>2. \A i \in 0 .. n : S[i] = IF i = 0 THEN start ELSE S[i - 1] + 2 + Bytes(texts[i])
    BY <1>6, <2>1
  <2>3. 0 \in 0 .. n /\ \A k \in 1 .. n : k \in 0 .. n /\ k # 0
    OBVIOUS
  <2>4. QED
    BY <2>2, <2>3
<1>9. \A k \in 0 .. n : S[k] \in Nat
  <2> DEFINE Counted0 == {k \in Nat : k <= n => S[k] \in Nat}
  <2>1. 0 \in Counted0
    BY <1>1, <1>8
  <2>2. ASSUME NEW k \in Nat, k \in Counted0 PROVE k + 1 \in Counted0
    <3> SUFFICES ASSUME k + 1 <= n PROVE S[k + 1] \in Nat
      OBVIOUS
    <3>1. k + 1 \in 1 .. n /\ k + 1 - 1 = k /\ S[k] \in Nat
      BY <2>2
    <3>2. QED
      BY <1>2, <1>8, <3>1
  <2> HIDE DEF Counted0
  <2>3. Nat \subseteq Counted0
    BY <2>1, <2>2, Induction
  <2>4. QED
    BY <2>3 DEF Counted0
<1>10. QED
  BY <1>7, <1>8, <1>9 DEF start

LEMMA FieldBytes ==
  ASSUME NEW type \in Type \ {"VOID"}, NEW text \in Sendable
  PROVE  Bytes(Field(type, text)) = 2 + Bytes(text) /\ Bytes(text) \in Nat
<1>1. Bytes(text) \in 0 .. MaxLength /\ text \in Text
  BY BytesType, MarshalAssumption DEF Sendable
<1>2. PICK a \in Char \ TwoBytes, b \in Char \ TwoBytes : Field(type, text) = <<a, b>> \o text
  BY <1>1, CodesAreText, LengthIsText DEF Field
<1>3. PICK head \in Text : head = <<a, b>> /\ Len(head) = 2 /\ head[1] = a /\ head[2] = b
  BY PairIsText
<1>4. Twos(head) = {}
  <2>1. \A k \in 1 .. Len(head) : head[k] \notin TwoBytes
    BY <1>2, <1>3
  <2>2. QED
    BY <2>1 DEF Twos
<1>5. Bytes(head) = 2
  <2>1. Cardinality(Twos(head)) = 0
    BY <1>4, FS_EmptySet
  <2>2. Bytes(head) = Len(head) + Cardinality(Twos(head))
    BY BytesCount
  <2>3. QED
    BY <1>3, <2>1, <2>2
<1>6. Bytes(head \o text) = Bytes(head) + Bytes(text)
  BY <1>1, BytesAddUp
<1>7. QED
  BY <1>1, <1>2, <1>3, <1>5, <1>6

LEMMA SameRest ==
  ASSUME NEW s \in Text, NEW t \in Text, NEW u \in Text, s \o t = s \o u
  PROVE  t = u
<1>1. /\ SubSeq(s \o t, Len(s) + 1, Len(s \o t)) = t
      /\ SubSeq(s \o u, Len(s) + 1, Len(s \o u)) = u
  BY JoinedParts, Zenon
<1>2. QED
  BY <1>1

ResultType(f, k) == Params[f][Results(f)[k]].type

\* What f stored, as texts.
Stores(f, texts) == texts \in [1 .. Len(Results(f)) -> Sendable]
HaveText(f, texts) ==
  \A k \in 1 .. Len(Results(f)) : texts[k] = TextOf(ResultType(f, k), data[f][Results(f)[k]])

\* rest[k] is what follows in the response after result k, as far as the
\* results before it were not cut off.
IsRest(f, texts, rest) ==
  /\ rest \in [0 .. Len(Results(f)) -> Text]
  /\ \A k \in 1 .. Len(Results(f)) :
       Size(texts, k) <= MaxResponse =>
         rest[k - 1] = Field(ResultType(f, k), texts[k]) \o rest[k]

SentOK(f, texts, msg) ==
  \E rest : IsRest(f, texts, rest) /\ msg = Field("INT", Numeral(0)) \o rest[0]
IsUnread(f, texts, n, msg) == \E rest : IsRest(f, texts, rest) /\ msg = rest[n]

LEMMA StoresText ==
  ASSUME NEW f \in Function, NEW texts, Stores(f, texts)
  PROVE  /\ Len(Results(f)) \in Nat /\ Len(texts) = Len(Results(f))
         /\ texts \in [1 .. Len(Results(f)) -> Text]
         /\ \A k \in 1 .. Len(Results(f)) :
              /\ texts[k] \in Sendable /\ texts[k] \in Text /\ ResultType(f, k) \in Type \ {"VOID"}
              /\ Bytes(Field(ResultType(f, k), texts[k])) = 2 + Bytes(texts[k])
              /\ Field(ResultType(f, k), texts[k]) \in Text
<1>1. Len(Results(f)) \in Nat
  BY ResultIs
<1>2. \A k \in 1 .. Len(Results(f)) : texts[k] \in Sendable /\ texts[k] \in Text
  BY DEF Stores, Sendable
<1>3. \A k \in 1 .. Len(Results(f)) : ResultType(f, k) \in Type \ {"VOID"}
  BY ResultIs DEF ResultType
<1>4. Len(texts) = Len(Results(f)) /\ texts \in [1 .. Len(Results(f)) -> Text]
  BY <1>1, <1>2 DEF Stores
<1>5. QED
  BY <1>1, <1>2, <1>3, <1>4, FieldBytes, FieldIsText

\* As long as the response is not cut off, it grows by whole fields.
LEMMA WrittenWhole ==
  ASSUME Buffers, NEW f \in Registered, f = function, f # "none", error = "OK",
         NEW texts, Stores(f, texts), HaveText(f, texts)
  PROVE  /\ Len(Returned) = Len(Results(f)) /\ Written[0] = Field("INT", Numeral(0))
         /\ \A k \in 1 .. Len(Results(f)) :
              Size(texts, k) <= MaxResponse =>
                Written[k] = Written[k - 1] \o Field(ResultType(f, k), texts[k])
<1>1. PICK n \in Nat : n = Len(Results(f)) /\ Returned = Results(f) /\ f \in Function
  BY StoresText, MarshalAssumption DEF Returned
<1>2. error \in DOMAIN Code /\ Code[error] = 0
  BY DEF Code
<1>3. Written[0] = Field("INT", Numeral(0))
  <2>1. 0 \in 0 .. Len(Returned)
    BY <1>1
  <2>2. Written[0] = FirstField
    BY <1>2, <2>1, WrittenIs
  <2>3. QED
    BY <1>2, <2>2, FirstFieldBegins DEF CodeField
<1>4. ASSUME NEW k \in 1 .. n
      PROVE  /\ Written[k] = Appended(Written[k - 1], Field(ResultType(f, k), texts[k]))
             /\ Written[k - 1] \in Text /\ Written[k] \in Text
  <2>1. k \in 0 .. Len(Returned) /\ k - 1 \in 0 .. Len(Returned) /\ k # 0
    BY <1>1
  <2>2. Written[k] = Appended(Written[k - 1], ResultField(Returned[k]))
    BY <1>2, <2>1, WrittenIs
  <2>3. ResultField(Returned[k]) = Field(ResultType(f, k), texts[k])
    BY <1>1 DEF ResultField, HaveText, ResultType
  <2>4. Begins(Written[k]) /\ Begins(Written[k - 1])
    BY <1>2, <2>1, WrittenBegins
  <2>5. QED
    BY <2>2, <2>3, <2>4 DEF Begins
<1>5. /\ Size(texts, 0) = Bytes(Field("INT", Numeral(0)))
      /\ \A k \in 1 .. n : Size(texts, k) = Size(texts, k - 1) + 2 + Bytes(texts[k])
      /\ \A k \in 0 .. n : Size(texts, k) \in Nat
  BY <1>1, StoresText, SizeIs
<1> DEFINE Whole0(k) == Bytes(Written[k]) = Size(texts, k)
           Done == {k \in Nat : k <= n /\ Size(texts, k) <= MaxResponse => Whole0(k)}
<1>6. ASSUME NEW k \in 1 .. n, Size(texts, k) <= MaxResponse,
             Size(texts, k - 1) <= MaxResponse => Whole0(k - 1)
      PROVE  Written[k] = Written[k - 1] \o Field(ResultType(f, k), texts[k]) /\ Whole0(k)
  <2>1. PICK field \in Text : field = Field(ResultType(f, k), texts[k])
                               /\ Bytes(field) = 2 + Bytes(texts[k])
    BY <1>1, StoresText
  <2>2. PICK msg \in Text : msg = Written[k - 1] /\ Written[k] = Appended(msg, field)
    BY <1>4, <2>1
  <2>3. Bytes(texts[k]) \in Nat /\ Bytes(field) \in Nat /\ Bytes(msg) \in Nat
    BY <1>1, <2>1, <2>2, StoresText, BytesType
  <2>4. k - 1 \in 0 .. n /\ MaxResponse \in Nat
    BY <1>1, MarshalAssumption
  <2>5. /\ Bytes(msg) = Size(texts, k - 1)
        /\ MaxResponse - Bytes(msg) \in Nat /\ Bytes(field) <= MaxResponse - Bytes(msg)
        /\ Bytes(msg) + Bytes(field) = Size(texts, k)
    <3>1. Size(texts, k) = Size(texts, k - 1) + 2 + Bytes(texts[k]) /\ Size(texts, k - 1) \in Nat
      BY <1>5, <2>4
    <3> HIDE DEF Done
    <3>2. QED
      BY <1>6, <2>1, <2>2, <2>3, <2>4, <3>1
  <2>6. Written[k] = msg \o field
    <3>1. Cut(field, MaxResponse - Bytes(msg)) = field
      BY <2>5, CutOfShort
    <3>2. QED
      BY <2>2, <3>1 DEF Appended
  <2>7. Bytes(Written[k]) = Size(texts, k)
    BY <2>5, <2>6, BytesAddUp
  <2>8. QED
    BY <2>1, <2>2, <2>6, <2>7
<1>7. Nat \subseteq Done
  <2>1. 0 \in Done
    BY <1>3, <1>5
  <2>2. ASSUME NEW k \in Nat, k \in Done PROVE k + 1 \in Done
    <3> SUFFICES ASSUME k + 1 <= n, Size(texts, k + 1) <= MaxResponse PROVE Whole0(k + 1)
      OBVIOUS
    <3>1. PICK m \in 1 .. n : m = k + 1 /\ m - 1 = k /\ k <= n
      BY <1>1
    <3>2. Size(texts, m - 1) <= MaxResponse => Whole0(m - 1)
      BY <2>2, <3>1
    <3>3. Size(texts, m) <= MaxResponse
      BY <3>1
    <3> HIDE DEF Whole0, Done
    <3>4. Whole0(m)
      BY <1>6, <3>2, <3>3, Zenon
    <3>5. QED
      BY <3>1, <3>4
  <2> HIDE DEF Done
  <2>3. QED
    BY <2>1, <2>2, Induction
<1>8. ASSUME NEW k \in 1 .. n, Size(texts, k) <= MaxResponse
      PROVE  Written[k] = Written[k - 1] \o Field(ResultType(f, k), texts[k])
  <2>1. k - 1 \in Done /\ k - 1 <= n
    BY <1>1, <1>7
  <2>2. Size(texts, k - 1) <= MaxResponse => Whole0(k - 1)
    BY <2>1
  <2> HIDE DEF Whole0, Done
  <2>3. QED
    BY <1>6, <1>8, <2>2
<1>9. QED
  BY <1>1, <1>3, <1>8

\* What is written stays at the beginning of the response.
LEMMA WrittenStays ==
  ASSUME Buffers, function \in Registered \cup {"none"}, error \in DOMAIN Code
  PROVE  \A k \in 0 .. Len(Returned) : \E rest \in Text : Response = Written[k] \o rest
<1>1. PICK n \in Nat : n = Len(Returned)
  BY ReturnedCount
<1>2. \A k \in 0 .. n : Written[k] \in Text /\ Bytes(Written[k]) <= MaxResponse
  BY <1>1, WrittenBegins DEF Begins
<1> DEFINE Ends(k) == \E rest \in Text : Response = Written[k] \o rest
           Done == {j \in Nat : j <= n => Ends(n - j)}
<1>3. 0 \in Done
  <2>1. Response = Written[n] \o <<>> /\ <<>> \in Text
    BY <1>1, <1>2, JoinedToNothing DEF Response
  <2>2. n - 0 = n
    OBVIOUS
  <2>3. QED
    BY <2>1, <2>2
<1>4. ASSUME NEW j \in Nat, j \in Done PROVE j + 1 \in Done
  <2> SUFFICES ASSUME j + 1 <= n PROVE Ends(n - (j + 1))
    OBVIOUS
  <2>1. PICK k \in 1 .. n : k = n - j /\ k - 1 = n - (j + 1) /\ k - 1 \in 0 .. n /\ k \in 0 .. n
    OBVIOUS
  <2>2. PICK rest \in Text : Response = Written[k] \o rest
    BY <1>4, <2>1
  <2>3. PICK msg \in Text : msg = Written[k - 1] /\ Bytes(msg) <= MaxResponse
    BY <1>2, <2>1
  <2>4. PICK field \in Text : field = ResultField(Returned[k])
    BY <1>1, ResultFieldIsText
  <2>5. Written[k] = Appended(msg, field)
    <3>1. k \in 0 .. Len(Returned) /\ k # 0
      BY <1>1
    <3>2. QED
      BY <2>3, <2>4, <3>1, WrittenIs
  <2>6. PICK kept \in Text : Written[k] = msg \o kept
    <3>1. MaxResponse - Bytes(msg) \in Nat
      BY <2>3, BytesType, MarshalAssumption
    <3>2. QED
      BY <2>5, <3>1, CutFits DEF Appended
  <2>7. Response = msg \o (kept \o rest) /\ kept \o rest \in Text
    <3>1. (msg \o kept) \o rest = msg \o (kept \o rest)
      BY <2>2, <2>3, <2>6, JoinedAgain, ZenonT(30)
    <3>2. kept \o rest \in Text
      BY <2>2, <2>6, Joined
    <3>3. QED
      BY <2>2, <2>6, <3>1, <3>2
  <2>8. Response = Written[n - (j + 1)] \o (kept \o rest)
    BY <2>1, <2>3, <2>7
  <2> HIDE DEF Done
  <2>9. QED
    BY <2>7, <2>8
<1>5. Nat \subseteq Done
  <2> HIDE DEF Done
  <2>1. QED
    BY <1>3, <1>4, Induction
<1>6. ASSUME NEW k \in 0 .. n PROVE Ends(k)
  <2>1. n - k \in Nat /\ n - k <= n /\ n - (n - k) = k
    OBVIOUS
  <2>2. Ends(n - (n - k))
    <3>1. n - k \in Done
      <4> HIDE DEF Done
      <4>1. QED
        BY <1>5, <2>1
    <3>2. QED
      BY <2>1, <3>1
  <2>3. QED
    BY <2>1, <2>2
<1>7. QED
  BY <1>1, <1>6

LEMMA ResponseIsSent ==
  ASSUME Buffers, NEW f \in Registered, f = function, f # "none", error = "OK",
         NEW texts, Stores(f, texts), HaveText(f, texts)
  PROVE  SentOK(f, texts, Response)
<1>1. PICK n \in Nat : n = Len(Results(f)) /\ f \in Function /\ error \in DOMAIN Code
  BY StoresText, MarshalAssumption DEF Code
<1>2. /\ Len(Returned) = n /\ Written[0] = Field("INT", Numeral(0))
      /\ \A k \in 1 .. n :
           Size(texts, k) <= MaxResponse =>
             Written[k] = Written[k - 1] \o Field(ResultType(f, k), texts[k])
  BY <1>1, WrittenWhole
<1>3. \A k \in 0 .. n : \E t \in Text : Response = Written[k] \o t
  BY <1>1, <1>2, WrittenStays
<1>4. \A k \in 0 .. n : Written[k] \in Text
  BY <1>1, <1>2, WrittenBegins DEF Begins
<1>5. PICK rest \in [0 .. n -> Text] : \A k \in 0 .. n : Response = Written[k] \o rest[k]
  <2> DEFINE chosen == [k \in 0 .. n |-> CHOOSE t \in Text : Response = Written[k] \o t]
  <2>1. \A k \in 0 .. n : chosen[k] \in Text /\ Response = Written[k] \o chosen[k]
    BY <1>3
  <2>2. chosen \in [0 .. n -> Text]
    BY <2>1
  <2>3. QED
    BY <2>1, <2>2
<1>6. ASSUME NEW k \in 1 .. n, Size(texts, k) <= MaxResponse
      PROVE  rest[k - 1] = Field(ResultType(f, k), texts[k]) \o rest[k]
  <2>1. k - 1 \in 0 .. n /\ k \in 0 .. n
    OBVIOUS
  <2>2. PICK msg \in Text, field \in Text, before \in Text, after \in Text :
          /\ msg = Written[k - 1] /\ field = Field(ResultType(f, k), texts[k])
          /\ before = rest[k - 1] /\ after = rest[k]
    BY <1>1, <1>4, <2>1, StoresText
  <2>3. Response = msg \o before
    BY <1>5, <2>1, <2>2
  <2>4. Response = (msg \o field) \o after
    <3>1. Response = Written[k] \o rest[k] /\ Written[k] = msg \o field
      BY <1>2, <1>5, <1>6, <2>1, <2>2
    <3>2. QED
      BY <2>2, <3>1
  <2>5. Response = msg \o (field \o after) /\ field \o after \in Text
    <3>1. (msg \o field) \o after = msg \o (field \o after)
      <4>1. msg \in Text /\ field \in Text /\ after \in Text
        BY <2>2
      <4>2. QED
        BY <4>1, JoinedAgain, ZenonT(30)
    <3>2. field \o after \in Text
      BY <2>2, Joined
    <3>3. QED
      BY <2>4, <3>1, <3>2
  <2>6. before = field \o after
    BY <2>3, <2>5, SameRest
  <2>7. QED
    BY <2>2, <2>6
<1>7. IsRest(f, texts, rest)
  BY <1>1, <1>5, <1>6 DEF IsRest
<1>8. Response = Field("INT", Numeral(0)) \o rest[0]
  <2>1. 0 \in 0 .. n
    OBVIOUS
  <2>2. QED
    BY <1>2, <1>5, <2>1
<1>9. QED
  BY <1>7, <1>8 DEF SentOK

IsFollowed(msg, field, rest) == msg = field \o rest

\* The stub finds a text in which each character is a byte, and what follows.
LEMMA FieldIsUnpacked ==
  ASSUME NEW type \in Type \ {"VOID"}, NEW text \in Sendable, Bytes(text) = Len(text),
         NEW rest \in Text, IsFollowed(g_msg, Field(type, text), rest)
  PROVE  Counted = Len(text) /\ Taken = text /\ Rest(g_msg, 2 + Counted) = rest
<1>1. PICK a \in Char, b \in Char :
        /\ a = Digit[type] /\ b = Hex(Bytes(text)) /\ IsLength(b) /\ Length(b) = Bytes(text)
        /\ Field(type, text) = <<a, b>> \o text
  BY FieldParts, Zenon
<1>2. PICK head \in Text : head = <<a, b>> /\ Len(head) = 2 /\ head[1] = a /\ head[2] = b
  BY PairIsText
<1>3. text \in Text /\ Len(text) \in Nat
  BY BytesType DEF Sendable
<1>4. PICK field \in Text : field = Field(type, text) /\ Len(field) = 2 + Len(text)
                            /\ field = head \o text
  BY <1>1, <1>2, FieldIsText
<1>5. /\ g_msg \in Text /\ Len(g_msg) \in Nat /\ Len(g_msg) >= 2 + Len(text)
      /\ \A k \in 1 .. Len(field) : g_msg[k] = field[k]
  <2>1. g_msg = field \o rest
    BY <1>4 DEF IsFollowed
  <2>2. /\ g_msg \in Text /\ Len(g_msg) = Len(field) + Len(rest) /\ Len(rest) \in Nat
        /\ \A k \in 1 .. Len(field) : g_msg[k] = field[k]
    <3>1. PICK msg \in Text : msg = field \o rest /\ Len(msg) = Len(field) + Len(rest)
                               /\ \A k \in 1 .. Len(field) : msg[k] = field[k]
      BY Joined
    <3>2. Len(rest) \in Nat
      BY DEF Text
    <3>3. QED
      BY <2>1, <3>1, <3>2, Zenon
  <2>3. Len(field) = 2 + Len(text) /\ Len(g_msg) \in Nat
    BY <1>4, <2>2 DEF Text
  <2>4. QED
    BY <1>3, <2>2, <2>3
<1>6. g_msg[2] = b
  <2>1. 2 \in 1 .. Len(head) /\ 2 \in 1 .. Len(field)
    BY <1>2, <1>3, <1>4
  <2>2. field[2] = head[2]
    BY <1>3, <1>4, <2>1, First
  <2>3. QED
    BY <1>2, <1>5, <2>1, <2>2
<1>7. Counted = Len(text)
  BY <1>1, <1>3, <1>5, <1>6 DEF Counted
<1>8. Taken = text
  <2>1. Taken = SubSeq(g_msg, 3, 2 + Len(text))
    BY <1>3, <1>5, <1>7 DEF Taken
  <2>2. /\ SubSeq(g_msg, 3, 2 + Len(text)) \in Text
        /\ Len(SubSeq(g_msg, 3, 2 + Len(text))) = Len(text)
        /\ \A k \in 1 .. Len(text) : SubSeq(g_msg, 3, 2 + Len(text))[k] = g_msg[2 + k]
    <3>1. g_msg \in Seq(Char) /\ \A k \in 3 .. 2 + Len(text) : g_msg[k] \in Char
      BY <1>3, <1>5 DEF Text
    <3>2. PICK n \in Nat : n = Len(text)
      BY <1>3
    <3>3. PICK part : part = SubSeq(g_msg, 3, 2 + n)
      OBVIOUS
    <3>4. /\ part \in Seq(Char) /\ Len(part) = IF 3 <= 2 + n THEN 2 + n - 3 + 1 ELSE 0
          /\ \A k \in 1 .. 2 + n - 3 + 1 : part[k] = g_msg[3 + k - 1]
      <4>1. 2 + n \in Int /\ 3 \in Int /\ \A k \in 3 .. 2 + n : g_msg[k] \in Char
        BY <3>1, <3>2
      <4>2. PICK end \in Int : end = 2 + n
        BY <4>1
      <4>3. /\ SubSeq(g_msg, 3, end) \in Seq(Char)
            /\ Len(SubSeq(g_msg, 3, end)) = IF 3 <= end THEN end - 3 + 1 ELSE 0
            /\ \A k \in 1 .. end - 3 + 1 : SubSeq(g_msg, 3, end)[k] = g_msg[3 + k - 1]
        <5>1. \A k \in 3 .. end : g_msg[k] \in Char
          BY <4>1, <4>2
        <5>2. 3 \in Int
          OBVIOUS
        <5>3. QED
          BY <5>1, <5>2, SubSeqProperties
      <4>4. QED
        BY <3>3, <4>2, <4>3
    <3>5. Len(part) = n /\ \A k \in 1 .. n : k \in 1 .. 2 + n - 3 + 1 /\ 3 + k - 1 = 2 + k
      BY <3>4
    <3>6. \A k \in 1 .. n : part[k] = g_msg[2 + k]
      BY <3>4, <3>5
    <3>7. QED
      BY <3>2, <3>3, <3>4, <3>5, <3>6 DEF Text
  <2>3. ASSUME NEW k \in 1 .. Len(text) PROVE g_msg[2 + k] = text[k]
    <3>1. 2 + k \in 1 .. Len(field)
      BY <1>3, <1>4
    <3>2. field[2 + k] = text[k]
      <4>1. (head \o text)[Len(head) + k] = text[k]
        BY <1>2, <1>3, Joined
      <4>2. QED
        BY <1>2, <1>4, <4>1
    <3>3. QED
      BY <1>5, <3>1, <3>2
  <2>4. QED
    BY <1>3, <2>1, <2>2, <2>3, SeqEqual DEF Text
<1>9. Rest(g_msg, 2 + Counted) = rest
  <2>1. SubSeq(field \o rest, Len(field) + 1, Len(field \o rest)) = rest
    BY JoinedParts, Zenon
  <2>2. QED
    BY <1>4, <1>7, <2>1 DEF Rest, IsFollowed
<1>10. QED
  BY <1>7, <1>8, <1>9

\* A code that is read as OK leaves what follows it.
LEMMA CodeIsUnpacked ==
  ASSUME NEW rest \in Text, IsFollowed(g_msg, Field("INT", Numeral(0)), rest), CodeIsOK
  PROVE  Rest(g_msg, 2 + Counted) = rest
<1>1. PICK text \in Sendable : text = Numeral(0) /\ Len(text) = 1 /\ Bytes(text) \in 1 .. 2
  <2>1. 0 \in Number
    BY ParametersAssumption
  <2>2. QED
    BY <2>1, NumeralIsSendable, NumeralIsText
<1>t. Len(text) = 1
  BY <1>1, Zenon
<1>2. "INT" \in Type \ {"VOID"} /\ text \in Text
  BY DEF Type, Sendable
<1>3. CASE Bytes(text) = 1
  BY <1>1, <1>2, <1>3, FieldIsUnpacked
<1>4. CASE Bytes(text) = 2
  <2>1. PICK a \in Char, b \in Char :
          /\ b = Hex(Bytes(text)) /\ IsLength(b) /\ Length(b) = Bytes(text)
          /\ Field("INT", text) = <<a, b>> \o text
    BY <1>2, FieldParts, Zenon
  <2>2. PICK head \in Text : head = <<a, b>> /\ Len(head) = 2 /\ head[2] = b
    BY PairIsText
  <2>3. PICK field \in Text : field = Field("INT", text) /\ field = head \o text /\ Len(field) = 3
    <3>1. Field("INT", text) \in Text /\ Len(Field("INT", text)) = 2 + Len(text)
      BY <1>2, FieldIsText
    <3>2. Len(Field("INT", text)) = 3
      BY <1>t, <3>1
    <3>3. QED
      BY <2>1, <2>2, <3>1, <3>2, Zenon
  <2>t. Len(field) = 3
    BY <2>3, Zenon
  <2>4. field[2] = b
    <3>1. 2 \in 1 .. Len(head)
      BY <2>2
    <3>2. QED
      BY <1>2, <2>2, <2>3, <3>1, First
  <2>5. g_msg = field \o rest /\ g_msg \in Text /\ Len(g_msg) = 3 + Len(rest) /\ Len(rest) \in Nat
    <3>1. g_msg = field \o rest
      BY <1>1, <2>3 DEF IsFollowed
    <3>2. field \o rest \in Text /\ Len(field \o rest) = Len(field) + Len(rest) /\ Len(rest) \in Nat
      BY Joined
    <3>3. QED
      BY <2>3, <3>1, <3>2
  <2>6. g_msg[2] = b
    <3>1. 2 \in 1 .. Len(field)
      BY <2>t
    <3>2. g_msg[2] = field[2]
      BY <2>5, <3>1, First
    <3>3. QED
      BY <2>4, <3>2
  <2>7. Counted = 2
    BY <1>4, <2>1, <2>5, <2>6 DEF Counted
  <2>8. Len(rest) = 0
    <3> SUFFICES ASSUME Len(rest) # 0 PROVE FALSE
      BY <2>5
    <3>1. Taken = SubSeq(g_msg, 3, 4) /\ Len(g_msg) >= 4
      BY <2>5, <2>7 DEF Taken
    <3>2. Len(SubSeq(g_msg, 3, 4)) = 2
      <4>1. \A k \in 3 .. 4 : g_msg[k] \in Char
        BY <2>5, <3>1 DEF Text
      <4>2. QED
        BY <2>5, <3>1, <4>1, SubSeqProperties DEF Text
    <3>3. Taken = text
      BY <1>1 DEF CodeIsOK
    <3>4. Len(text) = 2
      BY <3>1, <3>2, <3>3, Zenon
    <3>5. QED
      BY <1>t, <3>4
  <2>9. rest = <<>>
    BY <2>8 DEF Text
  <2>10. Rest(g_msg, 2 + Counted) = <<>>
    BY <2>5, <2>7, <2>8 DEF Rest, Text
  <2>11. QED
    BY <2>9, <2>10
<1>5. QED
  BY <1>1, <1>3, <1>4

\* Texts that the stub reads as they were sent.
Plain(texts, k) ==
  /\ Size(texts, k) <= MaxResponse
  /\ \A i \in 1 .. k : Bytes(texts[i]) = Len(texts[i])

\* The results the stub has got belong to the call, whose function has stored them.
Fetched ==
  /\ results \in Seq(Text)
  /\ proc \in {"packing", "sent", "parsing", "executed", "received"} => results = <<>>
  /\ results # <<>> => ran /\ Len(results) <= Len(Results(Caller))
  /\ ran => Stores(Caller, stored)
  /\ proc = "executed" => HaveText(Caller, stored)

\* The response, and what is left of it behind plain results.
IsSent == proc = "received" /\ error = "OK" => SentOK(Caller, stored, g_msg)
Unread ==
  proc = "unpacking" =>
    /\ g_msg \in Text
    /\ Plain(stored, Len(results)) => IsUnread(Caller, stored, Len(results), g_msg)

ReturnInv == Fetched /\ IsSent /\ Unread /\ ResultsReturn

LEMMA ResultsReturnIs ==
  ResultsReturn <=> \A k \in 1 .. Len(results) : Plain(stored, k) => results[k] = stored[k]
BY DEF ResultsReturn, Whole, SingleBytes, Plain

LEMMA ReturnInit == Init => ReturnInv
<1> SUFFICES ASSUME Init PROVE ReturnInv
  OBVIOUS
<1>1. proc = "idle" /\ results = <<>> /\ ran = FALSE /\ results \in Seq(Text) /\ Len(results) = 0
  BY DEF Init
<1>2. Fetched /\ IsSent /\ Unread
  BY <1>1 DEF Fetched, IsSent, Unread
<1>3. ResultsReturn
  BY <1>1, ResultsReturnIs
<1>4. QED
  BY <1>2, <1>3 DEF ReturnInv

\* A step that leaves the results, what was stored and the call alone.
LEMMA ReturnStays ==
  ASSUME ReturnInv, called'.function = called.function, UNCHANGED <<results, ran, stored>>,
         proc' \notin {"executed", "received", "unpacking"},
         proc' \in {"packing", "sent", "parsing"} => proc \in {"packing", "sent", "parsing"}
  PROVE  ReturnInv'
<1>1. Caller' = Caller
  BY DEF Caller
<1>2. Fetched'
  BY <1>1 DEF ReturnInv, Fetched
<1>3. IsSent' /\ Unread'
  BY DEF IsSent, Unread
<1>4. ResultsReturn'
  <2>1. \A k \in 1 .. Len(results) : Plain(stored, k) => results[k] = stored[k]
    BY ResultsReturnIs DEF ReturnInv
  <2>2. \A k \in 1 .. Len(results') : Plain(stored', k) => results'[k] = stored'[k]
    BY <2>1
  <2>3. QED
    BY <2>2 DEF ResultsReturn, Whole, SingleBytes, Plain
<1>5. QED
  BY <1>2, <1>3, <1>4 DEF ReturnInv

LEMMA NewRequestReturns ==
  ASSUME ReturnInv, NEW f \in Function, NewRequest(f)
  PROVE  ReturnInv'
<1>1. proc' = "packing" /\ results' = <<>> /\ ran' = FALSE /\ results' \in Seq(Text) /\ Len(results') = 0
  BY DEF NewRequest
<1>2. Fetched' /\ IsSent' /\ Unread'
  BY <1>1 DEF Fetched, IsSent, Unread
<1>3. ResultsReturn'
  BY <1>1 DEF ResultsReturn
<1>4. QED
  BY <1>2, <1>3 DEF ReturnInv

LEMMA ExecuteReturns ==
  ASSUME MarshalInv, ReturnInv, Execute
  PROVE  ReturnInv'
<1>1. PICK f \in Function : f = Caller /\ f = function /\ f # "none" /\ f \in Registered
  BY MarshalAssumption DEF MarshalInv, CallTypes, Progress, Request, Caller, Execute
<1>2. /\ results = <<>> /\ results' = <<>> /\ results' \in Seq(Text) /\ Len(results') = 0
      /\ proc' = "executed" /\ called' = called /\ Caller' = f
  BY <1>1 DEF ReturnInv, Fetched, Execute, stub, Caller
<1>3. PICK values \in Result[function] :
        /\ \A k \in DOMAIN values : Fits(Params[function][Results(function)[k]], values[k])
        /\ data' = [data EXCEPT ![function] =
                      [i \in Index(function) |->
                         IF \E k \in DOMAIN values : Results(function)[k] = i
                         THEN values[CHOOSE k \in DOMAIN values : Results(function)[k] = i]
                         ELSE @[i]]]
        /\ stored' = [k \in DOMAIN values |->
                        TextOf(Params[function][Results(function)[k]].type, values[k])]
  BY Zenon DEF Execute
<1>4. /\ Buffers' /\ DOMAIN values = 1 .. Len(Results(function))
      /\ \A k \in 1 .. Len(Results(function)) :
           data'[function][Results(function)[k]] = values[k]
  BY <1>1, <1>3, ResultsHold DEF MarshalInv
<1>5. stored' = [k \in 1 .. Len(Results(f)) |-> TextOf(ResultType(f, k), values[k])]
  BY <1>1, <1>3, <1>4 DEF ResultType
<1>6. HaveText(f, stored)'
  BY <1>1, <1>4, <1>5 DEF HaveText
<1>7. Stores(f, stored')
  <2>1. ASSUME NEW k \in 1 .. Len(Results(f)) PROVE stored'[k] \in Sendable
    <3>1. PICK i \in Index(f) : i = Results(f)[k] /\ Params[f][i].type \in Type \ {"VOID"}
      BY ResultIs
    <3>2. Holds(Params[f][i], data'[f][i])
      BY <1>1, <1>4 DEF Buffers
    <3>3. TextOf(Params[f][i].type, data'[f][i]) \in Sendable
      BY <3>1, <3>2, HeldIsSendable
    <3>4. QED
      BY <1>1, <1>4, <1>5, <3>1, <3>3 DEF ResultType
  <2>2. QED
    BY <1>5, <2>1 DEF Stores
<1>8. Fetched'
  BY <1>2, <1>6, <1>7 DEF Fetched, HaveText, Stores
<1>9. IsSent' /\ Unread'
  BY <1>2 DEF IsSent, Unread
<1>10. ResultsReturn'
  BY <1>2 DEF ResultsReturn
<1>11. QED
  BY <1>8, <1>9, <1>10 DEF ReturnInv

LEMMA RespondReturns ==
  ASSUME MarshalInv, ReturnInv, Respond
  PROVE  ReturnInv'
<1>1. /\ proc = "executed" \/ (proc = "parsing" /\ error # "OK")
      /\ UNCHANGED <<called, results, function, error, nr, data, ran, seen, stored>>
  BY DEF Respond, history
<1>2. CASE function \in Oneway
  <2>1. proc' \in {"idle", "ended"}
    BY <1>2 DEF Respond
  <2>2. QED
    BY <1>1, <2>1, ReturnStays
<1>3. CASE function \notin Oneway
  <2>1. g_msg' = Response /\ proc' = "received"
    BY <1>3 DEF Respond
  <2>2. /\ results = <<>> /\ results' = <<>> /\ results' \in Seq(Text) /\ Len(results') = 0
        /\ Caller' = Caller
    BY <1>1 DEF ReturnInv, Fetched, Caller
  <2>3. Fetched'
    BY <1>1, <2>1, <2>2 DEF ReturnInv, Fetched
  <2>4. IsSent'
    <3> SUFFICES ASSUME error = "OK" PROVE SentOK(Caller, stored, Response)
      BY <1>1, <2>1, <2>2 DEF IsSent
    <3>1. proc = "executed" /\ ran /\ Stores(Caller, stored) /\ HaveText(Caller, stored)
      BY <1>1 DEF MarshalInv, Progress, ReturnInv, Fetched
    <3>2. Caller = function /\ function \in Registered /\ function # "none" /\ Buffers
      BY <3>1 DEF MarshalInv, CallTypes, Progress, ArgumentsArrive
    <3>3. QED
      BY <3>1, <3>2, ResponseIsSent
  <2>5. Unread'
    BY <2>1 DEF Unread
  <2>6. ResultsReturn'
    BY <2>2 DEF ResultsReturn
  <2>7. QED
    BY <2>3, <2>4, <2>5, <2>6 DEF ReturnInv
<1>4. QED
  BY <1>2, <1>3

\* What is left of a message is a text.
LEMMA PartsAreText ==
  ASSUME g_msg \in Text, NEW type, Readable(type)
  PROVE  Taken \in Text /\ Rest(g_msg, 2 + Counted) \in Text
<1>1. PICK n \in Nat : n = Len(g_msg) /\ \A k \in 1 .. n : g_msg[k] \in Char
  BY DEF Text
<1>2. Counted \in Nat
  BY <1>1, MarshalAssumption DEF Counted, Readable, IsLength, Length
<1>3. PICK end \in Nat : Taken = SubSeq(g_msg, 3, end) /\ end <= n
  BY <1>1, <1>2 DEF Taken
<1>4. PICK from \in Nat : from >= 1 /\ Rest(g_msg, 2 + Counted) = SubSeq(g_msg, from, n)
  <2>1. 2 + Counted + 1 \in Nat /\ 2 + Counted + 1 >= 1
    BY <1>2
  <2>2. Rest(g_msg, 2 + Counted) = SubSeq(g_msg, 2 + Counted + 1, n)
    BY <1>1 DEF Rest
  <2> HIDE DEF Counted
  <2>3. QED
    BY <2>1, <2>2
<1>5. \A k \in 3 .. end : g_msg[k] \in Char
  BY <1>1, <1>3
<1>6. \A k \in from .. n : g_msg[k] \in Char
  BY <1>1, <1>4
<1>7. 3 \in Int /\ end \in Int /\ from \in Int /\ n \in Int
  OBVIOUS
<1>8. Taken \in Text
  BY <1>3, <1>5, <1>7, SubSeqProperties DEF Text
<1>9. Rest(g_msg, 2 + Counted) \in Text
  <2>1. SubSeq(g_msg, from, n) \in Seq(Char)
    BY <1>6, <1>7, SubSeqProperties, Zenon
  <2>2. QED
    BY <1>4, <2>1, Zenon DEF Text
<1>10. QED
  BY <1>8, <1>9

LEMMA RecvReturns ==
  ASSUME MarshalInv, ReturnInv, RecvResponse
  PROVE  ReturnInv'
<1>1. /\ proc = "received" /\ g_msg' = Rest(g_msg, 2 + Counted)
      /\ UNCHANGED <<called, results, ran, seen, stored>>
  BY DEF RecvResponse, history
<1>2. CASE ~CodeIsOK
  <2>1. proc' = "idle"
    BY <1>2 DEF RecvResponse, Leave
  <2>2. QED
    BY <1>1, <2>1, ReturnStays
<1>3. CASE CodeIsOK
  <2>1. proc' = "unpacking"
    BY <1>3 DEF RecvResponse
  <2>2. Begins(g_msg) /\ error \in DOMAIN Code
    BY <1>1 DEF MarshalInv, CallTypes, Responded
  <2>3. error = "OK"
    BY <1>3, <2>2, CodeIsRead
  <2>4. ran /\ Caller \in Function /\ results = <<>> /\ Len(results) = 0 /\ Stores(Caller, stored)
    BY <1>1, <2>3 DEF MarshalInv, CallTypes, Progress, ReturnInv, Fetched, Caller
  <2>5. PICK rest : IsRest(Caller, stored, rest) /\ g_msg = Field("INT", Numeral(0)) \o rest[0]
    BY <1>1, <2>3 DEF ReturnInv, IsSent, SentOK
  <2>6. rest[0] \in Text
    <3>1. 0 \in 0 .. Len(Results(Caller))
      BY <2>4, ResultIs
    <3>2. QED
      BY <2>5, <3>1 DEF IsRest
  <2>7. g_msg' = rest[0]
    BY <1>1, <1>3, <2>5, <2>6, CodeIsUnpacked DEF IsFollowed
  <2>8. Fetched'
    BY <1>1, <2>1 DEF ReturnInv, Fetched, Caller
  <2>9. IsSent'
    BY <2>1 DEF IsSent
  <2>10. Unread'
    <3>1. IsUnread(Caller, stored, 0, g_msg')
      BY <2>5, <2>7, Zenon DEF IsUnread
    <3>2. Caller' = Caller /\ Len(results') = 0
      BY <1>1, <2>4 DEF Caller
    <3>3. QED
      BY <1>1, <2>6, <2>7, <3>1, <3>2 DEF Unread
  <2>11. ResultsReturn'
    <3>1. Len(results') = 0
      BY <1>1, <2>4
    <3>2. QED
      BY <3>1 DEF ResultsReturn
  <2>12. QED
    BY <2>8, <2>9, <2>10, <2>11 DEF ReturnInv
<1>4. QED
  BY <1>2, <1>3

\* Results before a plain one are plain.
LEMMA PlainBefore ==
  ASSUME NEW f \in Function, NEW texts, Stores(f, texts), NEW n \in Nat, n < Len(Results(f)),
         Plain(texts, n + 1)
  PROVE  Plain(texts, n) /\ Bytes(texts[n + 1]) = Len(texts[n + 1])
<1>1. PICK m \in Nat : m = Len(Results(f)) /\ texts \in [1 .. m -> Text]
  BY StoresText
<1>2. n + 1 \in 1 .. m /\ n + 1 - 1 = n /\ n \in 0 .. m
  BY <1>1
<1>3. Size(texts, n + 1) = Size(texts, n) + 2 + Bytes(texts[n + 1]) /\ Size(texts, n) \in Nat
  <2>1. /\ \A k \in 1 .. m : Size(texts, k) = Size(texts, k - 1) + 2 + Bytes(texts[k])
        /\ \A k \in 0 .. m : Size(texts, k) \in Nat
    BY <1>1, SizeIs
  <2>2. PICK k \in 1 .. m : k = n + 1 /\ k - 1 = n
    BY <1>2
  <2>3. Size(texts, k) = Size(texts, k - 1) + 2 + Bytes(texts[k])
    BY <2>1
  <2>4. QED
    BY <1>2, <2>1, <2>2, <2>3
<1>4. Bytes(texts[n + 1]) \in Nat /\ MaxResponse \in Nat
  BY <1>1, <1>2, BytesType, MarshalAssumption
<1>5. Size(texts, n) <= MaxResponse
  BY <1>3, <1>4 DEF Plain
<1>6. \A i \in 1 .. n : i \in 1 .. n + 1
  OBVIOUS
<1>7. QED
  BY <1>2, <1>5, <1>6 DEF Plain

\* The next result is read behind the ones before it.
LEMMA NextIsUnpacked ==
  ASSUME NEW f \in Function, NEW texts, Stores(f, texts), NEW n \in Nat, n < Len(Results(f)),
         Plain(texts, n + 1), IsUnread(f, texts, n, g_msg)
  PROVE  Taken = texts[n + 1] /\ IsUnread(f, texts, n + 1, Rest(g_msg, 2 + Counted))
<1>1. PICK rest : IsRest(f, texts, rest) /\ g_msg = rest[n]
  BY DEF IsUnread
<1>2. PICK k \in 1 .. Len(Results(f)) : k = n + 1 /\ k - 1 = n
  BY StoresText
<1>3. PICK text \in Sendable, type \in Type \ {"VOID"} :
        text = texts[k] /\ type = ResultType(f, k)
  BY <1>2, StoresText
<1>4. Bytes(text) = Len(text) /\ Size(texts, k) <= MaxResponse
  BY <1>2, <1>3, PlainBefore DEF Plain
<1>5. PICK after \in Text : after = rest[k] /\ rest[n] = Field(type, text) \o after
  <2>1. k \in 0 .. Len(Results(f))
    BY <1>2, StoresText
  <2>2. rest[k] \in Text /\ rest[k - 1] = Field(ResultType(f, k), texts[k]) \o rest[k]
    BY <1>1, <1>4, <2>1 DEF IsRest
  <2>3. QED
    BY <1>2, <1>3, <2>2
<1>6. IsFollowed(g_msg, Field(type, text), after)
  BY <1>1, <1>5 DEF IsFollowed
<1>7. Taken = text /\ Rest(g_msg, 2 + Counted) = after
  BY <1>4, <1>6, FieldIsUnpacked
<1>8. QED
  BY <1>1, <1>2, <1>3, <1>5, <1>7, Zenon DEF IsUnread

LEMMA GetReturns ==
  ASSUME MarshalInv, ReturnInv, GetResponseParameter
  PROVE  ReturnInv'
<1>1. PICK f \in Function : f = Caller
  BY DEF MarshalInv, CallTypes, Progress, Caller, GetResponseParameter
<1>2. PICK n \in Nat : n = Len(results) /\ n < Len(Results(f))
  BY <1>1 DEF ReturnInv, Fetched, GetResponseParameter
<1>3. /\ proc = "unpacking" /\ ran /\ Stores(f, stored) /\ results \in Seq(Text) /\ g_msg \in Text
      /\ UNCHANGED <<called, ran, stored>> /\ Caller' = f
  BY <1>1 DEF MarshalInv, Progress, ReturnInv, Fetched, Unread, GetResponseParameter, history, Caller
<1>4. CASE Leave("raised") /\ results' = results
  BY <1>3, <1>4, ReturnStays DEF Leave
<1>5. CASE /\ Readable(Params[Caller][Wanted].type)
           /\ g_msg' = Rest(g_msg, 2 + Counted) /\ results' = Append(results, Taken) /\ proc' = proc
  <2>1. Taken \in Text /\ g_msg' \in Text
    BY <1>3, <1>5, PartsAreText
  <2>2. /\ results' \in Seq(Text) /\ Len(results') = n + 1 /\ results'[n + 1] = Taken
        /\ \A k \in 1 .. n : results'[k] = results[k]
    BY <1>2, <1>3, <1>5, <2>1, AppendProperties
  <2>3. n + 1 <= Len(Results(f))
    BY <1>2, ResultIs
  <2>4. Fetched'
    BY <1>1, <1>3, <1>5, <2>2, <2>3 DEF ReturnInv, Fetched
  <2>5. IsSent'
    BY <1>3, <1>5 DEF IsSent
  <2>6. ASSUME Plain(stored, n + 1)
        PROVE  Taken = stored[n + 1] /\ IsUnread(f, stored, n + 1, g_msg')
    <3>1. Plain(stored, n)
      BY <1>2, <1>3, <2>6, PlainBefore
    <3>2. IsUnread(f, stored, n, g_msg)
      BY <1>1, <1>2, <1>3, <3>1 DEF ReturnInv, Unread
    <3>3. QED
      BY <1>2, <1>3, <1>5, <2>6, <3>2, NextIsUnpacked
  <2>7. Unread'
    BY <1>3, <2>1, <2>2, <2>6 DEF Unread
  <2>8. ResultsReturn'
    <3>1. \A k \in 1 .. n : Plain(stored, k) => results[k] = stored[k]
      BY <1>2, ResultsReturnIs DEF ReturnInv
    <3>2. ASSUME NEW k \in 1 .. n + 1, Plain(stored, k) PROVE results'[k] = stored[k]
      <4>1. CASE k \in 1 .. n
        BY <2>2, <3>1, <3>2, <4>1
      <4>2. CASE k = n + 1
        BY <2>2, <2>6, <3>2, <4>2
      <4>3. QED
        BY <4>1, <4>2
    <3>3. \A k \in 1 .. Len(results') : Plain(stored', k) => results'[k] = stored'[k]
      BY <1>3, <2>2, <3>2
    <3>4. QED
      BY <3>3 DEF ResultsReturn, Whole, SingleBytes, Plain
  <2>9. QED
    BY <2>4, <2>5, <2>7, <2>8 DEF ReturnInv
<1>6. QED
  BY <1>4, <1>5 DEF GetResponseParameter

LEMMA ReturnNext == MarshalInv /\ ReturnInv /\ [Next]_vars => ReturnInv'
<1> SUFFICES ASSUME MarshalInv, ReturnInv, [Next]_vars PROVE ReturnInv'
  OBVIOUS
<1>1. CASE UNCHANGED vars
  <2>1. UNCHANGED <<proc, called, g_msg, error, data, results, ran, stored>>
    BY <1>1 DEF vars, stub, listener, history
  <2>2. Fetched' /\ IsSent' /\ Unread'
    BY <2>1 DEF ReturnInv, Fetched, IsSent, Unread, HaveText, Caller
  <2>3. ResultsReturn'
    BY <2>1 DEF ReturnInv, ResultsReturn, Whole, SingleBytes
  <2>4. QED
    BY <2>2, <2>3 DEF ReturnInv
<1>2. ASSUME NEW f \in Function, NewRequest(f) PROVE ReturnInv'
  BY <1>2, NewRequestReturns
<1>3. CASE Pack \/ SendRequest \/ ParseNames \/ ParseParameter \/ Restart \/ Return
  <2>1. /\ called'.function = called.function /\ UNCHANGED <<results, ran, stored>>
        /\ proc' \notin {"executed", "received", "unpacking"}
        /\ proc' \in {"packing", "sent", "parsing"} => proc \in {"packing", "sent", "parsing"}
    <3>1. called \in [function : Function \cup {"none"}, args : Seq(Values)]
      BY DEF MarshalInv, CallTypes
    <3>2. CASE Pack
      BY <3>1, <3>2 DEF Pack, SetRequestParameter, SetRequestRaises, Leave, history
    <3>3. CASE SendRequest
      BY <3>3 DEF SendRequest, Leave, history
    <3>4. CASE ParseNames
      BY <3>4 DEF ParseNames, stub, history
    <3>5. CASE ParseParameter
      BY <3>5 DEF ParseParameter, stub, history
    <3>6. CASE Restart \/ Return
      BY <3>6 DEF Restart, Return, Leave, history
    <3>7. QED
      BY <1>3, <3>2, <3>3, <3>4, <3>5, <3>6
  <2>2. QED
    BY <2>1, ReturnStays
<1>4. QED
  BY <1>1, <1>2, <1>3, ExecuteReturns, RespondReturns, RecvReturns, GetReturns DEF Next

-----------------------------------------------------------------------------
(* The theorems.                                                           *)

\* No buffer of a parameter and no message gets more than fits in it, whatever
\* the stubs send and the functions return.
THEOREM MarshalTypes == Spec => []TypeOK
<1>1. ASSUME MarshalInv PROVE TypeOK
  <2>1. ASSUME NEW f \in Registered, NEW i \in Index(f)
        PROVE  LET p == Params[f][i]
               IN  CASE p.type \in Texts -> Bytes(data[f][i]) < p.size
                     [] p.type = "INT" -> data[f][i] \in IntMin .. IntMax
                     [] OTHER -> data[f][i] \in Int
    <3>1. PICK p : p = Params[f][i]
      OBVIOUS
    <3>2. Holds(p, data[f][i]) /\ p.type \in Type
      BY <1>1, <3>1, TableIs, MarshalAssumption DEF MarshalInv, Buffers
    <3>3. QED
      BY <3>1, <3>2, ParametersAssumption DEF Holds, Texts, Type
  <2>2. called.function \in Function \cup {"none"}
    BY <1>1 DEF MarshalInv, CallTypes
  <2>3. QED
    BY <1>1, <2>1, <2>2 DEF MarshalInv, CallTypes, Responded, Begins, TypeOK
<1>2. QED
  BY <1>1, MarshalInit, MarshalNext, PTL DEF Spec

\* A function runs with the arguments that its stub was called with.
THEOREM ArgumentsDoArrive == Spec => []ArgumentsArrive
BY MarshalInit, MarshalNext, PTL DEF Spec, MarshalInv

\* The listener reads every request that a stub can pack, but for XML texts
\* that overflow their buffer.
THEOREM RequestsParse == Spec => []StubRequestsParse
BY MarshalInit, MarshalNext, PTL DEF Spec, MarshalInv

\* A call returns only when its function ran and all results were read.
THEOREM ReturnedWasExecuted == Spec => []ReturnedMeansExecuted
BY MarshalInit, MarshalNext, PTL DEF Spec, MarshalInv

\* A stub gets what the function stored, each result in its place, as far as
\* the response was not cut off and each byte was a character.
THEOREM ResultsDoReturn == Spec => []ResultsReturn
<1>1. Init => MarshalInv /\ ReturnInv
  BY MarshalInit, ReturnInit
<1>2. MarshalInv /\ ReturnInv /\ [Next]_vars => (MarshalInv /\ ReturnInv)'
  BY MarshalNext, ReturnNext
<1>3. MarshalInv /\ ReturnInv => ResultsReturn
  BY DEF ReturnInv
<1>4. QED
  BY <1>1, <1>2, <1>3, PTL DEF Spec

=============================================================================
