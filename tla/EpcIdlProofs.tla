---------------------------- MODULE EpcIdlProofs ----------------------------
(***************************************************************************)
(* The texts that the IDL compiler writes for a function fit together, and *)
(* a stub that was written gets its arguments to the function and its      *)
(* results back: for interfaces with any number of functions, parameters   *)
(* of any types and modes in any order, and texts of any length.           *)
(***************************************************************************)
EXTENDS EpcIdl, EpcSelectionProofs

-----------------------------------------------------------------------------
(* Functions.                                                              *)
Param == {p \in [mode : Mode, type : Type, size : Nat] : ParameterOK(p)}
Fun ==
  {fun \in [result : Param, oneway : BOOLEAN, parameters : Seq(Param)] :
     fun.result.mode = "OUT" /\ (fun.oneway => fun.result.type = "VOID")}

LEMMA ParamIs ==
  ASSUME NEW p \in Param
  PROVE  /\ p.mode \in Mode /\ p.type \in Type /\ p.size \in Nat /\ ParameterOK(p)
BY DEF Param

LEMMA FunIs ==
  ASSUME NEW fun \in Fun
  PROVE  /\ fun.result \in Param /\ fun.result.mode = "OUT"
         /\ fun.oneway \in BOOLEAN /\ (fun.oneway => fun.result.type = "VOID")
         /\ fun.parameters \in Seq(Param) /\ Len(fun.parameters) \in Nat
         /\ \A i \in 1 .. Len(fun.parameters) : fun.parameters[i] \in Param
<1>1. fun.parameters \in Seq(Param)
  BY DEF Fun
<1>2. Len(fun.parameters) \in Nat /\ \A i \in 1 .. Len(fun.parameters) : fun.parameters[i] \in Param
  BY <1>1
<1>3. QED
  BY <1>1, <1>2 DEF Fun

\* Every parameter that is read has the size of its type.
LEMMA InitParameterIs ==
  ASSUME NEW mode \in Mode, NEW type \in Types, NEW size \in Size
  PROVE  InitParameter(mode, type, size) \in Param /\ InitParameter(mode, type, size).mode = mode
BY IdlAssumption DEF InitParameter, Param, ParameterOK, Sized, Type, Number, Texts

-----------------------------------------------------------------------------
(* What is written.                                                        *)

\* Sequences that are written one behind the other.
IsBehind(u, s, t, S) ==
  /\ u \in Seq(S) /\ Len(s) \in Nat /\ Len(t) \in Nat
  /\ Len(u) = Len(s) + Len(t)
  /\ \A k \in 1 .. Len(s) : u[k] = s[k]
  /\ \A k \in 1 .. Len(t) : u[Len(s) + k] = t[k]

LEMMA Behind ==
  ASSUME NEW S, NEW s \in Seq(S), NEW t \in Seq(S)
  PROVE  IsBehind(s \o t, s, t, S)
<1>1. Len(s) \in Nat /\ Len(t) \in Nat
  OBVIOUS
<1>2. s \o t \in Seq(S) /\ Len(s \o t) = Len(s) + Len(t)
  BY ConcatProperties
<1>3. \A k \in 1 .. Len(s) + Len(t) :
        (s \o t)[k] = IF k <= Len(s) THEN s[k] ELSE t[k - Len(s)]
  BY ConcatProperties
<1>4. ASSUME NEW k \in 1 .. Len(s) PROVE (s \o t)[k] = s[k]
  BY <1>1, <1>3
<1>5. ASSUME NEW k \in 1 .. Len(t) PROVE (s \o t)[Len(s) + k] = t[k]
  <2>1. Len(s) + k \in 1 .. Len(s) + Len(t) /\ ~(Len(s) + k <= Len(s)) /\ Len(s) + k - Len(s) = k
    BY <1>1
  <2>2. QED
    BY <1>3, <2>1
<1>6. QED
  BY <1>1, <1>2, <1>4, <1>5 DEF IsBehind

\* The parameters a stub passes, and those it reads back.
ArgumentSet(fun) ==
  {i \in 1 .. Len(fun.parameters) :
     fun.parameters[i].mode \in {"IN", "INOUT"} /\ fun.parameters[i].type # "VOID"}
OutSet(fun) ==
  {i \in 1 .. Len(fun.parameters) :
     fun.parameters[i].mode \in {"INOUT", "OUT"} /\ fun.parameters[i].type # "VOID"}
Arguments(fun) == Ascending(ArgumentSet(fun))
Outs(fun) == Ascending(OutSet(fun))
Returns(fun) == IF fun.result.type = "VOID" THEN 0 ELSE 1
Waits(fun) == IF fun.oneway THEN 0 ELSE 1

\* The parameter a stub reads q-th; behind the parameters the return value.
Target(fun, q) == IF q <= Len(Outs(fun)) THEN Outs(fun)[q] ELSE 0
Targets(fun) == Len(Outs(fun)) + Returns(fun)
GetStatement(fun, q) ==
  Statement("get_response_parameter", fun, Target(fun, q),
            IF q <= Len(Outs(fun)) THEN Limit(fun.parameters[Outs(fun)[q]]) ELSE NoLimit)
SetStatement(fun, k) ==
  Statement("set_request_parameter", fun, Arguments(fun)[k], Limit(fun.parameters[Arguments(fun)[k]]))

LEMMA ArgumentsAre ==
  ASSUME NEW fun \in Fun
  PROVE  /\ Arguments(fun) \in Seq(ArgumentSet(fun)) /\ Len(Arguments(fun)) \in Nat
         /\ \A k \in 1 .. Len(Arguments(fun)) :
              /\ Arguments(fun)[k] \in 1 .. Len(fun.parameters)
              /\ fun.parameters[Arguments(fun)[k]].mode \in {"IN", "INOUT"}
              /\ fun.parameters[Arguments(fun)[k]].type # "VOID"
         /\ \A k, l \in 1 .. Len(Arguments(fun)) : k # l => Arguments(fun)[k] # Arguments(fun)[l]
         /\ \A i \in ArgumentSet(fun) : \E k \in 1 .. Len(Arguments(fun)) : Arguments(fun)[k] = i
<1>0. PICK n \in Nat : n = Len(fun.parameters)
  BY FunIs
<1>1. PICK T \in SUBSET (1 .. n) : T = ArgumentSet(fun)
  BY <1>0 DEF ArgumentSet
<1>2. PICK s : s = Arguments(fun) /\ s = Ascending(T)
  BY <1>1 DEF Arguments
<1>3. /\ s \in Seq(T) /\ Len(s) \in Nat
      /\ \A k \in 1 .. Len(s) : s[k] \in T
      /\ \A k, l \in 1 .. Len(s) : k # l => s[k] # s[l]
      /\ \A i \in T : \E k \in 1 .. Len(s) : s[k] = i
  <2>1. Visits(s, T)
    BY <1>0, <1>1, <1>2, VisitsAll
  <2>2. QED
    BY <2>1, Zenon DEF Visits
<1>4. QED
  BY <1>1, <1>2, <1>3 DEF ArgumentSet

LEMMA OutsAre ==
  ASSUME NEW fun \in Fun
  PROVE  /\ Outs(fun) \in Seq(OutSet(fun)) /\ Len(Outs(fun)) \in Nat
         /\ \A k \in 1 .. Len(Outs(fun)) :
              /\ Outs(fun)[k] \in 1 .. Len(fun.parameters)
              /\ fun.parameters[Outs(fun)[k]].mode \in {"INOUT", "OUT"}
              /\ fun.parameters[Outs(fun)[k]].type # "VOID"
         /\ \A k, l \in 1 .. Len(Outs(fun)) : k # l => Outs(fun)[k] # Outs(fun)[l]
         /\ \A i \in OutSet(fun) : \E k \in 1 .. Len(Outs(fun)) : Outs(fun)[k] = i
<1>0. PICK n \in Nat : n = Len(fun.parameters)
  BY FunIs
<1>1. PICK T \in SUBSET (1 .. n) : T = OutSet(fun)
  BY <1>0 DEF OutSet
<1>2. PICK s : s = Outs(fun) /\ s = Ascending(T)
  BY <1>1 DEF Outs
<1>3. /\ s \in Seq(T) /\ Len(s) \in Nat
      /\ \A k \in 1 .. Len(s) : s[k] \in T
      /\ \A k, l \in 1 .. Len(s) : k # l => s[k] # s[l]
      /\ \A i \in T : \E k \in 1 .. Len(s) : s[k] = i
  <2>1. Visits(s, T)
    BY <1>0, <1>1, <1>2, VisitsAll
  <2>2. QED
    BY <2>1, Zenon DEF Visits
<1>4. QED
  BY <1>1, <1>2, <1>3 DEF OutSet

\* The statements that access parameters.
Op == {"new_request", "set_request_parameter", "send_request", "recv_response",
       "get_response_parameter", "store"}
StatementSet == [op : Op, var : Nat, type : Type, size : Int]

LEMMA PlainIs ==
  ASSUME NEW op \in Op
  PROVE  Plain(op) \in StatementSet
BY DEF Plain, StatementSet, Type, NoLimit

LEMMA StatementIs ==
  ASSUME NEW fun \in Fun, NEW op \in Op, NEW i \in 0 .. Len(fun.parameters), NEW size \in Int
  PROVE  Statement(op, fun, i, size) \in StatementSet
<1>1. Parameter(fun, i) \in Param
  BY FunIs DEF Parameter
<1>2. i \in Nat
  BY FunIs
<1>3. QED
  BY <1>1, <1>2, ParamIs DEF Statement, StatementSet

LEMMA LimitIs ==
  ASSUME NEW p \in Param
  PROVE  Limit(p) \in Int
BY ParamIs DEF Limit, NoLimit

LEMMA SetsAre ==
  ASSUME NEW fun \in Fun
  PROVE  LET s == Access("set_request_parameter", fun, {"IN", "INOUT"})
         IN  /\ s \in Seq(StatementSet) /\ Len(s) = Len(Arguments(fun))
             /\ \A k \in 1 .. Len(Arguments(fun)) : s[k] = SetStatement(fun, k)
<1>1. PICK n \in Nat : n = Len(Arguments(fun))
  BY ArgumentsAre
<1>2. Used(fun, {"IN", "INOUT"}) = Arguments(fun)
  BY Zenon DEF Used, Arguments, ArgumentSet
<1>3. Access("set_request_parameter", fun, {"IN", "INOUT"}) = [k \in 1 .. n |-> SetStatement(fun, k)]
  BY <1>1, <1>2 DEF Access, SetStatement
<1>4. ASSUME NEW k \in 1 .. n PROVE SetStatement(fun, k) \in StatementSet
  <2>1. Arguments(fun)[k] \in 1 .. Len(fun.parameters)
    BY <1>1, ArgumentsAre
  <2>2. Limit(fun.parameters[Arguments(fun)[k]]) \in Int
    BY <2>1, FunIs, LimitIs
  <2>3. Arguments(fun)[k] \in 0 .. Len(fun.parameters)
    BY <2>1
  <2>4. \A i \in 0 .. Len(fun.parameters), size \in Int :
          Statement("set_request_parameter", fun, i, size) \in StatementSet
    BY StatementIs DEF Op
  <2>5. QED
    BY <2>2, <2>3, <2>4, Zenon DEF SetStatement
<1>5. [k \in 1 .. n |-> SetStatement(fun, k)] \in Seq(StatementSet)
  BY <1>4
<1>6. QED
  BY <1>1, <1>3, <1>5

LEMMA GetsAre ==
  ASSUME NEW fun \in Fun
  PROVE  /\ GetResults(fun) \in Seq(StatementSet) /\ Len(GetResults(fun)) = Targets(fun)
         /\ \A q \in 1 .. Targets(fun) : GetResults(fun)[q] = GetStatement(fun, q)
<1>1. PICK m \in Nat : m = Len(Outs(fun))
  BY OutsAre
<1>2. Used(fun, {"INOUT", "OUT"}) = Outs(fun)
  BY Zenon DEF Used, Outs, OutSet
<1>3. PICK s : s = Access("get_response_parameter", fun, {"INOUT", "OUT"})
  OBVIOUS
<1>4. s = [q \in 1 .. m |-> GetStatement(fun, q)]
  BY <1>1, <1>2, <1>3 DEF Access, GetStatement, Target
<1>5. ASSUME NEW q \in 1 .. m PROVE GetStatement(fun, q) \in StatementSet
  <2>1. Outs(fun)[q] \in 1 .. Len(fun.parameters)
    BY <1>1, OutsAre
  <2>2. Limit(fun.parameters[Outs(fun)[q]]) \in Int
    BY <2>1, FunIs, LimitIs
  <2>3. Outs(fun)[q] \in 0 .. Len(fun.parameters)
    BY <2>1
  <2>4. \A i \in 0 .. Len(fun.parameters), size \in Int :
          Statement("get_response_parameter", fun, i, size) \in StatementSet
    BY StatementIs DEF Op
  <2>5. GetStatement(fun, q) =
          Statement("get_response_parameter", fun, Outs(fun)[q], Limit(fun.parameters[Outs(fun)[q]]))
    BY <1>1 DEF GetStatement, Target
  <2>6. QED
    BY <2>2, <2>3, <2>4, <2>5, Zenon
<1>6. s \in Seq(StatementSet) /\ Len(s) = m /\ \A q \in 1 .. m : s[q] = GetStatement(fun, q)
  BY <1>4, <1>5
<1>7. PICK t : t = GetReturnValue(fun)
  OBVIOUS
<1>8. /\ t \in Seq(StatementSet) /\ Len(t) = Returns(fun)
      /\ \A k \in 1 .. Returns(fun) : t[k] = GetStatement(fun, m + 1)
  <2>1. CASE fun.result.type = "VOID"
    BY <1>7, <2>1 DEF GetReturnValue, Returns
  <2>2. CASE fun.result.type # "VOID"
    <3>1. GetStatement(fun, m + 1) = Statement("get_response_parameter", fun, 0, NoLimit)
      BY <1>1 DEF GetStatement, Target
    <3>2. Statement("get_response_parameter", fun, 0, NoLimit) \in StatementSet
      <4>1. 0 \in 0 .. Len(fun.parameters) /\ NoLimit \in Int
        BY FunIs DEF NoLimit
      <4>2. \A i \in 0 .. Len(fun.parameters), size \in Int :
              Statement("get_response_parameter", fun, i, size) \in StatementSet
        BY StatementIs DEF Op
      <4>3. QED
        BY <4>1, <4>2, Zenon
    <3>3. t = <<GetStatement(fun, m + 1)>>
      BY <1>7, <2>2, <3>1 DEF GetReturnValue
    <3>4. QED
      BY <2>2, <3>1, <3>2, <3>3 DEF Returns
  <2>3. QED
    BY <2>1, <2>2
<1>9. GetResults(fun) = s \o t
  BY <1>3, <1>7, Zenon DEF GetResults
<1>10. PICK u : u = GetResults(fun) /\ IsBehind(u, s, t, StatementSet)
  <2>1. s \in Seq(StatementSet) /\ t \in Seq(StatementSet)
    BY <1>6, <1>8
  <2>2. IsBehind(s \o t, s, t, StatementSet)
    BY <2>1, Behind
  <2>3. QED
    BY <1>9, <2>2, Zenon
<1>11. /\ u \in Seq(StatementSet) /\ Len(u) = m + Returns(fun)
       /\ \A q \in 1 .. m : u[q] = s[q]
       /\ \A k \in 1 .. Returns(fun) : u[m + k] = t[k]
  <2>1. Len(s) = m /\ Len(t) = Returns(fun)
    BY <1>6, <1>8
  <2>2. QED
    BY <1>10, <2>1, Zenon DEF IsBehind
<1>12. ASSUME NEW q \in 1 .. Targets(fun) PROVE u[q] = GetStatement(fun, q)
  <2>1. CASE q <= m
    BY <1>6, <1>11, <2>1
  <2>2. CASE ~(q <= m)
    <3>1. Returns(fun) = 1 /\ q = m + 1
      BY <1>1, <2>2 DEF Targets, Returns
    <3>2. QED
      BY <1>8, <1>11, <3>1
  <2>3. QED
    BY <2>1, <2>2
<1>13. QED
  BY <1>1, <1>10, <1>11, <1>12 DEF Targets

\* The statements of a stub, line by line: Base is the last one before it reads.
Base(fun) == Len(Arguments(fun)) + 2 + Waits(fun)
IsProgram(prog, fun) ==
  /\ prog \in Seq(StatementSet) /\ Len(prog) = Base(fun) + Targets(fun) + 1
  /\ prog[1] = Plain("new_request")
  /\ \A k \in 1 .. Len(Arguments(fun)) : prog[k + 1] = SetStatement(fun, k)
  /\ prog[Len(Arguments(fun)) + 2] = Plain("send_request")
  /\ ~fun.oneway => prog[Base(fun)] = Plain("recv_response")
  /\ \A q \in 1 .. Targets(fun) : prog[Base(fun) + q] = GetStatement(fun, q)
  /\ prog[Base(fun) + Targets(fun) + 1] = Plain("store")

LEMMA CountsAre ==
  ASSUME NEW fun \in Fun
  PROVE  /\ Len(Arguments(fun)) \in Nat /\ Len(Outs(fun)) \in Nat /\ Targets(fun) \in Nat
         /\ Waits(fun) \in {0, 1} /\ Returns(fun) \in {0, 1}
         /\ Base(fun) \in Nat /\ Base(fun) = Len(Arguments(fun)) + 2 + Waits(fun)
         /\ Targets(fun) = Len(Outs(fun)) + Returns(fun)
BY ArgumentsAre, OutsAre DEF Targets, Waits, Returns, Base

LEMMA OneStatement ==
  ASSUME NEW s \in StatementSet
  PROVE  <<s>> \in Seq(StatementSet) /\ Len(<<s>>) = 1 /\ <<s>>[1] = s
OBVIOUS

LEMMA ProgramIs ==
  ASSUME NEW fun \in Fun
  PROVE  IsProgram(Body(fun).statements, fun)
<1>1. PICK n \in Nat, w \in {0, 1}, t \in Nat :
        n = Len(Arguments(fun)) /\ w = Waits(fun) /\ t = Targets(fun) /\ Base(fun) = n + 2 + w
  BY CountsAre
<1>2. PICK a : /\ a = <<Plain("new_request")>> /\ a \in Seq(StatementSet) /\ Len(a) = 1
               /\ a[1] = Plain("new_request")
  BY PlainIs, OneStatement DEF Op
<1>3. PICK sets : /\ sets = Access("set_request_parameter", fun, {"IN", "INOUT"})
                  /\ sets \in Seq(StatementSet) /\ Len(sets) = n
                  /\ \A k \in 1 .. n : sets[k] = SetStatement(fun, k)
  BY <1>1, SetsAre
<1>4. PICK b : /\ b = <<Plain("send_request")>> /\ b \in Seq(StatementSet) /\ Len(b) = 1
               /\ b[1] = Plain("send_request")
  BY PlainIs, OneStatement DEF Op
<1>5. PICK c : /\ c = (IF fun.oneway THEN <<>> ELSE <<Plain("recv_response")>>)
               /\ c \in Seq(StatementSet) /\ Len(c) = w
               /\ ~fun.oneway => c[1] = Plain("recv_response") /\ w = 1
  <2>1. CASE fun.oneway
    <3>1. <<>> \in Seq(StatementSet) /\ Len(<<>>) = 0 /\ w = 0
      BY <1>1, <2>1 DEF Waits
    <3>2. QED
      BY <2>1, <3>1, Zenon
  <2>2. CASE ~fun.oneway
    <3>1. Plain("recv_response") \in StatementSet
      BY PlainIs DEF Op
    <3>2. QED
      BY <1>1, <2>2, <3>1, OneStatement DEF Waits
  <2>3. QED
    BY <2>1, <2>2
<1>6. PICK gets : /\ gets = GetResults(fun)
                  /\ gets \in Seq(StatementSet) /\ Len(gets) = t
                  /\ \A q \in 1 .. t : gets[q] = GetStatement(fun, q)
  BY <1>1, GetsAre
<1>7. PICK d : /\ d = <<Plain("store")>> /\ d \in Seq(StatementSet) /\ Len(d) = 1
               /\ d[1] = Plain("store")
  BY PlainIs, OneStatement DEF Op
<1>8. PICK p1 : p1 = a \o sets /\ IsBehind(p1, a, sets, StatementSet)
  <2>1. a \in Seq(StatementSet) /\ sets \in Seq(StatementSet)
    BY <1>2, <1>3
  <2>2. IsBehind(a \o sets, a, sets, StatementSet)
    BY <2>1, Behind
  <2>3. QED
    BY <2>2, Zenon
<1>9. PICK p2 : p2 = p1 \o b /\ IsBehind(p2, p1, b, StatementSet)
  <2>1. p1 \in Seq(StatementSet) /\ b \in Seq(StatementSet)
    BY <1>4, <1>8 DEF IsBehind
  <2>2. IsBehind(p1 \o b, p1, b, StatementSet)
    BY <2>1, Behind
  <2>3. QED
    BY <2>2, Zenon
<1>10. PICK p3 : p3 = p2 \o c /\ IsBehind(p3, p2, c, StatementSet)
  <2>1. p2 \in Seq(StatementSet) /\ c \in Seq(StatementSet)
    BY <1>5, <1>9 DEF IsBehind
  <2>2. IsBehind(p2 \o c, p2, c, StatementSet)
    BY <2>1, Behind
  <2>3. QED
    BY <2>2, Zenon
<1>11. PICK p4 : p4 = p3 \o gets /\ IsBehind(p4, p3, gets, StatementSet)
  <2>1. p3 \in Seq(StatementSet) /\ gets \in Seq(StatementSet)
    BY <1>6, <1>10 DEF IsBehind
  <2>2. IsBehind(p3 \o gets, p3, gets, StatementSet)
    BY <2>1, Behind
  <2>3. QED
    BY <2>2, Zenon
<1>12. PICK p5 : p5 = p4 \o d /\ IsBehind(p5, p4, d, StatementSet)
  <2>1. p4 \in Seq(StatementSet) /\ d \in Seq(StatementSet)
    BY <1>7, <1>11 DEF IsBehind
  <2>2. IsBehind(p4 \o d, p4, d, StatementSet)
    BY <2>1, Behind
  <2>3. QED
    BY <2>2, Zenon
<1>13. Body(fun).statements = p5
  <2>1. Setup(fun) = p3
    BY <1>2, <1>3, <1>4, <1>5, <1>8, <1>9, <1>10, Zenon DEF Setup
  <2>2. Body(fun).statements = Setup(fun) \o GetResults(fun) \o <<Plain("store")>>
    BY DEF Body
  <2>3. QED
    BY <1>6, <1>7, <1>11, <1>12, <2>1, <2>2, Zenon
<1>14. /\ Len(p1) = n + 1 /\ p1[1] = Plain("new_request")
       /\ \A k \in 1 .. n : p1[k + 1] = SetStatement(fun, k)
  <2>1. /\ Len(p1) = Len(a) + Len(sets) /\ p1[1] = a[1]
        /\ \A k \in 1 .. n : p1[1 + k] = sets[k]
    BY <1>2, <1>3, <1>8 DEF IsBehind
  <2>2. ASSUME NEW k \in 1 .. n PROVE p1[k + 1] = SetStatement(fun, k)
    <3>1. k + 1 = 1 + k
      OBVIOUS
    <3>2. QED
      BY <1>3, <2>1, <3>1, Zenon
  <2>3. Len(p1) = n + 1
    BY <1>1, <1>2, <1>3, <2>1
  <2>4. QED
    BY <1>2, <2>1, <2>2, <2>3, Zenon
<1>15. /\ Len(p2) = n + 2 /\ p2[n + 2] = Plain("send_request")
       /\ \A l \in 1 .. n + 1 : p2[l] = p1[l]
  BY <1>4, <1>9, <1>14, SMTT(30) DEF IsBehind
<1>16. /\ Len(p3) = n + 2 + w /\ \A l \in 1 .. n + 2 : p3[l] = p2[l]
       /\ ~fun.oneway => p3[n + 2 + w] = Plain("recv_response")
  <2>1. /\ Len(p3) = Len(p2) + Len(c) /\ \A l \in 1 .. n + 2 : p3[l] = p2[l]
        /\ \A l \in 1 .. w : p3[n + 2 + l] = c[l]
    BY <1>5, <1>10, <1>15 DEF IsBehind
  <2>2. QED
    BY <1>5, <1>15, <2>1
<1>17. /\ Len(p4) = n + 2 + w + t /\ \A l \in 1 .. n + 2 + w : p4[l] = p3[l]
       /\ \A q \in 1 .. t : p4[n + 2 + w + q] = GetStatement(fun, q)
  BY <1>6, <1>11, <1>16 DEF IsBehind
<1>18. /\ Len(p5) = n + 2 + w + t + 1 /\ \A l \in 1 .. n + 2 + w + t : p5[l] = p4[l]
       /\ p5[n + 2 + w + t + 1] = Plain("store")
  BY <1>7, <1>12, <1>17 DEF IsBehind
<1>19. /\ p5[1] = Plain("new_request")
       /\ \A k \in 1 .. n : p5[k + 1] = SetStatement(fun, k)
       /\ p5[n + 2] = Plain("send_request")
       /\ ~fun.oneway => p5[n + 2 + w] = Plain("recv_response")
       /\ \A q \in 1 .. t : p5[n + 2 + w + q] = GetStatement(fun, q)
  <2>1. \A l \in 1 .. n + 2 + w : p5[l] = p3[l]
    BY <1>17, <1>18
  <2>2. \A l \in 1 .. n + 2 : p5[l] = p2[l]
    BY <1>16, <2>1
  <2>3. \A l \in 1 .. n + 1 : p5[l] = p1[l]
    BY <1>15, <2>2
  <2>4. \A q \in 1 .. t : p5[n + 2 + w + q] = p4[n + 2 + w + q]
    BY <1>18
  <2>5. p5[1] = Plain("new_request")
    BY <1>14, <2>3
  <2>6. ASSUME NEW k \in 1 .. n PROVE p5[k + 1] = SetStatement(fun, k)
    <3>1. PICK l \in 1 .. n + 1 : l = k + 1
      OBVIOUS
    <3>2. p5[l] = p1[l]
      BY <2>3
    <3>3. QED
      BY <1>14, <3>1, <3>2
  <2>7. p5[n + 2] = Plain("send_request")
    BY <1>15, <2>2
  <2>8. ~fun.oneway => p5[n + 2 + w] = Plain("recv_response")
    BY <1>16, <2>1
  <2>9. \A q \in 1 .. t : p5[n + 2 + w + q] = GetStatement(fun, q)
    BY <1>17, <2>4
  <2>10. QED
    BY <2>5, <2>6, <2>7, <2>8, <2>9, Zenon
<1>20. p5 \in Seq(StatementSet)
  BY <1>12 DEF IsBehind
<1>21. QED
  BY <1>1, <1>13, <1>18, <1>19, <1>20 DEF IsProgram

\* Which line a statement is on.
IsLine(s, l, fun) ==
  /\ s.op = "new_request" => l = 1
  /\ s.op = "set_request_parameter" =>
       \E k \in 1 .. Len(Arguments(fun)) : l = k + 1 /\ s = SetStatement(fun, k)
  /\ s.op = "send_request" => l = Len(Arguments(fun)) + 2
  /\ s.op = "recv_response" => ~fun.oneway /\ l = Base(fun)
  /\ s.op = "get_response_parameter" =>
       \E q \in 1 .. Targets(fun) : l = Base(fun) + q /\ s = GetStatement(fun, q)
  /\ s.op = "store" => l = Base(fun) + Targets(fun) + 1

LEMMA LineIs ==
  ASSUME NEW fun \in Fun, NEW prog, IsProgram(prog, fun), NEW l \in 1 .. Len(prog)
  PROVE  IsLine(prog[l], l, fun)
<1>1. PICK n \in Nat, w \in {0, 1}, t \in Nat :
        /\ n = Len(Arguments(fun)) /\ w = Waits(fun) /\ t = Targets(fun)
        /\ Base(fun) = n + 2 + w /\ (w = 0 <=> fun.oneway)
  BY CountsAre DEF Waits
<1>2. l \in 1 .. n + 2 + w + t + 1
  BY <1>1 DEF IsProgram
<1>3. CASE l = 1
  <2>1. prog[l] = Plain("new_request")
    BY <1>3 DEF IsProgram
  <2>2. QED
    BY <1>3, <2>1 DEF Plain, IsLine
<1>4. CASE l \in 2 .. n + 1
  <2>1. PICK k \in 1 .. n : l = k + 1
    <3>1. l - 1 \in 1 .. n /\ l = l - 1 + 1
      BY <1>1, <1>4
    <3>2. QED
      BY <3>1
  <2>2. prog[l] = SetStatement(fun, k)
    BY <1>1, <2>1 DEF IsProgram
  <2>3. prog[l].op = "set_request_parameter"
    BY <2>2 DEF SetStatement, Statement
  <2>4. QED
    BY <1>1, <2>1, <2>2, <2>3 DEF IsLine
<1>5. CASE l = n + 2
  <2>1. prog[l] = Plain("send_request")
    BY <1>1, <1>5 DEF IsProgram
  <2>2. QED
    BY <1>1, <1>5, <2>1 DEF Plain, IsLine
<1>6. CASE l = n + 2 + w /\ w = 1
  <2>1. prog[l] = Plain("recv_response")
    BY <1>1, <1>6 DEF IsProgram
  <2>2. QED
    BY <1>1, <1>6, <2>1 DEF Plain, IsLine
<1>7. CASE l \in n + 2 + w + 1 .. n + 2 + w + t
  <2>1. PICK q \in 1 .. t : l = n + 2 + w + q
    <3>1. l - (n + 2 + w) \in 1 .. t /\ l = n + 2 + w + (l - (n + 2 + w))
      BY <1>1, <1>7, SMTT(30)
    <3>2. QED
      BY <3>1
  <2>2. prog[l] = GetStatement(fun, q)
    BY <1>1, <2>1 DEF IsProgram
  <2>3. prog[l].op = "get_response_parameter"
    BY <2>2 DEF GetStatement, Statement
  <2>4. QED
    BY <1>1, <2>1, <2>2, <2>3 DEF IsLine
<1>8. CASE l = n + 2 + w + t + 1
  <2>1. prog[l] = Plain("store")
    BY <1>1, <1>8 DEF IsProgram
  <2>2. QED
    BY <1>1, <1>8, <2>1 DEF Plain, IsLine
<1>9. QED
  <2>1. \/ l = 1 \/ l \in 2 .. n + 1 \/ l = n + 2 \/ (l = n + 2 + w /\ w = 1)
        \/ l \in n + 2 + w + 1 .. n + 2 + w + t \/ l = n + 2 + w + t + 1
    <3>1. l \in Int /\ n \in Nat /\ t \in Nat
      BY <1>1, <1>2
    <3>2. CASE w = 0
      BY <1>2, <3>1, <3>2
    <3>3. CASE w = 1
      BY <1>2, <3>1, <3>3
    <3>4. QED
      BY <1>1, <3>2, <3>3
  <2>2. QED
    BY <2>1, <1>3, <1>4, <1>5, <1>6, <1>7, <1>8, Zenon

-----------------------------------------------------------------------------
(* The texts of one function fit together.                                 *)
LEMMA BodyCompiles ==
  ASSUME NEW fun \in Fun
  PROVE  StubCompiles(Signature(fun), Body(fun))
<1>1. Body(fun).signature = Signature(fun)
  BY DEF Body
<1>2. Signature(fun).returns <=> Body(fun).variable # <<>>
  BY DEF Body, Signature
<1>3. PICK prog : prog = Body(fun).statements /\ IsProgram(prog, fun)
  BY ProgramIs
<1>4. /\ Signature(fun).returns <=> fun.result.type # "VOID"
      /\ \A i \in 1 .. Len(fun.parameters) : Signature(fun).formals[i] = fun.parameters[i].mode
  BY DEF Signature
<1>5. ASSUME NEW l \in 1 .. Len(prog), prog[l].op = "set_request_parameter"
      PROVE  Signature(fun).formals[prog[l].var] # "OUT"
  <2>1. IsLine(prog[l], l, fun)
    BY <1>3, LineIs
  <2>2. PICK k \in 1 .. Len(Arguments(fun)) : prog[l] = SetStatement(fun, k)
    BY <1>5, <2>1 DEF IsLine
  <2>3. prog[l].var = Arguments(fun)[k]
    BY <2>2 DEF SetStatement, Statement
  <2>4. PICK i \in 1 .. Len(fun.parameters) :
          i = prog[l].var /\ fun.parameters[i].mode \in {"IN", "INOUT"}
    BY <2>2, <2>3, ArgumentsAre
  <2>5. Signature(fun).formals[i] = fun.parameters[i].mode
    BY <1>4, Zenon
  <2>6. QED
    BY <2>4, <2>5
<1>6. ASSUME NEW l \in 1 .. Len(prog), prog[l].op = "get_response_parameter"
      PROVE  IF prog[l].var = 0 THEN Signature(fun).returns ELSE Signature(fun).formals[prog[l].var] # "IN"
  <2>1. IsLine(prog[l], l, fun)
    BY <1>3, LineIs
  <2>2. PICK q \in 1 .. Targets(fun) : prog[l] = GetStatement(fun, q)
    BY <1>6, <2>1 DEF IsLine
  <2>3. prog[l].var = Target(fun, q)
    BY <2>2 DEF GetStatement, Statement
  <2>4. CASE q <= Len(Outs(fun))
    <3>1. q \in 1 .. Len(Outs(fun)) /\ prog[l].var = Outs(fun)[q]
      BY <2>2, <2>3, <2>4, CountsAre DEF Target
    <3>2. PICK i \in 1 .. Len(fun.parameters) :
            i = prog[l].var /\ fun.parameters[i].mode \in {"INOUT", "OUT"}
      BY <3>1, OutsAre
    <3>3. Signature(fun).formals[i] = fun.parameters[i].mode
      BY <1>4, Zenon
    <3>4. prog[l].var # 0 /\ fun.parameters[i].mode # "IN"
      BY <3>2
    <3>5. QED
      BY <3>2, <3>3, <3>4, Zenon
  <2>5. CASE ~(q <= Len(Outs(fun)))
    <3>1. Returns(fun) = 1 /\ prog[l].var = 0
      BY <2>2, <2>3, <2>5, CountsAre DEF Target
    <3>2. fun.result.type # "VOID"
      BY <3>1 DEF Returns
    <3>3. QED
      BY <1>4, <3>1, <3>2, Zenon
  <2>6. QED
    BY <2>4, <2>5
<1>7. QED
  BY <1>1, <1>2, <1>3, <1>4, <1>5, <1>6 DEF StubCompiles

LEMMA BodyExtCompiles ==
  ASSUME NEW fun \in Fun
  PROVE  Len(BodyExt(fun).parameters)
           = Len(Signature(fun).formals) + (IF Signature(fun).returns THEN 1 ELSE 0)
<1>1. PICK n \in Nat : n = Len(fun.parameters) /\ \A i \in 1 .. n : fun.parameters[i].type \in Type
  BY FunIs, ParamIs
<1>2. PICK s : /\ s = [i \in 1 .. n |-> fun.parameters[i].type]
               /\ s \in Seq(Type \cup {"RETURN"}) /\ Len(s) = n
  <2>1. /\ [i \in 1 .. n |-> fun.parameters[i].type] \in Seq(Type \cup {"RETURN"})
        /\ Len([i \in 1 .. n |-> fun.parameters[i].type]) = n
    BY <1>1
  <2>2. QED
    BY <2>1, Zenon
<1>3. PICK t : /\ t = (IF fun.result.type = "VOID" THEN <<>> ELSE <<"RETURN">>)
               /\ t \in Seq(Type \cup {"RETURN"}) /\ Len(t) = Returns(fun)
  <2>1. CASE fun.result.type = "VOID"
    <3>1. <<>> \in Seq(Type \cup {"RETURN"}) /\ Len(<<>>) = Returns(fun)
      BY <2>1 DEF Returns
    <3>2. QED
      BY <2>1, <3>1, Zenon
  <2>2. CASE fun.result.type # "VOID"
    <3>1. <<"RETURN">> \in Seq(Type \cup {"RETURN"}) /\ Len(<<"RETURN">>) = Returns(fun)
      BY <2>2 DEF Returns
    <3>2. QED
      BY <2>2, <3>1, Zenon
  <2>3. QED
    BY <2>1, <2>2
<1>4. Len(s \o t) = n + Returns(fun)
  <2>1. s \in Seq(Type \cup {"RETURN"}) /\ t \in Seq(Type \cup {"RETURN"})
    BY <1>2, <1>3
  <2>2. IsBehind(s \o t, s, t, Type \cup {"RETURN"})
    BY <2>1, Behind
  <2>3. QED
    BY <1>2, <1>3, <2>2 DEF IsBehind
<1>5. BodyExt(fun).parameters = s \o t
  BY <1>1, <1>2, <1>3 DEF BodyExt
<1>6. Len(Signature(fun).formals) = n /\ Signature(fun).returns = (fun.result.type # "VOID")
  BY <1>1 DEF Signature
<1>7. Returns(fun) = IF Signature(fun).returns THEN 1 ELSE 0
  BY <1>6 DEF Returns
<1>8. QED
  BY <1>4, <1>5, <1>6, <1>7, Zenon

\* The row of a function.
EntrySet == [mode : Mode, type : Type, size : Nat]
IsTable(columns, fun) ==
  /\ Len(columns) = Len(fun.parameters) + 1
  /\ \A i \in 1 .. Len(fun.parameters) : columns[i] = Entry(fun.parameters[i])
  /\ columns[Len(fun.parameters) + 1] = Entry(fun.result)

LEMMA EntryIs ==
  ASSUME NEW p \in Param
  PROVE  /\ Entry(p) \in EntrySet
         /\ Entry(p).mode = p.mode /\ Entry(p).type = p.type
         /\ p.type \in Texts => Entry(p).size = p.size + 1
BY ParamIs DEF Entry, EntrySet, BufferSize, Texts, Sized

LEMMA TableIs ==
  ASSUME NEW fun \in Fun
  PROVE  IsTable(Table(fun).parameters, fun) /\ Table(fun).oneway = fun.oneway
<1>1. PICK n \in Nat : n = Len(fun.parameters)
  BY FunIs
<1>2. \A i \in 1 .. n : Entry(fun.parameters[i]) \in EntrySet
  BY <1>1, FunIs, EntryIs
<1>3. PICK s : s = [i \in 1 .. n |-> Entry(fun.parameters[i])]
  OBVIOUS
<1>4. s \in Seq(EntrySet) /\ Len(s) = n /\ \A i \in 1 .. n : s[i] = Entry(fun.parameters[i])
  BY <1>2, <1>3
<1>5. Entry(fun.result) \in EntrySet
  BY FunIs, EntryIs
<1>6. /\ Len(Append(s, Entry(fun.result))) = n + 1
      /\ Append(s, Entry(fun.result))[n + 1] = Entry(fun.result)
      /\ \A i \in 1 .. n : Append(s, Entry(fun.result))[i] = s[i]
  BY <1>4, <1>5, AppendProperties
<1>7. Table(fun) = [oneway |-> fun.oneway, parameters |-> Append(s, Entry(fun.result))]
  BY <1>1, <1>3, Zenon DEF Table
<1>8. QED
  BY <1>1, <1>4, <1>6, <1>7 DEF IsTable

LEMMA SkeletonCompiles ==
  ASSUME NEW fun \in Fun
  PROVE  /\ Len(Skeleton(fun).actuals) = Len(Declaration(fun))
         /\ \A i \in 1 .. Len(Skeleton(fun).actuals) :
              Skeleton(fun).actuals[i].pointer
                <=> (Declaration(fun)[i] \/ Table(fun).parameters[i].type \in Texts)
<1>1. PICK n \in Nat : n = Len(fun.parameters) /\ \A i \in 1 .. n : fun.parameters[i] \in Param
  BY FunIs
<1>2. /\ Len(Skeleton(fun).actuals) = n
      /\ \A i \in 1 .. n : Skeleton(fun).actuals[i].pointer = ByReference(fun.parameters[i])
  BY <1>1 DEF Skeleton
<1>3. /\ Len(Declaration(fun)) = n
      /\ \A i \in 1 .. n :
           Declaration(fun)[i] = (fun.parameters[i].mode # "IN" /\ fun.parameters[i].type \notin Texts)
  BY <1>1 DEF Declaration
<1>4. \A i \in 1 .. n : Table(fun).parameters[i].type = fun.parameters[i].type
  <2>1. \A i \in 1 .. n : Table(fun).parameters[i] = Entry(fun.parameters[i])
    BY <1>1, TableIs DEF IsTable
  <2>2. QED
    BY <1>1, <2>1, EntryIs
<1>5. QED
  BY <1>2, <1>3, <1>4 DEF ByReference

-----------------------------------------------------------------------------
(* The compiler.                                                           *)
Reading == {"functions", "parameters", "overrun"}
Place == Reading \cup {"failed", "pks", "pkb", "pke", "h", "c", "aborted", "done", "deployed"}
File == {"pks", "pkb", "pke", "h", "c"}

\* What is in a file that has been written.
Generated(name) ==
  CASE name = "pks" -> [k \in DOMAIN interface |-> Signature(interface[k])]
    [] name = "pkb" -> [k \in DOMAIN interface |-> Body(interface[k])]
    [] name = "pke" -> [k \in DOMAIN interface |-> BodyExt(interface[k])]
    [] name = "h" -> Declarations
    [] name = "c" -> [k \in DOMAIN interface |-> Source(interface[k])]

\* The files have been generated from one interface, which does not change
\* any more, and those a call needs are there; no table has a void parameter.
Interfaces ==
  /\ interface \in Seq(Fun)
  /\ pc = "parameters" => interface # <<>>
GeneratedFiles ==
  /\ DOMAIN files \subseteq File
  /\ pc \in Reading => DOMAIN files = {}
  /\ \A name \in DOMAIN files : files[name] = Generated(name)
FilesAreThere ==
  /\ "c" \notin option /\ pc \in {"pke", "h", "c", "done", "deployed"} => "pkb" \in DOMAIN files
  /\ "p" \notin option /\ pc \in {"done", "deployed"} => "c" \in DOMAIN files
  /\ "c" \in DOMAIN files => ~HasVoid
CompilerInv ==
  /\ pc \in Place /\ option \in SUBSET Option
  /\ Interfaces /\ GeneratedFiles /\ FilesAreThere

LEMMA InterfaceIs ==
  ASSUME Interfaces
  PROVE  /\ Len(interface) \in Nat /\ DOMAIN interface = 1 .. Len(interface)
         /\ \A k \in 1 .. Len(interface) : interface[k] \in Fun
BY DEF Interfaces

LEMMA FileIs ==
  ASSUME Interfaces, GeneratedFiles, NEW k \in 1 .. Len(interface)
  PROVE  /\ "pks" \in DOMAIN files => files["pks"][k] = Signature(interface[k])
         /\ "pkb" \in DOMAIN files => files["pkb"][k] = Body(interface[k])
         /\ "pke" \in DOMAIN files => files["pke"][k] = BodyExt(interface[k])
         /\ "h" \in DOMAIN files /\ k \in DOMAIN files["h"] =>
               files["h"][k] = Declaration(interface[k])
         /\ "c" \in DOMAIN files => files["c"][k] = Source(interface[k])
BY InterfaceIs DEF GeneratedFiles, Generated, Declarations

LEMMA Compiles ==
  ASSUME CompilerInv
  PROVE  GeneratedCodeCompiles
<1>1. Interfaces /\ GeneratedFiles
  BY DEF CompilerInv
<1>2. ASSUME Written({"pks", "pkb"}), NEW k \in 1 .. Len(interface)
      PROVE  StubCompiles(files["pks"][k], files["pkb"][k])
  <2>1. files["pks"][k] = Signature(interface[k]) /\ files["pkb"][k] = Body(interface[k])
    BY <1>1, <1>2, FileIs DEF Written
  <2>2. StubCompiles(Signature(interface[k]), Body(interface[k]))
    BY <1>1, InterfaceIs, BodyCompiles
  <2>3. QED
    BY <2>1, <2>2, Zenon
<1>3. ASSUME Written({"pks", "pke"}), NEW k \in 1 .. Len(interface)
      PROVE  Len(files["pke"][k].parameters)
               = Len(files["pks"][k].formals) + (IF files["pks"][k].returns THEN 1 ELSE 0)
  <2>1. files["pks"][k] = Signature(interface[k]) /\ files["pke"][k] = BodyExt(interface[k])
    BY <1>1, <1>3, FileIs DEF Written
  <2>2. interface[k] \in Fun
    BY <1>1, InterfaceIs
  <2>3. QED
    BY <2>1, <2>2, BodyExtCompiles, Zenon
<1>4. ASSUME Written({"h", "c"}), NEW k \in DOMAIN files["h"]
      PROVE  LET actuals == files["c"][k].skeleton.actuals
             IN  /\ Len(actuals) = Len(files["h"][k])
                 /\ \A i \in 1 .. Len(actuals) :
                      actuals[i].pointer <=> (files["h"][k][i] \/ files["c"][k].table.parameters[i].type \in Texts)
  <2>0. k \in 1 .. Len(interface)
    BY <1>1, <1>4, InterfaceIs DEF GeneratedFiles, Generated, Declarations, Written
  <2>1. files["h"][k] = Declaration(interface[k]) /\ files["c"][k] = Source(interface[k])
    BY <1>1, <1>4, <2>0, FileIs DEF Written
  <2>2. /\ files["c"][k].skeleton = Skeleton(interface[k])
        /\ files["c"][k].table = Table(interface[k])
    BY <2>1 DEF Source
  <2>3. interface[k] \in Fun
    BY <1>1, <2>0, InterfaceIs
  <2>4. QED
    BY <2>1, <2>2, <2>3, SkeletonCompiles, Zenon
<1>5. QED
  BY <1>2, <1>3, <1>4, Zenon DEF GeneratedCodeCompiles

LEMMA CompilerInit == Init => CompilerInv
<1> SUFFICES ASSUME Init PROVE CompilerInv
  OBVIOUS
<1>1. DOMAIN files = {} /\ interface \in Seq(Fun) /\ pc = "functions"
  BY DEF Init
<1>2. QED
  BY <1>1 DEF Init, CompilerInv, Interfaces, GeneratedFiles, FilesAreThere, Place, Reading

\* What the compiler has done stays, whatever becomes of it afterwards.
LEMMA GeneratedStays ==
  ASSUME interface' = interface, option' = option, NEW name
  PROVE  Generated(name)' = Generated(name) /\ HasVoid' = HasVoid
BY Zenon DEF Generated, Declarations, HasVoid

LEMMA CompilerStays ==
  ASSUME CompilerInv, UNCHANGED <<option, interface, files>>,
         \/ pc' = pc
         \/ pc' \in {"failed", "aborted"}
         \/ pc' = "deployed" /\ pc = "done"
         \/ /\ pc' \in {"functions", "h", "pks", "done"} /\ pc \in Reading
            /\ (pc' = "h" => "c" \in option) /\ (pc' = "done" => "c" \in option /\ "p" \in option)
  PROVE  CompilerInv'
<1>1. Interfaces'
  BY DEF CompilerInv, Interfaces, Reading
<1>2. GeneratedFiles'
  BY GeneratedStays DEF CompilerInv, GeneratedFiles, Reading
<1>3. FilesAreThere'
  BY GeneratedStays DEF CompilerInv, FilesAreThere, Reading
<1>4. QED
  BY <1>1, <1>2, <1>3 DEF CompilerInv, Place, Reading

LEMMA ParameterAdded ==
  ASSUME NEW fun \in Fun, NEW p \in Param
  PROVE  [fun EXCEPT !.parameters = Append(@, p)] \in Fun
<1>1. Append(fun.parameters, p) \in Seq(Param)
  BY FunIs, AppendProperties
<1>2. QED
  BY <1>1 DEF Fun

LEMMA ReadingStep ==
  ASSUME CompilerInv, interface' \in Seq(Fun), pc \in Reading, pc' \in Reading, Parsed,
         pc' = "parameters" => interface' # <<>>
  PROVE  CompilerInv'
<1>1. option' = option /\ files' = files /\ DOMAIN files = {}
  BY DEF Parsed, CompilerInv, GeneratedFiles
<1>2. GeneratedFiles'
  BY <1>1 DEF GeneratedFiles
<1>3. FilesAreThere'
  BY <1>1 DEF FilesAreThere, Reading
<1>4. QED
  BY <1>1, <1>2, <1>3 DEF CompilerInv, Interfaces, Place

LEMMA AddFunctionStep ==
  ASSUME CompilerInv, NEW type \in Types, NEW size \in Size, NEW oneway \in BOOLEAN,
         AddFunction(type, size, oneway)
  PROVE  CompilerInv'
<1>1. PICK fun : fun = [result |-> InitParameter("OUT", type, size), oneway |-> oneway, parameters |-> <<>>]
  OBVIOUS
<1>2. fun \in Fun
  <2>1. InitParameter("OUT", type, size) \in Param /\ InitParameter("OUT", type, size).mode = "OUT"
    BY InitParameterIs DEF Mode
  <2>2. oneway => InitParameter("OUT", type, size).type = "VOID"
    BY DEF AddFunction, InitParameter
  <2>3. <<>> \in Seq(Param)
    OBVIOUS
  <2>4. QED
    BY <1>1, <2>1, <2>2, <2>3 DEF Fun
<1>3. interface' = Append(interface, fun)
  BY <1>1 DEF AddFunction
<1>4. interface \in Seq(Fun)
  BY DEF CompilerInv, Interfaces
<1>5. interface' \in Seq(Fun) /\ interface' # <<>>
  BY <1>2, <1>3, <1>4, AppendProperties
<1>6. pc \in Reading /\ pc' \in Reading /\ Parsed
  BY DEF AddFunction, Reading
<1>7. QED
  BY <1>5, <1>6, ReadingStep

LEMMA AddParameterStep ==
  ASSUME CompilerInv, NEW mode \in Mode, NEW type \in Types, NEW size \in Size,
         AddParameter(mode, type, size)
  PROVE  CompilerInv'
<1>1. InitParameter(mode, type, size) \in Param
  BY InitParameterIs
<1>2. interface \in Seq(Fun) /\ interface # <<>> /\ Len(interface) \in Nat
  BY DEF CompilerInv, Interfaces, AddParameter
<1>3. PICK n \in Nat : n = Len(interface) /\ n # 0
  BY <1>2
<1>4. interface[n] \in Fun
  BY <1>2, <1>3
<1>5. PICK fun \in Fun : fun = [interface[n] EXCEPT !.parameters = Append(@, InitParameter(mode, type, size))]
  BY <1>1, <1>4, ParameterAdded
<1>6. interface' = [interface EXCEPT ![n] = fun]
  BY <1>3, <1>5, Zenon DEF AddParameter
<1>7. interface' \in Seq(Fun) /\ interface' # <<>>
  BY <1>2, <1>3, <1>5, <1>6, ExceptSeq
<1>8. pc \in Reading /\ pc' \in Reading /\ Parsed
  BY DEF AddParameter, Reading
<1>9. QED
  BY <1>7, <1>8, ReadingStep

\* A file that is written is generated from the interface.
LEMMA WriteStep ==
  ASSUME CompilerInv, NEW file \in File, NEW next, Write(file, next, Generated(file)),
         file = "c" => ~HasVoid, next \in Place \ Reading, next # "deployed",
         "c" \notin option /\ next \in {"pke", "h", "c", "done"} => file = "pkb" \/ "pkb" \in DOMAIN files,
         "p" \notin option /\ next = "done" => file = "c"
  PROVE  CompilerInv'
<1>1. /\ pc' = next /\ option' = option /\ interface' = interface
      /\ files' = [n \in DOMAIN files \cup {file} |-> IF n = file THEN Generated(file) ELSE files[n]]
  BY DEF Write
<1>2. DOMAIN files' = DOMAIN files \cup {file}
  BY <1>1
<1>3. Interfaces'
  BY <1>1 DEF CompilerInv, Interfaces, Reading
<1>4. GeneratedFiles'
  <2>1. ASSUME NEW name \in DOMAIN files' PROVE files'[name] = Generated(name)'
    <3>1. Generated(name)' = Generated(name)
      BY <1>1, GeneratedStays
    <3>2. CASE name = file
      BY <1>1, <1>2, <3>1, <3>2
    <3>3. CASE name # file
      <4>1. name \in DOMAIN files /\ files[name] = Generated(name)
        BY <1>2, <2>1, <3>3 DEF CompilerInv, GeneratedFiles
      <4>2. files'[name] = files[name]
        BY <1>1, <1>2, <2>1, <3>3
      <4>3. QED
        BY <3>1, <4>1, <4>2
    <3>4. QED
      BY <3>2, <3>3
  <2>2. QED
    BY <1>1, <1>2, <2>1 DEF CompilerInv, GeneratedFiles
<1>5. FilesAreThere'
  BY <1>1, <1>2, GeneratedStays DEF CompilerInv, FilesAreThere
<1>6. QED
  BY <1>1, <1>3, <1>4, <1>5 DEF CompilerInv

LEMMA CompilingStep ==
  ASSUME CompilerInv,
         \/ GeneratePlsqlHeader \/ GeneratePlsqlBody \/ GeneratePlsqlBodyExt
         \/ GenerateHeader \/ GenerateCSource
  PROVE  CompilerInv'
<1>1. CASE GeneratePlsqlHeader
  <2>1. Write("pks", "pkb", Generated("pks"))
    BY <1>1 DEF GeneratePlsqlHeader, Generated
  <2>2. QED
    BY <2>1, WriteStep DEF File, Place, Reading
<1>2. CASE GeneratePlsqlBody
  <2>1. Write("pkb", "pke", Generated("pkb"))
    BY <1>2 DEF GeneratePlsqlBody, Generated
  <2>2. QED
    BY <2>1, WriteStep DEF File, Place, Reading
<1>3. CASE GeneratePlsqlBodyExt
  <2>1. PICK next : next = IF "p" \in option THEN "done" ELSE "h"
    OBVIOUS
  <2>2. Write("pke", next, Generated("pke")) /\ pc = "pke"
    BY <1>3, <2>1 DEF GeneratePlsqlBodyExt, Generated, Write
  <2>3. QED
    BY <2>1, <2>2, WriteStep DEF File, Place, Reading, CompilerInv, FilesAreThere
<1>4. CASE GenerateHeader
  <2>1. Write("h", "c", Generated("h")) /\ pc = "h"
    BY <1>4 DEF GenerateHeader, Generated, Write
  <2>2. QED
    BY <2>1, WriteStep DEF File, Place, Reading, CompilerInv, FilesAreThere
<1>5. CASE GenerateCSource
  <2>1. Write("c", "done", Generated("c")) /\ pc = "c" /\ ~HasVoid
    BY <1>5 DEF GenerateCSource, Generated, Write
  <2>2. QED
    BY <2>1, WriteStep DEF File, Place, Reading, CompilerInv, FilesAreThere
<1>6. QED
  BY <1>1, <1>2, <1>3, <1>4, <1>5

-----------------------------------------------------------------------------
(* A call.                                                                 *)
ValueSet == [from : {"none", "arg", "res", "interface", "function"}, nr : Nat, len : Nat]
FieldSet == [type : Type, value : ValueSet]
StubSet(n) ==
  [function : Nat, line : Nat, vars : [0 .. n -> ValueSet], args : [0 .. n -> ValueSet],
   outcome : {"none", "returned", "raised"}]
ServerSet ==
  [actuals : Seq(ValueSet), results : Seq(FieldSet), code : {"none", "OK", "PARSE_ERROR", "ABORTED"}]

\* A message after n arguments: behind the names, in their order, each with the
\* type that was declared for it and no longer than that.
Packed(msg, n, fun, args) ==
  /\ msg \in Seq(FieldSet) /\ Len(msg) = n + 2
  /\ \A k \in 1 .. n :
       LET i == Arguments(fun)[k]
           p == fun.parameters[i]
       IN  /\ msg[k + 2] = Field(p.type, args[i])
           /\ p.type \in Texts => args[i].len <= p.size

\* What the function stores in a parameter, and the field a stub reads q-th.
ResultOf(fun, i) == Value("res", i, Length(Parameter(fun, i)))
Returned(fun, q) ==
  Field(Parameter(fun, Target(fun, q)).type, ResultOf(fun, Target(fun, q)))

\* What a caller passes.
Passed(fun, args) ==
  /\ args[0] = Nothing
  /\ \A i \in 1 .. Len(fun.parameters) :
       LET p == fun.parameters[i]
       IN  /\ p.mode = "OUT" => args[i] = Nothing
           /\ p.type = "DATE" => args[i].len <= p.size

\* What the listener does with it.
Served(answer, fun, args) ==
  /\ \A i \in 1 .. Len(answer.actuals) : i <= Len(fun.parameters) /\ answer.actuals[i] = args[i]
  /\ ~fun.oneway =>
       /\ Len(answer.results) = Targets(fun)
       /\ \A q \in 1 .. Targets(fun) : answer.results[q] = Returned(fun, q)

\* The variables of a stub that has read n results, and what is left of them
\* in the message.
HasRead(variables, n, fun, args) ==
  \A i \in 0 .. Len(fun.parameters) :
    variables[i] = IF \E q \in 1 .. n : Target(fun, q) = i THEN ResultOf(fun, i) ELSE args[i]
Remains(msg, n, fun) ==
  /\ Len(msg) = Targets(fun) - n
  /\ \A k \in 1 .. Targets(fun) - n : msg[k] = Returned(fun, k + n)

Deployed ==
  /\ pc = "deployed" /\ option \cap {"c", "p"} = {}
  /\ stub.function \in 1 .. Len(interface) /\ stub \in StubSet(Len(Callee.parameters))
  /\ g_msg \in Seq(FieldSet) /\ server \in ServerSet
  /\ Passed(Callee, stub.args)
Exchanged ==
  /\ request = <<>> => server = Unserved
  /\ request # <<>> => Packed(request, Len(Arguments(Callee)), Callee, stub.args)
  /\ server.code \in {"none", "OK"}
  /\ server.code = "OK" => Served(server, Callee, stub.args)

\* What the line of the stub tells.
Running ==
  /\ stub.line \in 1 .. Base(Callee) + Targets(Callee) + 1
  /\ stub.line <= Len(Arguments(Callee)) + 2 => request = <<>> /\ stub.vars = stub.args
  /\ stub.line \in 2 .. Len(Arguments(Callee)) + 2 => Packed(g_msg, stub.line - 2, Callee, stub.args)
  /\ stub.line > Len(Arguments(Callee)) + 2 => request # <<>>
  /\ ~Callee.oneway /\ stub.line = Base(Callee) => stub.vars = stub.args
  /\ ~Callee.oneway /\ stub.line > Base(Callee) =>
       /\ HasRead(stub.vars, stub.line - Base(Callee) - 1, Callee, stub.args)
       /\ Remains(g_msg, stub.line - Base(Callee) - 1, Callee)
Ended ==
  /\ stub.outcome = "returned" /\ ~Callee.oneway =>
       HasRead(stub.vars, Targets(Callee), Callee, stub.args)
  /\ stub.outcome = "raised" /\ ~Callee.oneway =>
       \E i \in 1 .. Len(Callee.parameters) : stub.args[i].len > Length(Callee.parameters[i])
Called == Deployed /\ Exchanged /\ (stub.outcome = "none" => Running) /\ Ended
NotCalled == stub = Idle /\ g_msg = <<>> /\ request = <<>> /\ server = Unserved

IdlInv == CompilerInv /\ (NotCalled \/ Called)

LEMMA CalleeIs ==
  ASSUME CompilerInv, Deployed
  PROVE  /\ Callee \in Fun /\ Len(Callee.parameters) \in Nat
         /\ \A i \in 1 .. Len(Callee.parameters) :
              Callee.parameters[i] \in Param /\ Callee.parameters[i].type # "VOID"
         /\ Code = Body(Callee) /\ Row = Source(Callee)
<1>1. Callee \in Fun
  BY InterfaceIs DEF CompilerInv, Deployed, Callee
<1>2. "pkb" \in DOMAIN files /\ "c" \in DOMAIN files /\ ~HasVoid
  BY DEF CompilerInv, Deployed, FilesAreThere
<1>3. Code = Body(Callee) /\ Row = Source(Callee)
  BY <1>2, FileIs DEF CompilerInv, Deployed, Callee, Code, Row
<1>4. \A i \in 1 .. Len(Callee.parameters) : Callee.parameters[i].type # "VOID"
  BY <1>2 DEF HasVoid, Deployed, Callee
<1>5. QED
  BY <1>1, <1>3, <1>4, FunIs

LEMMA ParameterIs ==
  ASSUME NEW fun \in Fun, NEW i \in 0 .. Len(fun.parameters)
  PROVE  Parameter(fun, i) \in Param /\ Length(Parameter(fun, i)) \in Nat
<1>1. Parameter(fun, i) \in Param
  BY FunIs DEF Parameter
<1>2. QED
  BY <1>1, ParamIs DEF Length

LEMMA ResultIs ==
  ASSUME NEW fun \in Fun, NEW i \in 0 .. Len(fun.parameters)
  PROVE  ResultOf(fun, i) \in ValueSet /\ ResultOf(fun, i).len = Length(Parameter(fun, i))
<1>1. Length(Parameter(fun, i)) \in Nat /\ i \in Nat
  BY ParameterIs, FunIs
<1>2. QED
  BY <1>1 DEF ResultOf, Value, ValueSet

LEMMA NothingIs == Nothing \in ValueSet
BY DEF Nothing, Value, ValueSet

\* The targets of a stub are its results.
LEMMA TargetIs ==
  ASSUME NEW fun \in Fun, NEW q \in 1 .. Targets(fun)
  PROVE  /\ Target(fun, q) \in 0 .. Len(fun.parameters)
         /\ Parameter(fun, Target(fun, q)).mode # "IN" /\ Parameter(fun, Target(fun, q)).type # "VOID"
<1>1. CASE q <= Len(Outs(fun))
  <2>1. q \in 1 .. Len(Outs(fun)) /\ Target(fun, q) = Outs(fun)[q]
    BY <1>1, CountsAre DEF Target
  <2>2. PICK i \in 1 .. Len(fun.parameters) :
          /\ i = Target(fun, q) /\ fun.parameters[i].mode \in {"INOUT", "OUT"}
          /\ fun.parameters[i].type # "VOID"
    BY <2>1, OutsAre
  <2>3. Parameter(fun, i) = fun.parameters[i]
    BY <2>2 DEF Parameter
  <2>4. QED
    BY <2>2, <2>3, FunIs
<1>2. CASE ~(q <= Len(Outs(fun)))
  <2>1. Returns(fun) = 1 /\ Target(fun, q) = 0
    BY <1>2, CountsAre DEF Target
  <2>2. fun.result.type # "VOID" /\ fun.result.mode = "OUT" /\ Parameter(fun, 0) = fun.result
    BY <2>1, FunIs DEF Returns, Parameter
  <2>3. QED
    BY <2>1, <2>2, FunIs
<1>3. QED
  BY <1>1, <1>2

LEMMA TargetsAreOnce ==
  ASSUME NEW fun \in Fun, NEW q \in 1 .. Targets(fun), NEW r \in 1 .. Targets(fun),
         Target(fun, q) = Target(fun, r)
  PROVE  q = r
<1>1. CASE q <= Len(Outs(fun)) /\ r <= Len(Outs(fun))
  <2>1. /\ q \in 1 .. Len(Outs(fun)) /\ r \in 1 .. Len(Outs(fun))
        /\ Outs(fun)[q] = Outs(fun)[r]
    BY <1>1, CountsAre DEF Target
  <2>2. QED
    BY <2>1, OutsAre
<1>2. CASE q <= Len(Outs(fun)) /\ ~(r <= Len(Outs(fun)))
  <2>1. q \in 1 .. Len(Outs(fun)) /\ Outs(fun)[q] = 0
    BY <1>2, CountsAre DEF Target
  <2>2. QED
    BY <2>1, OutsAre, FunIs
<1>3. CASE r <= Len(Outs(fun)) /\ ~(q <= Len(Outs(fun)))
  <2>1. r \in 1 .. Len(Outs(fun)) /\ Outs(fun)[r] = 0
    BY <1>3, CountsAre DEF Target
  <2>2. QED
    BY <2>1, OutsAre, FunIs
<1>4. CASE ~(q <= Len(Outs(fun))) /\ ~(r <= Len(Outs(fun)))
  BY <1>4, CountsAre
<1>5. QED
  BY <1>1, <1>2, <1>3, <1>4

LEMMA TargetsAreAll ==
  ASSUME NEW fun \in Fun, NEW i \in 0 .. Len(fun.parameters),
         Parameter(fun, i).mode # "IN", Parameter(fun, i).type # "VOID"
  PROVE  \E q \in 1 .. Targets(fun) : Target(fun, q) = i
<1>1. CASE i = 0
  <2>1. Returns(fun) = 1
    BY <1>1 DEF Returns, Parameter
  <2>2. Len(Outs(fun)) + 1 \in 1 .. Targets(fun) /\ Target(fun, Len(Outs(fun)) + 1) = 0
    BY <2>1, CountsAre DEF Target
  <2>3. QED
    BY <1>1, <2>2
<1>2. CASE i # 0
  <2>1. i \in 1 .. Len(fun.parameters) /\ Parameter(fun, i) = fun.parameters[i]
    BY <1>2, FunIs DEF Parameter
  <2>2. fun.parameters[i].mode \in Mode
    BY <2>1, FunIs, ParamIs
  <2>3. i \in OutSet(fun)
    BY <2>1, <2>2 DEF OutSet, Mode
  <2>4. PICK q \in 1 .. Len(Outs(fun)) : Outs(fun)[q] = i
    BY <2>3, OutsAre
  <2>5. q \in 1 .. Targets(fun) /\ Target(fun, q) = i
    BY <2>4, CountsAre DEF Target
  <2>6. QED
    BY <2>5
<1>3. QED
  BY <1>1, <1>2

-----------------------------------------------------------------------------
(* The listener.                                                           *)
LEMMA ColumnsAre ==
  ASSUME CompilerInv, Deployed
  PROVE  /\ IsTable(Columns, Callee) /\ Row.table.oneway = Callee.oneway
         /\ Row.skeleton = Skeleton(Callee)
<1>1. Callee \in Fun /\ Row = Source(Callee)
  BY CalleeIs
<1>2. Row.table = Table(Callee) /\ Row.skeleton = Skeleton(Callee)
  BY <1>1 DEF Source
<1>3. QED
  BY <1>1, <1>2, TableIs, Zenon DEF Columns

\* The columns a listener reads are the arguments a stub writes.
LEMMA InIs ==
  ASSUME CompilerInv, Deployed
  PROVE  In = Arguments(Callee)
<1>1. /\ Callee \in Fun
      /\ \A i \in 1 .. Len(Callee.parameters) :
           Callee.parameters[i] \in Param /\ Callee.parameters[i].type # "VOID"
  BY CalleeIs
<1>2. PICK n \in Nat : n = Len(Callee.parameters)
  BY <1>1, FunIs
<1>3. /\ Len(Columns) = n + 1 /\ Columns[n + 1].mode = "OUT"
      /\ \A i \in 1 .. n : Columns[i].mode = Callee.parameters[i].mode
  <2>1. /\ Len(Columns) = n + 1 /\ Columns[n + 1] = Entry(Callee.result)
        /\ \A i \in 1 .. n : Columns[i] = Entry(Callee.parameters[i])
    BY <1>2, ColumnsAre DEF IsTable
  <2>2. Callee.result.mode = "OUT"
    BY <1>1, FunIs
  <2>3. Columns[n + 1].mode = "OUT"
    BY <1>1, <2>1, <2>2, FunIs, EntryIs
  <2>4. \A i \in 1 .. n : Columns[i].mode = Callee.parameters[i].mode
    BY <1>1, <1>2, <2>1, EntryIs
  <2>5. QED
    BY <2>1, <2>3, <2>4
<1>4. ASSUME NEW i
      PROVE  i \in 1 .. Len(Columns) /\ Columns[i].mode # "OUT" <=> i \in ArgumentSet(Callee)
  <2>1. i \in 1 .. Len(Columns) /\ Columns[i].mode # "OUT"
          <=> i \in 1 .. n /\ Callee.parameters[i].mode # "OUT"
    BY <1>2, <1>3
  <2>2. \A j \in 1 .. n : Callee.parameters[j].mode # "OUT" <=> Callee.parameters[j].mode \in {"IN", "INOUT"}
    BY <1>1, <1>2, ParamIs DEF Mode
  <2>3. QED
    BY <1>1, <1>2, <2>1, <2>2 DEF ArgumentSet
<1>5. {i \in 1 .. Len(Columns) : Columns[i].mode # "OUT"} = ArgumentSet(Callee)
  BY <1>4
<1>6. QED
  BY <1>5, Zenon DEF In, Arguments

LEMMA OutIs ==
  ASSUME CompilerInv, Deployed
  PROVE  /\ Len(Out) = Targets(Callee)
         /\ \A q \in 1 .. Targets(Callee) :
              Out[q] = IF Target(Callee, q) = 0 THEN Len(Callee.parameters) + 1 ELSE Target(Callee, q)
<1>1. /\ Callee \in Fun
      /\ \A i \in 1 .. Len(Callee.parameters) :
           Callee.parameters[i] \in Param /\ Callee.parameters[i].type # "VOID"
  BY CalleeIs
<1>2. PICK n \in Nat : n = Len(Callee.parameters)
  BY <1>1, FunIs
<1>3. PICK last : last = IF Callee.result.type = "VOID" THEN {} ELSE {n + 1}
  OBVIOUS
<1>4. ASSUME NEW i
      PROVE  i \in 1 .. Len(Columns) /\ Columns[i].mode # "IN" /\ Columns[i].type # "VOID"
               <=> i \in OutSet(Callee) \cup last
  <2>1. /\ Len(Columns) = n + 1 /\ Columns[n + 1] = Entry(Callee.result)
        /\ \A j \in 1 .. n : Columns[j] = Entry(Callee.parameters[j])
    BY <1>2, ColumnsAre DEF IsTable
  <2>2. CASE i \in 1 .. n
    <3>1. Columns[i].mode = Callee.parameters[i].mode /\ Columns[i].type = Callee.parameters[i].type
      BY <1>1, <1>2, <2>1, <2>2, EntryIs
    <3>2. Callee.parameters[i].mode # "IN" <=> Callee.parameters[i].mode \in {"INOUT", "OUT"}
      BY <1>1, <1>2, <2>2, ParamIs DEF Mode
    <3>3. i \notin last /\ i \in 1 .. Len(Columns)
      BY <1>3, <2>1, <2>2
    <3>4. QED
      BY <1>2, <2>2, <3>1, <3>2, <3>3 DEF OutSet
  <2>3. CASE i = n + 1
    <3>1. /\ Columns[i].mode = "OUT" /\ Columns[i].type = Callee.result.type
          /\ i \in 1 .. Len(Columns)
      BY <1>1, <2>1, <2>3, FunIs DEF Entry
    <3>2. i \notin OutSet(Callee)
      BY <1>2, <2>3 DEF OutSet
    <3>3. QED
      BY <1>3, <2>3, <3>1, <3>2
  <2>4. CASE i \notin 1 .. n + 1
    <3>1. i \notin OutSet(Callee) /\ i \notin last
      BY <1>2, <1>3, <2>4 DEF OutSet
    <3>2. QED
      BY <2>1, <2>4, <3>1
  <2>5. QED
    BY <2>2, <2>3, <2>4
<1>5. {i \in 1 .. Len(Columns) : Columns[i].mode # "IN" /\ Columns[i].type # "VOID"}
        = OutSet(Callee) \cup last
  BY <1>4
<1>6. Out = Ascending(OutSet(Callee) \cup last)
  BY <1>5, Zenon DEF Out
<1>7. PICK m \in Nat : m = Len(Outs(Callee)) /\ \A q \in 1 .. m : Outs(Callee)[q] \in 1 .. n
  BY <1>1, <1>2, OutsAre
<1>8. CASE last = {}
  <2>1. Out = Outs(Callee)
    BY <1>6, <1>8 DEF Outs
  <2>2. Returns(Callee) = 0 /\ Targets(Callee) = m
    BY <1>3, <1>7, <1>8 DEF Returns, Targets
  <2>3. \A q \in 1 .. m : Target(Callee, q) = Outs(Callee)[q] /\ Outs(Callee)[q] # 0
    BY <1>7 DEF Target
  <2>4. QED
    BY <1>7, <2>1, <2>2, <2>3
<1>9. CASE last # {}
  <2>1. OutSet(Callee) \in SUBSET (1 .. n) /\ last = {n + 1}
    BY <1>2, <1>3, <1>9 DEF OutSet
  <2>2. Out = Append(Outs(Callee), n + 1)
    BY <1>6, <2>1, AscendingWithLast DEF Outs
  <2>3. Outs(Callee) \in Seq(Nat)
    BY <1>1, <1>7, OutsAre
  <2>4. Returns(Callee) = 1 /\ Targets(Callee) = m + 1
    BY <1>3, <1>7, <1>9 DEF Returns, Targets
  <2>5. /\ Len(Out) = m + 1 /\ Out[m + 1] = n + 1
        /\ \A q \in 1 .. m : Out[q] = Outs(Callee)[q]
    BY <1>7, <2>2, <2>3, AppendProperties
  <2>6. ASSUME NEW q \in 1 .. m + 1
        PROVE  Out[q] = IF Target(Callee, q) = 0 THEN n + 1 ELSE Target(Callee, q)
    <3>1. CASE q \in 1 .. m
      BY <1>7, <2>5, <3>1 DEF Target
    <3>2. CASE q = m + 1
      BY <1>7, <2>5, <3>2 DEF Target
    <3>3. QED
      BY <3>1, <3>2
  <2>7. QED
    BY <1>2, <2>4, <2>5, <2>6
<1>10. QED
  BY <1>8, <1>9

\* What a stub sends, the table accepts.
LEMMA Accepts ==
  ASSUME CompilerInv, Deployed, Packed(request, Len(Arguments(Callee)), Callee, stub.args)
  PROVE  Matches /\ Fits
<1>1. Callee \in Fun /\ In = Arguments(Callee)
  BY CalleeIs, InIs
<1>2. PICK n \in Nat : n = Len(Arguments(Callee)) /\ n = Len(In)
  BY <1>1, ArgumentsAre
<1>3. Len(request) = Len(In) + 2
  BY <1>2 DEF Packed
<1>4. ASSUME NEW k \in 1 .. Len(In)
      PROVE  /\ request[k + 2].type = Columns[In[k]].type
             /\ Columns[In[k]].type \in Texts => request[k + 2].value.len < Columns[In[k]].size
  <2>1. PICK i \in 1 .. Len(Callee.parameters) : i = In[k] /\ i = Arguments(Callee)[k]
    BY <1>1, ArgumentsAre
  <2>2. PICK p \in Param : p = Callee.parameters[i]
    BY <1>1, <2>1, FunIs
  <2>3. Columns[i] = Entry(p)
    BY <2>1, <2>2, ColumnsAre DEF IsTable
  <2>4. /\ request[k + 2] = Field(p.type, stub.args[i])
        /\ p.type \in Texts => stub.args[i].len <= p.size
    BY <1>2, <2>1, <2>2 DEF Packed
  <2>5. stub.args[i] \in ValueSet
    <3>1. i \in 0 .. Len(Callee.parameters)
      BY <2>1
    <3>2. QED
      BY <3>1 DEF Deployed, StubSet
  <2>6. stub.args[i].len \in Nat /\ p.size \in Nat
    BY <2>2, <2>5, ParamIs DEF ValueSet
  <2>7. request[k + 2].type = p.type /\ request[k + 2].value = stub.args[i]
    BY <2>4 DEF Field
  <2>8. Columns[i].type = p.type /\ (p.type \in Texts => Columns[i].size = p.size + 1)
    BY <2>2, <2>3, EntryIs
  <2>9. QED
    BY <2>1, <2>4, <2>6, <2>7, <2>8
<1>5. QED
  BY <1>3, <1>4 DEF Matches, Fits

\* Each buffer holds what the caller passed for its parameter.
LEMMA BuffersAre ==
  ASSUME CompilerInv, Deployed, Packed(request, Len(Arguments(Callee)), Callee, stub.args)
  PROVE  /\ Len(Buffers) = Len(Callee.parameters) + 1
         /\ \A i \in 1 .. Len(Callee.parameters) : Buffers[i] = stub.args[i]
<1>1. Callee \in Fun /\ In = Arguments(Callee)
  BY CalleeIs, InIs
<1>2. PICK n \in Nat : n = Len(Callee.parameters)
  BY <1>1, FunIs
<1>3. /\ Len(Columns) = n + 1
      /\ \A i \in 1 .. n : Columns[i] = Entry(Callee.parameters[i])
  BY <1>2, ColumnsAre DEF IsTable
<1>4. Len(Buffers) = n + 1
  BY <1>3 DEF Buffers
<1>5. ASSUME NEW i \in 1 .. n PROVE Buffers[i] = stub.args[i]
  <2>1. /\ Callee.parameters[i] \in Param /\ Callee.parameters[i].type # "VOID"
        /\ Columns[i].mode = Callee.parameters[i].mode
    BY <1>2, <1>3, CalleeIs, EntryIs
  <2>2. i \in 1 .. Len(Columns)
    BY <1>3
  <2>3. CASE Columns[i].mode = "OUT"
    <3>1. Buffers[i] = Nothing
      BY <2>2, <2>3 DEF Buffers
    <3>2. QED
      BY <1>2, <2>1, <2>3, <3>1 DEF Deployed, Passed
  <2>4. CASE Columns[i].mode # "OUT"
    <3>1. i \in ArgumentSet(Callee)
      BY <1>2, <2>1, <2>4, ParamIs DEF ArgumentSet, Mode
    <3>2. \E k \in 1 .. Len(In) : In[k] = i
      BY <1>1, <3>1, ArgumentsAre
    <3>3. PICK k \in 1 .. Len(In) : k = (CHOOSE l \in 1 .. Len(In) : In[l] = i) /\ In[k] = i
      BY <3>2
    <3>4. Buffers[i] = request[k + 2].value
      BY <2>2, <2>4, <3>3 DEF Buffers
    <3>5. request[k + 2] = Field(Callee.parameters[i].type, stub.args[i])
      BY <1>1, <3>3 DEF Packed
    <3>6. QED
      BY <3>4, <3>5 DEF Field
  <2>5. QED
    BY <2>3, <2>4
<1>6. QED
  BY <1>2, <1>4, <1>5

LEMMA MinIs ==
  ASSUME NEW a \in Nat, NEW b \in {0, 1}
  PROVE  Min({a + b, a}) = a
<1>1. a \in {a + b, a} /\ \A x \in {a + b, a} : a <= x
  OBVIOUS
<1>2. \A y \in {a + b, a} : (\A x \in {a + b, a} : y <= x) => y = a
  OBVIOUS
<1>3. QED
  BY <1>1, <1>2 DEF Min

\* Behind the call, each buffer that is sent holds the result of its parameter.
LEMMA AfterIs ==
  ASSUME CompilerInv, Deployed, NEW data, Len(data) = Len(Callee.parameters) + 1,
         NEW extra \in {0, 1}, extra > 0 => Callee.result.type \in Texts,
         NEW q \in 1 .. Targets(Callee)
  PROVE  After(data, Stored(extra))[Out[q]] = ResultOf(Callee, Target(Callee, q))
<1>1. Callee \in Fun /\ Row.skeleton = Skeleton(Callee)
  BY CalleeIs, ColumnsAre
<1>2. PICK n \in Nat : n = Len(Callee.parameters)
  BY <1>1, FunIs
<1>3. PICK t \in 0 .. n : /\ t = Target(Callee, q)
                         /\ Parameter(Callee, t).mode # "IN" /\ Parameter(Callee, t).type # "VOID"
  BY <1>1, <1>2, TargetIs
<1>4. Out[q] = IF t = 0 THEN n + 1 ELSE t
  BY <1>2, <1>3, OutIs
<1>5. \A i \in 1 .. n : Row.skeleton.actuals[i].data = i
  BY <1>1, <1>2 DEF Skeleton, Variable
<1>6. Row.skeleton.result = IF Callee.result.type = "VOID" THEN <<>>
                            ELSE <<[data |-> n + 1, size |-> Callee.result.size]>>
  BY <1>1, <1>2 DEF Skeleton, Variable, Copied
<1>7. \A d \in 1 .. n + 1 :
        (\E r \in ToSet(Row.skeleton.result) : r.data = d) <=> (d = n + 1 /\ Callee.result.type # "VOID")
  <2>1. CASE Callee.result.type = "VOID"
    <3>1. ToSet(Row.skeleton.result) = {}
      BY <1>6, <2>1 DEF ToSet
    <3>2. QED
      BY <2>1, <3>1
  <2>2. CASE Callee.result.type # "VOID"
    <3>1. ToSet(Row.skeleton.result) = {[data |-> n + 1, size |-> Callee.result.size]}
      BY <1>6, <2>2 DEF ToSet
    <3>2. QED
      BY <2>2, <3>1
  <2>3. QED
    BY <2>1, <2>2
<1>8. PICK stored : /\ stored = Stored(extra)
                    /\ stored[t] = Value("res", t, Length(Parameter(Callee, t)) + (IF t = 0 THEN extra ELSE 0))
                    /\ Length(Parameter(Callee, t)) \in Nat
  <2>1. \A i \in 0 .. n : Stored(extra)[i] =
          Value("res", i, Length(Parameter(Callee, i)) + (IF i = 0 THEN extra ELSE 0))
    BY <1>2 DEF Stored, Callee
  <2>2. QED
    BY <1>1, <1>2, <1>3, <2>1, ParameterIs
<1>9. CASE t = 0
  <2>1. Callee.result.type # "VOID" /\ Parameter(Callee, t) = Callee.result
    BY <1>3, <1>9 DEF Parameter
  <2>2. n + 1 \in 1 .. Len(data) /\ (\E r \in ToSet(Row.skeleton.result) : r.data = n + 1)
    BY <1>2, <1>7, <2>1
  <2>3. Row.skeleton.result[1].size = Callee.result.size
    BY <1>6, <2>1
  <2>4. After(data, stored)[n + 1] =
          [stored[0] EXCEPT !.len = IF Callee.result.type \in Texts
                                    THEN Min({@, Row.skeleton.result[1].size}) ELSE @]
    BY <2>2 DEF After, Callee
  <2>5. PICK v : v = stored[0] /\ v = [from |-> "res", nr |-> 0, len |-> Length(Callee.result) + extra]
    BY <1>8, <1>9, <2>1 DEF Value
  <2>6. CASE Callee.result.type \in Texts
    <3>1. Length(Callee.result) = Callee.result.size /\ Callee.result.size \in Nat
      BY <1>1, <2>6, FunIs, ParamIs DEF Length
    <3>2. Min({v.len, Row.skeleton.result[1].size}) = Length(Callee.result)
      <4>1. v.len = Callee.result.size + extra
        BY <2>5, <3>1
      <4>2. Min({Callee.result.size + extra, Callee.result.size}) = Callee.result.size
        BY <3>1, MinIs
      <4>3. QED
        BY <2>3, <3>1, <4>1, <4>2, Zenon
    <3>3. After(data, stored)[n + 1] = [v EXCEPT !.len = Length(Callee.result)]
      BY <2>4, <2>5, <2>6, <3>2
    <3>4. QED
      BY <1>2, <1>3, <1>4, <1>8, <1>9, <2>1, <2>5, <3>3 DEF ResultOf, Value
  <2>7. CASE Callee.result.type \notin Texts
    <3>1. extra = 0 /\ Length(Callee.result) + extra = Length(Callee.result)
      BY <1>8, <2>1, <2>7
    <3>2. After(data, stored)[n + 1] = v
      BY <2>4, <2>5, <2>7
    <3>3. QED
      BY <1>2, <1>3, <1>4, <1>8, <1>9, <2>1, <2>5, <3>1, <3>2 DEF ResultOf, Value
  <2>8. QED
    BY <2>6, <2>7
<1>10. CASE t # 0
  <2>1. t \in 1 .. n /\ Callee.parameters[t].mode # "IN"
    BY <1>3, <1>10 DEF Parameter
  <2>2. t \in 1 .. Len(data) /\ ~(\E r \in ToSet(Row.skeleton.result) : r.data = t)
    <3>1. t \in 1 .. n + 1 /\ t # n + 1
      BY <2>1
    <3>2. ~(\E r \in ToSet(Row.skeleton.result) : r.data = t)
      BY <1>7, <3>1
    <3>3. QED
      BY <1>2, <3>1, <3>2
  <2>3. t = CHOOSE i \in 1 .. n : Callee.parameters[i].mode # "IN" /\ Row.skeleton.actuals[i].data = t
    BY <1>5, <2>1
  <2>4. \E i \in 1 .. n : Callee.parameters[i].mode # "IN" /\ Row.skeleton.actuals[i].data = t
    BY <1>5, <2>1
  <2>5. After(data, stored)[t] = stored[t]
    BY <1>2, <2>2, <2>3, <2>4 DEF After, Callee
  <2>6. Length(Parameter(Callee, t)) + 0 = Length(Parameter(Callee, t))
    BY <1>8
  <2>7. QED
    BY <1>3, <1>4, <1>8, <1>10, <2>5, <2>6 DEF ResultOf
<1>11. QED
  BY <1>9, <1>10

-----------------------------------------------------------------------------
(* The steps of a call.                                                    *)
Same == UNCHANGED compiler /\ stub'.function = stub.function /\ stub'.args = stub.args

LEMMA CalleeStays ==
  ASSUME Same
  PROVE  Callee' = Callee /\ stub'.args = stub.args
BY Zenon DEF Same, compiler, Callee

LEMMA CompilerKept ==
  ASSUME CompilerInv, UNCHANGED compiler
  PROVE  CompilerInv'
BY CompilerStays DEF compiler

\* The line of the stub and where it is in its program.
LEMMA AtLine ==
  ASSUME CompilerInv, Called, stub.outcome = "none"
  PROVE  /\ Callee \in Fun /\ stub.line \in Nat
         /\ IsLine(Line, stub.line, Callee) /\ Running
<1>1. Callee \in Fun /\ Code = Body(Callee)
  BY CalleeIs DEF Called
<1>2. PICK prog : prog = Code.statements /\ IsProgram(prog, Callee)
  BY <1>1, ProgramIs
<1>3. Running
  BY DEF Called
<1>4. stub.line \in 1 .. Len(prog)
  BY <1>2, <1>3 DEF Running, IsProgram
<1>5. IsLine(prog[stub.line], stub.line, Callee)
  BY <1>1, <1>2, <1>4, LineIs
<1>6. Line = prog[stub.line]
  BY <1>2, Zenon DEF Line
<1>7. stub.line \in Nat
  BY DEF Called, Deployed, StubSet
<1>8. QED
  BY <1>1, <1>3, <1>5, <1>6, <1>7

LEMMA Proceeds ==
  ASSUME Called, Proceed, UNCHANGED compiler
  PROVE  /\ Same /\ stub' \in StubSet(Len(Callee.parameters))
         /\ stub'.line = stub.line + 1 /\ stub'.outcome = stub.outcome /\ stub'.vars = stub.vars
<1>1. /\ stub \in StubSet(Len(Callee.parameters)) /\ stub' = [stub EXCEPT !.line = @ + 1]
      /\ stub.line \in Nat
  BY DEF Called, Deployed, Proceed, StubSet
<1>2. stub' \in StubSet(Len(Callee.parameters))
  BY <1>1, SMTT(30) DEF StubSet
<1>3. /\ stub'.function = stub.function /\ stub'.args = stub.args /\ stub'.line = stub.line + 1
      /\ stub'.outcome = stub.outcome /\ stub'.vars = stub.vars
  BY <1>1 DEF StubSet
<1>4. QED
  BY <1>2, <1>3 DEF Same

LEMMA Raises ==
  ASSUME Called, Raise, UNCHANGED compiler
  PROVE  /\ Same /\ stub' \in StubSet(Len(Callee.parameters))
         /\ stub'.outcome = "raised"
<1>1. /\ stub \in StubSet(Len(Callee.parameters)) /\ stub' = [stub EXCEPT !.outcome = "raised"]
  BY DEF Called, Deployed, Raise
<1>2. stub' \in StubSet(Len(Callee.parameters))
  BY <1>1 DEF StubSet
<1>3. /\ stub'.function = stub.function /\ stub'.args = stub.args
      /\ stub'.outcome = "raised"
  BY <1>1 DEF StubSet
<1>4. QED
  BY <1>2, <1>3 DEF Same

LEMMA ExchangedStays ==
  ASSUME Same, Called, UNCHANGED <<request, server>>
  PROVE  Exchanged'
<1>1. Exchanged /\ Callee' = Callee /\ stub'.args = stub.args
  BY CalleeStays DEF Called
<1>2. QED
  BY <1>1 DEF Exchanged

LEMMA DeployedStays ==
  ASSUME Same, Called, stub' \in StubSet(Len(Callee.parameters)), g_msg' \in Seq(FieldSet),
         server' \in ServerSet
  PROVE  Deployed'
BY CalleeStays DEF Same, compiler, Called, Deployed

\* The caller passes its arguments.
LEMMA CallStep ==
  ASSUME CompilerInv, NotCalled, NEW k \in 1 .. Len(interface),
         NEW long \in 0 .. Len(interface[k].parameters), Call(k, long)
  PROVE  IdlInv'
<1>1. PICK fun \in Fun : fun = interface[k]
  BY InterfaceIs DEF CompilerInv
<1>2. PICK n \in Nat : n = Len(fun.parameters)
  BY FunIs
<1>3. CompilerInv' /\ pc' = "deployed" /\ option' \cap {"c", "p"} = {} /\ interface' = interface
  <2>1. UNCHANGED <<option, interface, files>> /\ pc' = "deployed" /\ pc = "done" /\ option \cap {"c", "p"} = {}
    BY DEF Call
  <2>2. QED
    BY <2>1, CompilerStays
<1>4. PICK passed : passed = stub'.args
  OBVIOUS
<1>5. /\ stub' = [function |-> k, line |-> 1, vars |-> passed, args |-> passed, outcome |-> "none"]
      /\ passed = [i \in 0 .. n |->
                     IF i = 0 \/ Parameter(fun, i).mode = "OUT" THEN Nothing
                     ELSE Value("arg", i, Length(fun.parameters[i]) + (IF i = long THEN 1 ELSE 0))]
  BY <1>1, <1>2, <1>4 DEF Call
<1>6. Callee' = fun
  BY <1>1, <1>3, <1>5 DEF Callee
<1>7. passed \in [0 .. n -> ValueSet]
  <2>1. ASSUME NEW i \in 0 .. n, i # 0
        PROVE  Value("arg", i, Length(fun.parameters[i]) + (IF i = long THEN 1 ELSE 0)) \in ValueSet
    <3>1. Length(fun.parameters[i]) \in Nat
      BY <1>2, <2>1, ParameterIs DEF Parameter
    <3>2. QED
      BY <3>1 DEF Value, ValueSet
  <2>2. QED
    BY <1>5, <2>1, NothingIs
<1>8. ASSUME NEW i \in 1 .. n
      PROVE  /\ fun.parameters[i].mode = "OUT" => passed[i] = Nothing
             /\ fun.parameters[i].type = "DATE" => passed[i].len <= fun.parameters[i].size
  <2>1. Parameter(fun, i) = fun.parameters[i] /\ i \in 0 .. n /\ i # 0 /\ fun.parameters[i] \in Param
    BY <1>2, FunIs DEF Parameter
  <2>2. PICK p \in Param : p = fun.parameters[i] /\ p.size \in Nat
    BY <2>1, ParamIs
  <2>3. CASE p.mode = "OUT"
    <3>1. passed[i] = Nothing
      BY <1>5, <2>1, <2>2, <2>3
    <3>2. QED
      BY <2>2, <3>1 DEF Nothing, Value
  <2>4. CASE p.mode # "OUT"
    <3>1. passed[i] = Value("arg", i, Length(p) + (IF i = long THEN 1 ELSE 0))
      BY <1>5, <2>1, <2>2, <2>4
    <3>2. p.type = "DATE" => i # long /\ Length(p) = p.size
      BY <1>1, <2>2 DEF Call, Sized, Length, Texts
    <3>3. QED
      BY <2>2, <2>4, <3>1, <3>2 DEF Value
  <2>5. QED
    BY <2>3, <2>4
<1>9. Passed(fun, passed)
  <2>1. passed[0] = Nothing
    BY <1>5
  <2>2. QED
    BY <1>2, <1>8, <2>1 DEF Passed
<1>10. Deployed'
  <2>1. stub' \in StubSet(n) /\ stub'.function \in 1 .. Len(interface')
    BY <1>3, <1>5, <1>7 DEF StubSet
  <2>2. g_msg' \in Seq(FieldSet) /\ server' \in ServerSet
    BY DEF Call, NotCalled, ServerSet, Unserved
  <2>3. QED
    BY <1>2, <1>3, <1>4, <1>6, <1>9, <2>1, <2>2 DEF Deployed
<1>11. Exchanged' /\ request' = <<>>
  <2>1. request' = <<>> /\ server' = Unserved
    BY DEF Call, NotCalled
  <2>2. QED
    BY <2>1 DEF Exchanged, Unserved
<1>12. Running'
  <2>1. stub'.line = 1 /\ stub'.vars = stub'.args
    BY <1>5
  <2>2. Base(fun) \in Nat /\ Base(fun) > 1 /\ Targets(fun) \in Nat /\ Len(Arguments(fun)) \in Nat
    BY CountsAre
  <2>3. QED
    BY <1>6, <1>11, <2>1, <2>2 DEF Running
<1>13. Ended'
  BY <1>5 DEF Ended
<1>14. QED
  BY <1>3, <1>10, <1>11, <1>12, <1>13 DEF IdlInv, Called

LEMMA NewRequestStep ==
  ASSUME CompilerInv, Called, NewRequest
  PROVE  Called'
<1>1. /\ Callee \in Fun /\ IsLine(Line, stub.line, Callee) /\ Running
      /\ stub.outcome = "none" /\ Line.op = "new_request"
  BY AtLine DEF NewRequest, Runs
<1>2. stub.line = 1
  BY <1>1 DEF IsLine
<1>3. /\ Same /\ stub' \in StubSet(Len(Callee.parameters))
      /\ stub'.line = 2 /\ stub'.outcome = "none" /\ stub'.vars = stub.vars
  BY <1>1, <1>2, Proceeds DEF NewRequest
<1>4. g_msg' \in Seq(FieldSet) /\ Len(g_msg') = 2
  BY DEF NewRequest, Field, Value, FieldSet, ValueSet, Type, Texts, Sized
<1>5. Packed(g_msg', 0, Callee, stub.args)
  BY <1>4 DEF Packed
<1>6. Deployed' /\ Exchanged'
  BY <1>3, <1>4, DeployedStays, ExchangedStays DEF NewRequest, Called, Deployed
<1>7. Running'
  <2>1. request' = <<>> /\ stub'.vars = stub'.args
    BY <1>1, <1>2, <1>3, CountsAre DEF NewRequest, Running, Same
  <2>2. Callee' = Callee /\ stub'.args = stub.args
    BY <1>3, CalleeStays
  <2>3. PICK n \in Nat : n = Len(Arguments(Callee))
    BY <1>1, CountsAre
  <2>4. /\ Base(Callee) \in Nat /\ Base(Callee) >= 2 /\ (~Callee.oneway => Base(Callee) > 2)
        /\ Targets(Callee) \in Nat
    BY <1>1, CountsAre DEF Waits
  <2>5. Packed(g_msg', stub'.line - 2, Callee', stub'.args)
    BY <1>3, <1>5, <2>2
  <2>6. QED
    BY <1>3, <2>1, <2>2, <2>3, <2>4, <2>5 DEF Running
<1>8. QED
  BY <1>3, <1>6, <1>7 DEF Called, Ended

LEMMA PackedMore ==
  ASSUME NEW fun \in Fun, NEW k \in 1 .. Len(Arguments(fun)), NEW msg, NEW args,
         Packed(msg, k - 1, fun, args), NEW i, i = Arguments(fun)[k], NEW p \in Param,
         p = fun.parameters[i], args[i] \in ValueSet, p.type \in Texts => args[i].len <= p.size
  PROVE  Packed(Append(msg, Field(p.type, args[i])), k, fun, args)
<1>1. PICK f \in FieldSet : f = Field(p.type, args[i])
  BY ParamIs DEF Field, FieldSet
<1>2. msg \in Seq(FieldSet) /\ Len(msg) = k + 1 /\ k \in Nat
  BY CountsAre DEF Packed
<1>3. PICK more : more = Append(msg, f)
  OBVIOUS
<1>4. /\ more \in Seq(FieldSet) /\ Len(more) = k + 2 /\ more[k + 2] = f
      /\ \A l \in 1 .. k + 1 : more[l] = msg[l]
  BY <1>2, <1>3, AppendProperties
<1>5. ASSUME NEW l \in 1 .. k
      PROVE  LET j == Arguments(fun)[l]
                 q == fun.parameters[j]
             IN  /\ more[l + 2] = Field(q.type, args[j])
                 /\ q.type \in Texts => args[j].len <= q.size
  <2>1. CASE l = k
    BY <1>1, <1>4, <2>1
  <2>2. CASE l # k
    <3>1. l \in 1 .. k - 1 /\ l + 2 \in 1 .. k + 1
      BY <1>2, <2>2
    <3>2. more[l + 2] = msg[l + 2]
      BY <1>4, <3>1
    <3>3. QED
      BY <3>1, <3>2 DEF Packed
  <2>3. QED
    BY <2>1, <2>2
<1>6. Packed(more, k, fun, args)
  BY <1>4, <1>5 DEF Packed
<1>7. QED
  BY <1>1, <1>3, <1>6

\* An argument that is too long raises; others go behind those before them.
LEMMA SetRequestParameterStep ==
  ASSUME CompilerInv, Called, SetRequestParameter
  PROVE  Called'
<1>1. /\ Callee \in Fun /\ stub.line \in Nat /\ IsLine(Line, stub.line, Callee) /\ Running
      /\ stub.outcome = "none" /\ Line.op = "set_request_parameter"
  BY AtLine DEF SetRequestParameter, Runs
<1>2. PICK n \in Nat : n = Len(Arguments(Callee))
  BY <1>1, CountsAre
<1>3. PICK k \in 1 .. n : stub.line = k + 1 /\ Line = SetStatement(Callee, k)
  BY <1>1, <1>2 DEF IsLine
<1>4. PICK i \in 1 .. Len(Callee.parameters) : i = Arguments(Callee)[k]
  BY <1>1, <1>2, ArgumentsAre
<1>5. PICK p \in Param : p = Callee.parameters[i] /\ p.size \in Nat
  BY <1>1, FunIs, ParamIs
<1>6. Line.var = i /\ Line.type = p.type /\ Line.size = Limit(p)
  BY <1>1, <1>3, <1>4, <1>5, FunIs DEF SetStatement, Statement, Parameter
<1>7. request = <<>> /\ stub.vars = stub.args /\ Packed(g_msg, k - 1, Callee, stub.args)
  <2>1. stub.line \in 2 .. n + 2 /\ stub.line - 2 = k - 1 /\ stub.line <= n + 2
    BY <1>3
  <2>2. QED
    BY <1>1, <1>2, <2>1 DEF Running
<1>8. PICK v \in ValueSet : v = stub.args[i] /\ v = stub.vars[Line.var] /\ v.len \in Nat
  <2>1. i \in 0 .. Len(Callee.parameters)
    OBVIOUS
  <2>2. stub.args[i] \in ValueSet
    BY <2>1 DEF Called, Deployed, StubSet
  <2>3. QED
    BY <1>6, <1>7, <2>2 DEF ValueSet
<1>9. CASE Line.size # NoLimit /\ v.len > Line.size
  <2>1. Raise /\ UNCHANGED <<g_msg, request, server>> /\ UNCHANGED compiler
    BY <1>8, <1>9 DEF SetRequestParameter
  <2>2. Same /\ stub' \in StubSet(Len(Callee.parameters)) /\ stub'.outcome = "raised"
    BY <2>1, Raises
  <2>3. Deployed' /\ Exchanged'
    BY <2>1, <2>2, DeployedStays, ExchangedStays DEF Called, Deployed
  <2>4. v.len > Length(p)
    BY <1>6, <1>9 DEF Limit, Length, Texts
  <2>5. Callee' = Callee /\ stub'.args = stub.args
    BY <2>2, CalleeStays
  <2>6. \E j \in 1 .. Len(Callee.parameters) : stub.args[j].len > Length(Callee.parameters[j])
    BY <1>5, <1>8, <2>4
  <2>7. Ended'
    BY <2>2, <2>5, <2>6 DEF Ended
  <2>8. QED
    BY <2>2, <2>3, <2>7 DEF Called
<1>10. CASE ~(Line.size # NoLimit /\ v.len > Line.size)
  <2>1. /\ Proceed /\ g_msg' = Append(g_msg, Field(p.type, v)) /\ UNCHANGED <<request, server>>
        /\ UNCHANGED compiler
    BY <1>6, <1>8, <1>10 DEF SetRequestParameter
  <2>2. /\ Same /\ stub' \in StubSet(Len(Callee.parameters))
        /\ stub'.line = k + 2 /\ stub'.outcome = "none" /\ stub'.vars = stub.vars
    BY <1>1, <1>3, <2>1, Proceeds
  <2>3. p.type \in Texts => v.len <= p.size
    <3>1. CASE p.type \in Sized
      <4>1. Line.size = p.size /\ Line.size # NoLimit
        BY <1>5, <1>6, <3>1 DEF Limit, NoLimit
      <4>2. QED
        BY <1>5, <1>8, <1>10, <4>1
    <3>2. CASE p.type = "DATE"
      BY <1>5, <1>8, <3>2 DEF Called, Deployed, Passed
    <3>3. QED
      BY <3>1, <3>2 DEF Texts
  <2>4. Packed(g_msg', k, Callee, stub.args)
    BY <1>1, <1>2, <1>4, <1>5, <1>7, <1>8, <2>1, <2>3, PackedMore
  <2>5. Deployed' /\ Exchanged'
    BY <2>1, <2>2, <2>4, DeployedStays, ExchangedStays DEF Called, Deployed, Packed
  <2>6. Running'
    <3>1. Callee' = Callee /\ stub'.args = stub.args /\ request' = <<>> /\ stub'.vars = stub'.args
      BY <1>7, <2>1, <2>2, CalleeStays
    <3>2. /\ Base(Callee) \in Nat /\ Base(Callee) >= n + 2 /\ (~Callee.oneway => Base(Callee) > n + 2)
          /\ Targets(Callee) \in Nat
      BY <1>1, <1>2, CountsAre DEF Waits
    <3>3. Packed(g_msg', stub'.line - 2, Callee', stub'.args)
      BY <2>2, <2>4, <3>1
    <3>4. QED
      BY <1>2, <2>2, <3>1, <3>2, <3>3 DEF Running
  <2>7. QED
    BY <2>2, <2>5, <2>6 DEF Called, Ended
<1>11. QED
  BY <1>9, <1>10

LEMMA SendRequestStep ==
  ASSUME CompilerInv, Called, SendRequest
  PROVE  Called'
<1>1. /\ Callee \in Fun /\ stub.line \in Nat /\ IsLine(Line, stub.line, Callee) /\ Running
      /\ stub.outcome = "none" /\ Line.op = "send_request"
  BY AtLine DEF SendRequest, Runs
<1>2. PICK n \in Nat : n = Len(Arguments(Callee))
  BY <1>1, CountsAre
<1>3. stub.line = n + 2
  BY <1>1, <1>2 DEF IsLine
<1>4. request = <<>> /\ stub.vars = stub.args /\ Packed(g_msg, n, Callee, stub.args)
  <2>1. stub.line \in 2 .. n + 2 /\ stub.line - 2 = n /\ stub.line <= n + 2
    BY <1>3
  <2>2. QED
    BY <1>1, <1>2, <2>1 DEF Running
<1>5. /\ Same /\ stub' \in StubSet(Len(Callee.parameters))
      /\ stub'.line = n + 3 /\ stub'.outcome = "none" /\ stub'.vars = stub.vars
  BY <1>1, <1>3, Proceeds DEF SendRequest
<1>6. Callee' = Callee /\ stub'.args = stub.args
  BY <1>5, CalleeStays
<1>7. request' = g_msg /\ g_msg' = g_msg /\ server' = server /\ request' # <<>>
  BY <1>4 DEF SendRequest, Packed
<1>8. Deployed'
  BY <1>5, <1>7, DeployedStays DEF Called, Deployed
<1>9. Exchanged'
  BY <1>2, <1>4, <1>6, <1>7 DEF Called, Exchanged, Unserved
<1>10. Running'
  <2>1. /\ Base(Callee) = n + 2 + Waits(Callee) /\ Waits(Callee) = (IF Callee.oneway THEN 0 ELSE 1)
        /\ Targets(Callee) \in Nat
    BY <1>1, <1>2, CountsAre DEF Waits
  <2>2. QED
    BY <1>2, <1>4, <1>5, <1>6, <1>7, <2>1 DEF Running
<1>11. QED
  BY <1>5, <1>8, <1>9, <1>10 DEF Called, Ended

\* What the listener gets, it accepts; what it answers is what the function
\* has stored.
LEMMA ServeStep ==
  ASSUME CompilerInv, Called, NEW extra \in {0, 1}, Serve(extra)
  PROVE  Called'
<1>1. Deployed /\ Exchanged /\ request # <<>> /\ server.code = "none"
  BY DEF Called, Serve
<1>2. Packed(request, Len(Arguments(Callee)), Callee, stub.args)
  BY <1>1 DEF Exchanged
<1>3. Matches /\ Fits
  BY <1>1, <1>2, Accepts
<1>4. PICK fun \in Fun : fun = Callee /\ Row.table.oneway = fun.oneway /\ Row.skeleton = Skeleton(fun)
  BY <1>1, CalleeIs, ColumnsAre
<1>5. PICK n \in Nat : n = Len(fun.parameters)
  BY <1>4, FunIs
<1>6. PICK data : data = Buffers /\ Len(data) = n + 1 /\ \A i \in 1 .. n : data[i] = stub.args[i]
  BY <1>1, <1>2, <1>4, <1>5, BuffersAre
<1>7. server' = [code |-> "OK",
                 actuals |-> [i \in 1 .. Len(Row.skeleton.actuals) |-> data[Row.skeleton.actuals[i].data]],
                 results |-> IF Row.table.oneway THEN <<>> ELSE Answer(After(data, Stored(extra)))]
  BY <1>3, <1>6 DEF Serve
<1>8. PICK actuals : actuals = server'.actuals /\ actuals = [i \in 1 .. n |-> stub.args[i]]
  <2>1. Len(Row.skeleton.actuals) = n /\ \A i \in 1 .. n : Row.skeleton.actuals[i].data = i
    BY <1>4, <1>5 DEF Skeleton, Variable
  <2>2. QED
    BY <1>6, <1>7, <2>1, SMTT(30)
<1>9. \A i \in 1 .. n : stub.args[i] \in ValueSet
  BY <1>1, <1>4, <1>5 DEF Deployed, StubSet
<1>10. actuals \in Seq(ValueSet) /\ Len(actuals) = n /\ \A i \in 1 .. n : actuals[i] = stub.args[i]
  BY <1>8, <1>9
<1>11. PICK t \in Nat : t = Targets(fun)
  BY CountsAre
<1>12. \A q \in 1 .. t : Returned(fun, q) \in FieldSet
  <2>1. ASSUME NEW q \in 1 .. t PROVE Returned(fun, q) \in FieldSet
    <3>1. PICK i \in 0 .. n : i = Target(fun, q)
      BY <1>5, <1>11, TargetIs
    <3>2. ResultOf(fun, i) \in ValueSet /\ Parameter(fun, i).type \in Type
      BY <1>5, ResultIs, ParameterIs, ParamIs
    <3>3. QED
      BY <3>1, <3>2 DEF Returned, Field, FieldSet
  <2>2. QED
    BY <2>1
<1>13. PICK results : /\ results = Answer(After(data, Stored(extra)))
                      /\ results = [q \in 1 .. t |-> Returned(fun, q)]
  <2>1. Len(Out) = t
    BY <1>1, <1>4, <1>11, OutIs
  <2>2. ASSUME NEW q \in 1 .. t
        PROVE  Field(Columns[Out[q]].type, After(data, Stored(extra))[Out[q]]) = Returned(fun, q)
    <3>1. PICK i \in 0 .. n : i = Target(fun, q)
      BY <1>5, <1>11, TargetIs
    <3>2. After(data, Stored(extra))[Out[q]] = ResultOf(fun, i)
      <4>1. extra > 0 => fun.result.type \in Texts
        BY <1>4 DEF Serve, Callee
      <4>2. QED
        BY <1>1, <1>4, <1>5, <1>6, <1>11, <3>1, <4>1, AfterIs
    <3>3. Out[q] = IF i = 0 THEN n + 1 ELSE i
      BY <1>1, <1>4, <1>5, <1>11, <3>1, OutIs
    <3>4. Columns[Out[q]] = Entry(Parameter(fun, i))
      <4>1. IsTable(Columns, fun)
        BY <1>1, <1>4, ColumnsAre
      <4>2. QED
        BY <1>5, <3>3, <4>1 DEF IsTable, Parameter
    <3>5. Columns[Out[q]].type = Parameter(fun, i).type
      BY <1>5, <3>4, ParameterIs, EntryIs
    <3>6. QED
      BY <3>1, <3>2, <3>5 DEF Returned
  <2>3. QED
    BY <2>1, <2>2 DEF Answer
<1>14. results \in Seq(FieldSet) /\ Len(results) = t /\ \A q \in 1 .. t : results[q] = Returned(fun, q)
  BY <1>12, <1>13
<1>15. /\ server'.code = "OK" /\ server'.results = (IF fun.oneway THEN <<>> ELSE results)
       /\ server' = [code |-> "OK", actuals |-> actuals, results |-> IF fun.oneway THEN <<>> ELSE results]
  BY <1>4, <1>7, <1>8, <1>13
<1>16. server' \in ServerSet
  BY <1>10, <1>14, <1>15 DEF ServerSet
<1>17. Served(server', fun, stub.args)
  BY <1>5, <1>8, <1>10, <1>11, <1>14, <1>15 DEF Served
<1>18. Same /\ stub' = stub /\ g_msg' = g_msg /\ request' = request
  BY DEF Serve, Same
<1>19. Callee' = Callee /\ stub'.args = stub.args
  BY <1>18, CalleeStays
<1>20. Deployed'
  BY <1>16, <1>18, DeployedStays DEF Called, Deployed
<1>21. Exchanged'
  BY <1>1, <1>2, <1>4, <1>15, <1>17, <1>18, <1>19 DEF Exchanged
<1>22. (stub.outcome = "none" => Running') /\ Ended'
  BY <1>18, <1>19 DEF Called, Running, Ended
<1>23. QED
  BY <1>18, <1>20, <1>21, <1>22 DEF Called

LEMMA RecvResponseStep ==
  ASSUME CompilerInv, Called, RecvResponse
  PROVE  Called'
<1>1. /\ Callee \in Fun /\ stub.line \in Nat /\ IsLine(Line, stub.line, Callee) /\ Running
      /\ stub.outcome = "none" /\ Line.op = "recv_response" /\ server.code # "none"
  BY AtLine DEF RecvResponse, Runs
<1>2. PICK n \in Nat, t \in Nat, b \in Nat :
        n = Len(Arguments(Callee)) /\ t = Targets(Callee) /\ b = Base(Callee)
  BY <1>1, CountsAre
<1>3. stub.line = b /\ ~Callee.oneway /\ b = n + 3
  BY <1>1, <1>2, CountsAre DEF IsLine, Waits
<1>4. request # <<>> /\ stub.vars = stub.args
  BY <1>1, <1>2, <1>3 DEF Running
<1>5. server.code = "OK" /\ Served(server, Callee, stub.args)
  BY <1>1 DEF Called, Exchanged
<1>6. /\ Same /\ stub' \in StubSet(Len(Callee.parameters))
      /\ stub'.line = b + 1 /\ stub'.outcome = "none" /\ stub'.vars = stub.vars
  BY <1>1, <1>3, <1>5, Proceeds DEF RecvResponse
<1>7. g_msg' = server.results /\ UNCHANGED <<request, server>>
  BY <1>5 DEF RecvResponse
<1>8. server \in ServerSet
  BY DEF Called, Deployed
<1>9. Deployed' /\ Exchanged'
  BY <1>6, <1>7, <1>8, DeployedStays, ExchangedStays DEF ServerSet
<1>10. HasRead(stub.vars, 0, Callee, stub.args)
  BY <1>4 DEF HasRead
<1>11. Remains(g_msg', 0, Callee)
  <2>1. Len(g_msg') = t /\ \A q \in 1 .. t : g_msg'[q] = Returned(Callee, q)
    BY <1>2, <1>3, <1>5, <1>7 DEF Served
  <2>2. t - 0 = t /\ \A q \in 1 .. t : q + 0 = q
    OBVIOUS
  <2>3. QED
    BY <1>2, <2>1, <2>2 DEF Remains
<1>12. Running'
  <2>1. Callee' = Callee /\ stub'.args = stub.args
    BY <1>6, CalleeStays
  <2>2. /\ stub'.line \in 1 .. b + t + 1 /\ stub'.line - b - 1 = 0
        /\ ~(stub'.line <= n + 2) /\ ~(stub'.line = b)
    BY <1>3, <1>6
  <2>3. /\ HasRead(stub'.vars, stub'.line - b - 1, Callee', stub'.args)
        /\ Remains(g_msg', stub'.line - b - 1, Callee')
    BY <1>6, <1>10, <1>11, <2>1, <2>2
  <2>4. request' # <<>>
    BY <1>4, <1>7
  <2>5. Len(Arguments(Callee')) = n /\ Base(Callee') = b /\ Targets(Callee') = t
    BY <1>2, <2>1
  <2>6. QED
    BY <2>2, <2>3, <2>4, <2>5 DEF Running
<1>13. QED
  BY <1>6, <1>9, <1>12 DEF Called, Ended

LEMMA Reads ==
  ASSUME Called, NEW i \in 0 .. Len(Callee.parameters), NEW v \in ValueSet,
         stub' = [stub EXCEPT !.line = @ + 1, !.vars[i] = v], UNCHANGED compiler
  PROVE  /\ Same /\ stub' \in StubSet(Len(Callee.parameters))
         /\ stub'.line = stub.line + 1 /\ stub'.outcome = stub.outcome
         /\ stub'.vars = [stub.vars EXCEPT ![i] = v]
<1>1. /\ stub \in StubSet(Len(Callee.parameters)) /\ stub.line \in Nat
      /\ stub.vars \in [0 .. Len(Callee.parameters) -> ValueSet]
  BY DEF Called, Deployed, StubSet
<1>2. PICK variables \in [0 .. Len(Callee.parameters) -> ValueSet] :
        variables = [stub.vars EXCEPT ![i] = v]
  BY <1>1
<1>3. stub' = [stub EXCEPT !.line = stub.line + 1, !.vars = variables]
  BY <1>2
<1>4. stub' \in StubSet(Len(Callee.parameters))
  BY <1>1, <1>3, SMTT(30) DEF StubSet
<1>5. /\ stub'.function = stub.function /\ stub'.args = stub.args /\ stub'.line = stub.line + 1
      /\ stub'.outcome = stub.outcome /\ stub'.vars = variables
  BY <1>1, <1>3 DEF StubSet
<1>6. QED
  BY <1>2, <1>4, <1>5 DEF Same

\* The statement that reads the q-th result: its variable, type and limit.
LEMMA GetStatementIs ==
  ASSUME NEW fun \in Fun, NEW q \in 1 .. Targets(fun)
  PROVE  LET i == Target(fun, q)
             p == Parameter(fun, i)
         IN  /\ GetStatement(fun, q).var = i /\ GetStatement(fun, q).type = p.type
             /\ GetStatement(fun, q).size = IF i = 0 THEN NoLimit ELSE Limit(p)
<1>1. /\ GetStatement(fun, q).var = Target(fun, q)
      /\ GetStatement(fun, q).type = Parameter(fun, Target(fun, q)).type
  BY DEF GetStatement, Statement
<1>2. CASE q <= Len(Outs(fun))
  <2>1. q \in 1 .. Len(Outs(fun)) /\ Target(fun, q) = Outs(fun)[q]
    BY <1>2, CountsAre DEF Target
  <2>2. Outs(fun)[q] \in 1 .. Len(fun.parameters)
    BY <2>1, OutsAre
  <2>3. Parameter(fun, Outs(fun)[q]) = fun.parameters[Outs(fun)[q]] /\ Outs(fun)[q] # 0
    BY <2>2, FunIs DEF Parameter
  <2>4. GetStatement(fun, q).size = Limit(fun.parameters[Outs(fun)[q]])
    BY <1>2 DEF GetStatement, Statement
  <2>5. QED
    BY <1>1, <2>1, <2>3, <2>4
<1>3. CASE ~(q <= Len(Outs(fun)))
  BY <1>1, <1>3 DEF Target, GetStatement, Statement
<1>4. QED
  BY <1>2, <1>3

\* What a stub reads is the next result, and fits in its variable.
LEMMA ResultsFit ==
  ASSUME CompilerInv, Called, Running, NEW q \in 1 .. Targets(Callee), ~Callee.oneway,
         stub.line = Base(Callee) + q, Line = GetStatement(Callee, q)
  PROVE  /\ g_msg # <<>> /\ Head(g_msg) = Returned(Callee, q) /\ Head(g_msg).type = Line.type
         /\ LET limit == IF Line.var = 0 /\ Line.type \in Sized THEN Code.variable[1] ELSE Line.size
            IN  limit # NoLimit => Head(g_msg).value.len <= limit
<1>1. PICK fun \in Fun : fun = Callee /\ Code = Body(fun)
  BY CalleeIs DEF Called
<1>2. PICK i \in 0 .. Len(fun.parameters) : i = Target(fun, q) /\ Parameter(fun, i).type # "VOID"
  BY <1>1, TargetIs
<1>3. PICK p \in Param : p = Parameter(fun, i) /\ p.size \in Nat /\ p.type \in Type /\ Length(p) \in Nat
  BY <1>2, ParameterIs, ParamIs
<1>4. Line.var = i /\ Line.type = p.type /\ Line.size = IF i = 0 THEN NoLimit ELSE Limit(p)
  BY <1>1, <1>2, <1>3, GetStatementIs
<1>5. Remains(g_msg, q - 1, fun) /\ g_msg \in Seq(FieldSet)
  <2>1. stub.line > Base(fun) /\ stub.line - Base(fun) - 1 = q - 1
    BY <1>1, CountsAre
  <2>2. QED
    BY <1>1, <2>1 DEF Running, Called, Deployed
<1>6. g_msg # <<>> /\ Head(g_msg) = Returned(fun, q)
  <2>1. 1 \in 1 .. Targets(fun) - (q - 1) /\ 1 + (q - 1) = q /\ Len(g_msg) # 0
    BY <1>1, <1>5, CountsAre DEF Remains
  <2>2. g_msg[1] = Returned(fun, q)
    BY <1>5, <2>1 DEF Remains
  <2>3. QED
    BY <1>5, <2>1, <2>2
<1>7. Head(g_msg).type = p.type /\ Head(g_msg).value.len = Length(p)
  <2>1. Head(g_msg) = Field(p.type, ResultOf(fun, i))
    BY <1>2, <1>3, <1>6 DEF Returned
  <2>2. QED
    BY <1>2, <1>3, <2>1, ResultIs DEF Field
<1>8. PICK limit : limit = IF Line.var = 0 /\ Line.type \in Sized THEN Code.variable[1] ELSE Line.size
  OBVIOUS
<1>9. ASSUME limit # NoLimit PROVE Head(g_msg).value.len <= limit
  <2>1. CASE i = 0
    <3>1. p.type \in Sized /\ p = fun.result /\ limit = Code.variable[1]
      BY <1>3, <1>4, <1>8, <1>9, <2>1 DEF Parameter
    <3>2. Code.variable = <<p.size>>
      BY <1>1, <1>2, <1>3, <3>1 DEF Body
    <3>3. limit = p.size /\ Length(p) = p.size
      BY <3>1, <3>2 DEF Length, Texts
    <3>4. QED
      BY <1>3, <1>7, <3>3
  <2>2. CASE i # 0
    <3>1. limit = Limit(p)
      BY <1>4, <1>8, <2>2
    <3>2. limit = p.size /\ Length(p) = p.size
      BY <1>9, <3>1 DEF Limit, Length, Texts
    <3>3. QED
      BY <1>3, <1>7, <3>2
  <2>3. QED
    BY <2>1, <2>2
<1>10. QED
  BY <1>1, <1>4, <1>6, <1>7, <1>8, <1>9

LEMMA ReadMore ==
  ASSUME NEW fun \in Fun, NEW q \in 1 .. Targets(fun), NEW args,
         NEW variables \in [0 .. Len(fun.parameters) -> ValueSet],
         HasRead(variables, q - 1, fun, args), NEW msg \in Seq(FieldSet), msg # <<>>,
         Remains(msg, q - 1, fun)
  PROVE  /\ HasRead([variables EXCEPT ![Target(fun, q)] = ResultOf(fun, Target(fun, q))], q, fun, args)
         /\ Remains(Tail(msg), q, fun)
<1>1. PICK i \in 0 .. Len(fun.parameters) : i = Target(fun, q)
  BY TargetIs
<1>2. PICK more : more = [variables EXCEPT ![i] = ResultOf(fun, i)]
  OBVIOUS
<1>3. q \in Nat /\ q >= 1 /\ Targets(fun) \in Nat
  BY CountsAre
<1>4. ASSUME NEW j \in 0 .. Len(fun.parameters)
      PROVE  more[j] = IF \E r \in 1 .. q : Target(fun, r) = j THEN ResultOf(fun, j) ELSE args[j]
  <2>1. CASE j = i
    <3>1. more[j] = ResultOf(fun, j) /\ q \in 1 .. q
      BY <1>2, <1>3, <2>1
    <3>2. QED
      BY <1>1, <2>1, <3>1
  <2>2. CASE j # i
    <3>1. more[j] = variables[j]
      BY <1>2, <2>2
    <3>2. (\E r \in 1 .. q : Target(fun, r) = j) <=> (\E r \in 1 .. q - 1 : Target(fun, r) = j)
      BY <1>1, <1>3, <2>2
    <3>3. QED
      BY <3>1, <3>2 DEF HasRead
  <2>3. QED
    BY <2>1, <2>2
<1>5. HasRead(more, q, fun, args)
  BY <1>4 DEF HasRead
<1>6. Remains(Tail(msg), q, fun)
  <2>1. Len(msg) = Targets(fun) - (q - 1)
    BY DEF Remains
  <2>2. Len(Tail(msg)) = Targets(fun) - q /\ \A k \in 1 .. Targets(fun) - q : Tail(msg)[k] = msg[k + 1]
    BY <1>3, <2>1
  <2>3. ASSUME NEW k \in 1 .. Targets(fun) - q PROVE msg[k + 1] = Returned(fun, k + q)
    <3>1. PICK l \in 1 .. Targets(fun) - (q - 1) : l = k + 1 /\ l + (q - 1) = k + q
      BY <1>3
    <3>2. msg[l] = Returned(fun, l + (q - 1))
      BY DEF Remains
    <3>3. QED
      BY <3>1, <3>2
  <2>4. QED
    BY <2>2, <2>3 DEF Remains
<1>7. QED
  BY <1>1, <1>2, <1>5, <1>6

\* A result goes to its variable; only a oneway stub, which reads what it has
\* sent itself, can raise here.
LEMMA GetResponseParameterStep ==
  ASSUME CompilerInv, Called, GetResponseParameter
  PROVE  Called'
<1>1. /\ Callee \in Fun /\ stub.line \in Nat /\ IsLine(Line, stub.line, Callee) /\ Running
      /\ stub.outcome = "none" /\ Line.op = "get_response_parameter"
  BY AtLine DEF GetResponseParameter, Runs
<1>2. PICK n \in Nat, t \in Nat, b \in Nat :
        n = Len(Arguments(Callee)) /\ t = Targets(Callee) /\ b = Base(Callee) /\ b >= n + 2
  BY <1>1, CountsAre
<1>3. PICK q \in 1 .. t : stub.line = b + q /\ Line = GetStatement(Callee, q)
  BY <1>1, <1>2 DEF IsLine
<1>4. PICK i \in 0 .. Len(Callee.parameters) : i = Target(Callee, q) /\ i = Line.var
  BY <1>1, <1>2, <1>3, TargetIs, GetStatementIs
<1>5. request # <<>>
  <2>1. stub.line > n + 2
    BY <1>2, <1>3
  <2>2. QED
    BY <1>1, <1>2, <2>1 DEF Running
<1>6. g_msg \in Seq(FieldSet) /\ server \in ServerSet /\ UNCHANGED <<compiler, request, server>>
  BY DEF Called, Deployed, GetResponseParameter
<1>7. PICK limit : limit = IF Line.var = 0 /\ Line.type \in Sized THEN Code.variable[1] ELSE Line.size
  OBVIOUS
<1>8. PICK bad \in BOOLEAN :
        bad <=> \/ g_msg = <<>> \/ Head(g_msg).type # Line.type
                \/ (limit # NoLimit /\ Head(g_msg).value.len > limit)
  OBVIOUS
<1>9. ~Callee.oneway =>
        /\ ~bad /\ g_msg # <<>> /\ Head(g_msg) = Returned(Callee, q)
        /\ HasRead(stub.vars, q - 1, Callee, stub.args) /\ Remains(g_msg, q - 1, Callee)
  <2> SUFFICES ASSUME ~Callee.oneway
               PROVE  /\ ~bad /\ g_msg # <<>> /\ Head(g_msg) = Returned(Callee, q)
                      /\ HasRead(stub.vars, q - 1, Callee, stub.args) /\ Remains(g_msg, q - 1, Callee)
    OBVIOUS
  <2>1. /\ g_msg # <<>> /\ Head(g_msg) = Returned(Callee, q) /\ Head(g_msg).type = Line.type
        /\ limit # NoLimit => Head(g_msg).value.len <= limit
    BY <1>1, <1>2, <1>3, <1>7, ResultsFit
  <2>2. Head(g_msg).value.len = Length(Parameter(Callee, i)) /\ Length(Parameter(Callee, i)) \in Nat
    BY <1>1, <1>4, <2>1, ResultIs, ParameterIs DEF Returned, Field
  <2>3. limit # NoLimit => limit \in Nat
    <3>1. GetStatement(Callee, q).size = IF i = 0 THEN NoLimit ELSE Limit(Parameter(Callee, i))
      BY <1>1, <1>2, <1>4, GetStatementIs
    <3>2. Limit(Parameter(Callee, i)) \in Nat \cup {NoLimit}
      BY <1>1, ParameterIs, ParamIs DEF Limit
    <3>3. i = 0 /\ Line.type \in Sized => Code.variable[1] \in Nat
      <4>1. Code = Body(Callee)
        BY CalleeIs DEF Called
      <4>2. i = 0 => Callee.result.type # "VOID"
        BY <1>1, <1>2, <1>4, TargetIs DEF Parameter
      <4>3. i = 0 => Code.variable = <<Callee.result.size>>
        BY <4>1, <4>2 DEF Body
      <4>4. QED
        BY <1>1, <4>3, FunIs, ParamIs
    <3>4. QED
      BY <1>3, <1>4, <1>7, <3>1, <3>2, <3>3
  <2>4. ~bad
    BY <1>8, <2>1, <2>2, <2>3
  <2>5. stub.line > b /\ stub.line - b - 1 = q - 1
    BY <1>3
  <2>6. HasRead(stub.vars, q - 1, Callee, stub.args) /\ Remains(g_msg, q - 1, Callee)
    BY <1>1, <1>2, <2>5 DEF Running
  <2>7. QED
    BY <2>1, <2>4, <2>6
<1>10. CASE bad
  <2>1. Raise /\ UNCHANGED g_msg
    BY <1>7, <1>8, <1>10, Zenon DEF GetResponseParameter
  <2>2. Same /\ stub' \in StubSet(Len(Callee.parameters)) /\ stub'.outcome = "raised"
    BY <1>6, <2>1, Raises
  <2>3. Deployed' /\ Exchanged'
    BY <1>6, <2>1, <2>2, DeployedStays, ExchangedStays
  <2>4. Ended'
    BY <1>9, <1>10, <2>2, CalleeStays DEF Ended
  <2>5. QED
    BY <2>2, <2>3, <2>4 DEF Called
<1>11. CASE ~bad
  <2>1. /\ stub' = [stub EXCEPT !.line = @ + 1, !.vars[Line.var] = Head(g_msg).value]
        /\ g_msg' = Tail(g_msg)
    BY <1>7, <1>8, <1>11, Zenon DEF GetResponseParameter
  <2>2. g_msg # <<>>
    BY <1>8, <1>11
  <2>3. PICK v \in ValueSet : v = Head(g_msg).value
    <3>1. PICK f : f = Head(g_msg) /\ f \in FieldSet
      BY <1>6, <2>2, HeadTailProperties, Zenon
    <3>2. f.value \in ValueSet
      BY <3>1 DEF FieldSet
    <3>3. QED
      BY <3>1, <3>2
  <2>4. /\ Same /\ stub' \in StubSet(Len(Callee.parameters))
        /\ stub'.line = b + q + 1 /\ stub'.outcome = "none"
        /\ stub'.vars = [stub.vars EXCEPT ![i] = v]
    BY <1>1, <1>3, <1>4, <1>6, <2>1, <2>3, Reads
  <2>5. g_msg' \in Seq(FieldSet)
    BY <1>6, <2>1, <2>2
  <2>6. Deployed' /\ Exchanged'
    BY <1>6, <2>4, <2>5, DeployedStays, ExchangedStays
  <2>7. ~Callee.oneway => HasRead(stub'.vars, q, Callee, stub.args) /\ Remains(g_msg', q, Callee)
    <3> SUFFICES ASSUME ~Callee.oneway
                 PROVE  HasRead(stub'.vars, q, Callee, stub.args) /\ Remains(g_msg', q, Callee)
      OBVIOUS
    <3>1. v = ResultOf(Callee, i)
      BY <1>4, <1>9, <2>3 DEF Returned, Field
    <3>2. stub.vars \in [0 .. Len(Callee.parameters) -> ValueSet]
      BY DEF Called, Deployed, StubSet
    <3>3. /\ HasRead([stub.vars EXCEPT ![i] = ResultOf(Callee, i)], q, Callee, stub.args)
          /\ Remains(Tail(g_msg), q, Callee)
      BY <1>1, <1>2, <1>4, <1>6, <1>9, <3>2, ReadMore
    <3>4. QED
      BY <2>1, <2>4, <3>1, <3>3
  <2>8. Running'
    <3>1. Callee' = Callee /\ stub'.args = stub.args
      BY <2>4, CalleeStays
    <3>2. /\ stub'.line \in 1 .. b + t + 1 /\ stub'.line - b - 1 = q
          /\ ~(stub'.line <= n + 2) /\ ~(stub'.line = b)
      BY <1>2, <2>4, SMTT(30)
    <3>3. ~Callee'.oneway => /\ HasRead(stub'.vars, stub'.line - b - 1, Callee', stub'.args)
                             /\ Remains(g_msg', stub'.line - b - 1, Callee')
      BY <2>7, <3>1, <3>2
    <3>4. request' # <<>>
      BY <1>5, <1>6
    <3>5. Len(Arguments(Callee')) = n /\ Base(Callee') = b /\ Targets(Callee') = t
      BY <1>2, <3>1
    <3>6. QED
      BY <3>2, <3>3, <3>4, <3>5 DEF Running
  <2>9. QED
    BY <2>4, <2>6, <2>8 DEF Called, Ended
<1>12. QED
  BY <1>10, <1>11

LEMMA StoreAndReturnStep ==
  ASSUME CompilerInv, Called, StoreAndReturn
  PROVE  Called'
<1>1. /\ Callee \in Fun /\ stub.line \in Nat /\ IsLine(Line, stub.line, Callee) /\ Running
      /\ stub.outcome = "none" /\ Line.op = "store"
  BY AtLine DEF StoreAndReturn, Runs
<1>2. PICK n \in Nat, t \in Nat, b \in Nat :
        n = Len(Arguments(Callee)) /\ t = Targets(Callee) /\ b = Base(Callee)
  BY <1>1, CountsAre
<1>3. stub.line = b + t + 1 /\ stub.line > b /\ stub.line - b - 1 = t
  BY <1>1, <1>2 DEF IsLine
<1>4. ~Callee.oneway => HasRead(stub.vars, t, Callee, stub.args)
  BY <1>1, <1>2, <1>3 DEF Running
<1>5. stub \in StubSet(Len(Callee.parameters)) /\ stub' = [stub EXCEPT !.outcome = "returned"]
  BY DEF StoreAndReturn, Called, Deployed
<1>6. stub' \in StubSet(Len(Callee.parameters))
  BY <1>5 DEF StubSet
<1>7. /\ stub'.function = stub.function /\ stub'.args = stub.args /\ stub'.outcome = "returned"
      /\ stub'.vars = stub.vars
  BY <1>5 DEF StubSet
<1>8. Same /\ UNCHANGED <<g_msg, request, server>>
  BY <1>7 DEF Same, StoreAndReturn
<1>9. Deployed' /\ Exchanged'
  BY <1>6, <1>8, DeployedStays, ExchangedStays DEF Called, Deployed
<1>10. Ended'
  <2>1. Callee' = Callee
    BY <1>8, CalleeStays
  <2>2. QED
    BY <1>2, <1>4, <1>7, <2>1 DEF Ended
<1>11. QED
  BY <1>7, <1>9, <1>10 DEF Called

-----------------------------------------------------------------------------
(* Every step.                                                             *)
CallStay == UNCHANGED <<stub, g_msg, request, server>>

\* A compiler that goes on has not been deployed.
LEMMA NoCallYet ==
  ASSUME NotCalled \/ Called, pc # "deployed", CallStay
  PROVE  NotCalled'
BY DEF CallStay, NotCalled, Called, Deployed

LEMMA CompilerStep ==
  ASSUME IdlInv,
         \/ \E type \in Types, size \in Size, oneway \in BOOLEAN : AddFunction(type, size, oneway)
         \/ \E mode \in Mode, type \in Types, size \in Size : AddParameter(mode, type, size)
         \/ FunctionParsed \/ InterfaceParsed \/ SyntaxError
         \/ GeneratePlsqlHeader \/ GeneratePlsqlBody \/ GeneratePlsqlBodyExt
         \/ GenerateHeader \/ GenerateCSource \/ VoidParameter \/ OpenError
  PROVE  IdlInv'
<1>1. CompilerInv /\ (NotCalled \/ Called)
  BY DEF IdlInv
<1>2. CASE \E type \in Types, size \in Size, oneway \in BOOLEAN : AddFunction(type, size, oneway)
  <2>1. PICK type \in Types, size \in Size, oneway \in BOOLEAN : AddFunction(type, size, oneway)
    BY <1>2
  <2>2. CompilerInv'
    BY <1>1, <2>1, AddFunctionStep
  <2>3. pc # "deployed" /\ CallStay
    BY <2>1 DEF AddFunction, Parsed, CallStay
  <2>4. QED
    BY <1>1, <2>2, <2>3, NoCallYet DEF IdlInv
<1>3. CASE \E mode \in Mode, type \in Types, size \in Size : AddParameter(mode, type, size)
  <2>1. PICK mode \in Mode, type \in Types, size \in Size : AddParameter(mode, type, size)
    BY <1>3
  <2>2. CompilerInv'
    BY <1>1, <2>1, AddParameterStep
  <2>3. pc # "deployed" /\ CallStay
    BY <2>1 DEF AddParameter, Parsed, CallStay
  <2>4. QED
    BY <1>1, <2>2, <2>3, NoCallYet DEF IdlInv
<1>4. CASE FunctionParsed \/ InterfaceParsed \/ SyntaxError \/ VoidParameter \/ OpenError
  <2>1. /\ pc # "deployed" /\ CallStay /\ UNCHANGED <<option, interface, files>>
        /\ \/ pc' \in {"failed", "aborted"}
           \/ /\ pc' \in {"functions", "h", "pks", "done"} /\ pc \in Reading
            /\ (pc' = "h" => "c" \in option) /\ (pc' = "done" => "c" \in option /\ "p" \in option)
    BY <1>4 DEF FunctionParsed, InterfaceParsed, SyntaxError, VoidParameter, OpenError, Parsed,
                CallStay, Reading
  <2>2. CompilerInv'
    BY <1>1, <2>1, CompilerStays
  <2>3. QED
    BY <1>1, <2>1, <2>2, NoCallYet DEF IdlInv
<1>5. CASE \/ GeneratePlsqlHeader \/ GeneratePlsqlBody \/ GeneratePlsqlBodyExt
           \/ GenerateHeader \/ GenerateCSource
  <2>1. CompilerInv'
    BY <1>1, <1>5, CompilingStep
  <2>2. pc # "deployed" /\ CallStay
    BY <1>5 DEF GeneratePlsqlHeader, GeneratePlsqlBody, GeneratePlsqlBodyExt, GenerateHeader,
                GenerateCSource, Write, CallStay
  <2>3. QED
    BY <1>1, <2>1, <2>2, NoCallYet DEF IdlInv
<1>6. QED
  BY <1>2, <1>3, <1>4, <1>5

LEMMA CalledStep ==
  ASSUME IdlInv,
         \/ NewRequest \/ SetRequestParameter \/ SendRequest
         \/ \E extra \in {0, 1} : Serve(extra)
         \/ RecvResponse \/ GetResponseParameter \/ StoreAndReturn
  PROVE  IdlInv'
<1>1. CompilerInv /\ (NotCalled \/ Called)
  BY DEF IdlInv
<1>2. UNCHANGED compiler
  BY DEF NewRequest, SetRequestParameter, SendRequest, Serve, RecvResponse, GetResponseParameter,
         StoreAndReturn
<1>3. CompilerInv'
  BY <1>1, <1>2, CompilerKept
<1>4. Called
  <2>1. stub.function # 0 \/ request # <<>>
    BY DEF NewRequest, SetRequestParameter, SendRequest, Serve, RecvResponse, GetResponseParameter,
           StoreAndReturn, Runs
  <2>2. QED
    BY <1>1, <2>1 DEF NotCalled, Idle
<1>5. Called'
  BY <1>1, <1>4, NewRequestStep, SetRequestParameterStep, SendRequestStep, ServeStep,
     RecvResponseStep, GetResponseParameterStep, StoreAndReturnStep
<1>6. QED
  BY <1>3, <1>5 DEF IdlInv

LEMMA IdlStep == IdlInv /\ [Next]_vars => IdlInv'
<1> SUFFICES ASSUME IdlInv, [Next]_vars PROVE IdlInv'
  OBVIOUS
<1>1. CASE \E k \in 1 .. Len(interface) : \E long \in 0 .. Len(interface[k].parameters) : Call(k, long)
  <2>1. PICK k \in 1 .. Len(interface) : \E long \in 0 .. Len(interface[k].parameters) : Call(k, long)
    BY <1>1
  <2>2. PICK long \in 0 .. Len(interface[k].parameters) : Call(k, long)
    BY <2>1
  <2>3. CompilerInv /\ NotCalled
    BY <2>2 DEF IdlInv, Call, Called, Deployed
  <2>4. QED
    BY <2>1, <2>2, <2>3, CallStep
<1>2. CASE UNCHANGED vars
  <2>1. CompilerInv'
    BY <1>2, CompilerKept DEF IdlInv, vars
  <2>2. NotCalled => NotCalled'
    BY <1>2 DEF vars, NotCalled
  <2>3. Called => Called'
    <3>1. Callee' = Callee
      BY <1>2 DEF vars, compiler, Callee
    <3>2. QED
      BY <1>2, <3>1 DEF vars, compiler, Called, Deployed, Exchanged, Running, Ended
  <2>4. QED
    BY <2>1, <2>2, <2>3 DEF IdlInv
<1>3. QED
  BY <1>1, <1>2, CompilerStep, CalledStep DEF Next

LEMMA IdlInit == Init => IdlInv
BY CompilerInit DEF Init, IdlInv, NotCalled

LEMMA IdlAlways == Spec => []IdlInv
BY IdlInit, IdlStep, PTL DEF Spec

-----------------------------------------------------------------------------
(* The theorems.                                                           *)

\* The variables have their types, and every parameter has the size of its
\* type, whatever token stood before it: InitParameter, in every interface.
THEOREM IdlTypes == Spec => []TypeOK
<1>1. IdlInv => TypeOK
  <2> SUFFICES ASSUME IdlInv PROVE TypeOK
    OBVIOUS
  <2>1. CompilerInv
    BY DEF IdlInv
  <2>2. /\ Len(interface) \in Nat
        /\ \A k \in 1 .. Len(interface) :
             /\ ParameterOK(interface[k].result)
             /\ \A i \in 1 .. Len(interface[k].parameters) : ParameterOK(interface[k].parameters[i])
    BY <2>1, InterfaceIs, FunIs, ParamIs DEF CompilerInv
  <2>3. stub.function \in 0 .. Len(interface) /\ stub.outcome \in {"none", "returned", "raised"}
    BY <2>2 DEF IdlInv, NotCalled, Idle, Called, Deployed, StubSet
  <2>4. server.code \in {"none", "OK", "PARSE_ERROR", "ABORTED"}
    BY DEF IdlInv, NotCalled, Unserved, Called, Exchanged
  <2>5. QED
    BY <2>1, <2>2, <2>3, <2>4 DEF TypeOK, CompilerInv, GeneratedFiles, Place, Reading, File
<1>2. QED
  BY <1>1, IdlAlways, PTL

\* The texts that are written from one interface fit together.
THEOREM CodeCompiles == Spec => []GeneratedCodeCompiles
<1>1. IdlInv => GeneratedCodeCompiles
  BY Compiles DEF IdlInv
<1>2. QED
  BY <1>1, IdlAlways, PTL

\* The listener reads every request of a generated stub with the table that was
\* generated for it: no parameter is missing, has another type or does not fit.
THEOREM TablesAgree == Spec => []StubsAndTablesAgree
<1>1. IdlInv => StubsAndTablesAgree
  BY DEF IdlInv, StubsAndTablesAgree, NotCalled, Unserved, Called, Exchanged
<1>2. QED
  BY <1>1, IdlAlways, PTL

\* The skeleton calls the function with what the caller passed, each argument
\* in its own position.
THEOREM ArgumentsPlaced == Spec => []ArgumentsInTheirPlace
<1>1. IdlInv => ArgumentsInTheirPlace
  BY DEF IdlInv, ArgumentsInTheirPlace, NotCalled, Unserved, Called, Exchanged, Served
<1>2. QED
  BY <1>1, IdlAlways, PTL

\* A stub that returns has set each [out] parameter and the return value to its
\* own result, and no other parameter; only an argument that is too long raises.
THEOREM ResultsPlaced == Spec => []ResultsInTheirPlace
<1>1. IdlInv => ResultsInTheirPlace
  <2> SUFFICES ASSUME IdlInv, stub.function # 0, ~Callee.oneway
               PROVE  /\ stub.outcome = "returned" =>
                           \A i \in 0 .. Len(Callee.parameters) :
                             stub.vars[i] = IF IsResult(i) THEN Value("res", i, Length(Parameter(Callee, i)))
                                            ELSE stub.args[i]
                      /\ stub.outcome = "raised" =>
                           \E i \in 1 .. Len(Callee.parameters) :
                             stub.args[i].len > Length(Callee.parameters[i])
    BY DEF ResultsInTheirPlace
  <2>1. CompilerInv /\ Called
    BY DEF IdlInv, NotCalled, Idle
  <2>2. Callee \in Fun
    BY <2>1, CalleeIs DEF Called
  <2>3. ASSUME stub.outcome = "returned", NEW i \in 0 .. Len(Callee.parameters)
        PROVE  stub.vars[i] = IF IsResult(i) THEN Value("res", i, Length(Parameter(Callee, i)))
                              ELSE stub.args[i]
    <3>1. stub.vars[i] = IF \E q \in 1 .. Targets(Callee) : Target(Callee, q) = i
                         THEN ResultOf(Callee, i) ELSE stub.args[i]
      BY <2>1, <2>3 DEF Called, Ended, HasRead
    <3>2. (\E q \in 1 .. Targets(Callee) : Target(Callee, q) = i) <=> IsResult(i)
      BY <2>2, TargetIs, TargetsAreAll DEF IsResult
    <3>3. QED
      BY <3>1, <3>2 DEF ResultOf
  <2>4. ASSUME stub.outcome = "raised"
        PROVE  \E i \in 1 .. Len(Callee.parameters) : stub.args[i].len > Length(Callee.parameters[i])
    BY <2>1, <2>4 DEF Called, Ended
  <2>5. QED
    BY <2>3, <2>4
<1>2. QED
  BY <1>1, IdlAlways, PTL

=============================================================================
