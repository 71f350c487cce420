-------------------------- MODULE EpcListenerProofs --------------------------
(***************************************************************************)
(* The listener process.  Handlers that nest inside each other and inside  *)
(* a half done swap leave the signal dispositions as they found them, for  *)
(* every number of signals; so no handler runs after the test that decides *)
(* about commit.                                                           *)
(*                                                                         *)
(* Whatever interfaces it is built with and in whatever order they are     *)
(* added, its lookups find exactly the functions that were added.  The     *)
(* invariant says that the tables are sorted and hold what was added, and  *)
(* that everything before the position of a lookup is smaller than the     *)
(* name it looks for: with the order, everything after the position where  *)
(* it stops is greater.                                                    *)
(***************************************************************************)
EXTENDS EpcListener, EpcRegistry, SequenceTheorems, TLAPS

USE SignalAssumption, ListenerAssumption

-----------------------------------------------------------------------------
(* Types *)

LEMMA StartType == Start \in Progress
BY DEF Start, Progress

LEMMA SwapOneType ==
  ASSUME TypeOK, NEW idx \in 0 .. 1, NEW p \in Progress, NEW q \in Progress, SwapOne(idx, p, q)
  PROVE  disp' \in [Signal -> Disposition] /\ info' \in [0 .. 1 -> [Signal -> Disposition]]
<1>1. ~Done(p) => p.next \in Signal
  BY DEF Progress, Done, Signal
<1>2. CASE p.old = "none"
  BY <1>1, <1>2 DEF TypeOK, SwapOne
<1>3. CASE p.old # "none"
  <2>1. p.old \in Disposition /\ p.next \in Signal /\ UNCHANGED disp
    BY <1>1, <1>3 DEF SwapOne, Progress
  <2>2. info' = [info EXCEPT ![idx] = [info[idx] EXCEPT ![p.next] = p.old]]
    BY <1>3 DEF SwapOne, TypeOK
  <2>3. QED
    BY <2>1, <2>2 DEF TypeOK
<1>4. QED
  BY <1>2, <1>3

\* A handler that goes on stays a frame.
LEMMA GoesType ==
  ASSUME frames \in Seq(Frame), frames # <<>>, NEW f \in Frame, Goes(f)
  PROVE  frames' \in Seq(Frame)
BY DEF Goes

LEMMA TopType ==
  ASSUME frames \in Seq(Frame), frames # <<>>
  PROVE  Top \in Frame /\ Len(frames) \in 1 .. Len(frames)
BY DEF Top

LEMMA NoFrames == <<>> \in Seq(Frame)
OBVIOUS

LEMMA HandlerTypeStep == TypeOK /\ HandlerNext => TypeOK'
<1> SUFFICES ASSUME TypeOK, HandlerNext PROVE TypeOK'
  OBVIOUS
<1>t. frames \in Seq(Frame) /\ frames # <<>> /\ Top \in Frame
  BY TopType DEF TypeOK, HandlerNext, HandlerSwaps, HandlerSwapped, HandleInterrupt, SetSigno
<1>f. /\ \A q \in Progress : [Top EXCEPT !.swap = q] \in Frame
      /\ [Top EXCEPT !.phase = "interrupt", !.swap = Start] \in Frame
      /\ [Top EXCEPT !.phase = "flag"] \in Frame
      /\ [Top EXCEPT !.phase = "restore"] \in Frame
  BY <1>t, StartType DEF Frame
<1>1. CASE HandlerSwaps
  <2>1. PICK q \in Progress : SwapOne(1, Top.swap, q) /\ Goes([Top EXCEPT !.swap = q])
    BY <1>1 DEF HandlerSwaps
  <2>2. disp' \in [Signal -> Disposition] /\ info' \in [0 .. 1 -> [Signal -> Disposition]]
    BY <1>t, <2>1, SwapOneType DEF Frame
  <2>3. frames' \in Seq(Frame)
    BY <1>t, <1>f, <2>1, GoesType
  <2>4. QED
    BY <1>1, <2>2, <2>3 DEF HandlerSwaps, TypeOK, platform, pipeVars, history
<1>2. CASE HandlerSwapped
  <2>1. frames' \in Seq(Frame)
    <3>1. CASE Goes([Top EXCEPT !.phase = "interrupt", !.swap = Start])
      BY <1>t, <1>f, <3>1, GoesType
    <3>2. CASE frames' = SubSeq(frames, 1, Len(frames) - 1)
      BY <1>t, <3>2
    <3>3. QED
      BY <1>2, <3>1, <3>2 DEF HandlerSwapped
  <2>2. QED
    BY <1>2, <2>1 DEF HandlerSwapped, TypeOK, platform, signalVars, pipeVars, history
<1>3. CASE HandleInterrupt
  <2>1. frames' \in Seq(Frame)
    <3>1. CASE Goes([Top EXCEPT !.phase = "flag"])
      BY <1>t, <1>f, <3>1, GoesType
    <3>2. CASE frames' = <<>>
      BY <3>2, NoFrames
    <3>3. QED
      BY <1>3, <3>1, <3>2 DEF HandleInterrupt, GivesUp, Ends
  <2>2. helpers' \in Nat
    BY <1>3 DEF HandleInterrupt, HelperStarted, GivesUp, StartHelper, TypeOK
  <2>3. /\ at' \in {"stage", "cleanup"} \cup Inside \cup Ended
        /\ session' \in {"none", "open", "committed", "rolled_back", "lost"}
    BY <1>3 DEF HandleInterrupt, GivesUp, Ends, TypeOK, Ended
  <2>4. QED
    BY <1>3, <2>1, <2>2, <2>3 DEF HandleInterrupt, TypeOK, platform, signalVars, history
<1>4. CASE SetSigno
  <2>1. frames' \in Seq(Frame)
    BY <1>t, <1>f, <1>4, GoesType DEF SetSigno
  <2>2. QED
    BY <1>4, <2>1 DEF SetSigno, TypeOK, platform, signalVars, pipeVars, history
<1>5. QED
  BY <1>1, <1>2, <1>3, <1>4 DEF HandlerNext

LEMMA EnterType == TypeOK => \A s \in Signal : Enter(s) \in Frame
BY StartType DEF TypeOK, Enter, Frame, Current, Rows

LEMMA EventTypeStep ==
  ASSUME TypeOK,
         HelperSends \/ OtherReceives \/ UserInterrupt \/ Kill \/ \E s \in Signal : Deliver(s)
  PROVE  TypeOK'
<1>0. CASE OtherReceives
  BY <1>0 DEF OtherReceives, TypeOK, platform, signalVars, history
<1>1. CASE HelperSends
  BY <1>1 DEF HelperSends, TypeOK, platform, signalVars, history
<1>2. CASE UserInterrupt
  <2>0. frames' = frames \/ frames' = <<>>
    BY <1>2 DEF UserInterrupt, GivesUp, Ends
  <2>1. helpers' \in Nat /\ frames' \in Seq(Frame)
    <3>1. helpers' = helpers \/ helpers' = helpers + 1
      BY <1>2 DEF UserInterrupt, HelperStarted, GivesUp, StartHelper
    <3>2. helpers' \in Nat
      BY <3>1 DEF TypeOK
    <3>3. frames' \in Seq(Frame)
      BY <2>0, NoFrames DEF TypeOK
    <3>4. QED
      BY <3>2, <3>3
  <2>2. /\ at' \in {"stage", "cleanup"} \cup Inside \cup Ended
        /\ session' \in {"none", "open", "committed", "rolled_back", "lost"}
        /\ signals' \in 0 .. MaxSignals
    BY <1>2 DEF UserInterrupt, Event, HelperStarted, GivesUp, Ends, TypeOK, Ended
  <2>3. QED
    BY <1>2, <2>1, <2>2 DEF UserInterrupt, TypeOK, platform, signalVars
<1>3. CASE Kill \/ \E s \in Signal : Deliver(s)
  <2>1. frames' \in Seq(Frame)
    <3>1. \/ frames' = <<>>
          \/ \E s \in Signal : frames' = Append(frames, Enter(s))
      BY <1>3 DEF Kill, Deliver, Ends
    <3>2. CASE frames' = <<>>
      BY <3>2, NoFrames
    <3>3. ASSUME NEW s \in Signal, frames' = Append(frames, Enter(s)) PROVE frames' \in Seq(Frame)
      BY <3>3, EnterType DEF TypeOK
    <3>4. QED
      BY <3>1, <3>2, <3>3
  <2>2. /\ at' \in {"stage", "cleanup"} \cup Inside \cup Ended
        /\ session' \in {"none", "open", "committed", "rolled_back", "lost"}
        /\ signals' \in 0 .. MaxSignals
    BY <1>3 DEF Kill, Deliver, Event, Ends, TypeOK, Ended
  <2>3. QED
    BY <1>3, <2>1, <2>2 DEF Kill, Deliver, TypeOK, platform, signalVars, pipeVars
<1>4. QED
  BY <1>0, <1>1, <1>2, <1>3

LEMMA MainTypeStep == TypeOK /\ MainNext => TypeOK'
<1> SUFFICES ASSUME TypeOK, MainNext PROVE TypeOK'
  OBVIOUS
<1>1. CASE MainSwaps
  <2>1. PICK q \in Progress : SwapOne(0, swap, q) /\ swap' = q
    BY <1>1 DEF MainSwaps
  <2>2. disp' \in [Signal -> Disposition] /\ info' \in [0 .. 1 -> [Signal -> Disposition]]
    BY <2>1, SwapOneType DEF TypeOK
  <2>3. QED
    BY <1>1, <2>1, <2>2 DEF MainSwaps, MainOnly, TypeOK, platform, pipeVars, history
<1>2. CASE MainSwapped
  BY <1>2, StartType
     DEF MainSwapped, MainOnly, TypeOK, platform, pipeVars, history, Inside
<1>3. CASE Stage
  BY <1>3 DEF Stage, MainOnly, TypeOK, platform, signalVars, pipeVars, history, Ended, Error
<1>4. CASE Connect \/ Register \/ Guard
  BY <1>4
     DEF Connect, Register, Guard, Disconnects, MainOnly, TypeOK, platform, signalVars, pipeVars,
         history, Inside, Ended, Error
<1>5. CASE RecvRequest \/ RecvInterrupt \/ RecvFails \/ Serve
  BY <1>5
     DEF RecvRequest, RecvInterrupt, RecvFails, Serve, Disconnects, MainOnly, TypeOK, platform,
         signalVars, pipeVars, history, Inside, Ended, Error
<1>6. CASE SendInterrupt \/ Logoff \/ Cleanup
  BY <1>6
     DEF SendInterrupt, Logoff, Cleanup, Disconnects, MainOnly, TypeOK, platform, signalVars,
         pipeVars, history, Inside, Ended, Error
<1>7. QED
  BY <1>1, <1>2, <1>3, <1>4, <1>5, <1>6 DEF MainNext

LEMMA InitTypeOK == Init => TypeOK
<1> SUFFICES ASSUME Init PROVE TypeOK
  OBVIOUS
<1>1. disp \in [Signal -> Disposition] /\ info \in [0 .. 1 -> [Signal -> Disposition]]
  BY DEF Init, Disposition
<1>2. original \in [Signal -> {"DFL", "IGN"}]
  BY DEF Init
<1>3. 0 \in 0 .. MaxSignals /\ swap \in Progress /\ frames \in Seq(Frame)
  BY StartType, NoFrames DEF Init
<1>4. signo \in BOOLEAN /\ caught \in BOOLEAN /\ interrupt \in BOOLEAN
      /\ reapsIgnored \in BOOLEAN /\ helperMayFail \in BOOLEAN /\ taken \in BOOLEAN
  BY DEF Init
<1>5. /\ nr \in 0 .. 7 /\ at = "stage" /\ ret \in Error /\ session = "none"
      /\ helpers \in Nat /\ interrupts \in Nat /\ signals = 0
  BY DEF Init, Error
<1>6. QED
  BY <1>1, <1>2, <1>3, <1>4, <1>5 DEF TypeOK

LEMMA NextTypeOK == TypeOK /\ [Next]_vars => TypeOK'
<1> SUFFICES ASSUME TypeOK, [Next]_vars PROVE TypeOK'
  OBVIOUS
<1>1. CASE UNCHANGED vars
  BY <1>1 DEF vars, TypeOK, platform, signalVars, pipeVars, history
<1>2. QED
  BY <1>1, MainTypeStep, HandlerTypeStep, EventTypeStep DEF Next

-----------------------------------------------------------------------------
(* Swapping *)

LEMMA SwappedStart ==
  ASSUME NEW from
  PROVE  Swapped(from, from, Start)
BY DEF Swapped, Start, Signal

LEMMA SwappedDone ==
  ASSUME NEW from \in Rows, NEW to \in Rows, NEW p \in Progress, Done(p), Swapped(from, to, p)
  PROVE  to = Reversed(from)
<1>1. \A s \in Signal : s < p.next
  BY DEF Progress, Done, Signal
<1>2. \A s \in Signal : to.disp[s] = from.row[s] /\ to.row[s] = from.disp[s]
  BY <1>1 DEF Swapped
<1>3. to.disp = from.row /\ to.row = from.disp
  BY <1>2 DEF Rows
<1>4. QED
  BY <1>3 DEF Rows, Reversed

LEMMA ReversedTwice == \A r \in Rows : Reversed(r) \in Rows /\ Reversed(Reversed(r)) = r
BY DEF Reversed, Rows

\* One statement of the swap takes it one step on, and leaves the other row.
LEMMA SwapOneSwaps ==
  ASSUME TypeOK, NEW from \in Rows, NEW idx \in 0 .. 1,
         NEW p \in Progress, NEW q \in Progress, SwapOne(idx, p, q),
         Swapped(from, [disp |-> disp, row |-> info[idx]], p)
  PROVE  /\ Swapped(from, [disp |-> disp', row |-> info'[idx]], q)
         /\ \A i \in 0 .. 1 : i # idx => info'[i] = info[i]
<1>t. /\ disp \in [Signal -> Disposition] /\ info \in [0 .. 1 -> [Signal -> Disposition]]
      /\ p.next \in Signal /\ q.next \in 1 .. NumSignals + 1
      /\ from.disp \in [Signal -> Disposition] /\ from.row \in [Signal -> Disposition]
  BY DEF TypeOK, SwapOne, Done, Progress, Signal, Rows
<1>n. "none" \notin Disposition
  BY DEF Disposition
<1>w. \A s \in Signal :
        /\ s < p.next => disp[s] = from.row[s] /\ info[idx][s] = from.disp[s]
        /\ s = p.next /\ p.old # "none" =>
             p.old = from.disp[s] /\ disp[s] = from.row[s] /\ info[idx][s] = from.row[s]
        /\ s = p.next /\ p.old = "none" => disp[s] = from.disp[s] /\ info[idx][s] = from.row[s]
        /\ s > p.next => disp[s] = from.disp[s] /\ info[idx][s] = from.row[s]
  BY DEF Swapped
<1>1. CASE p.old = "none"
  <2>1. /\ q.next = p.next /\ q.old = disp[p.next] /\ q.old # "none"
        /\ info' = info
        /\ disp'[p.next] = info[idx][p.next]
        /\ \A s \in Signal : s # p.next => disp'[s] = disp[s]
    BY <1>t, <1>n, <1>1 DEF SwapOne, Progress
  <2>2. \A s \in Signal :
          /\ s < q.next => disp'[s] = from.row[s] /\ info'[idx][s] = from.disp[s]
          /\ s = q.next =>
               q.old = from.disp[s] /\ disp'[s] = from.row[s] /\ info'[idx][s] = from.row[s]
          /\ s > q.next => disp'[s] = from.disp[s] /\ info'[idx][s] = from.row[s]
    BY <1>t, <1>w, <1>1, <2>1 DEF Signal
  <2>3. QED
    BY <2>1, <2>2 DEF Swapped
<1>2. CASE p.old # "none"
  <2>1. /\ q.next = p.next + 1 /\ q.old = "none"
        /\ disp' = disp
        /\ info'[idx][p.next] = p.old
        /\ \A s \in Signal : s # p.next => info'[idx][s] = info[idx][s]
        /\ \A i \in 0 .. 1 : i # idx => info'[i] = info[i]
    BY <1>t, <1>2 DEF SwapOne
  <2>2. \A s \in Signal :
          /\ s < q.next => disp'[s] = from.row[s] /\ info'[idx][s] = from.disp[s]
          /\ s = q.next => disp'[s] = from.disp[s] /\ info'[idx][s] = from.row[s]
          /\ s > q.next => disp'[s] = from.disp[s] /\ info'[idx][s] = from.row[s]
    BY <1>t, <1>w, <1>2, <2>1 DEF Signal
  <2>3. QED
    BY <2>1, <2>2 DEF Swapped
<1>3. QED
  BY <1>1, <1>2

-----------------------------------------------------------------------------
(* Invocations of the handler *)

LEMMA CurrentType == TypeOK => Current \in Rows
BY DEF TypeOK, Current, Rows

\* While the running handler goes on, the others and what they saw stay.
LEMMA LowerFrames ==
  ASSUME TypeOK, FramesInv, frames # <<>>, NEW f \in Frame, Goes(f), f.found = Top.found,
         signo => signo'
  PROVE  /\ \A k \in 1 .. Len(frames) - 1 : FrameInv(k)'
         /\ View(0)' = View(0)
         /\ Len(frames') = Len(frames) /\ frames'[Len(frames)] = f
<1>t. frames \in Seq(Frame) /\ Len(frames) \in Nat \ {0}
  BY DEF TypeOK
<1>1. /\ Len(frames') = Len(frames)
      /\ frames'[Len(frames)] = f
      /\ \A k \in 1 .. Len(frames) - 1 : frames'[k] = frames[k]
  BY <1>t DEF Goes
<1>2. \A k \in 1 .. Len(frames) : frames'[k].found = frames[k].found
  BY <1>t, <1>1 DEF Top
<1>3. \A k \in 0 .. Len(frames) - 1 : View(k)' = View(k)
  BY <1>t, <1>1, <1>2 DEF View
<1>4. \A k \in 1 .. Len(frames) - 1 : FrameInv(k)'
  <2> SUFFICES ASSUME NEW k \in 1 .. Len(frames) - 1 PROVE FrameInv(k)'
    OBVIOUS
  <2>1. FrameInv(k) /\ View(k)' = View(k) /\ frames'[k] = frames[k]
    BY <1>t, <1>1, <1>3 DEF FramesInv
  <2>2. QED
    BY <2>1 DEF FrameInv, Swapped
<1>5. View(0)' = View(0)
  BY <1>t, <1>3
<1>6. QED
  BY <1>1, <1>4, <1>5

LEMMA GoesFrames ==
  ASSUME TypeOK, FramesInv, frames # <<>>, NEW f \in Frame, Goes(f), f.found = Top.found,
         signo => signo',
         FrameInv(Len(frames))'
  PROVE  FramesInv' /\ View(0)' = View(0)
<1>1. /\ \A k \in 1 .. Len(frames) - 1 : FrameInv(k)'
      /\ View(0)' = View(0) /\ Len(frames') = Len(frames)
  BY LowerFrames
<1>2. \A k \in 1 .. Len(frames') : k = Len(frames) \/ k \in 1 .. Len(frames) - 1
  BY <1>1 DEF TypeOK
<1>3. QED
  BY <1>1, <1>2 DEF FramesInv

\* The invocations below the running one.
LEMMA FramesBelow ==
  ASSUME frames \in Seq(Frame), frames # <<>>, frames' = SubSeq(frames, 1, Len(frames) - 1)
  PROVE  /\ Len(frames') = Len(frames) - 1
         /\ \A k \in 1 .. Len(frames) - 1 : frames'[k] = frames[k]
<1>1. Len(frames) - 1 \in Int /\ \A i \in 1 .. Len(frames) - 1 : frames[i] \in Frame
  OBVIOUS
<1>2. /\ Len(frames') = IF 1 <= Len(frames) - 1 THEN Len(frames) - 1 - 1 + 1 ELSE 0
      /\ \A k \in 1 .. Len(frames) - 1 - 1 + 1 : frames'[k] = frames[1 + k - 1]
  BY <1>1, SubSeqProperties
<1>3. Len(frames) \in Nat \ {0}
  OBVIOUS
<1>4. Len(frames') = Len(frames) - 1
  <2> DEFINE n == Len(frames)
  <2>1. Len(frames') = IF 1 <= n - 1 THEN n - 1 - 1 + 1 ELSE 0
    BY <1>2
  <2>2. n \in Nat \ {0}
    BY <1>3
  <2> HIDE DEF n
  <2>3. (IF 1 <= n - 1 THEN n - 1 - 1 + 1 ELSE 0) = n - 1
    BY <2>2
  <2>4. Len(frames') = n - 1
    BY <2>1, <2>3
  <2>5. QED
    BY <2>4 DEF n
<1>5. \A k \in 1 .. Len(frames) - 1 : k \in 1 .. Len(frames) - 1 - 1 + 1 /\ 1 + k - 1 = k
  BY <1>3
<1>6. \A k \in 1 .. Len(frames) - 1 : frames'[k] = frames[k]
  BY <1>2, <1>5
<1>7. QED
  BY <1>4, <1>6

LEMMA HandlerFrames ==
  ASSUME TypeOK, TypeOK', FramesInv, HandlerNext
  PROVE  \/ FramesInv' /\ View(0)' = View(0) /\ info'[0] = info[0] /\ at' = at
         \/ at' = "gave_up" /\ frames' = <<>>
<1> DEFINE n == Len(frames)
<1>t. /\ frames # <<>> /\ frames \in Seq(Frame) /\ n \in Nat \ {0} /\ n \in 1 .. n
      /\ Top = frames[n] /\ Top \in Frame /\ Top.swap \in Progress /\ Top.found \in Rows
      /\ View(n) = Current /\ Current \in Rows
      /\ FrameInv(n)
  <2>1. frames # <<>> /\ frames \in Seq(Frame)
    BY DEF TypeOK, HandlerNext, HandlerSwaps, HandlerSwapped, HandleInterrupt, SetSigno
  <2>2. n \in Nat \ {0} /\ n \in 1 .. n /\ Top = frames[n] /\ Top \in Frame
    BY <2>1 DEF Top
  <2>3. Top.swap \in Progress /\ Top.found \in Rows
    BY <2>2 DEF Frame
  <2>4. View(n) = Current /\ Current \in Rows /\ FrameInv(n)
    BY <2>2, CurrentType DEF View, FramesInv
  <2>5. QED
    BY <2>1, <2>2, <2>3, <2>4
<1>f. /\ \A q \in Progress : [Top EXCEPT !.swap = q] \in Frame
      /\ [Top EXCEPT !.phase = "interrupt", !.swap = Start] \in Frame
      /\ [Top EXCEPT !.phase = "flag"] \in Frame
      /\ [Top EXCEPT !.phase = "restore"] \in Frame
  BY <1>t, StartType DEF Frame
<1>g. ASSUME NEW f \in Frame, Goes(f), f.found = Top.found, signo => signo'
      PROVE  Len(frames') = n /\ frames'[n] = f /\ View(n)' = Current'
  BY <1>g, <1>t, LowerFrames DEF View
<1>1. CASE HandlerSwaps
  <2>1. PICK q \in Progress : SwapOne(1, Top.swap, q) /\ Goes([Top EXCEPT !.swap = q])
    BY <1>1 DEF HandlerSwaps
  <2> DEFINE f == [Top EXCEPT !.swap = q]
  <2>2. /\ f \in Frame /\ f.found = Top.found /\ f.phase = Top.phase /\ f.swap = q
        /\ Top.phase \in {"ignore", "restore"} /\ signo' = signo
    BY <1>t, <1>f, <1>1 DEF HandlerSwaps, Frame
  <2>3. Goes(f)
    BY <2>1
  <2> HIDE DEF f
  <2>4. Len(frames') = n /\ frames'[n] = f /\ View(n)' = Current'
    BY <1>g, <2>2, <2>3
  <2>5. ASSUME NEW from \in Rows, Swapped(from, Current, Top.swap)
        PROVE  Swapped(from, Current', q)
    BY <1>t, <2>1, <2>5, SwapOneSwaps DEF Current
  <2>6. info'[0] = info[0]
    <3>1. info' = info \/ info' = [info EXCEPT ![1][Top.swap.next] = Top.swap.old]
      BY <2>1 DEF SwapOne
    <3>2. QED
      BY <3>1 DEF TypeOK
  <2>7. FrameInv(n)'
    <3>1. CASE Top.phase = "ignore"
      BY <1>t, <2>2, <2>4, <2>5, <3>1 DEF FrameInv
    <3>2. CASE Top.phase = "restore"
      BY <1>t, <2>2, <2>4, <2>5, <3>2, ReversedTwice DEF FrameInv
    <3>3. QED
      BY <2>2, <3>1, <3>2
  <2>8. QED
    BY <1>1, <1>t, <2>2, <2>3, <2>6, <2>7, GoesFrames DEF HandlerSwaps
<1>2. CASE HandlerSwapped /\ Top.phase = "ignore"
  <2> DEFINE f == [Top EXCEPT !.phase = "interrupt", !.swap = Start]
  <2>1. f \in Frame /\ f.found = Top.found /\ f.phase = "interrupt" /\ f.swap = Start
    BY <1>t, <1>f DEF Frame
  <2>2. Goes(f) /\ UNCHANGED <<at, signo, disp, info>> /\ Done(Top.swap)
    BY <1>2 DEF HandlerSwapped, signalVars
  <2> HIDE DEF f
  <2>3. Len(frames') = n /\ frames'[n] = f /\ View(n)' = Current'
    BY <1>g, <2>1, <2>2
  <2>4. Current' = Current
    BY <2>2 DEF Current
  <2>5. Current = Reversed(Top.found)
    BY <1>t, <1>2, <2>2, SwappedDone DEF FrameInv
  <2>6. FrameInv(n)'
    BY <2>1, <2>3, <2>4, <2>5 DEF FrameInv
  <2>7. QED
    BY <1>t, <2>1, <2>2, <2>6, GoesFrames
<1>3. CASE HandlerSwapped /\ Top.phase # "ignore"
  <2>1. /\ Top.phase = "restore" /\ frames' = SubSeq(frames, 1, n - 1)
        /\ UNCHANGED <<at, signo, disp, info>> /\ Done(Top.swap)
    BY <1>3 DEF HandlerSwapped, signalVars
  <2>2. /\ Len(frames') = n - 1
        /\ \A k \in 1 .. n - 1 : frames'[k] = frames[k]
    BY <1>t, <2>1, FramesBelow
  <2>3. Current' = Top.found
    <3>1. Current = Reversed(Reversed(Top.found))
      BY <1>t, <2>1, SwappedDone, ReversedTwice DEF FrameInv
    <3>2. QED
      BY <1>t, <2>1, <3>1, ReversedTwice DEF Current
  <2>4. \A k \in 0 .. n - 1 : View(k)' = View(k)
    <3> SUFFICES ASSUME NEW k \in 0 .. n - 1 PROVE View(k)' = View(k)
      OBVIOUS
    <3>1. CASE k = n - 1
      BY <1>t, <2>2, <2>3, <3>1 DEF View
    <3>2. CASE k # n - 1
      BY <1>t, <2>2, <3>2 DEF View
    <3>3. QED
      BY <3>1, <3>2
  <2>5. FramesInv'
    <3> SUFFICES ASSUME NEW k \in 1 .. n - 1 PROVE FrameInv(k)'
      BY <2>2 DEF FramesInv
    <3>1. FrameInv(k) /\ View(k)' = View(k) /\ frames'[k] = frames[k]
      BY <1>t, <2>2, <2>4 DEF FramesInv
    <3>2. QED
      BY SMTT(30), <2>1, <3>1 DEF FrameInv, Swapped
  <2>6. QED
    BY <1>t, <2>1, <2>4, <2>5
<1>4. CASE HandleInterrupt /\ Goes([Top EXCEPT !.phase = "flag"]) /\ at' = at
  <2> DEFINE f == [Top EXCEPT !.phase = "flag"]
  <2>1. f \in Frame /\ f.found = Top.found /\ f.phase = "flag" /\ f.swap = Top.swap
    BY <1>t, <1>f DEF Frame
  <2>2. Goes(f) /\ UNCHANGED <<at, signo, disp, info>> /\ Top.phase = "interrupt"
    BY <1>4 DEF HandleInterrupt, signalVars
  <2> HIDE DEF f
  <2>3. Len(frames') = n /\ frames'[n] = f /\ View(n)' = Current' /\ Current' = Current
    BY <1>g, <2>1, <2>2 DEF Current
  <2>4. FrameInv(n)'
    BY <1>t, <2>1, <2>2, <2>3 DEF FrameInv
  <2>5. QED
    BY <1>t, <2>1, <2>2, <2>4, GoesFrames
<1>5. CASE HandleInterrupt /\ GivesUp
  BY <1>5 DEF GivesUp, Ends
<1>6. CASE SetSigno
  <2> DEFINE f == [Top EXCEPT !.phase = "restore"]
  <2>1. f \in Frame /\ f.found = Top.found /\ f.phase = "restore" /\ f.swap = Top.swap
    BY <1>t, <1>f DEF Frame
  <2>2. Goes(f) /\ UNCHANGED <<at, disp, info>> /\ signo' /\ Top.phase = "flag"
    BY <1>6 DEF SetSigno, signalVars
  <2> HIDE DEF f
  <2>3. Len(frames') = n /\ frames'[n] = f /\ View(n)' = Current' /\ Current' = Current
    BY <1>g, <2>1, <2>2 DEF Current
  <2>4. Swapped(Reversed(Top.found), Current, Start) /\ Top.swap = Start
    BY <1>t, <2>2, SwappedStart DEF FrameInv
  <2>5. FrameInv(n)'
    BY <2>1, <2>2, <2>3, <2>4 DEF FrameInv
  <2>6. QED
    BY <1>t, <2>1, <2>2, <2>5, GoesFrames
<1>7. QED
  BY <1>1, <1>2, <1>3, <1>4, <1>5, <1>6 DEF HandlerNext, HandleInterrupt

\* A signal puts an invocation on top; what is below saw what that one finds.
LEMMA DeliverFrames ==
  ASSUME TypeOK, FramesInv, NEW s \in Signal, Deliver(s)
  PROVE  \/ FramesInv' /\ View(0)' = View(0) /\ at' = at
         \/ at' = "killed" /\ frames' = <<>>
<1>n. PICK n \in Nat : n = Len(frames)
  BY DEF TypeOK
<1>1. CASE frames' = Append(frames, Enter(s)) /\ at' = at
  <2>t. frames \in Seq(Frame) /\ n = Len(frames) /\ Current' = Current /\ signo' = signo
    BY <1>n DEF TypeOK, Deliver, signalVars, Current
  <2>1. /\ Len(frames') = n + 1 /\ frames'[n + 1] = Enter(s)
        /\ \A k \in 1 .. n : frames'[k] = frames[k]
    BY <1>1, <2>t
  <2>2. /\ Enter(s).found = Current /\ Enter(s).phase = "ignore" /\ Enter(s).swap = Start
    BY DEF Enter
  <2>3. \A k \in 0 .. n : View(k)' = View(k)
    <3> SUFFICES ASSUME NEW k \in 0 .. n PROVE View(k)' = View(k)
      OBVIOUS
    <3>1. CASE k = n
      BY <2>t, <2>1, <2>2, <3>1 DEF View
    <3>2. CASE k # n
      BY <2>t, <2>1, <3>2 DEF View
    <3>3. QED
      BY <3>1, <3>2
  <2>4. \A k \in 1 .. n : FrameInv(k)'
    <3> SUFFICES ASSUME NEW k \in 1 .. n PROVE FrameInv(k)'
      OBVIOUS
    <3>1. FrameInv(k) /\ View(k)' = View(k) /\ frames'[k] = frames[k]
      BY <2>t, <2>1, <2>3 DEF FramesInv
    <3>2. QED
      BY SMTT(30), <2>t, <3>1 DEF FrameInv, Swapped
  <2>5. FrameInv(n + 1)'
    <3>1. View(n + 1)' = Current
      BY <2>t, <2>1 DEF View
    <3>2. Swapped(Enter(s).found, Current, Enter(s).swap)
      BY <2>2, SwappedStart
    <3>3. QED
      BY <2>1, <2>2, <3>1, <3>2 DEF FrameInv
  <2>6. \A k \in 1 .. n + 1 : k \in 1 .. n \/ k = n + 1
    BY <2>t
  <2>7. FramesInv'
    BY <2>1, <2>4, <2>5, <2>6 DEF FramesInv
  <2>8. View(0)' = View(0)
    BY <2>t, <2>3
  <2>9. QED
    BY <1>1, <2>7, <2>8
<1>2. CASE at' = "killed" /\ frames' = <<>>
  BY <1>2
<1>3. QED
  BY <1>1, <1>2 DEF Deliver, Ends

-----------------------------------------------------------------------------
(* The main program *)

LEMMA BeforeType ==
  ASSUME TypeOK
  PROVE  Before \in Rows /\ Reversed(Before) \in Rows
<1>1. Before \in Rows
  BY DEF TypeOK, Before, Rows, Disposition
<1>2. QED
  BY <1>1, ReversedTwice

\* A step that leaves the main program where it is and what it sees alone.
LEMMA MainInvStays ==
  ASSUME MainInv, View(0)' = View(0), info'[0] = info[0], UNCHANGED <<at, swap, original>>,
         at \notin Ended
  PROVE  MainInv'
BY DEF MainInv, MainView, Swapped, Before

\* The process ended elsewhere than at the end of the main program.
LEMMA MainInvEnds ==
  ASSUME at' \in Ended \ {"returned"}, frames' = <<>>
  PROVE  MainInv' /\ FramesInv'
<1>1. at' \in Ended /\ at' \notin Handling /\ at' \notin {"stage", "logoff", "cleanup", "returned", "swap_in", "swap_out"}
  BY DEF Ended, Handling
<1>2. Len(frames') = 0
  OBVIOUS
<1>3. QED
  BY <1>1, <1>2 DEF MainInv, FramesInv

\* No handler runs in a step of the main program.
LEMMA NoFramesView ==
  ASSUME frames = <<>>
  PROVE  FramesInv /\ View(0) = Current
BY DEF FramesInv, View

LEMMA MainSwapsInv ==
  ASSUME TypeOK, MainInv, MainSwaps
  PROVE  FramesInv' /\ MainInv'
<1>0. /\ frames = <<>> /\ frames' = <<>> /\ View(0) = Current /\ View(0)' = Current'
      /\ FramesInv'
      /\ UNCHANGED <<at, original>> /\ at \in {"swap_in", "swap_out"}
  BY DEF MainSwaps, MainOnly, platform, FramesInv, View
<1>1. PICK q \in Progress : SwapOne(0, swap, q) /\ swap' = q
  BY DEF MainSwaps
<1>2. MainView = [disp |-> disp, row |-> info[0]] /\ MainView' = [disp |-> disp', row |-> info'[0]]
  BY <1>0 DEF MainView, Current
<1>3. Before' = Before
  BY <1>0 DEF Before
<1>4. ASSUME NEW from \in Rows, Swapped(from, MainView, swap)
      PROVE  Swapped(from, MainView', swap') /\ info'[1] = info[1]
  BY <1>1, <1>2, <1>4, SwapOneSwaps DEF TypeOK
<1>5. CASE at = "swap_in"
  <2>1. Swapped(Before, MainView, swap)
    BY <1>5 DEF MainInv
  <2>2. Swapped(Before, MainView', swap') /\ info'[1] = info[1]
    BY <1>4, <2>1, BeforeType
  <2>3. QED
    BY <1>0, <1>3, <1>5, <2>2 DEF MainInv, Current, Handling, Ended, Swapped
<1>6. CASE at = "swap_out"
  <2>1. Swapped(Reversed(Before), MainView, swap)
    BY <1>6 DEF MainInv
  <2>2. Swapped(Reversed(Before), MainView', swap') /\ info'[1] = info[1]
    BY <1>4, <2>1, BeforeType
  <2>3. QED
    BY <1>0, <1>3, <1>6, <2>2 DEF MainInv, Current, Handling, Ended, Swapped
<1>7. QED
  BY <1>0, <1>5, <1>6

LEMMA MainSwappedInv ==
  ASSUME TypeOK, MainInv, MainSwapped
  PROVE  FramesInv' /\ MainInv'
<1>0. /\ frames = <<>> /\ frames' = <<>> /\ FramesInv'
      /\ View(0) = Current /\ View(0)' = Current' /\ Current' = Current
      /\ UNCHANGED <<original, disp, info>> /\ swap' = Start /\ Done(swap)
  BY DEF MainSwapped, MainOnly, platform, FramesInv, View, Current
<1>1. MainView' = MainView /\ MainView \in Rows /\ Before' = Before
  BY <1>0, CurrentType DEF MainView, Current, TypeOK, Rows, Before
<1>2. CASE at = "swap_in" /\ at' = "register"
  <2>1. MainView = Reversed(Before)
    BY <1>0, <1>1, <1>2, SwappedDone, BeforeType DEF MainInv, TypeOK
  <2>2. Reversed(Before)' = Reversed(Before) /\ View(0)' = View(0)
    BY <1>0, <1>1 DEF Reversed
  <2>3. QED
    BY <1>0, <1>1, <1>2, <2>1, <2>2 DEF MainInv, Handling, Ended
<1>3. CASE at = "swap_out" /\ at' = "logoff"
  <2>1. MainView = Reversed(Reversed(Before))
    BY <1>0, <1>1, <1>3, SwappedDone, BeforeType DEF MainInv, TypeOK
  <2>2. MainView = Before /\ View(0)' = View(0)
    BY <1>0, <2>1, BeforeType, ReversedTwice
  <2>3. QED
    BY <1>0, <1>1, <1>3, <2>2 DEF MainInv, Handling, Ended
<1>4. QED
  BY <1>2, <1>3 DEF MainSwapped

\* The other steps of the main program leave the signals alone.
LEMMA MainMoves ==
  ASSUME MainInv, frames = <<>>, frames' = <<>>, UNCHANGED <<signalVars, original>>,
         \/ /\ at \in {"stage", "logoff", "cleanup"}
            /\ at' \in {"stage", "cleanup", "returned", "swap_in"}
         \/ at \in Handling /\ at' \in Handling \cup {"swap_out"}
         \/ at' = "aborted"
  PROVE  FramesInv' /\ MainInv'
<1>0. /\ FramesInv' /\ View(0)' = View(0) /\ MainView' = MainView
      /\ Before' = Before /\ Reversed(Before)' = Reversed(Before)
      /\ swap' = swap
  BY DEF FramesInv, View, Current, MainView, Before, Reversed, signalVars
<1>1. CASE at' = "aborted"
  BY <1>1, MainInvEnds DEF Ended
<1>2. CASE at \in {"stage", "logoff", "cleanup"} /\ at' \in {"stage", "cleanup", "returned"}
  BY <1>0, <1>2 DEF MainInv, Handling, Ended
<1>3. CASE at \in {"stage", "logoff", "cleanup"} /\ at' = "swap_in"
  <2>1. MainView = Before /\ swap = Start /\ View(0).row = [s \in Signal |-> "IGN"]
    BY <1>3 DEF MainInv, Ended
  <2>2. Swapped(Before, MainView, swap)'
    BY <1>0, <2>1, SwappedStart DEF Swapped
  <2>3. QED
    BY <1>0, <1>3, <2>1, <2>2 DEF MainInv, Handling, Ended
<1>4. CASE at \in Handling /\ at' \in Handling
  BY <1>0, <1>4 DEF MainInv, Handling, Ended
<1>5. CASE at \in Handling /\ at' = "swap_out"
  <2>1. MainView = Reversed(Before) /\ swap = Start /\ View(0).row = [s \in Signal |-> "IGN"]
    BY <1>5 DEF MainInv, Handling, Ended
  <2>2. Swapped(Reversed(Before), MainView, swap)'
    BY <1>0, <2>1, SwappedStart DEF Swapped
  <2>3. QED
    BY <1>0, <1>5, <2>1, <2>2 DEF MainInv, Handling, Ended
<1>6. QED
  BY <1>1, <1>2, <1>3, <1>4, <1>5

LEMMA MainDispositions ==
  ASSUME TypeOK, MainInv, MainNext
  PROVE  FramesInv' /\ MainInv'
<1>1. CASE MainSwaps
  BY <1>1, MainSwapsInv
<1>2. CASE MainSwapped
  BY <1>2, MainSwappedInv
<1>3. CASE Stage \/ Connect \/ Register \/ Guard
  <2>1. frames = <<>> /\ frames' = <<>> /\ UNCHANGED <<signalVars, original>>
    BY <1>3 DEF Stage, Connect, Register, Guard, Main, MainOnly, platform
  <2>2. \/ at = "stage" /\ at' \in {"stage", "cleanup", "swap_in"}
        \/ at \in Handling /\ at' \in Handling \cup {"swap_out"}
        \/ at' = "aborted"
    BY <1>3 DEF Stage, Connect, Register, Guard, Main, Disconnects, Handling
  <2>3. QED
    BY <2>1, <2>2, MainMoves
<1>4. CASE RecvRequest \/ RecvInterrupt \/ RecvFails \/ Serve \/ SendInterrupt
  <2>1. frames = <<>> /\ frames' = <<>> /\ UNCHANGED <<signalVars, original>>
    BY <1>4
       DEF RecvRequest, RecvInterrupt, RecvFails, Serve, SendInterrupt, Main, MainOnly, platform
  <2>2. \/ at \in Handling /\ at' \in Handling \cup {"swap_out"}
        \/ at' = "aborted"
    BY <1>4
       DEF RecvRequest, RecvInterrupt, RecvFails, Serve, SendInterrupt, Main, Disconnects, Handling
  <2>3. QED
    BY <2>1, <2>2, MainMoves
<1>5. CASE Logoff \/ Cleanup
  <2>1. frames = <<>> /\ frames' = <<>> /\ UNCHANGED <<signalVars, original>>
    BY <1>5 DEF Logoff, Cleanup, Main, MainOnly, platform
  <2>2. at \in {"logoff", "cleanup"} /\ at' \in {"cleanup", "returned"}
    BY <1>5 DEF Logoff, Cleanup, Main
  <2>3. QED
    BY <2>1, <2>2, MainMoves
<1>6. QED
  BY <1>1, <1>2, <1>3, <1>4, <1>5 DEF MainNext

\* Dispositions, whoever moves.
LEMMA DispositionsStep ==
  ASSUME TypeOK, TypeOK', FramesInv, MainInv, [Next]_vars
  PROVE  FramesInv' /\ MainInv'
<1>1. CASE MainNext
  BY <1>1, MainDispositions
<1>2. CASE HandlerNext
  <2>1. UNCHANGED <<swap, original>> /\ frames # <<>>
    BY <1>2
       DEF HandlerNext, HandlerSwaps, HandlerSwapped, HandleInterrupt, SetSigno, platform,
           signalVars
  <2>2. at \notin Ended
    BY <2>1 DEF MainInv
  <2>3. CASE FramesInv' /\ View(0)' = View(0) /\ info'[0] = info[0] /\ at' = at
    BY <2>1, <2>2, <2>3, MainInvStays
  <2>4. CASE at' = "gave_up" /\ frames' = <<>>
    BY <2>4, MainInvEnds DEF Ended
  <2>5. QED
    BY <1>2, <2>3, <2>4, HandlerFrames
<1>3. ASSUME NEW s \in Signal, Deliver(s) PROVE FramesInv' /\ MainInv'
  <2>1. UNCHANGED <<swap, original, info>> /\ at \notin Ended
    BY <1>3 DEF Deliver, platform, signalVars
  <2>2. CASE FramesInv' /\ View(0)' = View(0) /\ at' = at
    BY <2>1, <2>2, MainInvStays
  <2>3. CASE at' = "killed" /\ frames' = <<>>
    BY <2>3, MainInvEnds DEF Ended
  <2>4. QED
    BY <1>3, <2>2, <2>3, DeliverFrames
<1>4. CASE Kill
  BY <1>4, MainInvEnds DEF Kill, Ends, Ended
<1>5. CASE HelperSends \/ OtherReceives \/ UserInterrupt \/ UNCHANGED vars
  <2>1. CASE UNCHANGED <<at, frames, signo, signalVars, original>>
    <3>1. FramesInv'
      <4>1. Current' = Current
        BY <2>1 DEF Current, signalVars
      <4>2. \A k \in 1 .. Len(frames) : View(k)' = View(k)
        BY <2>1, <4>1 DEF View
      <4>3. QED
        BY <2>1, <4>2 DEF FramesInv, FrameInv, Swapped
    <3>2. MainInv'
      BY <2>1 DEF MainInv, MainView, View, Current, Swapped, Before, signalVars
    <3>3. QED
      BY <3>1, <3>2
  <2>2. CASE at' = "gave_up" /\ frames' = <<>>
    BY <2>2, MainInvEnds DEF Ended
  <2>3. QED
    BY <1>5, <2>1, <2>2 DEF HelperSends, OtherReceives, UserInterrupt, GivesUp, Ends, vars, platform
<1>6. QED
  BY <1>1, <1>2, <1>3, <1>4, <1>5 DEF Next

-----------------------------------------------------------------------------
(* Caught signals and the decision about commit *)

\* Where the work is committed, or was, no handler is installed.
LEMMA NotHandling ==
  ASSUME TypeOK, MainInv, at \in {"logoff", "cleanup"}, frames = <<>>, NEW s \in Signal
  PROVE  disp[s] # "HANDLER"
<1>1. disp = original
  BY DEF MainInv, MainView, Before, View, Current
<1>2. QED
  BY <1>1 DEF TypeOK

LEMMA CaughtStep ==
  ASSUME TypeOK, FramesInv, MainInv, CaughtInv, [Next]_vars
  PROVE  CaughtInv'
<1> USE DEF CaughtInv
<1>1. CASE MainNext
  <2>1. frames = <<>> /\ frames' = <<>> /\ UNCHANGED <<caught, signo>> /\ at \notin Ended
    BY <1>1
       DEF MainNext, Stage, Connect, MainSwaps, MainSwapped, Register, Guard, RecvRequest,
           RecvInterrupt, RecvFails, Serve, SendInterrupt, Logoff, Cleanup, Main, MainOnly,
           history, Ended
  <2>2. session' = "committed" =>
          \/ session = "committed" /\ at = "cleanup" /\ at' \in Ended
          \/ ~signo /\ at' = "cleanup"
    BY <1>1
       DEF MainNext, Stage, Connect, MainSwaps, MainSwapped, Register, Guard, RecvRequest,
           RecvInterrupt, RecvFails, Serve, SendInterrupt, Logoff, Cleanup, Main, Ended
  <2>3. QED
    BY <2>1, <2>2
<1>2. CASE HandlerNext
  <2>1. frames # <<>> /\ caught /\ caught' = caught /\ (signo => signo')
    BY <1>2 DEF HandlerNext, HandlerSwaps, HandlerSwapped, HandleInterrupt, SetSigno, history
  <2>2. session' # "committed"
    BY <1>2, <2>1
       DEF HandlerNext, HandlerSwaps, HandlerSwapped, HandleInterrupt, GivesUp, Ends, SetSigno
  <2>3. CASE HandlerSwapped /\ Top.phase = "restore"
    <3>1. Len(frames) \in 1 .. Len(frames) /\ Top = frames[Len(frames)]
      BY <2>1 DEF TypeOK, Top
    <3>2. signo
      BY <2>3, <3>1 DEF FramesInv, FrameInv
    <3>3. QED
      BY <2>1, <2>2, <3>2
  <2>4. CASE ~(HandlerSwapped /\ Top.phase = "restore")
    <3>1. at' \in Ended \/ \E f : Goes(f)
      BY <1>2, <2>4
         DEF HandlerNext, HandlerSwaps, HandlerSwapped, HandleInterrupt, GivesUp, Ends, Ended,
             SetSigno
    <3>2. (\E f : Goes(f)) => frames' # <<>>
      BY <2>1 DEF Goes, TypeOK
    <3>3. QED
      BY <2>1, <2>2, <3>1, <3>2
  <2>5. QED
    BY <2>3, <2>4
<1>3. ASSUME NEW s \in Signal, Deliver(s) PROVE CaughtInv'
  <2>1. signo' = signo /\ at \notin Ended
    BY <1>3 DEF Deliver
  <2>2. CASE disp[s] = "HANDLER" /\ frames' = Append(frames, Enter(s)) /\ caught' /\ UNCHANGED session
    <3>1. frames' # <<>>
      BY <2>2 DEF TypeOK
    <3>2. session # "committed"
      BY <2>1, <2>2, NotHandling
    <3>3. QED
      BY <2>2, <3>1, <3>2
  <2>3. CASE Ends("killed") /\ UNCHANGED caught
    BY <2>1, <2>3 DEF Ends, Ended
  <2>4. QED
    BY <1>3, <2>2, <2>3 DEF Deliver
<1>4. CASE Kill \/ UserInterrupt
  <2>1. UNCHANGED <<caught, signo>> /\ at \notin Ended
    BY <1>4 DEF Kill, UserInterrupt, Ended
  <2>2. \/ UNCHANGED <<at, session, frames>>
        \/ /\ at' \in Ended /\ frames' = <<>>
           /\ session' = "committed" => session = "committed"
    BY <1>4 DEF Kill, UserInterrupt, GivesUp, Ends, Ended
  <2>3. QED
    BY <2>1, <2>2
<1>5. CASE HelperSends \/ OtherReceives \/ UNCHANGED vars
  BY <1>5 DEF HelperSends, OtherReceives, vars, history
<1>6. QED
  BY <1>1, <1>2, <1>3, <1>4, <1>5 DEF Next

-----------------------------------------------------------------------------
(* Theorems *)

ListenerInv == TypeOK /\ DispositionsInv

LEMMA InitListenerInv == Init => ListenerInv
<1> SUFFICES ASSUME Init PROVE ListenerInv
  OBVIOUS
<1>1. FramesInv /\ View(0) = Current
  BY NoFramesView DEF Init
<1>2. MainInv
  BY <1>1 DEF Init, MainInv, MainView, Current, Before, Handling, Ended
<1>3. CaughtInv
  BY DEF Init, CaughtInv
<1>4. QED
  BY <1>1, <1>2, <1>3, InitTypeOK DEF ListenerInv, DispositionsInv

LEMMA NextListenerInv == ListenerInv /\ [Next]_vars => ListenerInv'
BY NextTypeOK, DispositionsStep, CaughtStep DEF ListenerInv, DispositionsInv

\* Every variable of a listener's run keeps its type.
THEOREM ListenerTypes == Spec => []TypeOK
BY InitTypeOK, NextTypeOK, PTL DEF Spec

\* Signal handlers that interrupt each other, and the swaps that install and
\* remove them, at any point, leave every disposition as the program expects
\* it once they are done; for any number of signals.
THEOREM DispositionsComeBack == Spec => []DispositionsRestored
<1>1. ASSUME ListenerInv PROVE DispositionsRestored
  <2> SUFFICES ASSUME frames = <<>>,
                      at \in Handling \cup {"stage", "logoff", "cleanup", "returned"}
               PROVE  LET handler == [s \in Signal |-> "HANDLER"] IN
                      /\ disp    = IF at \in Handling THEN handler ELSE original
                      /\ info[0] = IF at \in Handling THEN original ELSE handler
                      /\ info[1] = [s \in Signal |-> "IGN"]
    BY DEF DispositionsRestored
  <2>1. View(0) = Current /\ MainInv
    BY <1>1 DEF View, ListenerInv, DispositionsInv
  <2>2. info[1] = [s \in Signal |-> "IGN"]
    BY <2>1 DEF MainInv, Current, Handling, Ended
  <2>3. CASE at \in Handling
    BY <2>1, <2>2, <2>3 DEF MainInv, MainView, Current, Before, Reversed
  <2>4. CASE at \notin Handling
    BY <2>1, <2>2, <2>4 DEF MainInv, MainView, Current, Before
  <2>5. QED
    BY <2>3, <2>4
<1>2. QED
  BY <1>1, InitListenerInv, NextListenerInv, PTL DEF Spec

\* A process that handled a signal does not commit, wherever the signal came:
\* epc__disconnect takes the handlers away before it looks at G_signo.
THEOREM SignalledRollsBack == Spec => []SignalledWorkIsRolledBack
<1>1. ListenerInv => SignalledWorkIsRolledBack
  BY DEF ListenerInv, DispositionsInv, CaughtInv, SignalledWorkIsRolledBack
<1>2. QED
  BY <1>1, InitListenerInv, NextListenerInv, PTL DEF Spec

-----------------------------------------------------------------------------
(* What the program returns, and what wakes it up *)

\* A session is open inside, and at the end only when something failed.
SessionInv ==
  /\ at = "stage" => session = "none"
  /\ at \in {"cleanup", "returned"} =>
       session # "open" /\ (ret = "OK" => session \in {"committed", "rolled_back"})

LEMMA SessionStep ==
  ASSUME SessionInv, [Next]_vars
  PROVE  SessionInv'
<1>1. CASE MainNext
  BY <1>1
     DEF MainNext, Stage, Connect, MainSwaps, MainSwapped, Register, Guard, RecvRequest,
         RecvInterrupt, RecvFails, Serve, SendInterrupt, Logoff, Cleanup, Main, Disconnects,
         SessionInv
<1>2. CASE \/ HandlerNext \/ HelperSends \/ OtherReceives \/ UserInterrupt \/ Kill
           \/ \E s \in Signal : Deliver(s)
  <2>1. UNCHANGED <<at, session, ret>> \/ at' \in {"gave_up", "killed"}
    BY <1>2
       DEF HandlerNext, HandlerSwaps, HandlerSwapped, HandleInterrupt, SetSigno, HelperSends,
           OtherReceives, UserInterrupt, Kill, Deliver, GivesUp, Ends
  <2>2. QED BY <2>1 DEF SessionInv
<1>3. CASE UNCHANGED vars
  BY <1>3 DEF vars, SessionInv
<1>4. QED BY <1>1, <1>2, <1>3 DEF Next

\* Until it disconnects, a process that has set G_signo, or is about to, has a
\* helper or an INTERRUPT to show for it, if helpers do not fail; or another
\* listener on the pipe has received one.
Waking == taken \/ helpers + interrupts > 0
Signalled == signo \/ \E k \in 1 .. Len(frames) : frames[k].phase = "flag"
Leaving == {"swap_out", "logoff", "cleanup"} \cup Ended
WakingInv == ~helperMayFail /\ at \notin Leaving /\ Signalled => Waking

\* What wakes the process up is not taken away while nothing new is signalled.
LEMMA WakingStays ==
  ASSUME TypeOK, WakingInv, Signalled' => Signalled, at' \notin Leaving => at \notin Leaving,
         helperMayFail' = helperMayFail, taken' = taken,
         at' \notin Leaving /\ ~helperMayFail =>
           /\ helpers' \in Nat /\ interrupts' \in Nat
           /\ helpers' + interrupts' >= helpers + interrupts
  PROVE  WakingInv'
BY DEF TypeOK, WakingInv, Waking

\* A frame that goes on to another phase than "flag" signals nothing.
LEMMA UnsignalledFrame ==
  ASSUME TypeOK, frames # <<>>, NEW f \in Frame, Goes(f), f.phase = "flag" => Top.phase = "flag",
         NEW k \in 1 .. Len(frames'), frames'[k].phase = "flag"
  PROVE  k \in 1 .. Len(frames) /\ frames[k].phase = "flag"
BY DEF TypeOK, Goes, Top

LEMMA HandlerWaking ==
  ASSUME TypeOK, WakingInv, HandlerNext
  PROVE  WakingInv'
<1>t. frames \in Seq(Frame) /\ frames # <<>> /\ Top \in Frame /\ Len(frames) \in 1 .. Len(frames)
  BY TopType DEF TypeOK, HandlerNext, HandlerSwaps, HandlerSwapped, HandleInterrupt, SetSigno
<1>1. CASE HandlerSwaps
  <2>1. PICK q \in Progress : Goes([Top EXCEPT !.swap = q])
    BY <1>1 DEF HandlerSwaps
  <2>2. [Top EXCEPT !.swap = q] \in Frame /\ [Top EXCEPT !.swap = q].phase = Top.phase
    BY <1>t, <2>1 DEF Frame
  <2>3. Signalled' => Signalled
    BY <1>1, <1>t, <2>1, <2>2, UnsignalledFrame DEF Signalled, HandlerSwaps
  <2>4. QED
    BY <1>1, <2>3, WakingStays DEF HandlerSwaps, platform, pipeVars, TypeOK
<1>2. CASE HandlerSwapped
  <2>1. CASE Goes([Top EXCEPT !.phase = "interrupt", !.swap = Start])
    <3>1. /\ [Top EXCEPT !.phase = "interrupt", !.swap = Start] \in Frame
          /\ [Top EXCEPT !.phase = "interrupt", !.swap = Start].phase # "flag"
      BY <1>t, StartType DEF Frame
    <3>2. Signalled' => Signalled
      BY <1>2, <1>t, <2>1, <3>1, UnsignalledFrame DEF Signalled, HandlerSwapped
    <3>3. QED
      BY <1>2, <3>2, WakingStays DEF HandlerSwapped, platform, pipeVars, TypeOK
  <2>2. CASE frames' = SubSeq(frames, 1, Len(frames) - 1)
    <3>1. Signalled' => Signalled
      BY <1>2, <1>t, <2>2 DEF Signalled, HandlerSwapped
    <3>2. QED
      BY <1>2, <3>1, WakingStays DEF HandlerSwapped, platform, pipeVars, TypeOK
  <2>3. QED
    BY <1>2, <2>1, <2>2 DEF HandlerSwapped
<1>3. CASE HandleInterrupt
  <2>1. CASE at' = "gave_up"
    BY <2>1 DEF WakingInv, Leaving, Ended
  <2>2. CASE helpers' = helpers + 1 /\ interrupts' = interrupts
    BY <1>3, <2>2 DEF HandleInterrupt, platform, WakingInv, Waking, TypeOK
  <2>3. QED
    BY <1>3, <2>1, <2>2 DEF HandleInterrupt, HelperStarted, StartHelper, GivesUp, Ends
<1>4. CASE SetSigno
  <2>1. Signalled
    BY <1>4, <1>t DEF SetSigno, Signalled, Top
  <2>2. QED
    BY <1>4, <2>1, WakingStays DEF SetSigno, platform, pipeVars, TypeOK
<1>5. QED
  BY <1>1, <1>2, <1>3, <1>4 DEF HandlerNext

LEMMA EventWaking ==
  ASSUME TypeOK, WakingInv,
         HelperSends \/ OtherReceives \/ UserInterrupt \/ Kill \/ \E s \in Signal : Deliver(s)
  PROVE  WakingInv'
<1>1. CASE HelperSends
  BY <1>1, WakingStays DEF HelperSends, platform, Signalled, TypeOK
<1>0. CASE OtherReceives
  BY <1>0 DEF OtherReceives, WakingInv, Waking
<1>2. CASE at' \in {"gave_up", "killed"}
  BY <1>2 DEF WakingInv, Leaving, Ended
<1>3. CASE UserInterrupt /\ at' \notin {"gave_up", "killed"}
  BY <1>3, WakingStays
     DEF UserInterrupt, platform, HelperStarted, StartHelper, GivesUp, Ends, Signalled, TypeOK
<1>4. CASE Kill
  BY <1>2, <1>4 DEF Kill, Ends
<1>5. ASSUME NEW s \in Signal, Deliver(s), at' \notin {"gave_up", "killed"}
      PROVE  WakingInv'
  <2>1. frames' = Append(frames, Enter(s)) /\ Enter(s).phase # "flag"
    BY <1>5 DEF Deliver, Ends, Enter
  <2>2. Signalled' => Signalled
    BY <1>5, <2>1 DEF Signalled, TypeOK, Deliver
  <2>3. QED
    BY <1>5, <2>1, <2>2, WakingStays DEF Deliver, Ends, platform, pipeVars, TypeOK
<1>6. QED
  BY <1>0, <1>1, <1>2, <1>3, <1>4, <1>5

LEMMA MainWaking ==
  ASSUME TypeOK, SessionInv, WakingInv, MainNext
  PROVE  WakingInv'
<1>1. UNCHANGED <<frames, signo, helperMayFail>>
  BY DEF MainNext, Stage, Connect, MainSwaps, MainSwapped, Register, Guard, RecvRequest,
         RecvInterrupt, RecvFails, Serve, SendInterrupt, Logoff, Cleanup, MainOnly, platform
<1>2. at' \notin Leaving => at \notin Leaving
  BY DEF MainNext, Stage, Connect, MainSwaps, MainSwapped, Register, Guard, RecvRequest,
         RecvInterrupt, RecvFails, Serve, SendInterrupt, Logoff, Cleanup, Main, Disconnects,
         Leaving, Ended
<1>3. taken' = taken /\ (UNCHANGED <<helpers, interrupts>> \/ at' \in Leaving)
  BY DEF MainNext, Stage, Connect, MainSwaps, MainSwapped, Register, Guard, RecvRequest,
         RecvInterrupt, RecvFails, Serve, SendInterrupt, Logoff, Cleanup, MainOnly, pipeVars,
         Disconnects, Leaving, Ended
<1>4. QED
  BY <1>1, <1>2, <1>3, WakingStays DEF Signalled, TypeOK

ReturnInv == TypeOK /\ SessionInv /\ WakingInv

LEMMA ReturnInvHolds == Spec => []ReturnInv
<1>1. Init => ReturnInv
  BY InitTypeOK DEF Init, ReturnInv, SessionInv, WakingInv, Signalled
<1>2. ASSUME ReturnInv, [Next]_vars PROVE ReturnInv'
  <2>1. TypeOK' /\ SessionInv'
    BY <1>2, NextTypeOK, SessionStep DEF ReturnInv
  <2>2. ASSUME UNCHANGED vars PROVE WakingInv'
    BY <1>2, <2>2, WakingStays DEF ReturnInv, vars, platform, pipeVars, Signalled, TypeOK
  <2>3. WakingInv'
    BY <1>2, <2>2, MainWaking, HandlerWaking, EventWaking DEF ReturnInv, Next
  <2>4. QED BY <2>1, <2>3 DEF ReturnInv
<1>3. QED BY <1>1, <1>2, PTL DEF Spec

\* epc__list_main returns OK only when its session was logged off, with a
\* commit or a rollback, and never leaves a session open.
THEOREM OkIsLoggedOff == Spec => []OkMeansLoggedOff
<1>1. ReturnInv => OkMeansLoggedOff
  BY DEF ReturnInv, SessionInv, OkMeansLoggedOff
<1>2. QED BY <1>1, ReturnInvHolds, PTL

\* When helpers do what they are started for, a process that handled a signal
\* sleeps in epc__recv_request_pipe only until its INTERRUPT comes, however
\* many signals come and wherever; unless another listener on its pipe, at
\* whatever moment, received an INTERRUPT before it.
THEOREM SignalWakesReceive == Spec => []SignalledReceiveIsWoken
<1>1. ReturnInv => SignalledReceiveIsWoken
  BY DEF ReturnInv, WakingInv, Waking, Signalled, Leaving, Ended, SignalledReceiveIsWoken
<1>2. QED BY <1>1, ReturnInvHolds, PTL

-----------------------------------------------------------------------------
(* The registry of interfaces.                                             *)

\* A table that was rearranged holds what it held.
LEMMA RearrangedTable ==
  ASSUME NEW S, NEW s \in Seq(S), NEW p, Rearranges(p, Len(s)),
         NEW t, t = [k \in 1 .. Len(s) |-> s[p[k]]]
  PROVE  t \in Seq(S) /\ Len(t) = Len(s) /\ Range(t) = Range(s)
<1>1. p \in [1 .. Len(s) -> 1 .. Len(s)] /\ \A y \in 1 .. Len(s) : \E x \in 1 .. Len(s) : p[x] = y
  BY DEF Rearranges, Range
<1>2. Len(s) \in Nat /\ \A k \in 1 .. Len(s) : t[k] \in S
  BY SMTT(30), <1>1
<1>3. t \in Seq(S) /\ Len(t) = Len(s)
  BY <1>2
<1>4. Range(s) = {s[k] : k \in 1 .. Len(s)} /\ Range(t) = {s[p[k]] : k \in 1 .. Len(s)}
  BY <1>3 DEF Range
<1>5. {s[p[k]] : k \in 1 .. Len(s)} = {s[k] : k \in 1 .. Len(s)}
  BY <1>1
<1> QED BY <1>3, <1>4, <1>5

\* A table with one entry more holds that entry too.
LEMMA AppendedTable ==
  ASSUME NEW S, NEW s \in Seq(S), NEW e \in S
  PROVE  /\ Append(s, e) \in Seq(S) /\ Len(Append(s, e)) = Len(s) + 1
         /\ Range(Append(s, e)) = Range(s) \cup {e}
<1>1. Append(s, e) \in Seq(S) /\ Len(Append(s, e)) = Len(s) + 1 /\ Len(s) \in Nat
  OBVIOUS
<1>2. \A k \in 1 .. Len(s) : Append(s, e)[k] = s[k]
  OBVIOUS
<1>3. Append(s, e)[Len(s) + 1] = e
  OBVIOUS
<1>4. Range(Append(s, e)) = {Append(s, e)[k] : k \in 1 .. Len(s) + 1} /\ Range(s) = {s[k] : k \in 1 .. Len(s)}
  BY <1>1 DEF Range
<1>5. 1 .. Len(s) + 1 = (1 .. Len(s)) \cup {Len(s) + 1}
  BY <1>1
<1> QED BY <1>1, <1>2, <1>3, <1>4, <1>5

-----------------------------------------------------------------------------
Tables ==
  /\ Range(interfaces) = registered
  /\ \A i \in Interface : Range(functions[i]) = Range(FunctionsOf[i])
  /\ Sorted(Keys(interfaces))
  /\ \A i \in registered : Sorted(functions[i])

Buffers ==
  /\ status = "OK" => noBuffer = {}
  /\ proc \notin {"adding", "ended", "done"} => status = "OK"
  /\ proc = "done" => noBuffer = {}

InInterfaces ==
  proc = "interface" =>
    /\ wanted \in Request
    /\ interface = Null /\ error = "OK"
    /\ inr <= Len(interfaces) + 1
    /\ \A k \in 1 .. Len(interfaces) : k < inr => NameOf[interfaces[k]] < wanted.interface

InFunctions ==
  proc = "function" =>
    /\ wanted \in Request
    /\ interface # Null =>
         /\ interface \in registered /\ NameOf[interface] = wanted.interface
         /\ error = "OK"
         /\ \A k \in 1 .. Len(functions[interface]) : k < fnr => functions[interface][k] < wanted.function
    /\ interface = Null => \A i \in registered : NameOf[i] # wanted.interface

RegistryInv == RegistryTypeOK /\ Tables /\ Buffers /\ InInterfaces /\ InFunctions /\ LookupCorrect

LEMMA RegistryInvInit == RegistryInit => RegistryInv
<1> SUFFICES ASSUME RegistryInit PROVE RegistryInv
  OBVIOUS
<1> USE RegistryAssumption
<1>1. RegistryTypeOK
  BY DEF RegistryInit, RegistryTypeOK
<1>2. Tables
  <2>1. Range(<< >>) = {} /\ Len(<< >>) = 0
    BY DEF Range
  <2> QED BY <2>1 DEF RegistryInit, Tables, Sorted, Keys
<1> QED BY <1>1, <1>2 DEF RegistryInit, RegistryInv, Buffers, InInterfaces, InFunctions, LookupCorrect

\* Registering an interface keeps the tables sorted and adds that one.
LEMMA AddInterfaceKeeps ==
  ASSUME RegistryInv, NEW i \in Interface, AddInterface(i) PROVE RegistryInv'
<1> USE RegistryAssumption
<1> DEFINE table == Append(interfaces, i)
<1>0. interfaces \in Seq(Interface) /\ functions \in [Interface -> Seq(Nat)] /\ functions[i] \in Seq(Nat)
  BY DEF RegistryInv, RegistryTypeOK
<1>1. PICK p : /\ Rearranges(p, Len(functions[i]))
               /\ functions' = [functions EXCEPT ![i] = [k \in 1 .. Len(functions[i]) |-> functions[i][p[k]]]]
               /\ Sorted(functions'[i])
  BY DEF AddInterface
<1>2. /\ functions'[i] = [k \in 1 .. Len(functions[i]) |-> functions[i][p[k]]]
      /\ \A j \in Interface : j # i => functions'[j] = functions[j]
      /\ functions' = [functions EXCEPT ![i] = functions'[i]]
  BY <1>0, <1>1
<1>3. functions'[i] \in Seq(Nat) /\ Range(functions'[i]) = Range(functions[i])
  BY SMTT(30), <1>0, <1>1, <1>2, RearrangedTable
<1>4. table \in Seq(Interface) /\ Len(table) = Len(interfaces) + 1 /\ Range(table) = Range(interfaces) \cup {i}
  BY <1>0, AppendedTable
<1>5. PICK q : /\ Rearranges(q, Len(interfaces) + 1)
               /\ interfaces' = [k \in 1 .. Len(interfaces) + 1 |-> table[q[k]]]
               /\ Sorted(Keys(interfaces'))
  BY DEF AddInterface
<1>6. interfaces' \in Seq(Interface) /\ Range(interfaces') = Range(table)
  <2>1. Rearranges(q, Len(table)) /\ interfaces' = [k \in 1 .. Len(table) |-> table[q[k]]]
    BY <1>4, <1>5
  <2>2. PICK s : s = table
    OBVIOUS
  <2>3. s \in Seq(Interface) /\ Rearranges(q, Len(s)) /\ interfaces' = [k \in 1 .. Len(s) |-> s[q[k]]]
    BY <1>4, <2>1, <2>2
  <2>4. interfaces' \in Seq(Interface) /\ Range(interfaces') = Range(s)
    BY ONLY <2>3, RearrangedTable
  <2> QED BY <2>2, <2>4
<1>7. /\ proc = "adding" /\ status = "OK" /\ registered' = registered \cup {i}
      /\ UNCHANGED <<proc, wanted, inr, fnr, call>>
  BY DEF AddInterface
<1>8. PICK failed \in SUBSET Range(functions[i]) :
         noBuffer' = noBuffer \cup failed /\ status' = IF failed = {} THEN "OK" ELSE "MEMORY_ERROR"
  BY DEF AddInterface
<1>9. RegistryTypeOK'
  <2>1. functions' \in [Interface -> Seq(Nat)]
    BY <1>0, <1>2, <1>3
  <2>2. Range(functions[i]) \subseteq Nat
    BY <1>0 DEF Range
  <2>3. noBuffer' \subseteq Nat
    BY <1>8, <2>2 DEF RegistryInv, RegistryTypeOK
  <2>4. status' \in {"OK", "MEMORY_ERROR"} /\ registered' \subseteq Interface
    BY <1>7, <1>8 DEF RegistryInv, RegistryTypeOK
  <2> QED BY <1>6, <1>7, <2>1, <2>3, <2>4 DEF RegistryInv, RegistryTypeOK, call
<1>10. Tables'
  <2>1. Range(interfaces') = registered'
    BY <1>4, <1>6, <1>7 DEF RegistryInv, Tables
  <2>2. \A j \in Interface : Range(functions'[j]) = Range(FunctionsOf[j])
    BY <1>2, <1>3 DEF RegistryInv, Tables
  <2>3. \A j \in registered' : Sorted(functions'[j])
    BY <1>1, <1>2, <1>7 DEF RegistryInv, Tables, RegistryTypeOK
  <2> QED BY <2>1, <2>2, <2>3, <1>5 DEF Tables
<1>11. Buffers'
  BY <1>7, <1>8 DEF RegistryInv, Buffers
<1>12. proc' = "adding"
  BY <1>7
<1> QED BY <1>12, <1>9, <1>10, <1>11 DEF RegistryInv, InInterfaces, InFunctions, LookupCorrect

\* A lookup that passed the place of a name in the sorted table passed no
\* entry with that name.
LEMMA PassedNotThere ==
  ASSUME NEW keys \in Seq(Nat), Sorted(keys), NEW name \in Nat, NEW place \in Nat,
         \A k \in 1 .. Len(keys) : k < place => keys[k] < name,
         place <= Len(keys) => place \in 1 .. Len(keys) /\ name < keys[place]
  PROVE  \A k \in 1 .. Len(keys) : keys[k] # name
<1> SUFFICES ASSUME NEW k \in 1 .. Len(keys) PROVE keys[k] # name
  OBVIOUS
<1>1. Len(keys) \in Nat /\ keys[k] \in Nat
  OBVIOUS
<1>2. CASE k < place
  BY <1>1, <1>2
<1>3. CASE k >= place
  <2>1. place \in 1 .. Len(keys) /\ name < keys[place] /\ keys[place] \in Nat
    BY <1>1, <1>3
  <2>2. keys[place] <= keys[k]
    BY <1>1, <1>3, <2>1 DEF Sorted
  <2> QED BY <1>1, <2>1, <2>2
<1> QED BY <1>1, <1>2, <1>3

LEMMA InterfaceNotFoundKeeps == ASSUME RegistryInv, InterfaceNotFound PROVE RegistryInv'
<1> USE RegistryAssumption
<1> DEFINE keys == Keys(interfaces)
<1>1. /\ proc = "interface" /\ InterfacePassed /\ error' = "INTERFACE_UNKNOWN" /\ interface' = Null
      /\ proc' = "function" /\ fnr' = 1 /\ function' = Null /\ UNCHANGED <<tables, wanted, inr>>
  BY DEF InterfaceNotFound, ToFunctions, RegistryInv, InInterfaces
<1>2. /\ interfaces \in Seq(Interface) /\ wanted \in Request /\ wanted.interface \in Nat
      /\ inr \in Nat \ {0}
  BY <1>1 DEF RegistryInv, InInterfaces, Request, RegistryTypeOK
<1>3. /\ Len(interfaces) \in Nat /\ keys = [k \in 1 .. Len(interfaces) |-> NameOf[interfaces[k]]]
      /\ \A k \in 1 .. Len(interfaces) : interfaces[k] \in Interface
  BY <1>2 DEF Keys
<1>4. keys \in Seq(Nat) /\ Len(keys) = Len(interfaces)
  BY <1>3
<1>5. \A k \in 1 .. Len(keys) : k < inr => keys[k] < wanted.interface
  BY <1>1, <1>3, <1>4 DEF RegistryInv, InInterfaces
<1>6. inr <= Len(keys) => inr \in 1 .. Len(keys) /\ wanted.interface < keys[inr]
  BY <1>1, <1>2, <1>3, <1>4 DEF InterfacePassed, Here
<1>7. \A k \in 1 .. Len(keys) : keys[k] # wanted.interface
  <2>1. Sorted(keys)
    BY DEF RegistryInv, Tables
  <2>2. inr \in Nat
    BY <1>2
  <2> HIDE DEF keys
  <2> QED BY <1>2, <1>4, <1>5, <1>6, <2>1, <2>2, PassedNotThere
<1>8. \A i \in registered : NameOf[i] # wanted.interface
  <2> SUFFICES ASSUME NEW i \in registered PROVE NameOf[i] # wanted.interface
    OBVIOUS
  <2>1. PICK k \in 1 .. Len(interfaces) : interfaces[k] = i
    BY <1>2 DEF RegistryInv, Tables, Range
  <2> QED BY <1>3, <1>4, <1>7, <2>1
<1>9. RegistryTypeOK'
  BY <1>1 DEF RegistryInv, RegistryTypeOK, tables
<1> QED BY <1>1, <1>2, <1>8, <1>9
     DEF RegistryInv, Tables, Buffers, InInterfaces, InFunctions, LookupCorrect, tables

LEMMA InterfaceFoundKeeps == ASSUME RegistryInv, InterfaceFound PROVE RegistryInv'
<1> USE RegistryAssumption
<1>1. /\ proc = "interface" /\ inr <= Len(interfaces) /\ wanted.interface = NameOf[interfaces[inr]]
      /\ interface' = interfaces[inr] /\ error' = error
      /\ proc' = "function" /\ fnr' = 1 /\ function' = Null /\ UNCHANGED <<tables, wanted, inr>>
  BY DEF InterfaceFound, ToFunctions, Here
<1>2. interfaces \in Seq(Interface) /\ inr \in Nat \ {0} /\ functions \in [Interface -> Seq(Nat)]
  BY DEF RegistryInv, RegistryTypeOK
<1>3. interfaces[inr] \in Interface /\ interfaces[inr] \in registered
  BY <1>1, <1>2 DEF RegistryInv, Tables, Range
<1>4. RegistryTypeOK'
  BY SMTT(30), <1>1, <1>3 DEF RegistryInv, RegistryTypeOK, tables
<1>5. InFunctions'
  <2>1. wanted' \in Request /\ error' = "OK"
    BY <1>1 DEF RegistryInv, InInterfaces
  <2>2. interface' # Null /\ interface' \in registered' /\ NameOf[interface'] = wanted'.interface
    BY <1>1, <1>3 DEF tables
  <2>3. \A k \in 1 .. Len(functions'[interface']) : ~(k < fnr')
    BY <1>1
  <2> QED BY <2>1, <2>2, <2>3 DEF InFunctions
<1> QED BY <1>1, <1>4, <1>5 DEF RegistryInv, Tables, Buffers, InInterfaces, LookupCorrect, tables

LEMMA FunctionFoundKeeps == ASSUME RegistryInv, FunctionFound PROVE RegistryInv'
<1> USE RegistryAssumption
<1>1. /\ proc = "function" /\ interface # Null /\ fnr <= Len(functions[interface])
      /\ wanted.function = functions[interface][fnr] /\ function' = functions[interface][fnr]
      /\ proc' = "looked_up" /\ UNCHANGED <<tables, wanted, inr, fnr, interface, error>>
  BY DEF FunctionFound
<1>2. /\ interface \in registered /\ interface \in Interface /\ NameOf[interface] = wanted.interface
      /\ error = "OK" /\ functions[interface] \in Seq(Nat) /\ fnr \in Nat \ {0}
  BY <1>1 DEF RegistryInv, InFunctions, RegistryTypeOK
<1>3. functions[interface][fnr] \in Range(functions[interface]) /\ functions[interface][fnr] \in Nat
  BY <1>1, <1>2 DEF Range
<1>4. HasWanted(interface)
  BY <1>1, <1>2, <1>3 DEF HasWanted, RegistryInv, Tables
<1>5. RegistryTypeOK'
  BY <1>1, <1>3 DEF RegistryInv, RegistryTypeOK, tables
<1>6. LookupCorrect'
  BY <1>1, <1>2, <1>4 DEF LookupCorrect, HasWanted, tables
<1> QED BY <1>1, <1>5, <1>6 DEF RegistryInv, Tables, Buffers, InInterfaces, InFunctions, tables

LEMMA FunctionNotFoundKeeps == ASSUME RegistryInv, FunctionNotFound PROVE RegistryInv'
<1> USE RegistryAssumption
<1>1. /\ proc = "function" /\ FunctionPassed /\ error' = "FUNCTION_UNKNOWN"
      /\ proc' = "looked_up" /\ UNCHANGED <<tables, wanted, inr, fnr, interface, function>>
  BY DEF FunctionNotFound
<1>2. wanted.interface \in Nat /\ wanted.function \in Nat /\ fnr \in Nat
  BY <1>1 DEF RegistryInv, InFunctions, Request, RegistryTypeOK
<1>3. \A i \in registered : ~HasWanted(i)
  <2> SUFFICES ASSUME NEW i \in registered, HasWanted(i) PROVE FALSE
    OBVIOUS
  <2>1. interface \in registered /\ NameOf[interface] = wanted.interface
    BY <1>1 DEF RegistryInv, InFunctions, HasWanted
  <2>2. i = interface /\ interface \in Interface /\ interface # Null
    BY <2>1 DEF RegistryInv, RegistryTypeOK, HasWanted
  <2> DEFINE keys == functions[interface]
  <2>3. keys \in Seq(Nat) /\ Sorted(keys)
    BY <2>1, <2>2 DEF RegistryInv, RegistryTypeOK, Tables
  <2>4. \A k \in 1 .. Len(keys) : k < fnr => keys[k] < wanted.function
    BY <1>1, <2>2 DEF RegistryInv, InFunctions
  <2>5. fnr <= Len(keys) => fnr \in 1 .. Len(keys) /\ wanted.function < keys[fnr]
    BY <1>1, <2>2 DEF FunctionPassed, RegistryInv, RegistryTypeOK
  <2>6. wanted.function \in Range(keys)
    BY <2>2 DEF HasWanted, RegistryInv, Tables
  <2>7. PICK k \in 1 .. Len(keys) : keys[k] = wanted.function
    <3>1. DOMAIN keys = 1 .. Len(keys)
      BY <2>3
    <3> HIDE DEF keys
    <3> QED BY <2>6, <3>1 DEF Range
  <2> HIDE DEF keys
  <2> QED BY <1>2, <2>3, <2>4, <2>5, <2>7, PassedNotThere
<1>4. RegistryTypeOK'
  BY <1>1 DEF RegistryInv, RegistryTypeOK, tables
<1>5. LookupCorrect'
  BY <1>1, <1>3 DEF LookupCorrect, HasWanted, tables
<1> QED BY <1>1, <1>4, <1>5 DEF RegistryInv, Tables, Buffers, InInterfaces, InFunctions, tables

LEMMA RegistryInvStep == RegistryInv /\ [RegistryNext]_registryVars => RegistryInv'
<1> SUFFICES ASSUME RegistryInv, [RegistryNext]_registryVars PROVE RegistryInv'
  OBVIOUS
<1> USE RegistryAssumption
<1>1. CASE OutOfMemory
  BY <1>1 DEF OutOfMemory, RegistryInv, RegistryTypeOK, Tables, Buffers, InInterfaces, InFunctions, LookupCorrect, call
<1>2. ASSUME NEW i \in Interface, AddInterface(i) PROVE RegistryInv'
  BY <1>2, AddInterfaceKeeps
<1>3. CASE StartServing
  <2>1. RegistryTypeOK'
    BY <1>3 DEF StartServing, RegistryInv, RegistryTypeOK, tables, call
  <2> QED BY <1>3, <2>1 DEF StartServing, RegistryInv, Tables, Buffers, InInterfaces, InFunctions, LookupCorrect, tables, call
<1>4. ASSUME NEW request \in Request, Lookup(request) PROVE RegistryInv'
  <2>1. RegistryTypeOK'
    BY <1>4 DEF Lookup, RegistryInv, RegistryTypeOK, tables
  <2>2. InInterfaces'
    <3>1. inr' = 1 /\ interfaces' = interfaces /\ Len(interfaces) \in Nat
      BY <1>4 DEF Lookup, RegistryInv, RegistryTypeOK, tables
    <3> QED BY <1>4, <3>1 DEF Lookup, InInterfaces
  <2> QED BY <1>4, <2>1, <2>2 DEF Lookup, RegistryInv, Tables, Buffers, InFunctions, LookupCorrect, tables
<1>5. CASE NextInterface
  <2>1. /\ proc = "interface" /\ inr <= Len(interfaces) /\ wanted.interface > Here
        /\ inr' = inr + 1 /\ UNCHANGED <<proc, tables, wanted, fnr, call>>
    BY <1>5 DEF NextInterface
  <2>2. inr \in Nat \ {0} /\ Len(interfaces) \in Nat /\ interfaces \in Seq(Interface) /\ wanted \in Request
    BY <2>1 DEF RegistryInv, RegistryTypeOK, InInterfaces
  <2>3. interfaces[inr] \in Interface /\ NameOf[interfaces[inr]] \in Nat /\ wanted.interface \in Nat
    <3>1. inr \in 1 .. Len(interfaces)
      BY <2>1, <2>2
    <3>2. interfaces[inr] \in Interface
      BY <3>1, <2>2
    <3>3. wanted.interface \in Nat
      BY <2>2 DEF Request
    <3> QED BY <3>2, <3>3
  <2>4. \A k \in 1 .. Len(interfaces) : k < inr + 1 => NameOf[interfaces[k]] < wanted.interface
    <3> SUFFICES ASSUME NEW k \in 1 .. Len(interfaces), k < inr + 1 PROVE NameOf[interfaces[k]] < wanted.interface
      OBVIOUS
    <3>1. CASE k < inr
      BY <2>1, <3>1 DEF RegistryInv, InInterfaces
    <3>2. CASE k = inr
      BY <2>1, <2>3, <3>2 DEF Here
    <3> QED BY <2>2, <3>1, <3>2
  <2>5. InInterfaces'
    BY <2>1, <2>2, <2>4 DEF RegistryInv, InInterfaces, tables, call
  <2>6. RegistryTypeOK'
    BY <2>1, <2>2, SMTT(30) DEF RegistryInv, RegistryTypeOK, tables, call
  <2> QED BY <2>1, <2>5, <2>6 DEF RegistryInv, Tables, Buffers, InFunctions, LookupCorrect, tables, call
<1>6. CASE InterfaceFound
  BY <1>6, InterfaceFoundKeeps
<1>7. CASE InterfaceNotFound
  BY <1>7, InterfaceNotFoundKeeps
<1>8. CASE NextFunction
  <2>1. /\ proc = "function" /\ interface # Null /\ fnr <= Len(functions[interface])
        /\ wanted.function > functions[interface][fnr]
        /\ fnr' = fnr + 1 /\ UNCHANGED <<proc, tables, wanted, inr, call>>
    BY <1>8 DEF NextFunction
  <2>2. /\ fnr \in Nat \ {0} /\ interface \in Interface /\ functions[interface] \in Seq(Nat)
        /\ wanted.function \in Nat
    BY <2>1 DEF RegistryInv, RegistryTypeOK, InFunctions, Request
  <2>3. \A k \in 1 .. Len(functions[interface]) : k < fnr + 1 => functions[interface][k] < wanted.function
    <3> SUFFICES ASSUME NEW k \in 1 .. Len(functions[interface]), k < fnr + 1
                 PROVE  functions[interface][k] < wanted.function
      OBVIOUS
    <3>1. CASE k < fnr
      BY <2>1, <3>1 DEF RegistryInv, InFunctions
    <3>2. CASE k = fnr
      BY <2>1, <2>2, <3>2
    <3> QED BY <2>2, <3>1, <3>2
  <2>4. InFunctions'
    BY <2>1, <2>3 DEF RegistryInv, InFunctions, tables, call
  <2>5. RegistryTypeOK'
    BY <2>1, <2>2 DEF RegistryInv, RegistryTypeOK, tables, call
  <2> QED BY <2>1, <2>4, <2>5 DEF RegistryInv, Tables, Buffers, InInterfaces, LookupCorrect, tables, call
<1>9. CASE FunctionFound
  BY <1>9, FunctionFoundKeeps
<1>10. CASE FunctionNotFound
  BY <1>10, FunctionNotFoundKeeps
<1>11. CASE FreeTables
  <2>1. Range(<< >>) = {} /\ Len(<< >>) = 0
    BY DEF Range
  <2>2. RegistryTypeOK'
    BY <1>11 DEF FreeTables, RegistryInv, RegistryTypeOK, call
  <2>3. Tables'
    BY <1>11, <2>1 DEF FreeTables, RegistryInv, Tables, Sorted, Keys
  <2>4. Buffers'
    BY <1>11 DEF FreeTables, Buffers
  <2> QED BY <1>11, <2>2, <2>3, <2>4 DEF FreeTables, RegistryInv, InInterfaces, InFunctions, LookupCorrect
<1>12. CASE UNCHANGED registryVars
  BY <1>12 DEF registryVars, tables, call, RegistryInv, RegistryTypeOK, Tables, Buffers, InInterfaces, InFunctions, LookupCorrect, HasWanted
<1> QED BY <1>1, <1>2, <1>3, <1>4, <1>5, <1>6, <1>7, <1>8, <1>9, <1>10, <1>11, <1>12 DEF RegistryNext

LEMMA RegistryInvHolds == RegistrySpec => []RegistryInv
<1> QED BY RegistryInvInit, RegistryInvStep, PTL DEF RegistrySpec

\* The variables have their types.
THEOREM RegistryTypesOK == RegistrySpec => []RegistryTypeOK
<1>1. RegistryInv => RegistryTypeOK
  BY DEF RegistryInv
<1> QED BY <1>1, RegistryInvHolds, PTL

\* Whatever interfaces are added and in whatever order, a request finds its
\* function exactly when that function was added.
THEOREM LookupsAreCorrect == RegistrySpec => []LookupCorrect
<1>1. RegistryInv => LookupCorrect
  BY DEF RegistryInv
<1> QED BY <1>1, RegistryInvHolds, PTL

\* No request is served when the buffer of some parameter is missing.
THEOREM BuffersBeforeRequests == RegistrySpec => []ServesWithBuffers
<1>1. RegistryInv => ServesWithBuffers
  BY DEF RegistryInv, Buffers, ServesWithBuffers
<1> QED BY <1>1, RegistryInvHolds, PTL

==============================================================================
