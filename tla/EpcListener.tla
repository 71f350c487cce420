---------------------------- MODULE EpcListener ----------------------------
(***************************************************************************)
(* One run of a listener program: the stages of epc__list_main, and the    *)
(* signals that may interrupt it between any two statements that touch the *)
(* signal dispositions.                                                    *)
(*                                                                         *)
(* epc__set_signal_handlers(idx) swaps, signal by signal, the disposition  *)
(* of the process with row idx of signal_handler_info.  Row 0 holds the    *)
(* handler until epc__connect swaps it in and epc__disconnect swaps it out *)
(* again; row 1 holds SIG_IGN, and every invocation of the handler swaps   *)
(* it in when it starts and out when it ends.  Handlers nest: a handler    *)
(* blocks the signal that started it and no other.                         *)
(***************************************************************************)
EXTENDS Naturals, Sequences

CONSTANTS
  NumSignals,         \* signals the swap goes through, in its order
  SigChld,            \* the one a child's end raises
  IgnoredByDefault,   \* signals SIG_DFL ignores; it ends the process for others
  MaxSignals          \* bound: signals and user interrupts of a run

Signal == 1 .. NumSignals

ASSUME SignalAssumption ==
  /\ NumSignals \in Nat
  /\ SigChld \in Signal
  /\ IgnoredByDefault \subseteq Signal
ASSUME ListenerAssumption == MaxSignals \in Nat

VARIABLES
  interrupt,          \* the -I option: send an INTERRUPT instead of serving
  nr,                 \* stage of epc__list_main, as it counts them
  at,                 \* where the main program is
  ret,                \* the error it returns
  disp,               \* disp[s]: disposition of signal s
  info,               \* signal_handler_info
  swap,               \* progress of the main program in epc__set_signal_handlers
  frames,             \* invocations of handle_signal, the running one last
  signo,              \* G_signo # 0
  session,            \* the database session and the work done in it
  helpers,            \* interrupt helpers that have not sent yet
  interrupts,         \* INTERRUPT messages it or its helpers sent, in the request pipe
  taken,              \* history: another listener on the pipe took one of them
  original,           \* the dispositions the program was started with
  reapsIgnored,       \* on this platform system() returns -1 while SIGCHLD is ignored
  helperMayFail,      \* a helper may not start, or end without sending
  caught,             \* history: handle_signal was entered
  signals             \* signals used up, see MaxSignals

signalVars == <<disp, info, swap>>
pipeVars == <<helpers, interrupts, taken>>
platform == <<interrupt, original, reapsIgnored, helperMayFail>>
history == <<caught, signals>>
vars == <<platform, nr, at, ret, frames, signo, session, signalVars, pipeVars, history>>

Disposition == {"DFL", "IGN", "HANDLER"}

\* How far a call of epc__set_signal_handlers is: the signal it is at, and
\* what signal() returned for it while that is not stored yet.
Progress == [next : 1 .. NumSignals + 1, old : Disposition \cup {"none"}]
Start == [next |-> 1, old |-> "none"]
Done(p) == p.next > NumSignals

\* A row of the table next to the dispositions it is swapped with.
Rows == [disp : [Signal -> Disposition], row : [Signal -> Disposition]]

\* An invocation of handle_signal; found is history: what it found.
Frame == [sig : Signal, phase : {"ignore", "interrupt", "flag", "restore"},
          swap : Progress, found : Rows]

\* "swap_in" to "stop" are inside epc__connect, epc__handle_requests (or
\* epc__interrupt) and epc__disconnect; the last four are ends of the process.
Inside == {"swap_in", "register", "guard", "recv", "serve", "send", "swap_out", "logoff"}
Ended == {"returned", "aborted", "gave_up", "killed"}
Error == {"OK", "MEMORY_ERROR", "CONNECT_ERROR", "LOOP_ERROR", "DISCONNECT_ERROR"}

TypeOK ==
  /\ interrupt \in BOOLEAN /\ reapsIgnored \in BOOLEAN /\ helperMayFail \in BOOLEAN
  /\ nr \in 0 .. 7
  /\ at \in {"stage", "cleanup"} \cup Inside \cup Ended
  /\ ret \in Error
  /\ disp \in [Signal -> Disposition] /\ original \in [Signal -> {"DFL", "IGN"}]
  /\ info \in [0 .. 1 -> [Signal -> Disposition]]
  /\ swap \in Progress
  /\ frames \in Seq(Frame)
  /\ signo \in BOOLEAN /\ caught \in BOOLEAN
  /\ session \in {"none", "open", "committed", "rolled_back", "lost"}
  /\ helpers \in Nat /\ interrupts \in Nat /\ taken \in BOOLEAN
  /\ signals \in 0 .. MaxSignals

Init ==
  /\ interrupt \in BOOLEAN /\ reapsIgnored \in BOOLEAN /\ helperMayFail \in BOOLEAN
  /\ nr = 0 /\ at = "stage" /\ ret = "OK"
  /\ original \in [Signal -> {"DFL", "IGN"}]
  /\ disp = original
  /\ info = [idx \in 0 .. 1 |-> [s \in Signal |-> IF idx = 0 THEN "HANDLER" ELSE "IGN"]]
  /\ swap = Start
  /\ frames = <<>>
  /\ signo = FALSE /\ caught = FALSE
  /\ session = "none"
  /\ helpers = 0 /\ interrupts = 0 /\ taken = FALSE
  /\ signals = 0

\* The process ends; a session it has not logged off is lost, and the
\* database rolls its work back.
Ends(how) ==
  /\ at' = how
  /\ session' = IF session = "open" THEN "lost" ELSE session
  /\ frames' = <<>>

-----------------------------------------------------------------------------
(* epc__set_signal_handlers, for the main program and for a handler *)

\* Mutant of SwapOne: the old disposition is not kept.
SwapOneForgets(idx, p, q) ==
  /\ ~Done(p)
  /\ disp' = [disp EXCEPT ![p.next] = info[idx][p.next]]
  /\ q = [next |-> p.next + 1, old |-> "none"]
  /\ UNCHANGED info

\* One statement for one signal, in its two effects: signal() changes the
\* disposition, and its result is stored in the table.
SwapOne(idx, p, q) ==
  \/ /\ ~Done(p) /\ p.old = "none"
     /\ disp' = [disp EXCEPT ![p.next] = info[idx][p.next]]
     /\ q = [p EXCEPT !.old = disp[p.next]]
     /\ UNCHANGED info
  \/ /\ ~Done(p) /\ p.old # "none"
     /\ info' = [info EXCEPT ![idx][p.next] = p.old]
     /\ q = [next |-> p.next + 1, old |-> "none"]
     /\ UNCHANGED disp

-----------------------------------------------------------------------------
(* Signals *)

Event == signals < MaxSignals /\ signals' = signals + 1

Blocked(s) == \E i \in 1 .. Len(frames) : frames[i].sig = s

\* The dispositions and the row the running handler swaps them with.
Current == [disp |-> disp, row |-> info[1]]

\* handle_signal(s) before its first statement.
Enter(s) == [sig |-> s, phase |-> "ignore", swap |-> Start, found |-> Current]

\* Signal s is delivered.  One that the process ignores changes nothing.
Deliver(s) ==
  /\ at \notin Ended
  /\ Event
  /\ ~Blocked(s)
  /\ \/ /\ disp[s] = "HANDLER"
        /\ frames' = Append(frames, Enter(s))
        /\ caught' = TRUE
        /\ UNCHANGED <<at, session>>
     \/ /\ disp[s] = "DFL" /\ s \notin IgnoredByDefault
        /\ Ends("killed")
        /\ UNCHANGED caught
  /\ UNCHANGED <<platform, nr, ret, signo, signalVars, pipeVars>>

\* A signal that cannot be caught.
Kill ==
  /\ at \notin Ended
  /\ Event
  /\ Ends("killed")
  /\ UNCHANGED <<platform, nr, ret, signo, signalVars, pipeVars, caught>>

\* The running handler, and the stack when it goes on as f.
Top == frames[Len(frames)]
Goes(f) == frames' = [frames EXCEPT ![Len(frames)] = f]

\* The handler ignores all signals while it works, and when it is done swaps
\* back what it had found.
HandlerSwaps ==
  /\ frames # <<>> /\ Top.phase \in {"ignore", "restore"} /\ ~Done(Top.swap)
  /\ \E q \in Progress : SwapOne(1, Top.swap, q) /\ Goes([Top EXCEPT !.swap = q])
  /\ UNCHANGED <<platform, nr, at, ret, swap, signo, session, pipeVars, history>>

HandlerSwapped ==
  /\ frames # <<>> /\ Done(Top.swap)
  /\ \/ Top.phase = "ignore" /\ Goes([Top EXCEPT !.phase = "interrupt", !.swap = Start])
     \/ Top.phase = "restore" /\ frames' = SubSeq(frames, 1, Len(frames) - 1)
  /\ UNCHANGED <<platform, nr, at, ret, signo, session, signalVars, pipeVars, history>>

\* The status of system() is -1 although the helper ran: nobody can wait for
\* a child while SIGCHLD is ignored.
ChildMissed == reapsIgnored /\ disp[SigChld] = "IGN"

\* Mutant of StartHelper: the command is not run.
StartHelperNot == UNCHANGED helpers

\* epcdaemon forks, so that the program it starts with -I goes on by itself.
StartHelper == helpers' = helpers + 1

\* handle_interrupt returns, or on status -1 ends in exit(EXIT_FAILURE),
\* whether fork failed or the child was missed.
HelperStarted == ~ChildMissed /\ StartHelper
GivesUp ==
  /\ \/ ChildMissed /\ StartHelper
     \/ helperMayFail /\ UNCHANGED helpers
  /\ Ends("gave_up")

\* (*G_epc__handle_interrupt)(...) in handle_signal; epc__connect has set it
\* before it installed the handler.
HandleInterrupt ==
  /\ frames # <<>> /\ Top.phase = "interrupt"
  /\ \/ HelperStarted /\ Goes([Top EXCEPT !.phase = "flag"]) /\ UNCHANGED <<at, session>>
     \/ GivesUp
  /\ UNCHANGED <<platform, nr, ret, signo, signalVars, interrupts, taken, history>>

\* G_signo = signo
SetSigno ==
  /\ frames # <<>> /\ Top.phase = "flag"
  /\ signo' = TRUE
  /\ Goes([Top EXCEPT !.phase = "restore"])
  /\ UNCHANGED <<platform, nr, at, ret, session, signalVars, pipeVars, history>>

HandlerNext == HandlerSwaps \/ HandlerSwapped \/ HandleInterrupt \/ SetSigno

\* The user interrupt that osnsui routes to handle_interrupt while the program
\* receives.
UserInterrupt ==
  /\ frames = <<>> /\ at = "recv"
  /\ Event
  /\ \/ HelperStarted /\ UNCHANGED <<at, session, frames>>
     \/ GivesUp
  /\ UNCHANGED <<platform, nr, ret, signo, signalVars, interrupts, taken, caught>>

HelperSends ==
  /\ helpers > 0
  /\ helpers' = helpers - 1
  /\ \/ interrupts' = interrupts + 1
     \/ helperMayFail /\ UNCHANGED interrupts
  /\ UNCHANGED <<platform, nr, at, ret, frames, signo, session, taken, signalVars, history>>

\* Another listener of the program receives from the same pipe: the INTERRUPT
\* ends its loop instead of this one.  When this process has ended it does not
\* matter who takes it.
OtherReceives ==
  /\ at \notin Ended
  /\ interrupts > 0
  /\ interrupts' = interrupts - 1
  /\ taken' = TRUE
  /\ UNCHANGED <<platform, nr, at, ret, frames, signo, session, helpers, signalVars, history>>

-----------------------------------------------------------------------------
(* The main program *)

\* The main program runs when no handler does.
Main(here) == frames = <<>> /\ at = here

\* Mutant of Disconnects: the handlers stay.
DisconnectsHandling == at' = "logoff"

\* epc__disconnect starts with epc__reset_signal_handlers(0).
Disconnects == at' = "swap_out"

MainOnly == UNCHANGED <<platform, frames, signo, pipeVars, history>>

\* dbug_init, epc__init, epc__set_logon, epc__set_pipe, epc__add_interface;
\* epc__init does not return without memory.
Stage ==
  /\ Main("stage") /\ nr < 5
  /\ \/ nr' = nr + 1 /\ UNCHANGED <<at, ret>>
     \/ nr # 1 /\ at' = "cleanup" /\ ret' = "MEMORY_ERROR" /\ UNCHANGED nr
     \/ nr = 1 /\ at' = "aborted" /\ UNCHANGED <<nr, ret>>
  /\ MainOnly /\ UNCHANGED <<session, signalVars>>

\* Mutant of Connect: an error that is not returned.
ConnectForgetsError ==
  /\ Main("stage") /\ nr = 5
  /\ \/ at' = "cleanup" /\ UNCHANGED session
     \/ at' = "swap_in" /\ session' = "open"
  /\ MainOnly /\ UNCHANGED <<nr, ret, signalVars>>

\* epc__connect up to the signal handlers: no connect string, a logon that
\* fails (EPC__ABORT), or a session.
Connect ==
  /\ Main("stage") /\ nr = 5
  /\ \/ at' = "cleanup" /\ ret' = "CONNECT_ERROR" /\ UNCHANGED session
     \/ at' = "aborted" /\ UNCHANGED <<ret, session>>
     \/ at' = "swap_in" /\ session' = "open" /\ UNCHANGED ret
  /\ MainOnly /\ UNCHANGED <<nr, signalVars>>

\* epc__set_signal_handlers(0) in epc__connect and, as
\* epc__reset_signal_handlers, in epc__disconnect.
MainSwaps ==
  /\ frames = <<>> /\ at \in {"swap_in", "swap_out"} /\ ~Done(swap)
  /\ \E q \in Progress : SwapOne(0, swap, q) /\ swap' = q
  /\ MainOnly /\ UNCHANGED <<nr, at, ret, session>>

MainSwapped ==
  /\ frames = <<>> /\ Done(swap)
  /\ \/ at = "swap_in" /\ at' = "register"
     \/ at = "swap_out" /\ at' = "logoff"
  /\ swap' = Start
  /\ MainOnly /\ UNCHANGED <<nr, ret, session, disp, info>>

\* epc__connect_register_db
Register ==
  /\ Main("register")
  /\ \/ nr' = 6 /\ at' = (IF interrupt THEN "send" ELSE "guard") /\ UNCHANGED session
     \/ at' = "aborted" /\ session' = "lost" /\ UNCHANGED nr
  /\ MainOnly /\ UNCHANGED <<ret, signalVars>>

\* The condition of the loop of epc__handle_requests.  When a signal ends it
\* the last request left no error, which would have ended it before.
Guard ==
  /\ Main("guard")
  /\ \/ ~signo /\ at' = "recv" /\ UNCHANGED nr
     \/ signo /\ Disconnects /\ nr' = 7
  /\ MainOnly /\ UNCHANGED <<ret, session, signalVars>>

\* Mutant of RecvInterrupt: without a message.
RecvInterruptUnsent ==
  /\ Main("recv")
  /\ interrupts' = interrupts - 1
  /\ Disconnects /\ ret' = "LOOP_ERROR"
  /\ UNCHANGED <<platform, nr, frames, signo, helpers, taken, session, signalVars, history>>

\* The receive returns a request, an INTERRUPT, or an error: that of an
\* interrupted call, or of an INTERRUPT another listener's helper sent.  The
\* last two end the loop.
RecvRequest ==
  /\ Main("recv")
  /\ at' = "serve"
  /\ MainOnly /\ UNCHANGED <<nr, ret, session, signalVars>>
RecvInterrupt ==
  /\ Main("recv")
  /\ interrupts > 0
  /\ interrupts' = interrupts - 1
  /\ Disconnects /\ ret' = "LOOP_ERROR"
  /\ UNCHANGED <<platform, nr, frames, signo, helpers, taken, session, signalVars, history>>
RecvFails ==
  /\ Main("recv")
  /\ Disconnects /\ ret' = "LOOP_ERROR"
  /\ MainOnly /\ UNCHANGED <<nr, session, signalVars>>

\* The function is executed and the response sent: the loop goes on, the
\* request leaves an error that ends it, or EPC__ABORT.
Serve ==
  /\ Main("serve")
  /\ \/ at' = "guard" /\ UNCHANGED <<ret, session>>
     \/ Disconnects /\ ret' = "LOOP_ERROR" /\ UNCHANGED session
     \/ at' = "aborted" /\ session' = "lost" /\ UNCHANGED ret
  /\ MainOnly /\ UNCHANGED <<nr, signalVars>>

\* epc__interrupt, in a program started with -I
SendInterrupt ==
  /\ Main("send")
  /\ \/ Disconnects /\ nr' = 7 /\ interrupts' = interrupts + 1 /\ UNCHANGED session
     \/ at' = "aborted" /\ session' = "lost" /\ UNCHANGED <<nr, interrupts>>
  /\ UNCHANGED <<platform, ret, frames, signo, helpers, taken, signalVars, history>>

\* epc__disconnect_logoff_db; the status of disconnecting replaces what the
\* request loop returned.
Logoff ==
  /\ Main("logoff")
  /\ \/ session' = (IF signo THEN "rolled_back" ELSE "committed") /\ ret' = "OK"
     \/ session' = "lost" /\ ret' = "DISCONNECT_ERROR"
  /\ at' = "cleanup"
  /\ MainOnly /\ UNCHANGED <<nr, signalVars>>

\* epc__done, dbug_done and the return of the error as the exit status
Cleanup ==
  /\ Main("cleanup")
  /\ at' = "returned"
  /\ MainOnly /\ UNCHANGED <<nr, ret, session, signalVars>>

MainNext ==
  \/ Stage \/ Connect \/ MainSwaps \/ MainSwapped \/ Register
  \/ Guard \/ RecvRequest \/ RecvInterrupt \/ RecvFails \/ Serve \/ SendInterrupt
  \/ Logoff \/ Cleanup

Next ==
  \/ MainNext
  \/ HandlerNext
  \/ HelperSends \/ OtherReceives
  \/ UserInterrupt \/ Kill \/ \E s \in Signal : Deliver(s)

Spec == Init /\ [][Next]_vars

\* The main program, a handler and a helper get on with what they do; only
\* epc__recv_request_pipe may wait for ever, and not when there is an INTERRUPT.
Fairness ==
  /\ WF_vars(Stage \/ Connect \/ MainSwaps \/ MainSwapped \/ Register \/ Guard
             \/ RecvInterrupt \/ Serve \/ SendInterrupt \/ Logoff \/ Cleanup)
  /\ WF_vars(HandlerNext)
  /\ WF_vars(HelperSends)

FairSpec == Spec /\ Fairness

-----------------------------------------------------------------------------
\* Where every signal of the swap runs handle_signal.
Handling == {"register", "guard", "recv", "serve", "send"}

\* However handlers nest inside each other and inside a swap that is half
\* done, when none runs each signal has the disposition that belongs to where
\* the program is, and the table is ready for the next swap.
DispositionsRestored ==
  frames = <<>> /\ at \in Handling \cup {"stage", "logoff", "cleanup", "returned"} =>
    LET handler == [s \in Signal |-> "HANDLER"] IN
    /\ disp    = IF at \in Handling THEN handler ELSE original
    /\ info[0] = IF at \in Handling THEN original ELSE handler
    /\ info[1] = [s \in Signal |-> "IGN"]

\* The work of a process that handled a signal, however late, is not
\* committed: after the test of G_signo no handler is installed.
SignalledWorkIsRolledBack == caught => session # "committed"

\* The program returns with its session logged off, and OK only if that
\* succeeded.
OkMeansLoggedOff ==
  at = "returned" =>
    /\ session # "open"
    /\ ret = "OK" => session \in {"committed", "rolled_back"}

\* A signal between the test of G_signo and the receive is not lost: a helper
\* is on its way to wake the receive up, or its message is there, or another
\* listener on the pipe took one of the messages and ends in the place of this
\* one; unless helpers fail, of which nobody is told.
SignalledReceiveIsWoken ==
  ~helperMayFail /\ at = "recv" /\ frames = <<>> /\ signo => helpers + interrupts > 0 \/ taken

\* A listener that handled a signal ends, wherever the signal found it, unless
\* another listener takes an INTERRUPT of its helpers.
CaughtSignalEndsListener == caught /\ ~helperMayFail ~> at \in Ended \/ taken

-----------------------------------------------------------------------------
(* Why the dispositions come back: the inductive invariant *)

Reversed(r) == [disp |-> r.row, row |-> r.disp]

\* epc__set_signal_handlers started at from, is at p, and has come to to.
Swapped(from, to, p) ==
  \A s \in Signal :
    /\ s < p.next => to.disp[s] = from.row[s] /\ to.row[s] = from.disp[s]
    /\ s = p.next /\ p.old # "none" =>
         p.old = from.disp[s] /\ to.disp[s] = from.row[s] /\ to.row[s] = from.row[s]
    /\ s = p.next /\ p.old = "none" => to.disp[s] = from.disp[s] /\ to.row[s] = from.row[s]
    /\ s > p.next => to.disp[s] = from.disp[s] /\ to.row[s] = from.row[s]

\* What the k-th invocation sees, or saw when the one above it interrupted it.
\* The main program sees what invocation 0 would.
View(k) == IF k = Len(frames) THEN Current ELSE frames[k + 1].found

\* The k-th invocation is as far in its work as its view tells.
FrameInv(k) ==
  LET f == frames[k] IN
  /\ f.phase = "ignore" => Swapped(f.found, View(k), f.swap)
  /\ f.phase \in {"interrupt", "flag"} => View(k) = Reversed(f.found) /\ f.swap = Start
  /\ f.phase = "restore" => Swapped(Reversed(f.found), View(k), f.swap) /\ signo

FramesInv == \A k \in 1 .. Len(frames) : FrameInv(k)

\* The same for the main program and row 0.
Before == [disp |-> original, row |-> [s \in Signal |-> "HANDLER"]]
MainView == [disp |-> View(0).disp, row |-> info[0]]

MainInv ==
  /\ at \notin Ended \ {"returned"} => View(0).row = [s \in Signal |-> "IGN"]
  /\ at \in {"stage", "logoff", "cleanup", "returned"} => MainView = Before
  /\ at \in Handling => MainView = Reversed(Before)
  /\ at = "swap_in" => Swapped(Before, MainView, swap)
  /\ at = "swap_out" => Swapped(Reversed(Before), MainView, swap)
  /\ at \notin {"swap_in", "swap_out"} \cup Ended => swap = Start
  /\ at \in Ended => frames = <<>>

\* Until the process ends a signal that was caught is being handled or known.
CaughtInv ==
  /\ caught => signo \/ frames # <<>> \/ at \in Ended
  /\ ~caught => frames = <<>>
  /\ session = "committed" => ~caught /\ at \in {"cleanup"} \cup Ended

DispositionsInv == FramesInv /\ MainInv /\ CaughtInv
=============================================================================
