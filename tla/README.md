# A TLA+ verification project for EPC

EPC (External Procedure Call) lets PL/SQL code in an Oracle database call C
functions that run in a process outside it.  An IDL compiler generates a PL/SQL
stub per function and a C skeleton per interface; the stub and a *listener*
program exchange requests and responses through database pipes (`DBMS_PIPE`).
This directory holds a model of that system in TLA+, the TLC configurations
that check it and theorems about it that TLAPS proves.

## 1. The system

| part | source | state | operations |
|---|---|---|---|
| `EPC_CLNT` | `src/sql/R__0004`, `R__0007` | package globals of a session: `g_msg`, `g_method_name`, `g_oneway`, `g_msg_seq`, `g_result_pipe` | `new_request`, `set_request_parameter`, `send_request`, `recv_response`, `get_response_parameter`, `shutdown`, setters of the connection |
| `EPC_CLNT_OBJECT` | `src/sql/R__0005`, `V2022*` | connection settings of one interface, a dirty flag | constructor (finds the stored object), `store`, `serialize` |
| `EPC_SRVR` | `src/sql/R__0003`, `R__0006` | `g_epc_key`, `g_pipe_name`, `g_response_send_timeout` of a listener's session | `register`, `recv_request`, `send_response`, `send_request_interrupt`, `ping`, pipe administration |
| listener library | `src/lib/epc_lib.c`, `epc.pc` | one `epc__call_t`, `G_signo`, the interface table, the signal table | `epc__handle_requests` and what it calls, `handle_signal`, `epc__connect`, `epc__disconnect` |
| listener main | `src/lib/lsnr.c` | options and stages of a run | `epc__list_main` |
| XML | `src/lib/epc_xml.c` | the state of a push parser in the call | SAX handlers, `epc__set_parameter` |
| `epcdaemon` | `src/prog/epcdaemon.pl.in` | none | daemonise, run the listener, with `--forever` again and again |
| IDL compiler | `src/prog/idl_*.{c,l,y}` | tables of functions and parameters of one interface | parser actions, generation of stubs and skeletons |
| `empty_pipes` | `utils` | none | drain the pipes of a database |

How they interact.  A stub packs protocol, sequence number, message and (unless
the function is oneway) the name of the session's result pipe and sends this to
the *request pipe* of the interface.  All listeners of that program block in
`receive_message` on this pipe; whichever gets the message parses it, looks up
interface and function, runs the function and sends sequence number, error code
and results to the result pipe.  The stub receives from its result pipe until
the sequence number is the one it sent, or its time is used up.  A signal makes
a listener start `epcdaemon prog -I`, a helper that sends an `INTERRUPT`
message to the request pipe so that the listener wakes up from a receive without
a timeout.

What is hard about it: clients give up and call again while their request is
still in the pipe, in a listener or answered; several listeners overtake each
other; pipes are bounded on both sides; listeners are killed and restarted with
the pipe as it was; the sequence number wraps and starts over; an interrupt may
reach the wrong process; one `epc__call_t` serves every request.  `hazards` in
`PROJECT.json` lists them with their lines and the properties aimed at them.

What makes each part correct:

* client and listener together: at most once execution, an answer belongs to the
  call that accepts it, an error code means that the function was not run;
* listener loop: no request makes it stop, a signal does;
* registry: the sorted search with early exit finds what a search through all
  entries finds;
* marshalling: reading back what was written, for every length the prefix holds;
* XML: the same parameters as the NATIVE message gives, and a nesting that never
  leaves the tables;
* client object: what a setter changed is stored;
* listener main: the exit status tells what failed, and work done by a signalled
  process is rolled back;
* IDL: a stub asks for the parameters in the order the skeleton sends them.

## 2. Modules

| module | models |
|---|---|
| `DbmsPipe` | the external package `DBMS_PIPE`: a FIFO of messages with a bound |
| `EpcMessages` | the methods of an interface, messages, sequence numbers, the pipes |
| `EpcClnt` | a session: `EPC_CLNT` under a generated stub |
| `EpcSrvr` | listeners, interrupt helpers and `epcdaemon --forever` |
| `EpcSystem` | both, joined by the pipes; the specification and its properties |
| `EpcListener` | one run of a listener program: `epc__list_main` and the signals that interrupt it |
| `EpcSelection` | a loop that visits some of the parameters, in their order |
| `EpcParameters` | parameters of a function and their buffers in the listener, `epc__set_parameter` |
| `EpcMarshal` | a call in the NATIVE protocol, from the arguments of the stub to its results |
| `EpcXml` | a listener that parses and serves SOAP and XML-RPC requests |
| `EpcRegistry` | adding interfaces and looking up functions |
| `EpcClntObject` | the connection settings of an interface and the calls that use them |
| `EpcIdl` | the IDL compiler, and calls of the code it generated |
| `EpcRpc` | the abstract at-most-once call |
| `EpcRpcRefinement` | the mapping under which `EpcSystem` implements `EpcRpc` |
| `EpcInvariants` | inductive strengthenings of the safety properties |
| `EpcSystemProofs` | theorems about `EpcSystem`, and that it implements `EpcRpc` |
| `EpcListenerProofs`, `EpcClntObjectProofs` | theorems about `EpcListener` and `EpcRegistry`, and about `EpcClntObject` |
| `EpcSelectionProofs`, `EpcParameterProofs` | lemmas about induction, loops over parameters, bytes and texts, and what a buffer holds |
| `EpcMarshalProofs`, `EpcXmlProofs`, `EpcIdlProofs` | theorems about `EpcMarshal`, `EpcXml` and `EpcIdl` |
| `MCEpcSystem`, `MCEpcMarshal`, `MCEpcXml`, `MCEpcRegistry` | values of the constants for TLC; the other modules are run as they are |

`EpcSystem` composes client, listeners and pipes and sees of a request what the
protocol does with it: number, pipe, method, error code.  The modules from
`EpcParameters` on look at one part of that path each and are finer there.
`EpcMarshal` and `EpcXml` are what `ExecCall` and `SendResponse` of `EpcSystem`
are one step for, `EpcRegistry` is the lookup in it, `EpcClntObject` is what
`NewRequest` and `SendRequest` read of the session's settings, and `EpcIdl` is
where the stubs and the tables come from that all of them take as given.

**Client.** `stage[c]` is where the stub is: `idle`, `built` (after
`new_request`, while parameters are packed) or `recv`.  `NewRequest` increments
and wraps the sequence number; `SendRequest`, `SendTimedOut` and
`ClntInterrupted` are the return codes 0, 1 and 3 of `send_message`;
`RecvResponse` is one turn of `msg_seq_loop`, which drops a message with another
sequence number and takes its time off `l_timeout` (`left[c]`, in ticks);
`RecvTimedOut` ends the loop.  `Shutdown` removes the pipe, `Reinitialise` is
the package's initialisation section run again after the session discarded its
package state.

**Listener.** `proc[s]` is where the process is: `recv` (blocked in
`receive_message`), `exec` (a request taken), `send` (a response built), or how
it ended: `exited` (the loop ended, the process logs off), `failed`
(`EPC__ABORT`, `exit(EXIT_FAILURE)`) or `killed`.  `call[s]` is the
`epc__call_t`.  `RecvRequest` is `epc__recv_request_pipe`; a message that is not
a request raises in `recv_request` and ends the loop.  `ExecCall` parses, looks
up and executes; these only touch the process' own structure, so they are one
step.  `SendResponse` and `SendResponseAborts` are the outcomes of
`epc__send_response_pipe`.  `HandleSignal` and `HandleUserInterrupt` start a
helper (`helpers` counts those that have not sent), `HelperSends` and
`HelperFails` are what it does, `Ping` is `epc_srvr.ping` of some session.
`Restart` is the loop of `epcdaemon --forever`.

**One run of a listener.** `EpcSystem` needs of a listener only that it stops;
how it does is `EpcListener`, a second view of the same process that is finer
about signals and coarser about requests.  `nr` counts the stages of
`epc__list_main` as the variable of that name does, `at` is where the main
program is, `frames` is the stack of running `handle_signal` invocations.
`epc__set_signal_handlers` is not one step: `SwapOne` is one of the two effects
of its statement for one signal (`signal()`, then the store of the result in the
table), and a signal may be delivered between any two.  What the main program
does between swaps is one action per call, since a handler that interrupts it
there touches nothing the call reads.  `Deliver` enters the handler or kills the
process, as the disposition says; `Kill` is a signal that cannot be caught, or
`SIGINT`, which the table leaves out.  `UserInterrupt` is `handle_interrupt`
called by the Oracle client while the program receives.  Signals behave as `signal()` of
BSD and of current C libraries has it: a handler stays installed and blocks
its own signal while it runs.  `SIGSTOP` is in the code's list but has no
handler ever.  `reapsIgnored` is the platform: whether `system()` returns -1 while
`SIGCHLD` is ignored, which POSIX leaves open.  Other listeners of the program
receive from the same pipe: `OtherReceives` takes an `INTERRUPT` away that this
process or its helpers sent (`taken`).  Messages that other processes send are covered by the
receive that may return anything.

**Parameters.**  A text is a sequence of characters, some of which take two
bytes; a numeral is one character, and so is a length.  `data[f][i]` is the buffer
of parameter `i` of `f`, which outlives the request.  `Cut` is what `snprintf`
keeps, `ToInt` the cast of `strtol`'s result to `idl_int_t`.

**NATIVE.**  In `EpcMarshal` a stub packs its arguments one by one
(`SetRequestParameter`, which may raise), the listener reads them one by one
from what is left of the message (`msg_request`), runs the function, builds the
response within `MaxResponse` bytes, and the stub reads the results one by one.
A failed assertion is `proc = "aborted"`, after which `epcdaemon` starts a new
listener with new buffers.

**SOAP and XML-RPC.**  In `EpcXml` the document a stub wrote is a sequence of
parts: its opening tags, a part for each argument, its closing tags.  A part is a
sequence of events.  The parser of Oracle's XDK is the environment: `at` is the
event it reports next, and each callback is an action per level of the document
it distinguishes.  The state between callbacks is `epc__xml_ctx` (`level`, `num`)
and the call.  What a parser finds in an XML argument is one of `Markup[text]`,
any events whose tags are nested or that end in an error (`IsMarkup`).  A parser need not
report a text in one callback: `Pieces` are all ways to divide one, `Digits` and
`NamePieces` ways to divide a numeral and the name of an XML-RPC method.  The request holds which
way was taken (`contents`, `name`).

**Registry.**  `AddInterface` appends and sorts with a `qsort` that may leave equal
keys in any order; its reallocation may fail, and the allocation of any subset
of the buffers.  The lookups are step by step (`inr`, `fnr`), as their early
exits are what is interesting.

**Settings.**  In `EpcClntObject` every setter of `EPC_CLNT` constructs the
object, changes and stores it; `Store` does something for a dirty object only.
A stub constructs it again, sends over a pipe, HTTP or TCP and stores it
on its way out.  `stream[h]` is what was written to a TCP connection.

**IDL.**  `EpcIdl` is a compiler in three parts: the parser actions that build
`_interface`, one action per generated text, and the generated code run
statement by statement.  A generated stub is a sequence of statements, a table a
sequence of entries, a skeleton the list of actual parameters.  `option` is any subset of
`-c`, `-p` (both together generate nothing) and an include text, with which
the header does not declare the functions (`Declarations`).

**History.** A message carries the key of its call (session, life of the package,
number of the call); `executed` is the set of keys whose function was run;
`answer[c]` is the key of the response accepted last; `reqNo` and `epoch` count
calls and initialisations.  No guard reads them except the bounds
`MaxRequests` and `MaxReinits`.  `missed[s]` remembers that another listener took, or
purged, an `INTERRUPT` while `s` was signalled and waited, and `taken` is the same in
`EpcListener`.

**Abstractions.** A method is a model value; which are oneway, have a registered
interface, are in the function table, or have parameters the listener cannot
parse are sets.  Error texts and debugging are left out everywhere, parameter
values in `EpcSystem` only.  Pipe sizes are counted in messages there and in
bytes of one message in `EpcMarshal`; time is counted in ticks of the receive
timeout.  Floating point numbers travel like integers of the database.

## 3. What TLC checks

| run | instance | properties |
|---|---|---|
| `rpc_safety` | 1 session, 2 listeners, 3 calls, 1 initialisation, `MaxMsgSeq` 1, pipes of one message, 1 fault, helper may fail | `TypeOK`, `AnswerIsCurrentUpToWrap`, `ExecutedAtMostOnce`, `ResponseTellsExecution`, `OkAnswerWasExecuted` |
| `rpc_refines` | 2 sessions, 1 listener that purges, 2 calls each, 1 fault | `InFlightCarriesItsSeq`, `ResponsesReachTheirCallers`, `AnsweredMeansDrained`, `ImplementsRpc` |
| `rpc_liveness` | 1 session that also calls two oneway functions, one unknown and one whose parameters do not parse, 2 listeners, pipes of one message, 2 calls, 3 faults, fairness | `StubsReturn`, `SignalledListenerStops`, `RequestsAreTaken` |
| `listener_signals` | 3 signals (one ignored by default), 2 of them delivered, helpers that may fail or do not, another listener on the pipe, fairness | `TypeOK`, `DispositionsRestored`, `SignalledWorkIsRolledBack`, `OkMeansLoggedOff`, `SignalledReceiveIsWoken`, `CaughtSignalEndsListener` |
| `ping_unanswered`, `late_answer` | the smallest instance that shows it | what a comment says and the code does not do |
| `native_arguments` | 4 functions with all types and modes, texts of up to 4 characters, some of them of two bytes, integers that are too large, requests of 17 and responses of 13 bytes | `TypeOK`, `ArgumentsArrive`, `StubRequestsParse`, `ResultsReturn`, `ReturnedMeansExecuted` |
| `xml_arguments` | the same kinds of functions, XML texts with nested, empty and unclosed elements, texts, numerals and method names in up to 2 pieces, both protocols | `TypeOK`, `ArgumentsAreTheDocument`, `PointerIsOpenArgument`, `StubRequestsAreServed` |
| `fault_result` | texts that end their CDATA section | the comment on `error_handler`: not so |
| `registry_lookup` | 3 interfaces with up to 3 functions, added up to 3 times, names before, between and after | `RegistryTypeOK`, `LookupCorrect`, `ServesWithBuffers` |
| `clnt_settings` | 2 pipes, URLs, hosts and timeouts, requests of 2 characters, 2 calls over TCP | `TypeOK`, `PipeSettingsReachCalls`, `SettingsAreRemembered`, `WrittenInOrder`, `CallsKeepSettings` |
| `idl_compiler` | every interface with up to 2 functions of up to 2 parameters of 4 types and 3 modes, every combination of the options and an include text, and a call of each stub | `TypeOK`, `GeneratedCodeCompiles`, `StubsAndTablesAgree`, `ArgumentsInTheirPlace`, `ResultsInTheirPlace` |

*Bounds.*  With `MaxMsgSeq` 1 the counter wraps on the second call, and a third
call has the number of the first: that is the whole of what sequence numbers can
confuse.  Two listeners overtake each other; a third adds nothing between one
session's calls.  Pipes of one message are full when a client gave up once.
Three faults are enough for a signal of each listener and a kill, or for two
signals of one whose interrupts another takes; where only safety is asked, one fault
at any point of three calls takes a listener away.  `rpc_safety` uses the symmetry of the
listeners, which no property tells apart.  `ImplementsRpc` and `AnsweredMeansDrained` hold only while
sequence numbers do not repeat and, for the latter, with one listener: the
second listener can still hold a response when the first has answered.

In `EpcListener` two signals in flight give a handler inside a handler inside a
swap of the main program, at every pair of positions; a third nests once more in
the same way, and the proof covers any number.

`native_arguments` and `xml_arguments` have a parameter of each type in each
place that matters: an OUT parameter before arguments, an INOUT one between,
texts that are empty, of exactly the size, too long, and equal to the digit of
a type, so that a reader that is off by one misreads; messages of these lengths fit or do
not by one byte.  Two pieces of a text (`MaxPieces`) are a
first one that is lost and a last one that stays; the proof covers any number.
Requests follow one another without bound, since what an
earlier one left in the buffers is the hazard.  Two interfaces around a third
and names in every gap are all the cases of a search with an early exit; the
proof covers any number.  A request of two characters is the shortest that can be
written in part, and two of each target are what a setting can confuse.
Two functions with two parameters give every pair of neighbours in a generated
text; the texts are written per function and per parameter, so that a third
repeats a pair.

*Deadlock* is checked in every run of `EpcSystem` and `EpcXml`: listeners are
always restarted.  A run of `EpcListener` ends with the process, a registry with the
program, a compiler with its files, and the settings and calls of `EpcClntObject`
and `EpcMarshal` are bounded or may end, so there it is not.

*Fairness* (`FairSpec`) is weak and only on what runs without anybody's
cooperation.  A stub sends or gives up and receives or gives up, since each wait
has a timeout.  A listener that has a message takes it, executes and responds;
`epcdaemon --forever` restarts it.  The helper sends, unless it fails:
`rpc_liveness` has `HelperMayFail` FALSE, because its status is ignored and no
one tries again; a listener whose helper fails stops only at the next message.
Fairness is per listener: no one assumes which of two that wait gets a message.
Nothing is assumed of new calls, signals, kills, pings or initialisations.
`EpcListener!FairSpec` is weak fairness of the main program except the receive of
a request (an idle pipe waits for ever; an `INTERRUPT` that is there is taken), of
the running handler, and of the helper; `CaughtSignalEndsListener` is about
environments in which helpers do not fail (`helperMayFail`).

*Findings.*  Three runs expect a violation of what the repository says of itself.
`ping_unanswered`: a listener cannot receive the PING that `epc_srvr.ping` sends;
its loop ends and no PONG is sent.  `late_answer`: the sequence number does not
protect a session across an initialisation of its package, since it starts over
while a listener may still hold a request.  `fault_result`: the fault written for
a malformed SOAP request is overwritten by a response with results, although the
function did not run.

*Exceptions.*  Where the code does something a reader may not expect, the model
does it too, and the passing properties say exactly where they end:

* A oneway request for an unknown function reaches the branch that responds, without
  a result pipe, and the listener aborts (`ExecCall`, `SendResponseAborts`).
  `StubsReturn` and `RequestsAreTaken` hold with such calls, since
  `epcdaemon` restarts the listener.
* The `INTERRUPT` a signalled listener's helper sends goes to the pipe all listeners
  of the program receive from.  Another listener may take it, and stops in its
  place; one that starts with a purge may remove it.  The signalled one is then asleep in
  its receive until the next message.  `SignalledListenerStops`,
  `SignalledReceiveIsWoken` and `CaughtSignalEndsListener` say so: `missed`, `taken`.
* `handle_signal` ignores every signal before it calls `system()`; where an
  ignored `SIGCHLD` makes the status -1 (`reapsIgnored`), the listener takes the helper it
  has just started for a failed fork and exits with a failure, its session not
  logged off (`GivesUp`).
* `ArgumentsArrive`: an integer beyond `int` is narrowed; an XML argument is
  appended to what its buffer held, which the NATIVE parser never clears, until it
  overflows with a PARSE_ERROR (`StubRequestsParse`).
* `ResultsReturn`: a response is cut off silently at the limit of the message, and
  lengths counted in bytes are read as characters, so it holds up to the cut and to
  the first character of two bytes.
* `StubRequestsAreServed`: an unknown method, and an XML-RPC document that is not
  well-formed, fail an assertion and end the listener.  The attributes of an XML
  argument lose their quotes (`StartTag`).
* `ArgumentsAreTheDocument`: only XML is appended to its buffer; of any other text, and of a
  number, that the parser reports in pieces each piece overwrites the one before
  (`src/lib/epc_lib.c:1753-1786`), so the function runs with the last one (`Arrives`).  What is
  reported in one piece arrives whole.
* The name of an XML-RPC method in pieces: the first piece is looked up as if it were
  the name.  When it is a function, the second fails the assertion of
  `src/lib/epc_xml.c:1005` and ends the listener; otherwise the function is
  unknown.  `StubRequestsAreServed` excepts such requests.  If the last piece were the name
  of another function, that one would run: the model assumes names of which none ends in
  another (`XmlAssumption`).
* `LookupCorrect`: for an unknown interface the error that remains is
  `FUNCTION_UNKNOWN`; both parsers overwrite `INTERFACE_UNKNOWN`.
* `PipeSettingsReachCalls` is about pipes only: setting the HTTP connection that was
  set before does not mark the object, so that the change of method and protocol
  is not stored.
* `WrittenInOrder`: a write of nothing ends the loop over `write_text` without an
  exception, and the rest of the request is not sent.
* `ResultsInTheirPlace` leaves out oneway functions: only their first parameter must
  be `[in]`, and that not even when a comma is in front of it (the rule `empty ','
  parameter`), and the stub reads an `[out]` one from its own request.
* `-c` and `-p` together generate nothing.  An include text is to declare the functions: without
  it the header does (`GeneratedCodeCompiles`).
* A parameter of type `void` stops the compiler half-way through its files
  (`pc = "aborted"`); the tables of functions and parameters have no check of their
  size (`pc = "overrun"`).

## 4. What TLAPS proves

The theorems about `EpcSystem` hold for every set of sessions and listeners,
every table of methods, every `MaxMsgSeq`, pipe size, timeout and bound; the
assumptions are the named `ASSUME`s of `EpcMessages`, `EpcClnt` and `EpcSrvr`.
Those about the other modules hold for every value of their constants that
satisfies the `ASSUME`s of the module.

* `EpcSystemProofs!TypeCorrect`: `Spec => []TypeOK`.  `TypeOK` is inductive; its
  last conjunct (a session with a call has a method) is what makes a request a
  `RequestMsg`.
* `InFlightNumbered`, `AnswerCurrent`: `Spec => []P` for
  `InFlightCarriesItsSeq` and `AnswerIsCurrentUpToWrap`, the purpose of the
  sequence number.
* `ExecutedOnce`, `ResponseTruthful`, `OkExecuted`, `ResponsesRouted`:
  `Spec => []P` for `ExecutedAtMostOnce`, `ResponseTellsExecution`,
  `OkAnswerWasExecuted` and `ResponsesReachTheirCallers`.
* `AnswerCurrentInOneLife`, `RpcImplemented`: under `NoRepeats`, an accepted answer
  is the answer to the current call, and `Spec => ImplementsRpc`.
* `CallsInTurn`, `AnsweredDrained`: under `OneListener`, and the latter under
  `NoRepeats` too, `Spec => []P` for `CallsAreInTurn` and `AnsweredMeansDrained`.

The argument for the answers.  That the accepted response is the current one
says nothing about messages in flight, so it is not inductive.  The
strengthening says of *every* place a call can be (request pipe, structure of a
listener, result pipe) that its call was made, that it names its caller's pipe,
and that its number is the one the session counts back to: `SeqBefore(msgSeq,
reqNo - n)`.  A new call moves the counter and the distance together
(`SeqBeforeNext`, wrap included), as long as the distance is at most
`MaxMsgSeq`; listeners only move numbers; and within one round of the counter
only distance 0 has the current number (`SeqBeforeSelf`).

The argument for execution.  That a request is executed at most once depends on
where else its call is.  `OnceInv` adds to the invariant above that a call on
its way was sent before (`CallsAreSpent`: the key a session sends next is new
everywhere), that it is in one place and there once (`CallsAreInOnePlace`: one
message of the request pipe, one listener's structure, or one response), and
that each place tells whether its function was run (`ExecutionIsKnown`: not in
the pipe, not in a listener before it executes, afterwards by the error code).
Sending puts a call in the first place, receiving, executing and responding move
it on, and all other steps only take calls away: purging, dropping a stale
response, killing a listener (`TakenCallsInv`).  The truth of the response a stub
accepts is then `ResponsesKnown`, and that it stays true is that `executed` only
grows.

The argument for the refinement.  `NoRepeats` is `MaxReinits = 0 /\ MaxRequests <=
MaxMsgSeq + 1`: no number occurs twice in a life of the package.  Without it the
promise of `EpcRpc` is false, as `late_answer` shows.  Under it the number of an
accepted response belongs to one call, so the answer is current, and a step of
`EpcSystem` is one of four: a new request is `Call`, an execution is `Execute` (the
call was made, it has not run, and its caller was not told that it does not:
`AnsweredIsOver`), the end of a wait is `Ends`, and everything else leaves the view
of the callers alone.  The initial states and each action of `EpcSystem` have a
step of the proof.

The argument for the order.  With one listener the calls of a session can only be
ahead of one another in the pipe: `CallsAreInTurn` orders all places they can be in.
The response to the last call is then behind all others, and a stub that takes it
has dropped the rest on the way.  A second listener makes both false: it may hold
an earlier call while the first answers a later one.

* `EpcListenerProofs!ListenerTypes`, `DispositionsComeBack`,
  `SignalledRollsBack`: `Spec => []P` for `TypeOK`, `DispositionsRestored` and
  `SignalledWorkIsRolledBack` of `EpcListener`, for every number of signals, every
  set that is ignored by default and every number of deliveries.

The argument for the dispositions.  A swap exchanges a row of the table with the
dispositions, so two swaps are none; but a nested handler exchanges row 1 with
what a swap half done has left, and takes it back the same way.  An induction on
the nesting is not needed: each invocation carries, as history, what it `found`,
and `FrameInv` relates what invocation k found to what the invocation above it
found, or to the present for the topmost (`View`).  `Swapped(from, to, p)` says
which signals have been exchanged at progress `p`.  A handler that returns has
swapped back exactly what it found, which is what the invocation below it had
left, so the invariant of that one is about the present again.  `MainInv` is the
same for the main program and row 0.

* `EpcListenerProofs!OkIsLoggedOff`, `SignalWakesReceive`: `Spec => []P` for
  `OkMeansLoggedOff` and `SignalledReceiveIsWoken`, which excepts environments in
  which helpers fail.

What wakes a receive up is a count, helpers that have not sent plus `INTERRUPT`
messages, and `WakingInv` says it is positive from the moment a handler is about
to set `G_signo`, not only from when it is set, or another listener took one of
the messages; a helper that sends moves one
from the first term to the second, and the receive that takes the message leaves
the loop.

* `EpcSystemProofs!SignalWakesListeners`: `Spec => []SignalledListenerIsWoken`, the
  same for any number of listeners on one pipe.

There a helper belongs to nobody, and one `INTERRUPT` may be what two signalled
listeners wait for: whoever takes it leaves the loop, and every other that waits has then
missed it (`Misses`).  A listener that is not waiting sees `G_signo` before it receives again.

* `EpcListenerProofs!RegistryTypesOK`, `LookupsAreCorrect`, `BuffersBeforeRequests`:
  `RegistrySpec => []P` for `RegistryTypeOK`, `LookupCorrect` and `ServesWithBuffers` of
  `EpcRegistry`, for any interfaces, names and order of registration.

A lookup that stops says nothing of the names behind its position.  The
invariant adds that the tables are sorted and hold what was added, whatever
permutation `qsort` chose, and that everything *before* the position is smaller
than the name: with the order, everything behind it is greater when it stops.

* `EpcClntObjectProofs!ClntObjectTypesOK`, `PipeIsUsed`, `SettingsRemembered`,
  `CallsKeep`: `Spec => []P` for `TypeOK`, `PipeSettingsReachCalls` and
  `SettingsAreRemembered` of `EpcClntObject`, and the action property
  `CallsKeepSettings`.

The properties are about the stored object, but a setting that changes nothing
stores nothing, so the invariant is about `Constructed`, the object the next
constructor returns: it has what was asked for last (`Has`).  Each setter makes an
object that is dirty and has it, or is not dirty because the old one had it
(`Good`, one lemma per setter); `HasPipe` is claimed for pipes only, as for HTTP it is
false (see the exceptions).  While a stub runs, its object and the stored one are
equal up to the mark (`Cleaned`), since copying a connection back and forth loses nothing
(`CopiedBack`); so leaving the stub stores what is there.

* `EpcClntObjectProofs!WrittenOrderly`: `Spec => []WrittenInOrder`.

`WrittenInOrder` speaks of the end of a stream, and a write adds to it.  While a call
is under way (`Writing`) the stream of its host ends with exactly what
the loop over `write_text` has passed of the request, everything before that is of
earlier calls, and so are the streams of other hosts; that the host cannot
change under the call is `CallsKeep`.

* `EpcParameterProofs!BufferHolds`: whatever text arrives for a parameter,
  `epc__set_parameter` leaves in its buffer a text that fits or a number of the
  type, for every size and whatever characters take two bytes.
* `EpcMarshalProofs!MarshalTypes`, `ArgumentsDoArrive`, `RequestsParse`,
  `ReturnedWasExecuted`, `ResultsDoReturn`: `Spec => []P` for `TypeOK`,
  `ArgumentsArrive`, `StubRequestsParse`, `ReturnedMeansExecuted` and
  `ResultsReturn` of `EpcMarshal`, for any table of parameters, any texts and numbers
  and any limits of the messages.

`EpcSelectionProofs` has what these and the next need of loops.  The induction rules
of the library take an operator, so `Induction` is stated for sets (a set with 0
and successors has every natural number), and each use defines the set of numbers
for which its claim holds.  `Recursion` gives a function from a start and a step, which is
what a loop with an accumulator is.  `Ascending` is defined by CHOOSE; that there is
such a sequence, that it visits every element once and that it is the only one
(`AscendingIsOne`) are inductions on the largest element.  In `EpcParameterProofs`
`BytesAddUp` says that the bytes of two joined texts are the sum of theirs, and
`CutOfJoined` that `snprintf` keeps the first of two texts whole when it fits.

The argument for the request.  What the listener reads next depends on all it has
read.  `IsRequest` says that a message is the fields of the arguments one behind
the other, by naming for each k what follows behind argument k (`Follows`): packing
appends a field to all of them, and reading goes from one to the next, so that no
induction is made over the message itself.  `MarshalInv` adds that what is left of the request is
what follows the arguments that have been read, and that those are in their buffers;
`FieldIsRead` is the one lemma about the digits of type and length.  The listener asks for as
many fields as the stub wrote because both walk the same table.

The argument for the response.  A response is cut off silently, so it is a beginning
of what should have been written.  `Begins` keeps its first field whole: the
assumption that the limit has room for an error code, without which nothing could be
read.  As far as the whole fits it grows by whole fields
(`WrittenWhole`), and what is there is not changed by what is appended
(`WrittenStays`); the stub, which counts characters, finds each field as long
as those before it have no character of two bytes (`Plain`, `FieldIsUnpacked`).

The assumptions there are about tables the compiler generates (`TableIs`: the return value is last
and OUT, a buffer has a size that two digits, or four, can tell), about texts for numbers (different
ones for different numbers, the digits one byte each) and about what callers and functions pass: values of the
type of the parameter, results that fit in their buffers.

* `EpcXmlProofs!XmlTypes`, `FunctionsFindTheArguments`, `PointerFollowsTheDocument`,
  `XmlRequestsAreServed`: `Spec => []P` for `TypeOK`, `ArgumentsAreTheDocument`,
  `PointerIsOpenArgument` and `StubRequestsAreServed` of `EpcXml`, for any table of
  functions, any arguments of their types, any texts and any markup.

The argument for documents.  A callback sees a level and counts an index along; which
event of which argument it was called for is not in its state.  `Place` says it: for
every event of the document, what level and index the callbacks then have, which
arguments are in their buffers (`Collected`), and for the argument that is open how much of
it (`Partial`: for XML in SOAP what the events so far are written back as, `Writing`).
The level inside an argument is that of its tags plus `Depth` of the events so far, so
it is at least that of an argument as long as markup is nested, and the closing tag
of the argument meets the level its opening tag left.  The index is `Pointer(f, k)`: the next parameter
that is not OUT behind argument k - 1 is argument k (`NextIs`), which is the stub's
order.  There is a lemma per kind of place and protocol (`OpeningSoap`, ...,
`ClosingStep`), each of which ends in `Onward`: another place, a process that does not know
the function, or a parser that gave up.  When the document is read
every argument has arrived, `epc__exec_call` runs the function with them, and `seen` keeps what
it was run with.  `snprintf` cuts off what does not fit, so that what was written
back is what the text was only when it fits; that it does when the whole is
the argument, which was checked by the stub, is `WritingFits`.

A text or number in pieces leaves in its buffer what the last piece is read as (`Read`),
and an argument in one piece is that piece.

The assumptions on the environment (`XmlAssumption`): arguments have the type of their parameter,
results too, texts have a size, and the parser reports nested tags up to its first error.
The last is what a parser is for; without it no level means anything.  `Digits` and
`NamePieces` divide in two or more, into anything: that the pieces of a numeral add up to it is not
needed.  The last piece of a name is no registered function (see the exceptions).

* `EpcIdlProofs!IdlTypes`, `CodeCompiles`, `TablesAgree`, `ArgumentsPlaced`,
  `ResultsPlaced`: `Spec => []P` for all five properties of `EpcIdl`, for any
  number of functions and parameters, of any types, modes and sizes.

The argument for generated code.  `CompilerInv` says that each file that has been written is
generated from the interface as it is, which does not change any more when the first
one is written.  A stub is then a function of its declaration alone, and
`ProgramIs` says what is on each of its lines: the arguments from line 2 on, `send_request`
behind them, `recv_response` on line `Base` unless the function is oneway, behind that the
results.  The table is read by other loops, with another rule for what to skip (`mode # "OUT"` instead
of the type); that both select the same parameters is `InIs` and `OutIs`, from the
uniqueness of `Ascending` and from `~HasVoid`, without which no C source is
written.  A call is then followed line by line: `Packed` is the message behind n
arguments, `HasRead` and `Remains` are variables and message behind q results, and
`Served` is what the listener did.  That a text the stub lets pass fits is the +1 of `BufferSize`
(`Accepts`), that a result fits in its variable is that `strncpy` cuts at
the declared size (`AfterIs`, `ResultsFit`).

*Only model-checked.*  Liveness and fairness (`StubsReturn`,
`SignalledListenerStops`, `RequestsAreTaken`, `CaughtSignalEndsListener`) are beyond
the prover, which knows nothing of ENABLED.  Every other property of a passing
run is a theorem; the three that expect a violation are counterexamples.

## 5. What is not modelled yet, and the plan

To be done, each with its run, its mutants and, where it says so, a proof:

1. Parts of `EPC_SRVR` that are set once per session (`register`, the connection
   info), and `empty_pipes`, on the pipes of `DbmsPipe`.
2. How a client reads a response over HTTP or TCP.  The web server that passes a
   request on to a listener is not part of the repository.

Partly modelled: `serialize` of `EPC_CLNT_OBJECT` has no caller; the response of
`EpcXml` is the sequence of its values, without the escaping of texts and
without the limit of its length; `EpcIdl` leaves out the `.pls` and `.pc` files, which
repeat others.

Not planned: the lexer, error texts, DBMS_OUTPUT and debugging, the build, and
`ansi2knr` and `replace`, which are build-time or third-party code.
