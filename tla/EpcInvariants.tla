--------------------------- MODULE EpcInvariants ---------------------------
(***************************************************************************)
(* Strengthenings of the safety properties of EpcSystem that every step    *)
(* preserves.                                                              *)
(***************************************************************************)
EXTENDS EpcSystem

\* The sequence number that was current d calls before seq became current.
SeqBefore(seq, d) == IF seq >= d THEN seq - d ELSE seq - d + MaxMsgSeq + 1

\* The call k is of an earlier life of the package or was made in this one.
Made(k) ==
  \/ k.epoch < epoch[k.client]
  \/ k.epoch = epoch[k.client] /\ k.n <= reqNo[k.client]

\* seq is the sequence number call k was made with, as far as the session can
\* still tell: until its counter has gone round once since.
CarriesItsSeq(k, seq) ==
  k.epoch = epoch[k.client] /\ reqNo[k.client] <= k.n + MaxMsgSeq =>
    seq = SeqBefore(msgSeq[k.client], reqNo[k.client] - k.n)

\* The pipe a message names is the result pipe of the session that called.
NamesItsCaller(k, pipe) == pipe = NoPipe \/ pipe = k.client

RequestInFlight(m) ==
  Made(m.key) /\ CarriesItsSeq(m.key, m.seq) /\ NamesItsCaller(m.key, m.pipe)

CallInFlight(s) ==
  /\ Made(call[s].key)
  /\ CarriesItsSeq(call[s].key, call[s].seq)
  /\ NamesItsCaller(call[s].key, call[s].pipe)

ResponseInFlight(r, c) ==
  Made(r.key) /\ CarriesItsSeq(r.key, r.seq) /\ r.key.client = c

\* Wherever a call is on its way from its session and back, the message
\* carries the number and names the pipe its session gave it, so the session
\* can count back from its counter to it.
InFlightCarriesItsSeq ==
  /\ \A i \in 1 .. Len(requestPipe) :
       requestPipe[i].type = "REQUEST" => RequestInFlight(requestPipe[i])
  /\ \A s \in Server : proc[s] \in {"exec", "send"} => CallInFlight(s)
  /\ \A c \in Client : \A i \in 1 .. Len(resultPipe[c]) :
       ResponseInFlight(resultPipe[c][i], c)

-----------------------------------------------------------------------------
IsRequest(i) == requestPipe[i].type = "REQUEST"
Busy(s) == proc[s] \in {"exec", "send"}

\* The call k was made and its request has been packed and sent, or given up.
Spent(k) == Made(k) /\ (stage[k.client] = "built" => k # Key(k.client))

\* What is on its way or was executed had been sent.
RequestsSpent ==
  \A i \in 1 .. Len(requestPipe) : IsRequest(i) => Spent(requestPipe[i].key)
BusySpent == \A s \in Server : Busy(s) => Spent(call[s].key)
ResponsesSpent ==
  \A c \in Client : \A i \in 1 .. Len(resultPipe[c]) : Spent(resultPipe[c][i].key)
ExecutedSpent == \A k \in executed : Spent(k)

CallsAreSpent == RequestsSpent /\ BusySpent /\ ResponsesSpent /\ ExecutedSpent

\* A call is in one place at a time: in the request pipe, in the structure of
\* one listener, or in the result pipe of its session, and there once.
RequestsDiffer ==
  \A i, j \in 1 .. Len(requestPipe) :
    i # j /\ IsRequest(i) /\ IsRequest(j) => requestPipe[i].key # requestPipe[j].key
BusyDiffer ==
  \A s, t \in Server : s # t /\ Busy(s) /\ Busy(t) => call[s].key # call[t].key
ResponsesDiffer ==
  \A c \in Client : \A i, j \in 1 .. Len(resultPipe[c]) :
    i # j => resultPipe[c][i].key # resultPipe[c][j].key
BusyNotRequested ==
  \A s \in Server : \A i \in 1 .. Len(requestPipe) :
    Busy(s) /\ IsRequest(i) => call[s].key # requestPipe[i].key
RespondedNotRequested ==
  \A c \in Client : \A j \in 1 .. Len(resultPipe[c]) : \A i \in 1 .. Len(requestPipe) :
    IsRequest(i) => resultPipe[c][j].key # requestPipe[i].key
RespondedNotBusy ==
  \A c \in Client : \A j \in 1 .. Len(resultPipe[c]) : \A s \in Server :
    Busy(s) => resultPipe[c][j].key # call[s].key

CallsAreInOnePlace ==
  /\ RequestsDiffer
  /\ BusyDiffer
  /\ ResponsesDiffer
  /\ BusyNotRequested
  /\ RespondedNotRequested
  /\ RespondedNotBusy

\* Each place tells whether the function of its call was run: not in the pipe,
\* not before the listener executes, afterwards by the error code.
RequestsNotExecuted ==
  \A i \in 1 .. Len(requestPipe) : IsRequest(i) => requestPipe[i].key \notin executed
BusyKnown ==
  \A s \in Server :
    /\ proc[s] = "exec" => call[s].key \notin executed /\ call[s].error = "OK"
    /\ proc[s] = "send" => (call[s].error = "OK" <=> call[s].key \in executed)
ResponsesKnown ==
  \A c \in Client : \A i \in 1 .. Len(resultPipe[c]) :
    resultPipe[c][i].code = "OK" <=> resultPipe[c][i].key \in executed

ExecutionIsKnown == RequestsNotExecuted /\ BusyKnown /\ ResponsesKnown
-----------------------------------------------------------------------------
\* The calls whose requests wait in the pipe or are held by a listener.
OnTheWay ==
  {requestPipe[i].key : i \in {j \in 1 .. Len(requestPipe) : IsRequest(j)}}
  \cup {call[s].key : s \in {t \in Server : Busy(t)}}

\* A stub that runs has made a call and knows no outcome of it yet; the bounds.
CallsCounted ==
  \A c \in Client :
    /\ stage[c] # "idle" => outcome[c] = "none" /\ reqNo[c] > 0
    /\ reqNo[c] <= MaxRequests /\ epoch[c] <= MaxReinits

\* Only calls that were made are on the way, wait to be accepted or were
\* accepted: the first one has number 1.
CallsNumbered ==
  /\ \A k \in OnTheWay : k.n > 0
  /\ \A c \in Client : \A i \in 1 .. Len(resultPipe[c]) : resultPipe[c][i].key.n > 0
  /\ \A c \in Client : outcome[c] \in {"ok", "server_error"} =>
       answer[c].n > 0 /\ answer[c].epoch <= epoch[c]

\* A call its stub has the answer to does not reach a listener again.
Answered(c) == outcome[c] \in {"ok", "server_error"} /\ answer[c] = Key(c)
AnsweredIsOver == \A c \in Client : Answered(c) => Key(c) \notin OnTheWay

-----------------------------------------------------------------------------
\* k is an earlier call of the session of l.
Earlier(k, l) ==
  /\ k.client = l.client
  /\ k.epoch < l.epoch \/ (k.epoch = l.epoch /\ k.n < l.n)
InTurn(k, l) == k.client = l.client => Earlier(k, l)

\* With one listener what is nearer to the session was called earlier: from
\* the result pipe over the listener to the request pipe the calls of a
\* session are in the order it made them.
RequestsInTurn ==
  \A i, j \in 1 .. Len(requestPipe) :
    i < j /\ IsRequest(i) /\ IsRequest(j) => InTurn(requestPipe[i].key, requestPipe[j].key)
BusyInTurn ==
  \A s \in Server : \A i \in 1 .. Len(requestPipe) :
    Busy(s) /\ IsRequest(i) => InTurn(call[s].key, requestPipe[i].key)
ResponsesInTurn ==
  \A c \in Client : \A i, j \in 1 .. Len(resultPipe[c]) :
    i < j => InTurn(resultPipe[c][i].key, resultPipe[c][j].key)
RespondedBeforeRequested ==
  \A c \in Client : \A j \in 1 .. Len(resultPipe[c]) : \A i \in 1 .. Len(requestPipe) :
    IsRequest(i) => InTurn(resultPipe[c][j].key, requestPipe[i].key)
RespondedBeforeBusy ==
  \A c \in Client : \A j \in 1 .. Len(resultPipe[c]) : \A s \in Server :
    Busy(s) => InTurn(resultPipe[c][j].key, call[s].key)

CallsAreInTurn ==
  /\ RequestsInTurn
  /\ BusyInTurn
  /\ ResponsesInTurn
  /\ RespondedBeforeRequested
  /\ RespondedBeforeBusy

\* Nothing of a session that has the answer to its last call is on the way.
AnsweredIsAlone ==
  \A c \in Client : Answered(c) =>
    resultPipe[c] = <<>> /\ \A k \in OnTheWay : k.client # c
=============================================================================
