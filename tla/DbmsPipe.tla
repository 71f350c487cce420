------------------------------ MODULE DbmsPipe ------------------------------
(***************************************************************************)
(* Oracle's DBMS_PIPE package as the EPC packages use it.  It is external  *)
(* to the repository: a named pipe is a FIFO of whole messages, a sender   *)
(* waits while the pipe is full (max_pipe_size bytes, counted here in      *)
(* messages), a receiver takes the oldest message and each message is      *)
(* received once.  purge and remove_pipe both drop what the pipe holds.    *)
(***************************************************************************)
EXTENDS Naturals, Sequences

\* send_message returns 0 when the message fits, 1 when it still does not fit
\* at the end of the send timeout.
HasRoom(pipe, maxPipeSize) == Len(pipe) < maxPipeSize

\* send_message: the local buffer becomes the youngest message of the pipe.
SendMessage(pipe, m) == Append(pipe, m)

\* receive_message: the oldest message moves to the local buffer.
MessageReady(pipe) == pipe # <<>>
Received(pipe) == Head(pipe)
ReceiveMessage(pipe) == Tail(pipe)

\* purge, remove_pipe
EmptyPipe == <<>>
=============================================================================
