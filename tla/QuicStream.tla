----------------------------- MODULE QuicStream -----------------------------
(***************************************************************************)
(* Unidirectional streams of a MsQuic connection                           *)
(* (transport-layer/src/msquic/msquic_async/stream.rs, buffer.rs), and the *)
(* calls that send and receive one message over one (msquic/mod.rs).       *)
(*                                                                         *)
(* Tasks poll a stream; callbacks of MsQuic's threads change it.  Each     *)
(* holds the stream's mutex while it runs.  A poll that cannot return      *)
(* leaves a waker in one of the stream's lists and puts its task to sleep; *)
(* callbacks drain the lists.  MsQuic itself is external: `quic` is what   *)
(* the code relies on it to remember.                                      *)
(***************************************************************************)
EXTENDS Integers, Sequences, FiniteSets, SequencesExt

CONSTANTS
    Task,           \* the tasks of the runtime
    Outbound,       \* streams opened here, to be written
    Inbound,        \* streams opened by the peer, to be read
    HeaderLength,   \* bytes of a message's length prefix
    PayloadLength,  \* bytes of a message
    DrainLength     \* size of the buffer that drains a stream

ASSUME LengthAssumption ==
    /\ HeaderLength \in Nat \ {0}
    /\ PayloadLength \in Nat \ {0}
    /\ DrainLength \in Nat \ {0}

VARIABLES
    stream,     \* StreamInnerExclusive of every stream
    quic,       \* MsQuic's side of every stream
    task        \* what every task is doing

streamVars == <<stream, quic, task>>

Streams == Outbound \cup Inbound
MessageLength == HeaderLength + PayloadLength
NoStream == "none"

ASSUME StreamAssumption == Outbound \cap Inbound = {} /\ NoStream \notin Streams

StreamStates == {"Open", "Start", "StartComplete", "ShutdownComplete"}
HalfStates == {"Closed", "Start", "StartComplete", "Shutdown", "ShutdownComplete"}
StartStatuses == {"none", "ok", "limit_reached", "aborted"}

RecvBuffers ==
    [offset : 0..MessageLength, len : 0..MessageLength, read : 0..MessageLength, fin : BOOLEAN]

\* Calls that a task may be inside of.
StreamCalls == {"open", "write", "finish", "read", "read_done"}
ConnectionCalls == {"start", "accept", "certificate", "accept_uni", "shutdown"}

StreamTypeOK ==
    /\ stream \in [Streams ->
          [state : StreamStates, start_status : StartStatuses,
           recv_state : HalfStates, send_state : HalfStates,
           conn_error : BOOLEAN, recv_error : BOOLEAN, send_error : BOOLEAN,
           recv_buffers : Seq(RecvBuffers), recv_len : 0..MessageLength,
           read_complete_map : SUBSET (0..MessageLength - 1),
           read_complete_cursor : 0..MessageLength,
           start_waiters : SUBSET Task, read_waiters : SUBSET Task,
           write_shutdown_waiters : SUBSET Task]]
    /\ quic \in [Streams ->
          [phase : {"none", "open", "starting", "blocked", "started", "failed", "down", "closed"},
           sending : {"open", "shutdown", "done"},
           pending : BOOLEAN, fin : BOOLEAN, completed : 0..MessageLength,
           receiving : {"open", "done"}]]
    /\ task \in [Task ->
          [call : {"idle"} \cup StreamCalls \cup ConnectionCalls,
           stream : Streams \cup {NoStream}, awake : BOOLEAN,
           got : 0..MessageLength, dropping : Seq(RecvBuffers)]]

\* Stream::open and Stream::from_raw: a stream of the peer needs no start.
NewStream(s) ==
    [state |-> "Open", start_status |-> "none",
     recv_state |-> IF s \in Inbound THEN "StartComplete" ELSE "Closed",
     send_state |-> "Closed",
     conn_error |-> FALSE, recv_error |-> FALSE, send_error |-> FALSE,
     recv_buffers |-> <<>>, recv_len |-> 0,
     read_complete_map |-> {}, read_complete_cursor |-> 0,
     start_waiters |-> {}, read_waiters |-> {}, write_shutdown_waiters |-> {}]

NewQuic(phase) ==
    [phase |-> phase, sending |-> "open", pending |-> FALSE, fin |-> FALSE, completed |-> 0,
     receiving |-> "open"]

IdleTask == [call |-> "idle", stream |-> NoStream, awake |-> TRUE, got |-> 0, dropping |-> <<>>]

StreamInit ==
    /\ stream = [s \in Streams |-> NewStream(s)]
    /\ quic = [s \in Streams |-> NewQuic("none")]
    /\ task = [t \in Task |-> IdleTask]

-----------------------------------------------------------------------------
(* Tasks *)

\* Waking a task that is not asleep, or that has given up the call its waker
\* was left for, makes it poll once more at most.
Wake(waiters) ==
    task' = [t \in Task |-> IF t \in waiters THEN [task[t] EXCEPT !.awake = TRUE] ELSE task[t]]

\* The call t is inside of is polled.
Polls(t, call) == task[t].call = call /\ task[t].awake /\ task[t].dropping = <<>>

Sleep(t) == task' = [task EXCEPT ![t].awake = FALSE]
Return(t) == task' = [task EXCEPT ![t] = IdleTask]
Continue(t, call) == task' = [task EXCEPT ![t].call = call]

\* The stream goes with its last owner, and its handle is closed: no more
\* callbacks.  What it held is of no consequence.
Close(s) ==
    /\ stream' = [stream EXCEPT ![s] = NewStream(s)]
    /\ quic' = [quic EXCEPT ![s] = NewQuic("closed")]

\* The call is over, and the stream is dropped.
ReturnAndClose(t) == Return(t) /\ Close(task[t].stream)

-----------------------------------------------------------------------------
(* Sending: poll_start, poll_write, poll_finish_write *)

\* A poll that leaves a waker in the list of stream s and returns Pending.
WaitIn(t, s, list) ==
    /\ stream' = [stream EXCEPT ![s][list] = @ \cup {t}]
    /\ Sleep(t)

\* The first poll starts the stream, which MsQuic may refuse at once.  While the
\* start is not complete a poll goes back to sleep, for whatever reason it was
\* woken; afterwards it reports the status of the start.
PollStart(t, s) ==
    \/ /\ stream[s].state = "Open"
       /\ stream' = [stream EXCEPT ![s].state = "Start", ![s].send_state = "Start",
                                   ![s].start_waiters = @ \cup {t}]
       /\ quic' = [quic EXCEPT ![s].phase = "starting"]
       /\ Sleep(t)
    \/ /\ stream[s].state = "Open"
       /\ ReturnAndClose(t)
    \/ /\ stream[s].state = "Start"
       /\ WaitIn(t, s, "start_waiters")
       /\ UNCHANGED quic
    \/ /\ stream[s].state \in {"StartComplete", "ShutdownComplete"}
       /\ stream[s].start_status \in {"none", "ok"}
       /\ Continue(t, "write")
       /\ UNCHANGED <<stream, quic>>
    \/ /\ stream[s].state \in {"StartComplete", "ShutdownComplete"}
       /\ stream[s].start_status \notin {"none", "ok"}
       /\ ReturnAndClose(t)

\* Writing never waits once the stream has started: MsQuic takes the whole
\* buffer, or refuses it.
PollWrite(t) ==
    LET s == task[t].stream
    IN  /\ Polls(t, "write")
        /\ \/ /\ stream[s].send_state = "Start"
              /\ WaitIn(t, s, "start_waiters")
              /\ UNCHANGED quic
           \/ /\ stream[s].send_state = "StartComplete"
              /\ Continue(t, "finish")
              /\ UNCHANGED <<stream, quic>>
           \/ /\ stream[s].send_state # "Start"
              /\ ReturnAndClose(t)

PollFinishWrite(t) ==
    LET s == task[t].stream
    IN  /\ Polls(t, "finish")
        /\ \/ /\ stream[s].send_state = "Start"
              /\ WaitIn(t, s, "start_waiters")
              /\ UNCHANGED quic
           \/ /\ stream[s].send_state = "StartComplete"
              /\ stream' = [stream EXCEPT ![s].send_state = "Shutdown",
                                          ![s].write_shutdown_waiters = @ \cup {t}]
              /\ quic' = [quic EXCEPT ![s].sending = "shutdown"]
              /\ Sleep(t)
           \/ /\ stream[s].send_state = "Shutdown"
              /\ WaitIn(t, s, "write_shutdown_waiters")
              /\ UNCHANGED quic
           \/ /\ stream[s].send_state \in {"Closed", "StartComplete", "ShutdownComplete"}
              /\ ReturnAndClose(t)

\* tokio::time::timeout around opening, writing and closing a stream.  The waker
\* stays where it is.
Timeout(t) ==
    /\ task[t].call \in {"open", "write", "finish"}
    /\ ~task[t].awake
    /\ Return(t)
    /\ IF quic[task[t].stream].phase = "none"
       THEN UNCHANGED <<stream, quic>>
       ELSE Close(task[t].stream)

-----------------------------------------------------------------------------
(* Receiving: poll_read, read_complete, read_message_from_stream *)

Unread(buffers) == FoldLeft(LAMBDA n, b : n + b.len - b.read, 0, buffers)

\* Faulty variant: the bytes that were taken are not marked as read.
ReadUpToAgain(buffers, size) ==
    LET popped == Cardinality({k \in 1..Len(buffers) : Unread(SubSeq(buffers, 1, k)) < size})
        rest == SubSeq(buffers, popped + 1, Len(buffers))
    IN  [read |-> IF rest = <<>> THEN Unread(buffers) ELSE size,
         rest |-> rest,
         dropped |-> SubSeq(buffers, 1, popped),
         fin |-> rest = <<>> /\ popped > 0 /\ buffers[popped].fin]

\* The read_fn of poll_read on a buffer of `size` bytes.  A receive buffer is
\* popped when more is wanted than it holds: one that is used up exactly stays.
ReadUpTo(buffers, size) ==
    LET popped == Cardinality({k \in 1..Len(buffers) : Unread(SubSeq(buffers, 1, k)) < size})
        rest == SubSeq(buffers, popped + 1, Len(buffers))
        taken == size - Unread(SubSeq(buffers, 1, popped))
    IN  [read |-> IF rest = <<>> THEN Unread(buffers) ELSE size,
         rest |-> IF rest = <<>> THEN <<>> ELSE [rest EXCEPT ![1].read = @ + taken],
         dropped |-> SubSeq(buffers, 1, popped),
         fin |-> rest = <<>> /\ popped > 0 /\ buffers[popped].fin]

\* read_message_from_stream: the header, the payload, then until the end.
Wanted(got) ==
    CASE got < HeaderLength -> HeaderLength - got
      [] got >= HeaderLength /\ got < MessageLength -> MessageLength - got
      [] OTHER -> DrainLength

\* Reads return Ok(0) for ever.
AtEnd(s) ==
    \/ stream[s].recv_state = "Shutdown"
    \/ /\ stream[s].recv_state = "ShutdownComplete"
       /\ ~stream[s].conn_error
       /\ ~stream[s].recv_error

ReadFails(s) ==
    \/ stream[s].recv_state = "Closed"
    \/ stream[s].recv_state = "ShutdownComplete" /\ ~AtEnd(s)

\* One read of the loop.  The buffers that are popped are dropped when the poll
\* is over and the mutex released, in steps of their own (ReadComplete).  At the
\* end of the stream the loop ends if the message is complete, and spins if not.
PollRead(t) ==
    LET s == task[t].stream
        got == task[t].got
        r == ReadUpTo(stream[s].recv_buffers, Wanted(got))
        ended == r.fin /\ r.read = 0 /\ got = MessageLength
    IN  /\ Polls(t, "read")
        /\ \/ /\ ReadFails(s) \/ (AtEnd(s) /\ got = MessageLength)
              /\ ReturnAndClose(t)
           \/ /\ stream[s].recv_state = "Start"
              /\ WaitIn(t, s, "start_waiters")
              /\ UNCHANGED quic
           \/ /\ stream[s].recv_state = "StartComplete"
              /\ r.read > 0 \/ r.fin
              /\ stream' = [stream EXCEPT ![s].recv_buffers = r.rest,
                                          ![s].recv_state = IF r.fin THEN "Shutdown" ELSE @]
              /\ task' = [task EXCEPT ![t].got = @ + r.read, ![t].dropping = r.dropped,
                                      ![t].call = IF ended THEN "read_done" ELSE @]
              /\ UNCHANGED quic
           \/ /\ stream[s].recv_state = "StartComplete"
              /\ r.read = 0 /\ ~r.fin
              /\ stream' = [stream EXCEPT ![s].recv_buffers = <<>>,
                                          ![s].read_waiters = @ \cup {t}]
              /\ task' = [task EXCEPT ![t].awake = FALSE, ![t].dropping = r.dropped]
              /\ UNCHANGED quic

\* The end of the range of completely read bytes that starts at 0.
CompletePrefix(map) == CHOOSE n \in 0..MessageLength : 0..n - 1 \subseteq map /\ n \notin map

\* Faulty variant: the cursor is left where it was.
ReadCompleteKeepingCursor(t) ==
    LET s == task[t].stream
        b == Head(task[t].dropping)
        map == stream[s].read_complete_map \cup (b.offset..b.offset + b.len - 1)
        end == CompletePrefix(map)
    IN  /\ task[t].dropping # <<>>
        /\ stream' = [stream EXCEPT ![s].read_complete_map = map]
        /\ quic' = [quic EXCEPT ![s].pending = FALSE,
                                ![s].completed = @ + end - stream[s].read_complete_cursor]
        /\ task' = [task EXCEPT ![t].dropping = Tail(@)]

\* Faulty variant: MsQuic hears of a receive only when the message is complete.
ReadCompleteAtLast(t) ==
    LET s == task[t].stream
        b == Head(task[t].dropping)
        map == stream[s].read_complete_map \cup (b.offset..b.offset + b.len - 1)
        end == CompletePrefix(map)
    IN  /\ task[t].dropping # <<>>
        /\ stream' = [stream EXCEPT ![s].read_complete_map = map,
                                    ![s].read_complete_cursor = end]
        /\ IF end = MessageLength
           THEN quic' = [quic EXCEPT ![s].pending = FALSE, ![s].completed = end]
           ELSE UNCHANGED quic
        /\ task' = [task EXCEPT ![t].dropping = Tail(@)]

\* Drop of a StreamRecvBuffer: MsQuic is told how far the stream has been read,
\* without a gap; an empty buffer with the FIN completes no bytes.
ReadComplete(t) ==
    LET s == task[t].stream
        b == Head(task[t].dropping)
        map == stream[s].read_complete_map \cup (b.offset..b.offset + b.len - 1)
        cursor == stream[s].read_complete_cursor
        end == CompletePrefix(map)
        emptyFin == b.fin /\ (map = {} \/ (end > 0 /\ cursor = end /\ b.offset = end))
    IN  /\ task[t].dropping # <<>>
        /\ stream' = [stream EXCEPT ![s].read_complete_map = map,
                                    ![s].read_complete_cursor = IF cursor < end THEN end ELSE @]
        /\ IF cursor < end \/ emptyFin
           THEN quic' = [quic EXCEPT ![s].pending = FALSE,
                                     ![s].completed = @ + end - cursor]
           ELSE UNCHANGED quic
        /\ task' = [task EXCEPT ![t].dropping = Tail(@)]

\* The message is complete and the last buffers are dropped: recv returns.
EndRead(t) ==
    /\ Polls(t, "read_done")
    /\ ReturnAndClose(t)

-----------------------------------------------------------------------------
(* Callbacks of MsQuic on a stream *)

\* MsQuic still has callbacks for s.
Alive(s) == quic[s].phase \in {"starting", "blocked", "started", "failed"}

\* The start succeeds and the peer accepts the stream, or its limit of streams
\* holds it up; or the start fails, which MsQuic follows by a shutdown
\* (SHUTDOWN_ON_FAIL).  A failure other than the limit wakes nobody yet.
HandleStartComplete(s, status, peer_accepted) ==
    /\ quic[s].phase = "starting"
    /\ peer_accepted => status = "ok"
    /\ stream' =
          [stream EXCEPT
              ![s].start_status = status,
              ![s].state = IF peer_accepted THEN "StartComplete" ELSE @,
              ![s].send_state = IF peer_accepted THEN "StartComplete" ELSE @,
              ![s].start_waiters = IF peer_accepted \/ status = "limit_reached" THEN {} ELSE @]
    /\ Wake(IF peer_accepted \/ status = "limit_reached" THEN stream[s].start_waiters ELSE {})
    /\ quic' = [quic EXCEPT ![s].phase = CASE peer_accepted -> "started"
                                            [] status = "ok" /\ ~peer_accepted -> "blocked"
                                            [] OTHER -> "failed"]

HandlePeerAccepted(s) ==
    /\ quic[s].phase = "blocked"
    /\ stream' = [stream EXCEPT ![s].state = "StartComplete", ![s].send_state = "StartComplete",
                                ![s].start_waiters = {}]
    /\ Wake(stream[s].start_waiters)
    /\ quic' = [quic EXCEPT ![s].phase = "started"]

\* Everything has been acknowledged, or the connection closes (the handler does
\* not tell them apart).
HandleSendShutdownComplete(s, closing) ==
    /\ s \in Outbound
    /\ quic[s].phase = "started"
    /\ quic[s].sending = "shutdown" \/ (closing /\ quic[s].sending = "open")
    /\ stream' = [stream EXCEPT ![s].send_state = "ShutdownComplete",
                                ![s].write_shutdown_waiters = {}]
    /\ Wake(stream[s].write_shutdown_waiters)
    /\ quic' = [quic EXCEPT ![s].sending = "done"]

HandlePeerReceiveAborted(s) ==
    /\ s \in Outbound
    /\ quic[s].phase = "started"
    /\ quic[s].sending # "done"
    /\ stream' = [stream EXCEPT ![s].send_state = "ShutdownComplete", ![s].send_error = TRUE,
                                ![s].write_shutdown_waiters = {}]
    /\ Wake(stream[s].write_shutdown_waiters)
    /\ UNCHANGED quic

\* Faulty variant: the readers are not woken.
ReceiveSilently(s, length, fin) ==
    /\ s \in Inbound
    /\ quic[s].phase = "started" /\ quic[s].receiving = "open"
    /\ ~quic[s].pending /\ ~quic[s].fin
    /\ length > 0 \/ fin
    /\ stream[s].recv_len + length <= MessageLength
    /\ fin => stream[s].recv_len + length = MessageLength
    /\ stream' =
          [stream EXCEPT
              ![s].recv_len = @ + length,
              ![s].recv_buffers = Append(@, [offset |-> stream[s].recv_len, len |-> length,
                                             read |-> 0, fin |-> fin])]
    /\ UNCHANGED task
    /\ quic' = [quic EXCEPT ![s].pending = TRUE, ![s].fin = fin]

\* The next bytes of the peer's message.  The handler answers PENDING, and MsQuic
\* indicates nothing more until the receive is completed: multi-receive mode is
\* not enabled (quic_settings.rs).
HandleReceive(s, length, fin) ==
    /\ s \in Inbound
    /\ quic[s].phase = "started" /\ quic[s].receiving = "open"
    /\ ~quic[s].pending /\ ~quic[s].fin
    /\ length > 0 \/ fin
    /\ stream[s].recv_len + length <= MessageLength
    /\ fin => stream[s].recv_len + length = MessageLength
    /\ stream' =
          [stream EXCEPT
              ![s].recv_len = @ + length,
              ![s].recv_buffers = Append(@, [offset |-> stream[s].recv_len, len |-> length,
                                             read |-> 0, fin |-> fin]),
              ![s].read_waiters = {}]
    /\ Wake(stream[s].read_waiters)
    /\ quic' = [quic EXCEPT ![s].pending = TRUE, ![s].fin = fin]

\* The peer's FIN has been received, and completed.
HandlePeerSendShutdown(s) ==
    /\ quic[s].phase = "started" /\ quic[s].receiving = "open"
    /\ quic[s].fin /\ ~quic[s].pending
    /\ stream' = [stream EXCEPT ![s].recv_state = "ShutdownComplete", ![s].read_waiters = {}]
    /\ Wake(stream[s].read_waiters)
    /\ quic' = [quic EXCEPT ![s].receiving = "done"]

\* The peer drops its stream before everything is acknowledged.
HandlePeerSendAborted(s) ==
    /\ s \in Inbound
    /\ quic[s].phase = "started" /\ quic[s].receiving = "open"
    /\ stream' = [stream EXCEPT ![s].recv_state = "ShutdownComplete", ![s].recv_error = TRUE,
                                ![s].read_waiters = {}]
    /\ Wake(stream[s].read_waiters)
    /\ quic' = [quic EXCEPT ![s].receiving = "done"]

\* MsQuic is done with the stream.
MayShutDown(s, closing) ==
    /\ Alive(s)
    /\ \/ closing
       \/ quic[s].phase = "failed"
       \/ s \in Outbound /\ quic[s].sending = "done"
       \/ s \in Inbound /\ quic[s].receiving = "done"

\* Faulty variant: the loss of the connection is not recorded.
ShutdownCompleteWithoutError(s, closing) ==
    LET old == stream[s]
    IN  /\ MayShutDown(s, closing)
        /\ stream' =
              [stream EXCEPT
                  ![s].state = "ShutdownComplete", ![s].recv_state = "ShutdownComplete",
                  ![s].send_state = "ShutdownComplete", ![s].recv_buffers = <<>>,
                  ![s].start_waiters = {}, ![s].read_waiters = {},
                  ![s].write_shutdown_waiters = {}]
        /\ Wake(old.start_waiters \cup old.read_waiters \cup old.write_shutdown_waiters)
        /\ quic' = [quic EXCEPT ![s].phase = "down"]

\* What is left unread is completed and thrown away.
HandleShutdownComplete(s, closing) ==
    LET old == stream[s]
    IN  /\ MayShutDown(s, closing)
        /\ stream' =
              [stream EXCEPT
                  ![s].state = "ShutdownComplete", ![s].recv_state = "ShutdownComplete",
                  ![s].send_state = "ShutdownComplete", ![s].recv_buffers = <<>>,
                  ![s].conn_error = closing,
                  ![s].start_waiters = {}, ![s].read_waiters = {},
                  ![s].write_shutdown_waiters = {}]
        /\ Wake(old.start_waiters \cup old.read_waiters \cup old.write_shutdown_waiters)
        /\ quic' = [quic EXCEPT
                        ![s].phase = "down",
                        ![s].completed = IF old.recv_buffers = <<>> THEN @
                                         ELSE @ + old.recv_len - old.read_complete_cursor]

=============================================================================
