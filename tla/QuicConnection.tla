--------------------------- MODULE QuicConnection ---------------------------
(***************************************************************************)
(* A MsQuic connection and its streams                                     *)
(* (transport-layer/src/msquic/msquic_async/connection.rs), driven by the  *)
(* calls of MsQuicNetConnection (msquic/mod.rs): connect or accept, then   *)
(* send and receive messages, then close.                                  *)
(*                                                                         *)
(* As for streams, polls and callbacks hold the connection's mutex, polls  *)
(* leave wakers behind, callbacks drain them.  Datagrams and bidirectional *)
(* streams, which the settings do not enable, are left out.                *)
(***************************************************************************)
EXTENDS QuicStream

VARIABLE conn       \* ConnectionInnerExclusive

vars == <<conn, stream, quic, task>>

ConnectionStates == {"Open", "Connecting", "Connected", "Shutdown", "ShutdownComplete"}
ConnectionErrors == {"none", "ByTransport", "ByPeer", "ByLocal"}

TypeOK ==
    /\ StreamTypeOK
    /\ conn \in [local : BOOLEAN, state : ConnectionStates, error : ConnectionErrors,
                 certificate : BOOLEAN, inbound_uni_streams : Seq(Inbound),
                 start_waiters : SUBSET Task, certificate_waiters : SUBSET Task,
                 inbound_uni_stream_waiters : SUBSET Task, shutdown_waiters : SUBSET Task]
    /\ \A t \in Task : task[t].call \in StreamCalls <=> task[t].stream # NoStream

\* Connection::new by a client, Connection::from_raw by a listener.
Init ==
    /\ StreamInit
    /\ \E local \in BOOLEAN :
          conn = [local |-> local, state |-> IF local THEN "Open" ELSE "Connecting",
                  error |-> "none", certificate |-> FALSE, inbound_uni_streams |-> <<>>,
                  start_waiters |-> {}, certificate_waiters |-> {},
                  inbound_uni_stream_waiters |-> {}, shutdown_waiters |-> {}]

Lost == conn.state \in {"Shutdown", "ShutdownComplete"}

-----------------------------------------------------------------------------
(* Calls *)

\* A task enters a call.  A client connects, a server accepts; both go on to ask
\* for the peer's certificate.
Begin(t, call) ==
    /\ task[t].call = "idle"
    /\ call \in {"start", "accept"} =>
          /\ call = IF conn.local THEN "start" ELSE "accept"
          /\ conn.state \in {"Open", "Connecting"}
    /\ task' = [task EXCEPT ![t] = [IdleTask EXCEPT !.call = call]]
    /\ UNCHANGED <<conn, stream, quic>>

\* MsQuicNetConnection::send, on a new stream.
BeginSend(t, s) ==
    /\ task[t].call = "idle"
    /\ quic[s].phase = "none"
    /\ \A u \in Task : task[u].stream # s
    /\ task' = [task EXCEPT ![t] = [IdleTask EXCEPT !.call = "open", !.stream = s]]
    /\ UNCHANGED <<conn, stream, quic>>

WaitForConnection(t, list) ==
    /\ conn' = [conn EXCEPT ![list] = @ \cup {t}]
    /\ Sleep(t)
    /\ UNCHANGED <<stream, quic>>

ConnectionReturns(t) == Return(t) /\ UNCHANGED <<conn, stream, quic>>

\* poll_start: the first poll starts the connection, or fails to.
PollConnect(t) ==
    /\ Polls(t, "start")
    /\ \/ /\ conn.state = "Open"
          /\ conn' = [conn EXCEPT !.state = "Connecting", !.start_waiters = @ \cup {t}]
          /\ Sleep(t)
          /\ UNCHANGED <<stream, quic>>
       \/ /\ conn.state = "Connecting"
          /\ WaitForConnection(t, "start_waiters")
       \/ /\ conn.state = "Connected"
          /\ Continue(t, "certificate")
          /\ UNCHANGED <<conn, stream, quic>>
       \/ /\ Lost \/ conn.state = "Open"
          /\ ConnectionReturns(t)

PollAccept(t) ==
    /\ Polls(t, "accept")
    /\ \/ /\ conn.state \in {"Open", "Connecting"}
          /\ WaitForConnection(t, "start_waiters")
       \/ /\ conn.state = "Connected"
          /\ Continue(t, "certificate")
          /\ UNCHANGED <<conn, stream, quic>>
       \/ Lost /\ ConnectionReturns(t)

PollReceiveRemoteCertificate(t) ==
    /\ Polls(t, "certificate")
    /\ IF conn.certificate \/ Lost
       THEN ConnectionReturns(t)
       ELSE WaitForConnection(t, "certificate_waiters")

\* The future of open_outbound_stream.
PollOpenOutboundStream(t) ==
    /\ Polls(t, "open")
    /\ \/ /\ Lost \/ conn.state = "Open"
          /\ IF quic[task[t].stream].phase = "none"
             THEN Return(t) /\ UNCHANGED <<stream, quic>>
             ELSE ReturnAndClose(t)
          /\ UNCHANGED conn
       \/ /\ conn.state = "Connecting"
          /\ WaitForConnection(t, "start_waiters")
       \/ /\ conn.state = "Connected"
          /\ PollStart(t, task[t].stream)
          /\ UNCHANGED conn

\* accept_recv, and recv on the stream it returns.
PollAcceptInboundUniStream(t) ==
    /\ Polls(t, "accept_uni")
    /\ \/ /\ Lost \/ conn.state = "Open"
          /\ ConnectionReturns(t)
       \/ /\ conn.state = "Connecting"
          /\ WaitForConnection(t, "start_waiters")
       \/ /\ conn.state = "Connected"
          /\ conn.inbound_uni_streams = <<>>
          /\ WaitForConnection(t, "inbound_uni_stream_waiters")
       \/ /\ conn.state = "Connected"
          /\ conn.inbound_uni_streams # <<>>
          /\ conn' = [conn EXCEPT !.inbound_uni_streams = Tail(@)]
          /\ task' = [task EXCEPT ![t].call = "read",
                                  ![t].stream = Head(conn.inbound_uni_streams)]
          /\ UNCHANGED <<stream, quic>>

\* Connected: MsQuic is asked to shut down.
ShutDown == [conn EXCEPT !.state = "Shutdown", !.error = IF @ = "none" THEN "ByLocal" ELSE @]

PollShutdown(t) ==
    /\ Polls(t, "shutdown")
    /\ \/ /\ conn.state \in {"Open", "ShutdownComplete"}
          /\ ConnectionReturns(t)
       \/ /\ conn.state = "Connecting"
          /\ WaitForConnection(t, "start_waiters")
       \/ /\ conn.state \in {"Connected", "Shutdown"}
          /\ conn' = [(IF conn.state = "Connected" THEN ShutDown ELSE conn)
                        EXCEPT !.shutdown_waiters = @ \cup {t}]
          /\ Sleep(t)
          /\ UNCHANGED <<stream, quic>>

\* MsQuicNetConnection::close, which does not wait.
CloseConnection(t) ==
    /\ task[t].call = "idle"
    /\ conn.state = "Connected"
    /\ conn' = ShutDown
    /\ UNCHANGED <<stream, quic, task>>

-----------------------------------------------------------------------------
(* Callbacks of MsQuic on the connection *)

HandleConnected ==
    /\ conn.state = "Connecting"
    /\ conn' = [conn EXCEPT !.state = "Connected", !.start_waiters = {}]
    /\ Wake(conn.start_waiters)
    /\ UNCHANGED <<stream, quic>>

\* In the handshake, if the peer has a certificate.
HandlePeerCertificateReceived ==
    /\ conn.state = "Connecting"
    /\ conn' = [conn EXCEPT !.certificate = TRUE, !.certificate_waiters = {}]
    /\ Wake(conn.certificate_waiters)
    /\ UNCHANGED <<stream, quic>>

Waiters(lists) == UNION {conn[list] : list \in lists}

Drained(lists, c) == [f \in DOMAIN c |-> IF f \in lists THEN {} ELSE c[f]]

CallLists == {"start_waiters", "certificate_waiters", "inbound_uni_stream_waiters"}

\* By the transport or by the peer, at any time before the connection is closed:
\* also when this side has begun to close it.
HandleShutdownInitiated(by) ==
    /\ conn.state \in {"Connecting", "Connected", "Shutdown"}
    /\ conn.error \in {"none", "ByLocal"}
    /\ conn' = [Drained(CallLists, conn) EXCEPT !.state = "Shutdown", !.error = by]
    /\ Wake(Waiters(CallLists))
    /\ UNCHANGED <<stream, quic>>

\* MsQuic shuts the streams down first.
HandleConnectionShutdownComplete ==
    LET lists == CallLists \cup {"shutdown_waiters"}
    IN  /\ conn.state = "Shutdown"
        /\ \A s \in Streams : ~Alive(s)
        /\ conn' = [Drained(lists, conn) EXCEPT
                        !.state = "ShutdownComplete",
                        !.error = IF @ = "none" THEN "ByLocal" ELSE @]
        /\ Wake(Waiters(lists))
        /\ UNCHANGED <<stream, quic>>

\* The peer's message comes on a stream of its own.
HandlePeerStreamStarted(s) ==
    /\ conn.state = "Connected"
    /\ quic[s].phase = "none"
    /\ quic' = [quic EXCEPT ![s].phase = "started"]
    /\ conn' = [conn EXCEPT !.inbound_uni_streams = Append(@, s),
                            !.inbound_uni_stream_waiters = {}]
    /\ Wake(conn.inbound_uni_stream_waiters)
    /\ UNCHANGED stream

\* Callbacks on stream s.
StreamCallback(s) ==
    \/ HandleStartComplete(s, "ok", TRUE)
    \/ HandleStartComplete(s, "ok", FALSE)
    \/ HandleStartComplete(s, "limit_reached", FALSE)
    \/ Lost /\ HandleStartComplete(s, "aborted", FALSE)
    \/ HandlePeerAccepted(s)
    \/ HandleSendShutdownComplete(s, Lost)
    \/ HandlePeerReceiveAborted(s)
    \/ \E length \in 0..MessageLength, fin \in BOOLEAN : HandleReceive(s, length, fin)
    \/ HandlePeerSendShutdown(s)
    \/ HandlePeerSendAborted(s)
    \/ HandleShutdownComplete(s, Lost)

Poll(t) ==
    \/ PollConnect(t)
    \/ PollAccept(t)
    \/ PollReceiveRemoteCertificate(t)
    \/ PollOpenOutboundStream(t)
    \/ PollAcceptInboundUniStream(t)
    \/ PollShutdown(t)
    \/ (PollWrite(t) \/ PollFinishWrite(t) \/ PollRead(t)) /\ UNCHANGED conn
    \/ (ReadComplete(t) \/ EndRead(t)) /\ UNCHANGED conn

Next ==
    \/ \E t \in Task, call \in ConnectionCalls \ {"certificate"} : Begin(t, call)
    \/ \E t \in Task, s \in Outbound : BeginSend(t, s)
    \/ \E t \in Task : Poll(t) \/ CloseConnection(t)
    \/ \E t \in Task : Timeout(t) /\ UNCHANGED conn
    \/ HandleConnected
    \/ HandlePeerCertificateReceived
    \/ \E by \in {"ByTransport", "ByPeer"} : HandleShutdownInitiated(by)
    \/ HandleConnectionShutdownComplete
    \/ \E s \in Inbound : HandlePeerStreamStarted(s)
    \/ \E s \in Streams : StreamCallback(s) /\ UNCHANGED conn

Spec == Init /\ [][Next]_vars

\* The runtime polls a task that is awake; timers expire; a handshake succeeds or
\* is given up, by MsQuic's timeout of handshakes at the latest; MsQuic completes
\* the shutdown of a connection and of its streams.  Nothing obliges the peer to
\* go on with its message, or to end it: quic_settings.rs sets an idle timeout of
\* 0, which is none, and no keep-alive, so that MsQuic does not notice a peer that
\* is silent, and recv has no timeout of its own.
Fairness ==
    /\ \A t \in Task : WF_vars(Poll(t)) /\ WF_vars(Timeout(t) /\ UNCHANGED conn)
    /\ WF_vars(HandleConnected)
    /\ \A s \in Streams : WF_vars(Lost /\ HandleShutdownComplete(s, TRUE) /\ UNCHANGED conn)
    /\ WF_vars(HandleConnectionShutdownComplete)

FairSpec == Spec /\ Fairness

-----------------------------------------------------------------------------
(* Safety *)

\* What the call of t waits for has not happened.
HasToWait(t) ==
    LET s == task[t].stream
        call == task[t].call
    IN  \/ call = "certificate" /\ ~conn.certificate /\ ~Lost
        \/ conn.state = "Connecting"
           /\ call \in {"start", "accept", "accept_uni", "shutdown", "open"}
        \/ conn.state = "Connected" /\
              \/ call = "accept_uni" /\ conn.inbound_uni_streams = <<>>
              \/ call = "open" /\ stream[s].state = "Start"
              \/ call = "finish" /\ stream[s].send_state = "Shutdown"
              \/ call = "read" /\ stream[s].recv_state = "StartComplete"
                                /\ stream[s].recv_buffers = <<>>

\* t's waker is in a list that is yet to be drained.
WillBeWoken(t) ==
    LET s == task[t].stream
    IN  \/ t \in Waiters(CallLists \cup {"shutdown_waiters"})
        \/ s # NoStream /\ Alive(s)
           /\ t \in stream[s].start_waiters \cup stream[s].read_waiters
                       \cup stream[s].write_shutdown_waiters

\* No wake-up is lost: a task that sleeps has left its waker where a callback
\* will find it, and sleeps because it has to, unless the connection is being
\* shut down, which ends by waking everyone (the drain of the waiter lists in
\* every handle_event function against the push in every poll function).
NoLostWakeup ==
    \A t \in Task : ~task[t].awake =>
        /\ WillBeWoken(t)
        /\ HasToWait(t) \/ conn.state = "Shutdown"

\* read_message_from_stream takes Ok(0) for progress, so that the end of a stream
\* in the middle of a message would have it spin for ever.  Whatever the order of
\* receives, aborts and shutdowns, a peer that sends whole messages does not
\* cause that: an incomplete stream ends with an error.
NoBusyLoop ==
    \A t \in Task : task[t].call = "read" /\ AtEnd(task[t].stream) => task[t].got = MessageLength

\* MsQuic is told of every byte at most once, whether a buffer is dropped by the
\* reader or thrown away at shutdown (read_complete, handle_event_shutdown_complete).
CompletedOnce == \A s \in Streams : quic[s].completed <= stream[s].recv_len

-----------------------------------------------------------------------------
(* Liveness *)

\* The message that t reads is held up by the peer: MsQuic is ready for the next
\* receive, the connection stands, and nothing comes.
AwaitsPeer(t) ==
    LET q == quic[task[t].stream]
    IN  /\ ~Lost /\ task[t].call = "read"
        /\ q.phase = "started" /\ q.receiving = "open" /\ ~q.pending /\ ~q.fin

\* Sending a message comes to an end, once the connection is being shut down every
\* call does, and nothing but a silent peer ever holds up a reader: each receive is
\* completed, so that MsQuic indicates the next one, and each callback wakes those
\* it concerns (STREAM_OP_TIMEOUT in send, poll_read, read_complete, the waiter
\* lists drained by the shutdown events).  If the peer has vanished, the reader
\* waits until this side closes the connection.
CallsReturn ==
    \A t \in Task :
        task[t].call # "idle" /\ (Lost \/ task[t].call \in StreamCalls)
            ~> task[t].call = "idle" \/ AwaitsPeer(t)
=============================================================================
