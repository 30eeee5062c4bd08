------------------------ MODULE QuicConnectionProofs ------------------------
(***************************************************************************)
(* Proofs about a MsQuic connection and its streams (QuicConnection.tla,   *)
(* QuicStream.tla), for any number of tasks and streams and any length of  *)
(* messages.  First the wakers: no wake-up is lost.  Then the bytes: types *)
(* are kept, a reader never spins, and no byte is completed twice.         *)
(***************************************************************************)
EXTENDS QuicConnection, FiniteSetTheorems, SequenceTheorems, TLAPS

-----------------------------------------------------------------------------
(* The inductive invariant *)

\* The records have their fields.
Shape ==
    /\ DOMAIN stream = Streams /\ \A s \in Streams : DOMAIN stream[s] = DOMAIN NewStream(s)
    /\ DOMAIN quic = Streams /\ \A s \in Streams : DOMAIN quic[s] = DOMAIN NewQuic("none")
    /\ DOMAIN task = Task /\ \A t \in Task : DOMAIN task[t] = DOMAIN IdleTask
    /\ DOMAIN conn = {"local", "state", "error", "certificate", "inbound_uni_streams",
                      "start_waiters", "certificate_waiters", "inbound_uni_stream_waiters",
                      "shutdown_waiters"}
    /\ conn.state \in ConnectionStates
    /\ conn.inbound_uni_streams \in Seq(Inbound)

Underway == conn.state \notin {"Open", "Connecting"}

\* How far a stream has come, and what MsQuic still has to report about it.
StreamSound(s) ==
    /\ stream[s].send_state = "Start" <=> stream[s].state = "Start"
    /\ stream[s].recv_state # "Start"
    /\ stream[s].state = "Start" => quic[s].phase \in {"starting", "blocked", "failed"}
    /\ stream[s].send_state \in {"StartComplete", "Shutdown"} => quic[s].phase = "started"
    /\ quic[s].phase = "started" /\ s \in Outbound => stream[s].state = "StartComplete"
    /\ quic[s].phase = "down" => /\ stream[s].state = "ShutdownComplete"
                                 /\ stream[s].recv_state = "ShutdownComplete"
                                 /\ stream[s].send_state = "ShutdownComplete"
    /\ Alive(s) => conn.state # "ShutdownComplete"

\* A task is inside a call on a stream of the right kind, in a state it can be in.
TaskSound(t) ==
    LET s == task[t].stream
        call == task[t].call
    IN  /\ call \in {"open", "write", "finish"} => s \in Outbound
        /\ call \in {"read", "read_done"} =>
              s \in Inbound /\ quic[s].phase \in {"started", "down"} /\ Underway
        /\ call \notin StreamCalls => s = NoStream
        /\ call \in {"write", "finish"} =>
              stream[s].state \in {"StartComplete", "ShutdownComplete"} /\ Underway
        /\ call = "accept" => ~conn.local
        /\ task[t].dropping # <<>> => call \in {"read", "read_done"}

\* A stream belongs to one task, or waits in the connection's queue.
Owned ==
    /\ \A t, u \in Task : t # u /\ task[t].stream = task[u].stream => task[t].stream = NoStream
    /\ \A i \in DOMAIN conn.inbound_uni_streams :
          /\ quic[conn.inbound_uni_streams[i]].phase \in {"started", "down"}
          /\ \A t \in Task : task[t].stream # conn.inbound_uni_streams[i]
          /\ \A j \in DOMAIN conn.inbound_uni_streams :
                i # j => conn.inbound_uni_streams[i] # conn.inbound_uni_streams[j]

\* Where the waker of a sleeping task is, and what it waits for.
SleepsOnConnection(t) ==
    \/ /\ task[t].call \in {"start", "accept", "accept_uni", "shutdown", "open"}
       /\ conn.state = "Connecting" /\ t \in conn.start_waiters
    \/ /\ task[t].call = "certificate" /\ ~conn.certificate
       /\ conn.state # "ShutdownComplete" /\ t \in conn.certificate_waiters
    \/ /\ task[t].call = "accept_uni" /\ t \in conn.inbound_uni_stream_waiters
       /\ conn.state = "Shutdown" \/ (conn.state = "Connected" /\ conn.inbound_uni_streams = <<>>)
    \/ task[t].call = "shutdown" /\ conn.state = "Shutdown" /\ t \in conn.shutdown_waiters

SleepsOnStream(t) ==
    LET s == task[t].stream
    IN  /\ s \in Streams /\ Alive(s) /\ Underway
        /\ \/ /\ task[t].call = "open" /\ stream[s].state = "Start"
              /\ t \in stream[s].start_waiters
           \/ /\ task[t].call = "finish" /\ stream[s].send_state = "Shutdown"
              /\ t \in stream[s].write_shutdown_waiters
           \/ /\ task[t].call = "read" /\ stream[s].recv_state = "StartComplete"
              /\ stream[s].recv_buffers = <<>> /\ t \in stream[s].read_waiters

SleepSound(t) == ~task[t].awake => SleepsOnConnection(t) \/ SleepsOnStream(t)

WakeInv ==
    /\ Shape
    /\ conn.state = "Open" => conn.local
    /\ \A s \in Streams : StreamSound(s)
    /\ \A t \in Task : TaskSound(t)
    /\ Owned
    /\ \A t \in Task : SleepSound(t)

-----------------------------------------------------------------------------
(* What the invariant is for *)

\* With the invariant, a sleeping task has left its waker and has to wait.
LEMMA SleepersWait == WakeInv => NoLostWakeup
<1> SUFFICES ASSUME WakeInv, NEW t \in Task, ~task[t].awake
             PROVE  WillBeWoken(t) /\ (HasToWait(t) \/ conn.state = "Shutdown")
  BY DEF NoLostWakeup
<1>1. CASE SleepsOnConnection(t)
  <2>1. WillBeWoken(t)
    BY <1>1 DEF SleepsOnConnection, WillBeWoken, Waiters, CallLists
  <2>2. HasToWait(t) \/ conn.state = "Shutdown"
    BY <1>1 DEF SleepsOnConnection, HasToWait, Lost
  <2> QED
    BY <2>1, <2>2
<1>2. CASE SleepsOnStream(t)
  <2>1. task[t].stream \in Streams /\ Alive(task[t].stream) /\ task[t].stream # NoStream
    BY <1>2, StreamAssumption DEF SleepsOnStream, StreamAssumption
  <2>2. conn.state \in {"Connected", "Shutdown"}
    BY <1>2, <2>1 DEF SleepsOnStream, Underway, WakeInv, Shape, ConnectionStates, StreamSound
  <2>3. WillBeWoken(t)
    BY <1>2, <2>1 DEF SleepsOnStream, WillBeWoken
  <2>4. HasToWait(t) \/ conn.state = "Shutdown"
    BY <1>2, <2>2 DEF SleepsOnStream, HasToWait
  <2> QED
    BY <2>3, <2>4
<1> QED
  BY <1>1, <1>2 DEF WakeInv, SleepSound

-----------------------------------------------------------------------------
(* Tasks *)

\* What waking does to the tasks.
Woken(W) ==
    /\ DOMAIN task' = Task
    /\ \A t \in Task :
        /\ t \in W => task'[t].awake
        /\ t \notin W => task'[t] = task[t]
        /\ task'[t].call = task[t].call /\ task'[t].stream = task[t].stream
        /\ task'[t].dropping = task[t].dropping /\ task'[t].got = task[t].got
        /\ DOMAIN task'[t] = DOMAIN IdleTask

\* Wake changes nothing but which tasks are awake.
LEMMA WakeWakes ==
    ASSUME Shape, NEW W, Wake(W)
    PROVE  Woken(W)
BY DEF Shape, Wake, Woken, IdleTask

\* A step of task t alone.
Moves(t) ==
    /\ DOMAIN task' = Task /\ DOMAIN task'[t] = DOMAIN IdleTask
    /\ \A u \in Task \ {t} : task'[u] = task[u]

\* A task goes to sleep.
LEMMA Sleeps ==
    ASSUME Shape, NEW t \in Task, Sleep(t)
    PROVE  /\ Moves(t)
           /\ task'[t].awake = FALSE /\ task'[t].call = task[t].call
           /\ task'[t].stream = task[t].stream /\ task'[t].dropping = task[t].dropping
           /\ task'[t].got = task[t].got
<1>1. task'[t] = [task[t] EXCEPT !.awake = FALSE]
  BY DEF Shape, Sleep
<1>2. Moves(t)
  BY <1>1 DEF Shape, Sleep, Moves
<1>3. "awake" \in DOMAIN task[t]
  BY DEF Shape, IdleTask
<1> QED
  BY <1>1, <1>2, <1>3

\* A call returns.
LEMMA Returns ==
    ASSUME Shape, NEW t \in Task, Return(t)
    PROVE  /\ Moves(t)
           /\ task'[t].awake = TRUE /\ task'[t].call = "idle" /\ task'[t].stream = NoStream
           /\ task'[t].dropping = <<>> /\ task'[t].got = 0
<1>1. task'[t] = IdleTask /\ Moves(t)
  BY DEF Shape, Return, Moves
<1> QED
  BY <1>1 DEF IdleTask

\* A task goes on with another call.
LEMMA Continues ==
    ASSUME Shape, NEW t \in Task, NEW call, Continue(t, call)
    PROVE  /\ Moves(t)
           /\ task'[t].awake = task[t].awake /\ task'[t].call = call
           /\ task'[t].stream = task[t].stream /\ task'[t].dropping = task[t].dropping
           /\ task'[t].got = task[t].got
<1>1. task'[t] = [task[t] EXCEPT !.call = call]
  BY DEF Shape, Continue
<1>2. Moves(t)
  BY <1>1 DEF Shape, Continue, Moves
<1>3. "call" \in DOMAIN task[t]
  BY DEF Shape, IdleTask
<1> QED
  BY <1>1, <1>2, <1>3

\* An idle task is sound.
LEMMA IdleSound ==
    ASSUME NEW t \in Task, task'[t].awake = TRUE, task'[t].call = "idle", task'[t].stream = NoStream,
           task'[t].dropping = <<>>
    PROVE  TaskSound(t)' /\ SleepSound(t)'
BY DEF TaskSound, SleepSound, StreamCalls

-----------------------------------------------------------------------------
(* Polls *)

\* A connection's state goes on, and its lists grow.
ConnGrows ==
    /\ DOMAIN conn' = DOMAIN conn
    /\ conn'.local = conn.local /\ conn'.certificate = conn.certificate
    /\ conn'.inbound_uni_streams = conn.inbound_uni_streams
    /\ \/ conn'.state = conn.state
       \/ conn.state = "Open" /\ conn'.state = "Connecting"
       \/ conn.state = "Connected" /\ conn'.state = "Shutdown"
    /\ conn.start_waiters \subseteq conn'.start_waiters
    /\ conn.certificate_waiters \subseteq conn'.certificate_waiters
    /\ conn.inbound_uni_stream_waiters \subseteq conn'.inbound_uni_stream_waiters
    /\ conn.shutdown_waiters \subseteq conn'.shutdown_waiters

\* A poll of the connection, or the beginning of a call, by task t: the other
\* tasks have what they had.
LEMMA ConnectionPoll ==
    ASSUME WakeInv, NEW t \in Task, ConnGrows, UNCHANGED <<stream, quic>>, Moves(t),
           \/ task'[t].stream \in {NoStream, task[t].stream}
           \/ /\ \A u \in Task : task[u].stream # task'[t].stream
              /\ \A i \in DOMAIN conn.inbound_uni_streams : conn.inbound_uni_streams[i] # task'[t].stream,
           TaskSound(t)', SleepSound(t)'
    PROVE  WakeInv'
<1>0. Shape /\ Owned /\ \A u \in Task : TaskSound(u) /\ SleepSound(u)
  BY DEF WakeInv
<1>1. Shape' /\ (conn.state = "Open" => conn.local)'
  <2>1. conn'.state \in ConnectionStates
    BY <1>0 DEF Shape, ConnGrows, ConnectionStates
  <2>2. DOMAIN task' = Task /\ \A u \in Task : DOMAIN task'[u] = DOMAIN IdleTask
    BY <1>0 DEF Shape, Moves
  <2>3. conn'.state = "Open" => conn'.local
    BY DEF ConnGrows, WakeInv
  <2> QED
    BY <1>0, <2>1, <2>2, <2>3 DEF Shape, ConnGrows, NewStream, NewQuic, IdleTask
<1>2. \A s \in Streams : StreamSound(s)'
  <2> TAKE s \in Streams
  <2>1. StreamSound(s)
    BY DEF WakeInv
  <2> QED
    BY <2>1 DEF StreamSound, Alive, ConnGrows
<1>3. Underway => Underway'
  BY DEF Underway, ConnGrows
<1>4. ASSUME NEW u \in Task \ {t} PROVE TaskSound(u)' /\ SleepSound(u)'
  <2>1. task'[u] = task[u] /\ TaskSound(u) /\ SleepSound(u)
    BY <1>0 DEF Moves
  <2>2. TaskSound(u)'
    BY <1>3, <2>1 DEF TaskSound, ConnGrows
  <2>3. SleepsOnConnection(u) => SleepsOnConnection(u)'
    BY <2>1 DEF SleepsOnConnection, ConnGrows
  <2>4. SleepsOnStream(u) => SleepsOnStream(u)'
    BY <1>3, <2>1 DEF SleepsOnStream, Alive
  <2> QED
    BY <2>1, <2>2, <2>3, <2>4 DEF SleepSound
<1>5. Owned'
  <2>1. \A u \in Task \ {t} : task'[u].stream = task[u].stream
    BY DEF Moves
  <2>2. \A u, v \in Task : u # v /\ task'[u].stream = task'[v].stream => task'[u].stream = NoStream
    BY <1>0, <2>1 DEF Owned
  <2>3. ASSUME NEW i \in DOMAIN conn.inbound_uni_streams
        PROVE  \A u \in Task : task'[u].stream # conn.inbound_uni_streams[i]
    <3>1. conn.inbound_uni_streams[i] # NoStream
      BY <1>0, StreamAssumption DEF Shape, StreamAssumption, Streams
    <3> QED
      BY <1>0, <2>1, <3>1 DEF Owned
  <2>4. UNCHANGED quic /\ conn'.inbound_uni_streams = conn.inbound_uni_streams
    BY DEF ConnGrows
  <2> QED
    BY <1>0, <2>2, <2>3, <2>4 DEF Owned
<1> QED
  BY <1>1, <1>2, <1>4, <1>5 DEF WakeInv

\* What a step leaves alone when it changes stream s.
OnlyStream(s) ==
    /\ DOMAIN stream' = Streams /\ DOMAIN stream'[s] = DOMAIN NewStream(s)
    /\ DOMAIN quic' = Streams /\ DOMAIN quic'[s] = DOMAIN NewQuic("none")
    /\ \A r \in Streams \ {s} : stream'[r] = stream[r] /\ quic'[r] = quic[r]

\* The streams and the connection's record keep their shape.
LEMMA StreamShape ==
    ASSUME Shape, NEW s \in Streams, OnlyStream(s), UNCHANGED conn,
           DOMAIN task' = Task, \A u \in Task : DOMAIN task'[u] = DOMAIN IdleTask
    PROVE  Shape'
<1>1. \A r \in Streams : DOMAIN stream'[r] = DOMAIN NewStream(r) /\ DOMAIN quic'[r] = DOMAIN NewQuic("none")
  BY DEF Shape, OnlyStream
<1> QED
  BY <1>1 DEF Shape, OnlyStream, NewStream, NewQuic, IdleTask

\* A poll of stream s by the task it belongs to: the other tasks have others.
LEMMA StreamPoll ==
    ASSUME WakeInv, NEW t \in Task, NEW s \in Streams, task[t].stream = s,
           UNCHANGED conn, Moves(t), OnlyStream(s),
           task'[t].stream \in {NoStream, s},
           StreamSound(s)', TaskSound(t)', SleepSound(t)'
    PROVE  WakeInv'
<1>0. Shape /\ Owned /\ \A u \in Task : TaskSound(u) /\ SleepSound(u)
  BY DEF WakeInv
<1>1. Shape'
  BY <1>0, StreamShape DEF Moves, Shape
<1>2. \A r \in Streams : StreamSound(r)'
  <2> TAKE r \in Streams
  <2>1. CASE r = s
    BY <2>1
  <2>2. CASE r # s
    <3>1. StreamSound(r) /\ stream'[r] = stream[r] /\ quic'[r] = quic[r]
      BY <2>2 DEF WakeInv, OnlyStream
    <3> QED
      BY <3>1 DEF StreamSound, Alive
  <2> QED
    BY <2>1, <2>2
<1>3. NoStream \notin Streams
  BY StreamAssumption DEF StreamAssumption
<1>4. ASSUME NEW u \in Task \ {t} PROVE TaskSound(u)' /\ SleepSound(u)'
  <2>1. task'[u] = task[u] /\ TaskSound(u) /\ SleepSound(u)
    BY <1>0 DEF Moves
  <2>2. task[u].stream # s
    BY <1>0, <1>3 DEF Owned
  <2>3. task[u].stream \in Streams => /\ stream'[task[u].stream] = stream[task[u].stream]
                                      /\ quic'[task[u].stream] = quic[task[u].stream]
    BY <2>2 DEF OnlyStream
  <2>4. TaskSound(u)'
    BY <2>1, <2>3 DEF TaskSound, Underway, Streams
  <2>5. SleepsOnConnection(u) => SleepsOnConnection(u)'
    BY <2>1 DEF SleepsOnConnection
  <2>6. SleepsOnStream(u) => SleepsOnStream(u)'
    BY <2>1, <2>3 DEF SleepsOnStream, Alive, Underway
  <2> QED
    BY <2>1, <2>4, <2>5, <2>6 DEF SleepSound
<1>5. Owned'
  <2>1. \A u \in Task \ {t} : task'[u].stream = task[u].stream
    BY DEF Moves
  <2>2. \A u, v \in Task : u # v /\ task'[u].stream = task'[v].stream => task'[u].stream = NoStream
    BY <1>0, <2>1 DEF Owned
  <2>3. ASSUME NEW i \in DOMAIN conn.inbound_uni_streams
        PROVE  /\ \A u \in Task : task'[u].stream # conn.inbound_uni_streams[i]
               /\ quic'[conn.inbound_uni_streams[i]] = quic[conn.inbound_uni_streams[i]]
    <3>1. conn.inbound_uni_streams[i] \in Streams
      BY <1>0 DEF Shape, Streams
    <3> QED
      BY <1>0, <1>3, <2>1, <3>1 DEF Owned, OnlyStream
  <2> QED
    BY <1>0, <2>2, <2>3 DEF Owned
<1> QED
  BY <1>1, <1>2, <1>4, <1>5 DEF WakeInv

-----------------------------------------------------------------------------
(* The polls of the connection *)

\* A waker is added to one of the connection's lists.
LEMMA WaiterAdded ==
    ASSUME Shape, NEW t \in Task,
           NEW list \in CallLists \cup {"shutdown_waiters"},
           WaitForConnection(t, list)
    PROVE  /\ ConnGrows /\ conn'.state = conn.state /\ t \in conn'[list]
           /\ Moves(t) /\ UNCHANGED <<stream, quic>>
           /\ task'[t].awake = FALSE /\ task'[t].call = task[t].call
           /\ task'[t].stream = task[t].stream /\ task'[t].dropping = task[t].dropping
<1>1. Sleep(t) /\ UNCHANGED <<stream, quic>> /\ conn' = [conn EXCEPT ![list] = @ \cup {t}]
  BY DEF WaitForConnection
<1>2. list \in DOMAIN conn
  BY DEF Shape, CallLists
<1>3. DOMAIN conn' = DOMAIN conn /\ \A f \in DOMAIN conn : conn'[f] = IF f = list THEN conn[f] \cup {t} ELSE conn[f]
  BY <1>1
<1>4. ConnGrows /\ conn'.state = conn.state
  BY <1>3 DEF ConnGrows, Shape, CallLists
<1>5. t \in conn'[list]
  BY <1>2, <1>3
<1> QED
  BY <1>1, <1>4, <1>5, Sleeps

\* A task that goes to sleep in the call it was in keeps what it had.
LEMMA SleeperSound ==
    ASSUME WakeInv, NEW t \in Task, ConnGrows, UNCHANGED <<stream, quic>>,
           task'[t].call = task[t].call, task'[t].stream = task[t].stream,
           task'[t].dropping = task[t].dropping
    PROVE  TaskSound(t)'
<1>1. TaskSound(t) /\ (Underway => Underway')
  BY DEF WakeInv, Underway, ConnGrows
<1> QED
  BY <1>1 DEF TaskSound, ConnGrows

\* A poll that waits for the connection keeps the invariant.
LEMMA WaitingKeeps ==
    ASSUME WakeInv, NEW t \in Task,
           NEW list \in CallLists \cup {"shutdown_waiters"},
           WaitForConnection(t, list),
           \/ /\ list = "start_waiters" /\ conn.state = "Connecting"
              /\ task[t].call \in {"start", "accept", "accept_uni", "shutdown", "open"}
           \/ /\ list = "certificate_waiters" /\ task[t].call = "certificate"
              /\ ~conn.certificate /\ ~Lost
           \/ /\ list = "inbound_uni_stream_waiters" /\ task[t].call = "accept_uni"
              /\ conn.state = "Connected" /\ conn.inbound_uni_streams = <<>>
           \/ /\ list = "shutdown_waiters" /\ task[t].call = "shutdown" /\ conn.state = "Shutdown"
    PROVE  WakeInv'
<1>1. Shape
  BY DEF WakeInv
<1>2. /\ ConnGrows /\ conn'.state = conn.state /\ t \in conn'[list]
      /\ Moves(t) /\ UNCHANGED <<stream, quic>>
      /\ task'[t].awake = FALSE /\ task'[t].call = task[t].call
      /\ task'[t].stream = task[t].stream /\ task'[t].dropping = task[t].dropping
  BY <1>1, WaiterAdded
<1>3. TaskSound(t)'
  BY <1>2, SleeperSound
<1>4. SleepsOnConnection(t)'
  BY <1>2 DEF SleepsOnConnection, ConnGrows, Lost
<1> QED
  BY <1>2, <1>3, <1>4, ConnectionPoll DEF SleepSound

\* A call that returns keeps the invariant.
LEMMA ReturningKeeps ==
    ASSUME WakeInv, NEW t \in Task, ConnectionReturns(t)
    PROVE  WakeInv'
<1>1. Shape /\ UNCHANGED <<conn, stream, quic>> /\ Return(t)
  BY DEF WakeInv, ConnectionReturns
<1>2. /\ Moves(t)
      /\ task'[t].awake = TRUE /\ task'[t].call = "idle" /\ task'[t].stream = NoStream
      /\ task'[t].dropping = <<>>
  BY <1>1, Returns
<1>3. TaskSound(t)' /\ SleepSound(t)'
  BY <1>2, IdleSound
<1>4. ConnGrows
  BY <1>1 DEF ConnGrows
<1> QED
  BY <1>1, <1>2, <1>3, <1>4, ConnectionPoll

\* Going on to ask for the certificate keeps the invariant.
LEMMA CertificateNextKeeps ==
    ASSUME WakeInv, NEW t \in Task, task[t].call \in {"start", "accept"}, task[t].awake,
           task[t].dropping = <<>>, Continue(t, "certificate"), UNCHANGED <<conn, stream, quic>>
    PROVE  WakeInv'
<1>1. Shape /\ TaskSound(t)
  BY DEF WakeInv
<1>2. /\ Moves(t)
      /\ task'[t].awake = task[t].awake /\ task'[t].call = "certificate"
      /\ task'[t].stream = task[t].stream /\ task'[t].dropping = task[t].dropping
  BY <1>1, Continues
<1>3. TaskSound(t)' /\ SleepSound(t)'
  BY <1>1, <1>2 DEF TaskSound, SleepSound, StreamCalls
<1>4. ConnGrows
  BY DEF ConnGrows
<1> QED
  BY <1>2, <1>3, <1>4, ConnectionPoll

\* Entering a call keeps the invariant.
LEMMA BeginKeeps ==
    ASSUME WakeInv, NEW t \in Task, NEW call \in ConnectionCalls \ {"certificate"}, Begin(t, call)
    PROVE  WakeInv'
<1>1. Shape /\ UNCHANGED <<conn, stream, quic>> /\ TaskSound(t)
  BY DEF WakeInv, Begin
<1>2. task'[t] = [IdleTask EXCEPT !.call = call] /\ Moves(t)
  BY <1>1 DEF Begin, Shape, Moves, IdleTask
<1>3. task'[t].call = call /\ task'[t].stream = NoStream /\ task'[t].awake /\ task'[t].dropping = <<>>
  BY <1>2 DEF IdleTask
<1>4. call = "accept" => ~conn.local
  BY DEF Begin
<1>5. TaskSound(t)' /\ SleepSound(t)'
  BY <1>1, <1>3, <1>4 DEF TaskSound, SleepSound, ConnectionCalls, StreamCalls
<1>6. ConnGrows
  BY <1>1 DEF ConnGrows
<1> QED
  BY <1>1, <1>2, <1>3, <1>5, <1>6, ConnectionPoll

\* Entering a send keeps the invariant: the stream is nobody else's.
LEMMA BeginSendKeeps ==
    ASSUME WakeInv, NEW t \in Task, NEW s \in Outbound, BeginSend(t, s)
    PROVE  WakeInv'
<1>1. Shape /\ UNCHANGED <<conn, stream, quic>> /\ TaskSound(t) /\ Owned
  BY DEF WakeInv, BeginSend
<1>2. task'[t] = [IdleTask EXCEPT !.call = "open", !.stream = s] /\ Moves(t)
  BY <1>1 DEF BeginSend, Shape, Moves, IdleTask
<1>3. task'[t].call = "open" /\ task'[t].stream = s /\ task'[t].awake /\ task'[t].dropping = <<>>
  BY <1>2 DEF IdleTask
<1>4. TaskSound(t)' /\ SleepSound(t)'
  BY <1>1, <1>3 DEF TaskSound, SleepSound, StreamCalls
<1>5. \A u \in Task : task[u].stream # s
  BY DEF BeginSend
<1>6. \A i \in DOMAIN conn.inbound_uni_streams : conn.inbound_uni_streams[i] # s
  BY <1>1 DEF Owned, BeginSend
<1>7. ConnGrows
  BY <1>1 DEF ConnGrows
<1> QED
  BY <1>1, <1>2, <1>3, <1>4, <1>5, <1>6, <1>7, ConnectionPoll

\* Asking MsQuic to shut the connection down only takes its state on.
LEMMA ShutDownGrows ==
    ASSUME Shape, conn.state = "Connected", NEW W, 
           conn' = [ShutDown EXCEPT !.shutdown_waiters = @ \cup W]
    PROVE  ConnGrows /\ conn'.state = "Shutdown" /\ W \subseteq conn'.shutdown_waiters
<1>1. DOMAIN ShutDown = DOMAIN conn /\ "shutdown_waiters" \in DOMAIN conn
  BY DEF ShutDown, Shape
<1>2. /\ ShutDown.state = "Shutdown"
      /\ \A f \in DOMAIN conn \ {"state", "error"} : ShutDown[f] = conn[f]
  BY DEF ShutDown, Shape
<1>3. DOMAIN conn' = DOMAIN conn /\ conn'.shutdown_waiters = conn.shutdown_waiters \cup W
  BY <1>1, <1>2 DEF Shape
<1>4. conn'.state = "Shutdown" /\ \A f \in DOMAIN conn \ {"state", "error", "shutdown_waiters"} : conn'[f] = conn[f]
  BY <1>1, <1>2 DEF Shape
<1> QED
  BY <1>3, <1>4 DEF ConnGrows, Shape

\* Closing a connection without waiting keeps the invariant.
LEMMA CloseKeeps ==
    ASSUME WakeInv, NEW t \in Task, CloseConnection(t)
    PROVE  WakeInv'
<1>1. Shape /\ conn.state = "Connected" /\ conn' = ShutDown /\ UNCHANGED <<stream, quic, task>>
      /\ TaskSound(t) /\ SleepSound(t) /\ task[t].call = "idle"
  BY DEF WakeInv, CloseConnection
<1>2. DOMAIN ShutDown = DOMAIN conn
      /\ ShutDown.state = "Shutdown"
      /\ \A f \in DOMAIN conn \ {"state", "error"} : ShutDown[f] = conn[f]
  BY <1>1 DEF ShutDown, Shape
<1>3. ConnGrows
  BY <1>1, <1>2 DEF ConnGrows, Shape
<1>4. Moves(t)
  BY <1>1 DEF Shape, Moves
<1>5. SleepSound(t)'
  BY <1>1 DEF SleepSound, SleepsOnConnection, SleepsOnStream
<1>6. TaskSound(t)'
  BY <1>1, <1>3, SleeperSound
<1> QED
  BY <1>1, <1>3, <1>4, <1>5, <1>6, ConnectionPoll

\* poll_start keeps the invariant.
LEMMA PollConnectKeeps ==
    ASSUME WakeInv, NEW t \in Task, PollConnect(t)
    PROVE  WakeInv'
<1>0. Shape /\ task[t].call = "start" /\ task[t].awake /\ task[t].dropping = <<>>
  BY DEF WakeInv, PollConnect, Polls
<1>1. CASE /\ conn.state = "Open"
           /\ conn' = [conn EXCEPT !.state = "Connecting", !.start_waiters = @ \cup {t}]
           /\ Sleep(t)
           /\ UNCHANGED <<stream, quic>>
  <2>1. /\ Moves(t)
        /\ task'[t].awake = FALSE /\ task'[t].call = task[t].call
        /\ task'[t].stream = task[t].stream /\ task'[t].dropping = task[t].dropping
    BY <1>0, <1>1, Sleeps
  <2>2. /\ DOMAIN conn' = DOMAIN conn /\ conn'.state = "Connecting"
        /\ conn'.start_waiters = conn.start_waiters \cup {t}
        /\ \A f \in DOMAIN conn \ {"state", "start_waiters"} : conn'[f] = conn[f]
    BY <1>0, <1>1 DEF Shape
  <2>3. ConnGrows
    BY <1>0, <1>1, <2>2 DEF ConnGrows, Shape
  <2>4. TaskSound(t)'
    BY <1>1, <2>1, <2>3, SleeperSound
  <2>5. SleepSound(t)'
    BY <1>0, <2>1, <2>2 DEF SleepSound, SleepsOnConnection
  <2> QED
    BY <1>1, <2>1, <2>3, <2>4, <2>5, ConnectionPoll
<1>2. CASE conn.state = "Connecting" /\ WaitForConnection(t, "start_waiters")
  BY <1>0, <1>2, WaitingKeeps DEF CallLists
<1>3. CASE Continue(t, "certificate") /\ UNCHANGED <<conn, stream, quic>>
  BY <1>0, <1>3, CertificateNextKeeps
<1>4. CASE ConnectionReturns(t)
  BY <1>4, ReturningKeeps
<1> QED
  BY <1>1, <1>2, <1>3, <1>4 DEF PollConnect

\* poll_accept keeps the invariant: a connection that a listener accepts is
\* never waiting to be started.
LEMMA PollAcceptKeeps ==
    ASSUME WakeInv, NEW t \in Task, PollAccept(t)
    PROVE  WakeInv'
<1>0. Shape /\ TaskSound(t) /\ task[t].call = "accept" /\ task[t].awake /\ task[t].dropping = <<>>
  BY DEF WakeInv, PollAccept, Polls
<1>1. conn.state # "Open"
  BY <1>0 DEF TaskSound, WakeInv
<1>2. CASE conn.state = "Connecting" /\ WaitForConnection(t, "start_waiters")
  BY <1>0, <1>2, WaitingKeeps DEF CallLists
<1>3. CASE Continue(t, "certificate") /\ UNCHANGED <<conn, stream, quic>>
  BY <1>0, <1>3, CertificateNextKeeps
<1>4. CASE ConnectionReturns(t)
  BY <1>4, ReturningKeeps
<1> QED
  BY <1>1, <1>2, <1>3, <1>4 DEF PollAccept

\* Asking for the peer's certificate keeps the invariant.
LEMMA PollCertificateKeeps ==
    ASSUME WakeInv, NEW t \in Task, PollReceiveRemoteCertificate(t)
    PROVE  WakeInv'
<1>0. task[t].call = "certificate"
  BY DEF PollReceiveRemoteCertificate, Polls
<1>1. CASE ~conn.certificate /\ ~Lost /\ WaitForConnection(t, "certificate_waiters")
  BY <1>0, <1>1, WaitingKeeps DEF CallLists
<1>2. CASE ConnectionReturns(t)
  BY <1>2, ReturningKeeps
<1> QED
  BY <1>1, <1>2 DEF PollReceiveRemoteCertificate

\* poll_shutdown keeps the invariant.
LEMMA PollShutdownKeeps ==
    ASSUME WakeInv, NEW t \in Task, PollShutdown(t)
    PROVE  WakeInv'
<1>0. Shape /\ task[t].call = "shutdown"
  BY DEF WakeInv, PollShutdown, Polls
<1>1. CASE ConnectionReturns(t)
  BY <1>1, ReturningKeeps
<1>2. CASE conn.state = "Connecting" /\ WaitForConnection(t, "start_waiters")
  BY <1>0, <1>2, WaitingKeeps DEF CallLists
<1>3. CASE /\ conn.state = "Shutdown"
           /\ conn' = [conn EXCEPT !.shutdown_waiters = @ \cup {t}]
           /\ Sleep(t)
           /\ UNCHANGED <<stream, quic>>
  <2>1. WaitForConnection(t, "shutdown_waiters")
    BY <1>3 DEF WaitForConnection
  <2> QED
    BY <1>0, <1>3, <2>1, WaitingKeeps
<1>4. CASE /\ conn.state = "Connected"
           /\ conn' = [ShutDown EXCEPT !.shutdown_waiters = @ \cup {t}]
           /\ Sleep(t)
           /\ UNCHANGED <<stream, quic>>
  <2>1. /\ Moves(t)
        /\ task'[t].awake = FALSE /\ task'[t].call = task[t].call
        /\ task'[t].stream = task[t].stream /\ task'[t].dropping = task[t].dropping
    BY <1>0, <1>4, Sleeps
  <2>2. ConnGrows /\ conn'.state = "Shutdown" /\ t \in conn'.shutdown_waiters
    BY <1>0, <1>4, ShutDownGrows
  <2>3. TaskSound(t)'
    BY <1>4, <2>1, <2>2, SleeperSound
  <2>4. SleepSound(t)'
    BY <1>0, <2>1, <2>2 DEF SleepSound, SleepsOnConnection
  <2> QED
    BY <1>4, <2>1, <2>2, <2>3, <2>4, ConnectionPoll
<1> QED
  BY <1>1, <1>2, <1>3, <1>4 DEF PollShutdown

\* Taking the peer's first stream keeps the invariant: the stream passes from
\* the queue to the task.
LEMMA TakeStreamKeeps ==
    ASSUME WakeInv, NEW t \in Task, Polls(t, "accept_uni"),
           conn.state = "Connected", conn.inbound_uni_streams # <<>>,
           conn' = [conn EXCEPT !.inbound_uni_streams = Tail(@)],
           task' = [task EXCEPT ![t].call = "read", ![t].stream = Head(conn.inbound_uni_streams)],
           UNCHANGED <<stream, quic>>
    PROVE  WakeInv'
<1> DEFINE q == conn.inbound_uni_streams
           h == Head(conn.inbound_uni_streams)
<1>0. Shape /\ Owned /\ \A u \in Task : TaskSound(u) /\ SleepSound(u)
  BY DEF WakeInv
<1>1. q \in Seq(Inbound) /\ q # <<>>
  BY <1>0 DEF Shape
<1>2. /\ h = q[1] /\ h \in Inbound /\ Tail(q) \in Seq(Inbound) /\ 1 \in DOMAIN q
      /\ \A i \in DOMAIN Tail(q) : i + 1 \in DOMAIN q /\ i + 1 # 1 /\ Tail(q)[i] = q[i + 1]
      /\ \A i, j \in DOMAIN Tail(q) : i + 1 = j + 1 => i = j
  BY <1>1
<1>3. /\ DOMAIN conn' = DOMAIN conn /\ conn'.inbound_uni_streams = Tail(q)
      /\ \A f \in DOMAIN conn \ {"inbound_uni_streams"} : conn'[f] = conn[f]
  BY <1>0 DEF Shape
<1>4. /\ conn'.state = "Connected" /\ conn'.local = conn.local /\ conn'.certificate = conn.certificate
      /\ conn'.start_waiters = conn.start_waiters
      /\ conn'.certificate_waiters = conn.certificate_waiters
  BY <1>0, <1>3 DEF Shape
<1> HIDE DEF q, h
<1>5. task' = [task EXCEPT ![t].call = "read", ![t].stream = h]
  BY DEF h
<1>6. /\ DOMAIN task' = Task /\ DOMAIN task'[t] = DOMAIN IdleTask
      /\ task'[t].call = "read" /\ task'[t].stream = h /\ task'[t].awake = task[t].awake
      /\ task'[t].dropping = task[t].dropping
      /\ \A u \in Task \ {t} : task'[u] = task[u]
  BY <1>0, <1>5 DEF Shape, IdleTask
<1>7. Shape' /\ (conn.state = "Open" => conn.local)'
  <2>1. \A u \in Task : DOMAIN task'[u] = DOMAIN IdleTask
    BY <1>0, <1>6 DEF Shape
  <2> QED
    BY <1>0, <1>2, <1>3, <1>4, <1>6, <2>1 DEF Shape, NewStream, NewQuic, IdleTask, ConnectionStates
<1>8. \A s \in Streams : StreamSound(s)'
  <2> TAKE s \in Streams
  <2>1. StreamSound(s)
    BY DEF WakeInv
  <2> QED
    BY <1>4, <2>1 DEF StreamSound, Alive
<1>9. Underway /\ Underway'
  BY <1>4 DEF Underway
<1>10. quic[h].phase \in {"started", "down"} /\ \A u \in Task : task[u].stream # h
  BY <1>0, <1>2 DEF Owned, q
<1>11. TaskSound(t)' /\ SleepSound(t)'
  <2>1. task[t].awake /\ task[t].dropping = <<>>
    BY DEF Polls
  <2> QED
    BY <1>2, <1>6, <1>9, <1>10, <2>1 DEF TaskSound, SleepSound, StreamCalls
<1>12. ASSUME NEW u \in Task \ {t} PROVE TaskSound(u)' /\ SleepSound(u)'
  <2>1. task'[u] = task[u] /\ TaskSound(u) /\ SleepSound(u)
    BY <1>0, <1>6
  <2>2. TaskSound(u)'
    BY <1>4, <1>9, <2>1 DEF TaskSound
  <2>3. SleepsOnConnection(u) => SleepsOnConnection(u)'
    BY <1>4, <2>1 DEF SleepsOnConnection
  <2>4. SleepsOnStream(u) => SleepsOnStream(u)'
    BY <1>9, <2>1 DEF SleepsOnStream, Alive
  <2> QED
    BY <2>1, <2>2, <2>3, <2>4 DEF SleepSound
<1>13. Owned'
  <2>1. \A u, v \in Task : u # v /\ task'[u].stream = task'[v].stream => task'[u].stream = NoStream
    BY <1>0, <1>6, <1>10 DEF Owned
  <2>2. ASSUME NEW i \in DOMAIN Tail(q)
        PROVE  /\ quic[Tail(q)[i]].phase \in {"started", "down"}
               /\ \A u \in Task : task'[u].stream # Tail(q)[i]
               /\ \A j \in DOMAIN Tail(q) : i # j => Tail(q)[i] # Tail(q)[j]
    <3>1. i + 1 \in DOMAIN q /\ i + 1 # 1 /\ Tail(q)[i] = q[i + 1] /\ 1 \in DOMAIN q /\ h = q[1]
      BY <1>2
    <3>2. /\ quic[q[i + 1]].phase \in {"started", "down"}
          /\ \A u \in Task : task[u].stream # q[i + 1]
          /\ q[i + 1] # q[1]
          /\ \A k \in DOMAIN q : i + 1 # k => q[i + 1] # q[k]
      BY <1>0, <3>1 DEF Owned, q
    <3>3. \A u \in Task : task'[u].stream # Tail(q)[i]
      BY <1>6, <3>1, <3>2
    <3>4. \A j \in DOMAIN Tail(q) : i # j => Tail(q)[i] # Tail(q)[j]
      BY <1>2, <3>1, <3>2
    <3> QED
      BY <3>1, <3>2, <3>3, <3>4
  <2>3. conn'.inbound_uni_streams = Tail(q)
    BY <1>3
  <2> DEFINE r == Tail(q)
  <2>4. conn'.inbound_uni_streams = r /\ quic' = quic
    BY <2>3
  <2>5. \A i \in DOMAIN r : /\ quic'[r[i]].phase \in {"started", "down"}
                           /\ \A u \in Task : task'[u].stream # r[i]
                           /\ \A j \in DOMAIN r : i # j => r[i] # r[j]
    BY <2>2, <2>4
  <2> HIDE DEF r
  <2> QED
    BY ONLY <2>1, <2>4, <2>5 DEF Owned
<1> QED
  BY <1>7, <1>8, <1>11, <1>12, <1>13 DEF WakeInv

\* poll_accept_inbound_uni_stream keeps the invariant.
LEMMA PollAcceptUniKeeps ==
    ASSUME WakeInv, NEW t \in Task, PollAcceptInboundUniStream(t)
    PROVE  WakeInv'
<1>0. task[t].call = "accept_uni" /\ Polls(t, "accept_uni")
  BY DEF PollAcceptInboundUniStream, Polls
<1>1. CASE ConnectionReturns(t)
  BY <1>1, ReturningKeeps
<1>2. CASE conn.state = "Connecting" /\ WaitForConnection(t, "start_waiters")
  BY <1>0, <1>2, WaitingKeeps DEF CallLists
<1>3. CASE /\ conn.state = "Connected" /\ conn.inbound_uni_streams = <<>>
           /\ WaitForConnection(t, "inbound_uni_stream_waiters")
  BY <1>0, <1>3, WaitingKeeps DEF CallLists
<1>4. CASE /\ conn.state = "Connected"
           /\ conn.inbound_uni_streams # <<>>
           /\ conn' = [conn EXCEPT !.inbound_uni_streams = Tail(@)]
           /\ task' = [task EXCEPT ![t].call = "read",
                                   ![t].stream = Head(conn.inbound_uni_streams)]
           /\ UNCHANGED <<stream, quic>>
  BY <1>0, <1>4, TakeStreamKeeps
<1> QED
  BY <1>1, <1>2, <1>3, <1>4 DEF PollAcceptInboundUniStream

-----------------------------------------------------------------------------
(* The polls of a stream *)

\* A stream that is dropped is sound, and no other stream changes.
LEMMA Closes ==
    ASSUME Shape, NEW s \in Streams, Close(s)
    PROVE  OnlyStream(s) /\ StreamSound(s)'
<1>1. stream'[s] = NewStream(s) /\ quic'[s] = NewQuic("closed")
  BY DEF Close, Shape
<1>2. DOMAIN stream' = Streams /\ DOMAIN quic' = Streams
      /\ \A r \in Streams \ {s} : stream'[r] = stream[r] /\ quic'[r] = quic[r]
  BY DEF Close, Shape
<1>3. OnlyStream(s)
  BY <1>1, <1>2 DEF OnlyStream, NewQuic
<1>4. stream'[s].state = "Open" /\ stream'[s].send_state = "Closed" /\ stream'[s].recv_state # "Start"
  BY <1>1 DEF NewStream
<1>5. quic'[s].phase = "closed"
  BY <1>1 DEF NewQuic
<1>6. StreamSound(s)'
  BY <1>4, <1>5 DEF StreamSound, Alive
<1> QED
  BY <1>3, <1>6

\* A call that returns and drops its stream keeps the invariant.
LEMMA ReturnAndCloseKeeps ==
    ASSUME WakeInv, NEW t \in Task, task[t].stream \in Streams,
           Return(t), Close(task[t].stream), UNCHANGED conn
    PROVE  WakeInv'
<1>1. PICK s \in Streams : s = task[t].stream
  OBVIOUS
<1>2. Shape /\ Close(s)
  BY <1>1 DEF WakeInv
<1>3. /\ Moves(t)
      /\ task'[t].awake = TRUE /\ task'[t].call = "idle" /\ task'[t].stream = NoStream
      /\ task'[t].dropping = <<>>
  BY <1>2, Returns
<1>4. TaskSound(t)' /\ SleepSound(t)'
  BY <1>3, IdleSound
<1>5. OnlyStream(s) /\ StreamSound(s)'
  BY <1>2, Closes
<1> QED
  BY <1>1, <1>3, <1>4, <1>5, StreamPoll

\* Lists of a stream.
StreamLists == {"start_waiters", "read_waiters", "write_shutdown_waiters"}

\* What a stream is, its lists and its buffers left out.
SameHalves(s) ==
    /\ stream'[s].state = stream[s].state
    /\ stream'[s].send_state = stream[s].send_state
    /\ stream'[s].recv_state = stream[s].recv_state
    /\ quic'[s].phase = quic[s].phase

\* A poll that waits in a list of its stream keeps the invariant.
LEMMA WaitInKeeps ==
    ASSUME WakeInv, NEW t \in Task, NEW s \in Streams, task[t].stream = s,
           NEW list \in StreamLists, WaitIn(t, s, list), UNCHANGED <<conn, quic>>,
           Alive(s), Underway,
           \/ task[t].call = "open" /\ stream[s].state = "Start" /\ list = "start_waiters"
           \/ /\ task[t].call = "finish" /\ stream[s].send_state = "Shutdown"
              /\ list = "write_shutdown_waiters"
    PROVE  WakeInv'
<1>1. Shape /\ StreamSound(s) /\ TaskSound(t)
  BY DEF WakeInv
<1>2. stream' = [stream EXCEPT ![s][list] = @ \cup {t}] /\ Sleep(t)
  BY DEF WaitIn
<1>3. list \in DOMAIN stream[s] /\ DOMAIN stream = Streams
  BY <1>1 DEF Shape, NewStream, StreamLists
<1>4. stream'[s] = [stream[s] EXCEPT ![list] = @ \cup {t}]
  BY <1>2, <1>3
<1>5. /\ DOMAIN stream'[s] = DOMAIN stream[s]
      /\ \A f \in DOMAIN stream[s] : stream'[s][f] = IF f = list THEN stream[s][f] \cup {t} ELSE stream[s][f]
  BY <1>4
<1>6. t \in stream'[s][list]
  BY <1>3, <1>5
<1>7. SameHalves(s)
  <2>1. {"state", "send_state", "recv_state"} \subseteq DOMAIN stream[s]
    BY <1>1 DEF Shape, NewStream
  <2> QED
    BY <1>5, <2>1 DEF SameHalves, StreamLists
<1>8. OnlyStream(s)
  <2>1. DOMAIN stream'[s] = DOMAIN NewStream(s) /\ DOMAIN stream' = Streams
    BY <1>1, <1>2, <1>5 DEF Shape
  <2>2. \A r \in Streams \ {s} : stream'[r] = stream[r]
    BY <1>2, <1>3
  <2> QED
    BY <1>1, <2>1, <2>2 DEF OnlyStream, Shape
<1>9. StreamSound(s)'
  BY <1>1, <1>7 DEF StreamSound, SameHalves, Alive
<1>10. /\ Moves(t)
       /\ task'[t].awake = FALSE /\ task'[t].call = task[t].call
       /\ task'[t].stream = task[t].stream /\ task'[t].dropping = task[t].dropping
  BY <1>1, <1>2, Sleeps
<1>11. TaskSound(t)'
  BY <1>1, <1>7, <1>10 DEF TaskSound, SameHalves, Underway
<1>12. SleepsOnStream(t)'
  BY <1>6, <1>7, <1>10 DEF SleepsOnStream, SameHalves, Alive, Underway
<1> QED
  BY <1>8, <1>9, <1>10, <1>11, <1>12, StreamPoll DEF SleepSound

\* Starting a stream keeps the invariant.
LEMMA StartKeeps ==
    ASSUME WakeInv, NEW t \in Task, NEW s \in Outbound, task[t].stream = s,
           task[t].call = "open", conn.state = "Connected", UNCHANGED conn,
           stream' = [stream EXCEPT ![s].state = "Start", ![s].send_state = "Start",
                                    ![s].start_waiters = @ \cup {t}],
           quic' = [quic EXCEPT ![s].phase = "starting"],
           Sleep(t)
    PROVE  WakeInv'
<1>1. Shape /\ StreamSound(s) /\ TaskSound(t) /\ s \in Streams
  BY DEF WakeInv, Streams
<1>2. DOMAIN stream[s] = DOMAIN NewStream(s) /\ DOMAIN quic[s] = DOMAIN NewQuic("none")
  BY <1>1 DEF Shape
<1>3. /\ DOMAIN stream' = Streams /\ DOMAIN stream'[s] = DOMAIN stream[s]
      /\ \A r \in Streams \ {s} : stream'[r] = stream[r]
  BY <1>1 DEF Shape
<1>4. /\ stream'[s].state = "Start" /\ stream'[s].send_state = "Start"
      /\ stream'[s].start_waiters = stream[s].start_waiters \cup {t}
      /\ stream'[s].recv_state = stream[s].recv_state
  BY <1>1, <1>2 DEF Shape, NewStream
<1>5. /\ DOMAIN quic' = Streams /\ DOMAIN quic'[s] = DOMAIN quic[s] /\ quic'[s].phase = "starting"
      /\ \A r \in Streams \ {s} : quic'[r] = quic[r]
  BY <1>1, <1>2 DEF Shape, NewQuic
<1>6. OnlyStream(s)
  BY <1>2, <1>3, <1>5 DEF OnlyStream
<1>7. StreamSound(s)'
  BY <1>1, <1>4, <1>5 DEF StreamSound, Alive
<1>8. /\ Moves(t)
      /\ task'[t].awake = FALSE /\ task'[t].call = task[t].call
      /\ task'[t].stream = task[t].stream /\ task'[t].dropping = task[t].dropping
  BY <1>1, Sleeps
<1>9. TaskSound(t)'
  BY <1>1, <1>8 DEF TaskSound
<1>10. SleepsOnStream(t)'
  BY <1>1, <1>4, <1>5, <1>8 DEF SleepsOnStream, Alive, Underway
<1> QED
  BY <1>1, <1>6, <1>7, <1>8, <1>9, <1>10, StreamPoll DEF SleepSound

\* Going on with the next call on the same stream keeps the invariant.
LEMMA NextCallKeeps ==
    ASSUME WakeInv, NEW t \in Task, NEW call \in {"write", "finish"},
           task[t].stream \in Outbound, task[t].awake, task[t].dropping = <<>>,
           stream[task[t].stream].state \in {"StartComplete", "ShutdownComplete"}, Underway,
           Continue(t, call), UNCHANGED <<conn, stream, quic>>
    PROVE  WakeInv'
<1>1. Shape
  BY DEF WakeInv
<1>2. /\ Moves(t)
      /\ task'[t].awake = task[t].awake /\ task'[t].call = call
      /\ task'[t].stream = task[t].stream /\ task'[t].dropping = task[t].dropping
  BY <1>1, Continues
<1>3. TaskSound(t)' /\ SleepSound(t)'
  BY <1>2 DEF TaskSound, SleepSound, StreamCalls, Underway
<1>4. ConnGrows
  BY DEF ConnGrows
<1> QED
  BY <1>2, <1>3, <1>4, ConnectionPoll

\* poll_start of a stream keeps the invariant.
LEMMA PollStartKeeps ==
    ASSUME WakeInv, NEW t \in Task, Polls(t, "open"), conn.state = "Connected",
           PollStart(t, task[t].stream), UNCHANGED conn
    PROVE  WakeInv'
<1>1. task[t].stream \in Outbound /\ task[t].call = "open" /\ task[t].awake /\ task[t].dropping = <<>>
  BY DEF WakeInv, TaskSound, Polls
<1>2. PICK s \in Outbound : s = task[t].stream
  BY <1>1
<1>3. StreamSound(s) /\ s \in Streams /\ Underway
  BY DEF WakeInv, Streams, Underway
<1>4. CASE /\ stream' = [stream EXCEPT ![s].state = "Start", ![s].send_state = "Start",
                                       ![s].start_waiters = @ \cup {t}]
           /\ quic' = [quic EXCEPT ![s].phase = "starting"]
           /\ Sleep(t)
  BY <1>1, <1>2, <1>4, StartKeeps
<1>5. CASE ReturnAndClose(t)
  BY <1>2, <1>3, <1>5, ReturnAndCloseKeeps DEF ReturnAndClose
<1>6. CASE stream[s].state = "Start" /\ WaitIn(t, s, "start_waiters") /\ UNCHANGED quic
  <2>1. Alive(s)
    BY <1>3, <1>6 DEF StreamSound, Alive
  <2> QED
    BY <1>1, <1>2, <1>3, <1>6, <2>1, WaitInKeeps DEF StreamLists
<1>7. CASE /\ stream[s].state \in {"StartComplete", "ShutdownComplete"}
           /\ Continue(t, "write") /\ UNCHANGED <<stream, quic>>
  BY <1>1, <1>2, <1>3, <1>7, NextCallKeeps
<1> QED
  BY <1>2, <1>4, <1>5, <1>6, <1>7 DEF PollStart

\* The future of open_outbound_stream keeps the invariant.
LEMMA PollOpenKeeps ==
    ASSUME WakeInv, NEW t \in Task, PollOpenOutboundStream(t)
    PROVE  WakeInv'
<1>1. Polls(t, "open") /\ task[t].call = "open" /\ task[t].stream \in Streams
  BY DEF PollOpenOutboundStream, Polls, WakeInv, TaskSound, Streams
<1>2. CASE Return(t) /\ UNCHANGED <<stream, quic>> /\ UNCHANGED conn
  BY <1>2, ReturningKeeps DEF ConnectionReturns
<1>3. CASE ReturnAndClose(t) /\ UNCHANGED conn
  BY <1>1, <1>3, ReturnAndCloseKeeps DEF ReturnAndClose
<1>4. CASE conn.state = "Connecting" /\ WaitForConnection(t, "start_waiters")
  BY <1>1, <1>4, WaitingKeeps DEF CallLists
<1>5. CASE conn.state = "Connected" /\ PollStart(t, task[t].stream) /\ UNCHANGED conn
  BY <1>1, <1>5, PollStartKeeps
<1> QED
  BY <1>2, <1>3, <1>4, <1>5 DEF PollOpenOutboundStream

\* poll_write keeps the invariant: a stream that is written to has started.
LEMMA PollWriteKeeps ==
    ASSUME WakeInv, NEW t \in Task, PollWrite(t), UNCHANGED conn
    PROVE  WakeInv'
<1>1. /\ task[t].stream \in Outbound /\ task[t].awake /\ task[t].dropping = <<>> /\ Underway
      /\ stream[task[t].stream].state \in {"StartComplete", "ShutdownComplete"}
  BY DEF PollWrite, Polls, WakeInv, TaskSound
<1>2. stream[task[t].stream].send_state # "Start" /\ task[t].stream \in Streams
  BY <1>1 DEF WakeInv, StreamSound, Streams
<1>3. CASE Continue(t, "finish") /\ UNCHANGED <<stream, quic>>
  BY <1>1, <1>3, NextCallKeeps
<1>4. CASE ReturnAndClose(t)
  BY <1>2, <1>4, ReturnAndCloseKeeps DEF ReturnAndClose
<1> QED
  BY <1>2, <1>3, <1>4 DEF PollWrite

\* Asking MsQuic to send the rest and the FIN keeps the invariant.
LEMMA FinishKeeps ==
    ASSUME WakeInv, NEW t \in Task, NEW s \in Outbound, task[t].stream = s,
           task[t].call = "finish", stream[s].send_state = "StartComplete", UNCHANGED conn,
           stream' = [stream EXCEPT ![s].send_state = "Shutdown",
                                    ![s].write_shutdown_waiters = @ \cup {t}],
           quic' = [quic EXCEPT ![s].sending = "shutdown"],
           Sleep(t)
    PROVE  WakeInv'
<1>1. Shape /\ StreamSound(s) /\ TaskSound(t) /\ s \in Streams
  BY DEF WakeInv, Streams
<1>2. DOMAIN stream[s] = DOMAIN NewStream(s) /\ DOMAIN quic[s] = DOMAIN NewQuic("none")
  BY <1>1 DEF Shape
<1>3. /\ DOMAIN stream' = Streams /\ DOMAIN stream'[s] = DOMAIN stream[s]
      /\ \A r \in Streams \ {s} : stream'[r] = stream[r]
  BY <1>1 DEF Shape
<1>4. /\ stream'[s].send_state = "Shutdown" /\ stream'[s].state = stream[s].state
      /\ stream'[s].write_shutdown_waiters = stream[s].write_shutdown_waiters \cup {t}
      /\ stream'[s].recv_state = stream[s].recv_state
  BY <1>1, <1>2 DEF Shape, NewStream
<1>5. /\ DOMAIN quic' = Streams /\ DOMAIN quic'[s] = DOMAIN quic[s]
      /\ quic'[s].phase = quic[s].phase
      /\ \A r \in Streams \ {s} : quic'[r] = quic[r]
  BY <1>1, <1>2 DEF Shape, NewQuic
<1>6. OnlyStream(s)
  BY <1>2, <1>3, <1>5 DEF OnlyStream
<1>7. StreamSound(s)' /\ quic[s].phase = "started"
  BY <1>1, <1>4, <1>5 DEF StreamSound, Alive
<1>8. /\ Moves(t)
      /\ task'[t].awake = FALSE /\ task'[t].call = task[t].call
      /\ task'[t].stream = task[t].stream /\ task'[t].dropping = task[t].dropping
  BY <1>1, Sleeps
<1>9. TaskSound(t)'
  BY <1>1, <1>4, <1>5, <1>8 DEF TaskSound, Underway
<1>10. SleepsOnStream(t)'
  <2>1. Underway
    BY <1>1 DEF TaskSound
  <2> QED
    BY <1>1, <1>4, <1>5, <1>7, <1>8, <2>1 DEF SleepsOnStream, Alive, Underway
<1> QED
  BY <1>1, <1>6, <1>7, <1>8, <1>9, <1>10, StreamPoll DEF SleepSound

\* poll_finish_write keeps the invariant.
LEMMA PollFinishKeeps ==
    ASSUME WakeInv, NEW t \in Task, PollFinishWrite(t), UNCHANGED conn
    PROVE  WakeInv'
<1>1. /\ task[t].stream \in Outbound /\ task[t].call = "finish" /\ Underway
      /\ stream[task[t].stream].state \in {"StartComplete", "ShutdownComplete"}
  BY DEF PollFinishWrite, Polls, WakeInv, TaskSound
<1>2. PICK s \in Outbound : s = task[t].stream
  BY <1>1
<1>3. stream[s].send_state # "Start" /\ s \in Streams /\ StreamSound(s)
  BY <1>1, <1>2 DEF WakeInv, StreamSound, Streams
<1>4. CASE /\ stream[s].send_state = "StartComplete"
           /\ stream' = [stream EXCEPT ![s].send_state = "Shutdown",
                                       ![s].write_shutdown_waiters = @ \cup {t}]
           /\ quic' = [quic EXCEPT ![s].sending = "shutdown"]
           /\ Sleep(t)
  BY <1>1, <1>2, <1>4, FinishKeeps
<1>5. CASE stream[s].send_state = "Shutdown" /\ WaitIn(t, s, "write_shutdown_waiters") /\ UNCHANGED quic
  <2>1. Alive(s)
    BY <1>3, <1>5 DEF StreamSound, Alive
  <2> QED
    BY <1>1, <1>2, <1>3, <1>5, <2>1, WaitInKeeps DEF StreamLists
<1>6. CASE ReturnAndClose(t)
  BY <1>2, <1>3, <1>6, ReturnAndCloseKeeps DEF ReturnAndClose
<1> QED
  BY <1>2, <1>3, <1>4, <1>5, <1>6 DEF PollFinishWrite

\* A timeout keeps the invariant: its waker goes with the stream, or stays
\* behind in a list of the connection.
LEMMA TimeoutKeeps ==
    ASSUME WakeInv, NEW t \in Task, Timeout(t), UNCHANGED conn
    PROVE  WakeInv'
<1>1. task[t].stream \in Streams
  BY DEF Timeout, WakeInv, TaskSound, Streams
<1>2. CASE UNCHANGED <<stream, quic>>
  BY <1>2, ReturningKeeps DEF Timeout, ConnectionReturns
<1>3. CASE Close(task[t].stream)
  BY <1>1, <1>3, ReturnAndCloseKeeps DEF Timeout
<1> QED
  BY <1>2, <1>3 DEF Timeout

\* A read takes bytes: what is left, and what is dropped.
TakesBytes(t, s, rest, state, got, dropped, call) ==
    /\ stream' = [stream EXCEPT ![s].recv_buffers = rest, ![s].recv_state = state]
    /\ task' = [task EXCEPT ![t].got = got, ![t].dropping = dropped, ![t].call = call]

\* A read that takes something keeps the invariant.
LEMMA TakeBytesKeeps ==
    ASSUME WakeInv, NEW t \in Task, NEW s \in Inbound, task[t].stream = s, Polls(t, "read"),
           stream[s].recv_state = "StartComplete", UNCHANGED <<conn, quic>>,
           NEW rest, NEW state, state \in {"Shutdown", "StartComplete"},
           NEW got, NEW dropped, NEW call \in {"read", "read_done"},
           TakesBytes(t, s, rest, state, got, dropped, call)
    PROVE  WakeInv'
<1>0. /\ stream' = [stream EXCEPT ![s].recv_buffers = rest, ![s].recv_state = state]
      /\ task' = [task EXCEPT ![t].got = got, ![t].dropping = dropped, ![t].call = call]
  BY DEF TakesBytes
<1>1. Shape /\ StreamSound(s) /\ TaskSound(t) /\ s \in Streams
  BY DEF WakeInv, Streams
<1>2. /\ DOMAIN stream[s] = DOMAIN NewStream(s) /\ DOMAIN quic[s] = DOMAIN NewQuic("none")
      /\ DOMAIN task[t] = DOMAIN IdleTask
  BY <1>1 DEF Shape
<1>3. /\ DOMAIN stream' = Streams /\ DOMAIN stream'[s] = DOMAIN stream[s]
      /\ \A r \in Streams \ {s} : stream'[r] = stream[r]
  BY <1>0, <1>1 DEF Shape
<1>4. /\ stream'[s].state = stream[s].state /\ stream'[s].send_state = stream[s].send_state
      /\ stream'[s].recv_state = state
  BY <1>0, <1>1, <1>2 DEF Shape, NewStream
<1>5. OnlyStream(s)
  BY <1>1, <1>2, <1>3 DEF OnlyStream, Shape
<1>6. StreamSound(s)'
  BY <1>1, <1>4 DEF StreamSound, Alive
<1>7. /\ DOMAIN task' = Task /\ DOMAIN task'[t] = DOMAIN task[t]
      /\ \A u \in Task \ {t} : task'[u] = task[u]
  BY <1>0, <1>1 DEF Shape
<1>8. task'[t].call = call /\ task'[t].stream = s /\ task'[t].awake = task[t].awake
  BY <1>0, <1>1, <1>2 DEF Shape, IdleTask
<1>9. Moves(t)
  BY <1>2, <1>7 DEF Moves
<1>10. task[t].call = "read" /\ task[t].awake
  BY DEF Polls
<1>11. TaskSound(t)' /\ SleepSound(t)'
  BY <1>1, <1>8, <1>10 DEF TaskSound, SleepSound, StreamCalls, Underway
<1> QED
  BY <1>1, <1>5, <1>6, <1>8, <1>9, <1>11, StreamPoll

\* A read that finds nothing keeps the invariant.
LEMMA WaitForBytesKeeps ==
    ASSUME WakeInv, NEW t \in Task, NEW s \in Inbound, task[t].stream = s, Polls(t, "read"),
           stream[s].recv_state = "StartComplete", UNCHANGED <<conn, quic>>,
           NEW dropped,
           stream' = [stream EXCEPT ![s].recv_buffers = <<>>, ![s].read_waiters = @ \cup {t}],
           task' = [task EXCEPT ![t].awake = FALSE, ![t].dropping = dropped]
    PROVE  WakeInv'
<1>1. Shape /\ StreamSound(s) /\ TaskSound(t) /\ s \in Streams
  BY DEF WakeInv, Streams
<1>2. /\ DOMAIN stream[s] = DOMAIN NewStream(s) /\ DOMAIN quic[s] = DOMAIN NewQuic("none")
      /\ DOMAIN task[t] = DOMAIN IdleTask
  BY <1>1 DEF Shape
<1>3. /\ DOMAIN stream' = Streams /\ DOMAIN stream'[s] = DOMAIN stream[s]
      /\ \A r \in Streams \ {s} : stream'[r] = stream[r]
  BY <1>1 DEF Shape
<1>4. /\ stream'[s].state = stream[s].state /\ stream'[s].send_state = stream[s].send_state
      /\ stream'[s].recv_state = stream[s].recv_state /\ stream'[s].recv_buffers = <<>>
      /\ stream'[s].read_waiters = stream[s].read_waiters \cup {t}
  BY <1>1, <1>2 DEF Shape, NewStream
<1>5. OnlyStream(s)
  BY <1>1, <1>2, <1>3 DEF OnlyStream, Shape
<1>6. StreamSound(s)'
  BY <1>1, <1>4 DEF StreamSound, Alive
<1>7. /\ DOMAIN task' = Task /\ DOMAIN task'[t] = DOMAIN task[t]
      /\ \A u \in Task \ {t} : task'[u] = task[u]
  BY <1>1 DEF Shape
<1>8. task'[t].call = task[t].call /\ task'[t].stream = s /\ task'[t].awake = FALSE
  BY <1>1, <1>2 DEF Shape, IdleTask
<1>9. Moves(t)
  BY <1>2, <1>7 DEF Moves
<1>10. task[t].call = "read"
  BY DEF Polls
<1>11. quic[s].phase = "started" /\ Underway
  BY <1>1, <1>10 DEF TaskSound, StreamSound
<1>12. TaskSound(t)'
  BY <1>1, <1>8, <1>10 DEF TaskSound, StreamCalls, Underway
<1>13. SleepsOnStream(t)'
  BY <1>1, <1>4, <1>8, <1>10, <1>11 DEF SleepsOnStream, Alive, Underway
<1> QED
  BY <1>1, <1>5, <1>6, <1>8, <1>9, <1>12, <1>13, StreamPoll DEF SleepSound

\* poll_read keeps the invariant.
LEMMA PollReadKeeps ==
    ASSUME WakeInv, NEW t \in Task, PollRead(t), UNCHANGED conn
    PROVE  WakeInv'
<1>1. Polls(t, "read") /\ task[t].call = "read"
  BY DEF PollRead, Polls
<1>2. task[t].stream \in Inbound
  BY <1>1 DEF WakeInv, TaskSound
<1>3. PICK s \in Inbound : s = task[t].stream
  BY <1>2
<1>4. s \in Streams /\ stream[s].recv_state # "Start"
  BY DEF WakeInv, StreamSound, Streams
<1>5. PICK r : r = ReadUpTo(stream[s].recv_buffers, Wanted(task[t].got))
  OBVIOUS
<1>6. PICK ended : ended = (r.fin /\ r.read = 0 /\ task[t].got = MessageLength)
  OBVIOUS
<1>7. CASE ReturnAndClose(t)
  BY <1>3, <1>4, <1>7, ReturnAndCloseKeeps DEF ReturnAndClose
<1>8. CASE /\ stream[s].recv_state = "StartComplete"
           /\ stream' = [stream EXCEPT ![s].recv_buffers = r.rest,
                                       ![s].recv_state = IF r.fin THEN "Shutdown" ELSE @]
           /\ task' = [task EXCEPT ![t].got = @ + r.read, ![t].dropping = r.dropped,
                                   ![t].call = IF ended THEN "read_done" ELSE @]
           /\ UNCHANGED quic
  <2>1. PICK state \in {"Shutdown", "StartComplete"} : state = IF r.fin THEN "Shutdown" ELSE stream[s].recv_state
    BY <1>8
  <2>2. PICK call \in {"read", "read_done"} : call = IF ended THEN "read_done" ELSE task[t].call
    BY <1>1
  <2>3. PICK got : got = task[t].got + r.read
    OBVIOUS
  <2>4. PICK rest, dropped : rest = r.rest /\ dropped = r.dropped
    OBVIOUS
  <2>5. stream' = [stream EXCEPT ![s].recv_buffers = rest, ![s].recv_state = state]
    BY <1>8, <2>1, <2>4
  <2>6. task' = [task EXCEPT ![t].got = got, ![t].dropping = dropped, ![t].call = call]
    BY <1>8, <2>2, <2>3, <2>4
  <2>7. TakesBytes(t, s, rest, state, got, dropped, call)
    BY <2>5, <2>6 DEF TakesBytes
  <2> QED
    BY <1>1, <1>3, <1>8, <2>7, TakeBytesKeeps
<1>9. CASE /\ stream[s].recv_state = "StartComplete"
           /\ stream' = [stream EXCEPT ![s].recv_buffers = <<>>,
                                       ![s].read_waiters = @ \cup {t}]
           /\ task' = [task EXCEPT ![t].awake = FALSE, ![t].dropping = r.dropped]
           /\ UNCHANGED quic
  BY <1>1, <1>3, <1>9, WaitForBytesKeeps
<1> QED
  BY <1>3, <1>4, <1>5, <1>6, <1>7, <1>8, <1>9 DEF PollRead

\* A read buffer is dropped: only what has been read is noted.
NotesRead(t, s, map, cursor, completed, pending) ==
    /\ stream' = [stream EXCEPT ![s].read_complete_map = map, ![s].read_complete_cursor = cursor]
    /\ quic' = [quic EXCEPT ![s].pending = pending, ![s].completed = completed] \/ UNCHANGED quic
    /\ task' = [task EXCEPT ![t].dropping = Tail(@)]

\* Noting what has been read keeps the invariant, also when the reader sleeps.
LEMMA NotesReadKeeps ==
    ASSUME WakeInv, NEW t \in Task, NEW s \in Inbound, task[t].stream = s,
           task[t].call \in {"read", "read_done"}, UNCHANGED conn,
           NEW map, NEW cursor, NEW completed, NEW pending,
           NotesRead(t, s, map, cursor, completed, pending)
    PROVE  WakeInv'
<1>1. Shape /\ StreamSound(s) /\ TaskSound(t) /\ SleepSound(t) /\ s \in Streams
  BY DEF WakeInv, Streams
<1>2. /\ DOMAIN stream[s] = DOMAIN NewStream(s) /\ DOMAIN quic[s] = DOMAIN NewQuic("none")
      /\ DOMAIN task[t] = DOMAIN IdleTask
  BY <1>1 DEF Shape
<1>3. stream' = [stream EXCEPT ![s].read_complete_map = map, ![s].read_complete_cursor = cursor]
  BY DEF NotesRead
<1>4. /\ DOMAIN stream' = Streams /\ DOMAIN stream'[s] = DOMAIN stream[s]
      /\ \A r \in Streams \ {s} : stream'[r] = stream[r]
  BY <1>1, <1>3 DEF Shape
<1>5. /\ stream'[s].state = stream[s].state /\ stream'[s].send_state = stream[s].send_state
      /\ stream'[s].recv_state = stream[s].recv_state
      /\ stream'[s].recv_buffers = stream[s].recv_buffers
      /\ stream'[s].read_waiters = stream[s].read_waiters
  BY <1>1, <1>2, <1>3 DEF Shape, NewStream
<1>6. /\ DOMAIN quic' = Streams /\ DOMAIN quic'[s] = DOMAIN quic[s]
      /\ \A r \in Streams \ {s} : quic'[r] = quic[r]
      /\ quic'[s].phase = quic[s].phase
  <2>1. CASE UNCHANGED quic
    BY <1>1, <2>1 DEF Shape
  <2>2. CASE quic' = [quic EXCEPT ![s].pending = pending, ![s].completed = completed]
    BY <1>1, <1>2, <2>2 DEF Shape, NewQuic
  <2> QED
    BY <2>1, <2>2 DEF NotesRead
<1>7. OnlyStream(s)
  BY <1>2, <1>4, <1>6 DEF OnlyStream
<1>8. StreamSound(s)'
  BY <1>1, <1>5, <1>6 DEF StreamSound, Alive
<1>9. task' = [task EXCEPT ![t].dropping = Tail(@)]
  BY DEF NotesRead
<1>10. /\ DOMAIN task' = Task /\ DOMAIN task'[t] = DOMAIN task[t]
       /\ \A u \in Task \ {t} : task'[u] = task[u]
  BY <1>1, <1>9 DEF Shape
<1>11. task'[t].call = task[t].call /\ task'[t].stream = s /\ task'[t].awake = task[t].awake
  BY <1>1, <1>2, <1>9 DEF Shape, IdleTask
<1>12. Moves(t)
  BY <1>2, <1>10 DEF Moves
<1>13. TaskSound(t)'
  BY <1>1, <1>6, <1>11 DEF TaskSound, StreamCalls, Underway
<1>14. SleepsOnStream(t) => SleepsOnStream(t)'
  BY <1>1, <1>5, <1>6, <1>11 DEF SleepsOnStream, Alive, Underway
<1>15. ~SleepsOnConnection(t)
  BY DEF SleepsOnConnection
<1>16. SleepSound(t)'
  BY <1>1, <1>11, <1>14, <1>15 DEF SleepSound
<1> QED
  BY <1>1, <1>7, <1>8, <1>11, <1>12, <1>13, <1>16, StreamPoll

\* Dropping a read buffer keeps the invariant.
LEMMA ReadCompleteKeeps ==
    ASSUME WakeInv, NEW t \in Task, ReadComplete(t), UNCHANGED conn
    PROVE  WakeInv'
<1>1. task[t].dropping # <<>> /\ task[t].call \in {"read", "read_done"} /\ task[t].stream \in Inbound
  BY DEF ReadComplete, WakeInv, TaskSound
<1>2. PICK s \in Inbound : s = task[t].stream
  BY <1>1
<1>3. \E map, cursor, completed, pending : NotesRead(t, s, map, cursor, completed, pending)
  <2> DEFINE b == Head(task[t].dropping)
             map == stream[s].read_complete_map \cup (b.offset..b.offset + b.len - 1)
             end == CompletePrefix(map)
             cursor == IF stream[s].read_complete_cursor < end THEN end
                       ELSE stream[s].read_complete_cursor
             completed == quic[s].completed + end - stream[s].read_complete_cursor
  <2>1. NotesRead(t, s, map, cursor, completed, FALSE)
    BY <1>2 DEF ReadComplete, NotesRead
  <2> HIDE DEF map, cursor, completed
  <2> QED
    BY <2>1
<1> QED
  BY <1>1, <1>2, <1>3, NotesReadKeeps

\* The end of a receive keeps the invariant.
LEMMA EndReadKeeps ==
    ASSUME WakeInv, NEW t \in Task, EndRead(t), UNCHANGED conn
    PROVE  WakeInv'
<1>1. task[t].stream \in Streams
  BY DEF EndRead, Polls, WakeInv, TaskSound, Streams
<1> QED
  BY <1>1, ReturnAndCloseKeeps DEF EndRead, ReturnAndClose

-----------------------------------------------------------------------------
(* Callbacks on a stream *)

\* A callback on stream s that wakes the tasks in W: a task that sleeps on s is
\* woken or has what it had, and a stream that has started stays started.
LEMMA StreamCallbackKeeps ==
    ASSUME WakeInv, NEW s \in Streams, UNCHANGED conn, OnlyStream(s), NEW W, Woken(W),
           StreamSound(s)',
           quic[s].phase \in {"started", "down"} => quic'[s].phase \in {"started", "down"},
           stream[s].state \in {"StartComplete", "ShutdownComplete"}
               => stream'[s].state \in {"StartComplete", "ShutdownComplete"},
           \A t \in Task \ W : task[t].stream = s /\ SleepsOnStream(t) => SleepsOnStream(t)'
    PROVE  WakeInv'
<1>0. Shape /\ Owned /\ \A u \in Task : TaskSound(u) /\ SleepSound(u)
  BY DEF WakeInv
<1>1. Shape'
  BY <1>0, StreamShape DEF Woken
<1>2. \A r \in Streams : StreamSound(r)'
  <2> TAKE r \in Streams
  <2>1. CASE r = s
    BY <2>1
  <2>2. CASE r # s
    <3>1. StreamSound(r) /\ stream'[r] = stream[r] /\ quic'[r] = quic[r]
      BY <2>2 DEF WakeInv, OnlyStream
    <3> QED
      BY <3>1 DEF StreamSound, Alive
  <2> QED
    BY <2>1, <2>2
<1>3. \A r \in Streams :
         /\ quic[r].phase \in {"started", "down"} => quic'[r].phase \in {"started", "down"}
         /\ stream[r].state \in {"StartComplete", "ShutdownComplete"}
               => stream'[r].state \in {"StartComplete", "ShutdownComplete"}
  BY DEF OnlyStream
<1>4. ASSUME NEW u \in Task PROVE TaskSound(u)' /\ SleepSound(u)'
  <2>1. /\ task'[u].call = task[u].call /\ task'[u].stream = task[u].stream
        /\ task'[u].dropping = task[u].dropping
        /\ u \in W => task'[u].awake
        /\ u \notin W => task'[u] = task[u]
    BY DEF Woken
  <2>2. TaskSound(u)'
    BY <1>0, <1>3, <2>1 DEF TaskSound, Underway, Streams
  <2>3. CASE u \in W
    BY <2>1, <2>2, <2>3 DEF SleepSound
  <2>4. CASE u \notin W
    <3>1. SleepsOnConnection(u) => SleepsOnConnection(u)'
      BY <2>1 DEF SleepsOnConnection
    <3>2. CASE task[u].stream = s
      BY <1>0, <2>1, <2>2, <2>4, <3>1, <3>2 DEF SleepSound
    <3>3. CASE task[u].stream # s
      <4>1. task[u].stream \in Streams => /\ stream'[task[u].stream] = stream[task[u].stream]
                                          /\ quic'[task[u].stream] = quic[task[u].stream]
        BY <3>3 DEF OnlyStream
      <4>2. SleepsOnStream(u) => SleepsOnStream(u)'
        BY <2>1, <2>4, <4>1 DEF SleepsOnStream, Alive, Underway
      <4> QED
        BY <1>0, <2>1, <2>2, <2>4, <3>1, <4>2 DEF SleepSound
    <3> QED
      BY <3>2, <3>3
  <2> QED
    BY <2>3, <2>4
<1>5. Owned'
  <2>1. \A u \in Task : task'[u].stream = task[u].stream
    BY DEF Woken
  <2>2. \A i \in DOMAIN conn.inbound_uni_streams : conn.inbound_uni_streams[i] \in Streams
    BY <1>0 DEF Shape, Streams
  <2> QED
    BY <1>0, <1>3, <2>1, <2>2 DEF Owned
<1>6. (conn.state = "Open" => conn.local)'
  BY DEF WakeInv
<1> QED
  BY <1>1, <1>2, <1>4, <1>5, <1>6 DEF WakeInv

\* A start that ends with the peer's acceptance: those that wait for it wake.
LEMMA StartedKeeps ==
    ASSUME WakeInv, NEW s \in Streams, UNCHANGED conn, OnlyStream(s),
           quic[s].phase \in {"starting", "blocked"},
           Woken(stream[s].start_waiters),
           stream'[s].state = "StartComplete", stream'[s].send_state = "StartComplete",
           stream'[s].recv_state = stream[s].recv_state, quic'[s].phase = "started"
    PROVE  WakeInv'
<1>1. StreamSound(s) /\ \A t \in Task : TaskSound(t)
  BY DEF WakeInv
<1>2. StreamSound(s)'
  BY <1>1 DEF StreamSound, Alive
<1>3. \A t \in Task : task[t].stream = s /\ SleepsOnStream(t) => t \in stream[s].start_waiters
  BY <1>1 DEF SleepsOnStream, TaskSound, StreamSound
<1> QED
  BY <1>2, <1>3, StreamCallbackKeeps

\* A start that is held up or fails: those that wait for it wake, or wait on.
LEMMA HeldUpKeeps ==
    ASSUME WakeInv, NEW s \in Streams, UNCHANGED conn, OnlyStream(s),
           quic[s].phase = "starting", NEW W \in {{}, stream[s].start_waiters}, Woken(W),
           stream'[s].state = stream[s].state, stream'[s].send_state = stream[s].send_state,
           stream'[s].recv_state = stream[s].recv_state,
           W = {} => stream'[s].start_waiters = stream[s].start_waiters,
           quic'[s].phase \in {"blocked", "failed"}
    PROVE  WakeInv'
<1>1. StreamSound(s) /\ \A t \in Task : TaskSound(t)
  BY DEF WakeInv
<1>2. StreamSound(s)'
  BY <1>1 DEF StreamSound, Alive
<1>3. ASSUME NEW t \in Task \ W, task[t].stream = s, SleepsOnStream(t) PROVE SleepsOnStream(t)'
  <2>1. task[t].call = "open" /\ stream[s].state = "Start" /\ t \in stream[s].start_waiters
    BY <1>1, <1>3 DEF SleepsOnStream, TaskSound, StreamSound
  <2>2. W = {} /\ task'[t] = task[t]
    BY <2>1 DEF Woken
  <2> QED
    BY <1>3, <2>1, <2>2 DEF SleepsOnStream, Alive, Underway
<1> QED
  BY <1>2, <1>3, StreamCallbackKeeps

\* A change of the sending half wakes those that wait for its shutdown.
LEMMA SendEndsKeeps ==
    ASSUME WakeInv, NEW s \in Outbound, UNCHANGED conn, OnlyStream(s),
           quic[s].phase = "started", Woken(stream[s].write_shutdown_waiters),
           stream'[s].state = stream[s].state, stream'[s].send_state = "ShutdownComplete",
           stream'[s].recv_state = stream[s].recv_state,
           quic'[s].phase = quic[s].phase
    PROVE  WakeInv'
<1>1. StreamSound(s) /\ (\A t \in Task : TaskSound(t)) /\ s \in Streams
  BY DEF WakeInv, Streams
<1>2. StreamSound(s)'
  BY <1>1 DEF StreamSound, Alive
<1>3. \A t \in Task : task[t].stream = s /\ SleepsOnStream(t) => t \in stream[s].write_shutdown_waiters
  BY <1>1, StreamAssumption DEF SleepsOnStream, TaskSound, StreamSound, StreamAssumption
<1> QED
  BY <1>1, <1>2, <1>3, StreamCallbackKeeps

\* A change of the receiving half wakes the readers.
LEMMA ReceiveKeeps ==
    ASSUME WakeInv, NEW s \in Streams, UNCHANGED conn, OnlyStream(s),
           quic[s].phase = "started", Woken(stream[s].read_waiters),
           stream'[s].state = stream[s].state, stream'[s].send_state = stream[s].send_state,
           stream'[s].write_shutdown_waiters = stream[s].write_shutdown_waiters,
           stream'[s].recv_state \in {stream[s].recv_state, "ShutdownComplete"},
           quic'[s].phase = quic[s].phase
    PROVE  WakeInv'
<1>1. StreamSound(s)
  BY DEF WakeInv
<1>2. StreamSound(s)'
  BY <1>1 DEF StreamSound, Alive
<1>3. ASSUME NEW t \in Task \ stream[s].read_waiters, task[t].stream = s, SleepsOnStream(t)
      PROVE  SleepsOnStream(t)'
  <2>1. /\ task[t].call = "finish" /\ stream[s].send_state = "Shutdown"
        /\ t \in stream[s].write_shutdown_waiters
    BY <1>1, <1>3 DEF SleepsOnStream, StreamSound
  <2>2. task'[t] = task[t]
    BY DEF Woken
  <2> QED
    BY <1>3, <2>1, <2>2 DEF SleepsOnStream, Alive, Underway
<1> QED
  BY <1>2, <1>3, StreamCallbackKeeps

\* handle_event_start_complete keeps the invariant.
LEMMA StartCompleteKeeps ==
    ASSUME WakeInv, NEW s \in Streams, NEW status \in {"ok", "limit_reached", "aborted"},
           NEW peer_accepted \in BOOLEAN, HandleStartComplete(s, status, peer_accepted), UNCHANGED conn
    PROVE  WakeInv'
<1>1. Shape
  BY DEF WakeInv
<1>2. DOMAIN stream[s] = DOMAIN NewStream(s) /\ DOMAIN quic[s] = DOMAIN NewQuic("none")
  BY <1>1 DEF Shape
<1> DEFINE drains == peer_accepted \/ status = "limit_reached"
           state == IF peer_accepted THEN "StartComplete" ELSE stream[s].state
           send == IF peer_accepted THEN "StartComplete" ELSE stream[s].send_state
           waiters == IF drains THEN {} ELSE stream[s].start_waiters
           phase == CASE peer_accepted -> "started"
                      [] status = "ok" /\ ~peer_accepted -> "blocked"
                      [] OTHER -> "failed"
<1>3. stream' = [stream EXCEPT ![s].start_status = status, ![s].state = state,
                               ![s].send_state = send, ![s].start_waiters = waiters]
  BY DEF HandleStartComplete
<1>4. quic' = [quic EXCEPT ![s].phase = phase]
  BY DEF HandleStartComplete
<1>5. Wake(IF drains THEN stream[s].start_waiters ELSE {}) /\ quic[s].phase = "starting"
  BY DEF HandleStartComplete
<1>6. peer_accepted => state = "StartComplete" /\ send = "StartComplete" /\ phase = "started"
  OBVIOUS
<1>7. ~peer_accepted => state = stream[s].state /\ send = stream[s].send_state /\ phase \in {"blocked", "failed"}
  OBVIOUS
<1>8. (~drains => waiters = stream[s].start_waiters) /\ (peer_accepted => drains)
  OBVIOUS
<1> HIDE DEF drains, state, send, waiters, phase
<1>9. /\ DOMAIN stream' = Streams /\ DOMAIN stream'[s] = DOMAIN stream[s]
      /\ \A r \in Streams \ {s} : stream'[r] = stream[r]
  BY <1>1, <1>3 DEF Shape
<1>10. /\ stream'[s].state = state /\ stream'[s].send_state = send
       /\ stream'[s].start_waiters = waiters /\ stream'[s].recv_state = stream[s].recv_state
  BY <1>1, <1>2, <1>3 DEF Shape, NewStream
<1>11. /\ DOMAIN quic' = Streams /\ DOMAIN quic'[s] = DOMAIN quic[s] /\ quic'[s].phase = phase
       /\ \A r \in Streams \ {s} : quic'[r] = quic[r]
  BY <1>1, <1>2, <1>4 DEF Shape, NewQuic
<1>12. OnlyStream(s)
  BY <1>2, <1>9, <1>11 DEF OnlyStream
<1>13. PICK W : W = IF drains THEN stream[s].start_waiters ELSE {}
  OBVIOUS
<1>14. Woken(W)
  BY <1>1, <1>5, <1>13, WakeWakes
<1>15. CASE peer_accepted
  BY <1>5, <1>6, <1>8, <1>10, <1>11, <1>12, <1>13, <1>14, <1>15, StartedKeeps
<1>16. CASE ~peer_accepted
  <2>1. W \in {{}, stream[s].start_waiters}
    BY <1>13
  <2>2. W = {} => stream'[s].start_waiters = stream[s].start_waiters
    <3>1. drains => waiters = {}
      BY DEF waiters
    <3> QED
      BY <1>8, <1>10, <1>13, <3>1
  <2> QED
    BY <1>5, <1>7, <1>10, <1>11, <1>12, <1>14, <1>16, <2>1, <2>2, HeldUpKeeps
<1> QED
  BY <1>15, <1>16

\* handle_event_peer_accepted keeps the invariant.
LEMMA PeerAcceptedKeeps ==
    ASSUME WakeInv, NEW s \in Streams, HandlePeerAccepted(s), UNCHANGED conn
    PROVE  WakeInv'
<1>1. Shape
  BY DEF WakeInv
<1>2. DOMAIN stream[s] = DOMAIN NewStream(s) /\ DOMAIN quic[s] = DOMAIN NewQuic("none")
  BY <1>1 DEF Shape
<1>3. /\ stream' = [stream EXCEPT ![s].state = "StartComplete", ![s].send_state = "StartComplete",
                                  ![s].start_waiters = {}]
      /\ quic' = [quic EXCEPT ![s].phase = "started"]
      /\ Wake(stream[s].start_waiters) /\ quic[s].phase = "blocked"
  BY DEF HandlePeerAccepted
<1>4. /\ DOMAIN stream' = Streams /\ DOMAIN stream'[s] = DOMAIN stream[s]
      /\ \A r \in Streams \ {s} : stream'[r] = stream[r]
  BY <1>1, <1>3 DEF Shape
<1>5. /\ stream'[s].state = "StartComplete" /\ stream'[s].send_state = "StartComplete"
      /\ stream'[s].recv_state = stream[s].recv_state
  BY <1>1, <1>2, <1>3 DEF Shape, NewStream
<1>6. /\ DOMAIN quic' = Streams /\ DOMAIN quic'[s] = DOMAIN quic[s] /\ quic'[s].phase = "started"
      /\ \A r \in Streams \ {s} : quic'[r] = quic[r]
  BY <1>1, <1>2, <1>3 DEF Shape, NewQuic
<1>7. OnlyStream(s)
  BY <1>2, <1>4, <1>6 DEF OnlyStream
<1>8. Woken(stream[s].start_waiters)
  BY <1>1, <1>3, WakeWakes
<1> QED
  BY <1>3, <1>5, <1>6, <1>7, <1>8, StartedKeeps

\* The end of sending, acknowledged or refused, keeps the invariant.
LEMMA SendShutdownKeeps ==
    ASSUME WakeInv, NEW s \in Streams, NEW closing,
           HandleSendShutdownComplete(s, closing) \/ HandlePeerReceiveAborted(s), UNCHANGED conn
    PROVE  WakeInv'
<1>1. Shape
  BY DEF WakeInv
<1>2. DOMAIN stream[s] = DOMAIN NewStream(s) /\ DOMAIN quic[s] = DOMAIN NewQuic("none")
  BY <1>1 DEF Shape
<1>3. /\ s \in Outbound /\ quic[s].phase = "started" /\ Wake(stream[s].write_shutdown_waiters)
      /\ \/ stream' = [stream EXCEPT ![s].send_state = "ShutdownComplete",
                                     ![s].write_shutdown_waiters = {}]
         \/ stream' = [stream EXCEPT ![s].send_state = "ShutdownComplete", ![s].send_error = TRUE,
                                     ![s].write_shutdown_waiters = {}]
      /\ quic' = [quic EXCEPT ![s].sending = "done"] \/ UNCHANGED quic
  BY DEF HandleSendShutdownComplete, HandlePeerReceiveAborted
<1>4. /\ DOMAIN stream' = Streams /\ DOMAIN stream'[s] = DOMAIN stream[s]
      /\ \A r \in Streams \ {s} : stream'[r] = stream[r]
  BY <1>1, <1>3 DEF Shape
<1>5. /\ stream'[s].state = stream[s].state /\ stream'[s].send_state = "ShutdownComplete"
      /\ stream'[s].recv_state = stream[s].recv_state
  BY <1>1, <1>2, <1>3 DEF Shape, NewStream
<1>6. /\ DOMAIN quic' = Streams /\ DOMAIN quic'[s] = DOMAIN quic[s] /\ quic'[s].phase = quic[s].phase
      /\ \A r \in Streams \ {s} : quic'[r] = quic[r]
  BY <1>1, <1>2, <1>3 DEF Shape, NewQuic
<1>7. OnlyStream(s)
  BY <1>2, <1>4, <1>6 DEF OnlyStream
<1>8. Woken(stream[s].write_shutdown_waiters)
  BY <1>1, <1>3, WakeWakes
<1> QED
  BY <1>3, <1>5, <1>6, <1>7, <1>8, SendEndsKeeps

\* The end of receiving, by the peer's FIN or its abort, keeps the invariant.
LEMMA ReceiveEndsKeeps ==
    ASSUME WakeInv, NEW s \in Streams,
           HandlePeerSendShutdown(s) \/ HandlePeerSendAborted(s), UNCHANGED conn
    PROVE  WakeInv'
<1>1. Shape
  BY DEF WakeInv
<1>2. DOMAIN stream[s] = DOMAIN NewStream(s) /\ DOMAIN quic[s] = DOMAIN NewQuic("none")
  BY <1>1 DEF Shape
<1>3. /\ quic[s].phase = "started" /\ Wake(stream[s].read_waiters)
      /\ \/ stream' = [stream EXCEPT ![s].recv_state = "ShutdownComplete", ![s].read_waiters = {}]
         \/ stream' = [stream EXCEPT ![s].recv_state = "ShutdownComplete", ![s].recv_error = TRUE,
                                     ![s].read_waiters = {}]
      /\ quic' = [quic EXCEPT ![s].receiving = "done"]
  BY DEF HandlePeerSendShutdown, HandlePeerSendAborted
<1>4. /\ DOMAIN stream' = Streams /\ DOMAIN stream'[s] = DOMAIN stream[s]
      /\ \A r \in Streams \ {s} : stream'[r] = stream[r]
  BY <1>1, <1>3 DEF Shape
<1>5. /\ stream'[s].state = stream[s].state /\ stream'[s].send_state = stream[s].send_state
      /\ stream'[s].recv_state = "ShutdownComplete"
      /\ stream'[s].write_shutdown_waiters = stream[s].write_shutdown_waiters
  BY <1>1, <1>2, <1>3 DEF Shape, NewStream
<1>6. /\ DOMAIN quic' = Streams /\ DOMAIN quic'[s] = DOMAIN quic[s] /\ quic'[s].phase = quic[s].phase
      /\ \A r \in Streams \ {s} : quic'[r] = quic[r]
  BY <1>1, <1>2, <1>3 DEF Shape, NewQuic
<1>7. OnlyStream(s)
  BY <1>2, <1>4, <1>6 DEF OnlyStream
<1>8. Woken(stream[s].read_waiters)
  BY <1>1, <1>3, WakeWakes
<1> QED
  BY <1>3, <1>5, <1>6, <1>7, <1>8, ReceiveKeeps

\* handle_event_receive keeps the invariant.
LEMMA HandleReceiveKeeps ==
    ASSUME WakeInv, NEW s \in Streams, NEW length, NEW fin,
           HandleReceive(s, length, fin), UNCHANGED conn
    PROVE  WakeInv'
<1>1. Shape
  BY DEF WakeInv
<1>2. DOMAIN stream[s] = DOMAIN NewStream(s) /\ DOMAIN quic[s] = DOMAIN NewQuic("none")
  BY <1>1 DEF Shape
<1>3. PICK len, buffers :
         stream' = [stream EXCEPT ![s].recv_len = len, ![s].recv_buffers = buffers,
                                  ![s].read_waiters = {}]
  <2> DEFINE len == stream[s].recv_len + length
             buffers == Append(stream[s].recv_buffers,
                               [offset |-> stream[s].recv_len, len |-> length,
                                read |-> 0, fin |-> fin])
  <2>1. stream' = [stream EXCEPT ![s].recv_len = len, ![s].recv_buffers = buffers,
                                 ![s].read_waiters = {}]
    BY DEF HandleReceive
  <2> HIDE DEF len, buffers
  <2> QED
    BY <2>1
<1>4. /\ quic[s].phase = "started" /\ Wake(stream[s].read_waiters)
      /\ quic' = [quic EXCEPT ![s].pending = TRUE, ![s].fin = fin]
  BY DEF HandleReceive
<1>5. /\ DOMAIN stream' = Streams /\ DOMAIN stream'[s] = DOMAIN stream[s]
      /\ \A r \in Streams \ {s} : stream'[r] = stream[r]
  BY <1>1, <1>3 DEF Shape
<1>6. /\ stream'[s].state = stream[s].state /\ stream'[s].send_state = stream[s].send_state
      /\ stream'[s].recv_state = stream[s].recv_state
      /\ stream'[s].write_shutdown_waiters = stream[s].write_shutdown_waiters
  BY <1>1, <1>2, <1>3 DEF Shape, NewStream
<1>7. /\ DOMAIN quic' = Streams /\ DOMAIN quic'[s] = DOMAIN quic[s] /\ quic'[s].phase = quic[s].phase
      /\ \A r \in Streams \ {s} : quic'[r] = quic[r]
  BY <1>1, <1>2, <1>4 DEF Shape, NewQuic
<1>8. OnlyStream(s)
  BY <1>2, <1>5, <1>7 DEF OnlyStream
<1>9. Woken(stream[s].read_waiters)
  BY <1>1, <1>4, WakeWakes
<1> QED
  BY <1>4, <1>6, <1>7, <1>8, <1>9, ReceiveKeeps

\* handle_event_shutdown_complete of a stream keeps the invariant: it wakes all
\* that sleep on the stream.
LEMMA StreamDownKeeps ==
    ASSUME WakeInv, NEW s \in Streams, NEW closing, HandleShutdownComplete(s, closing), UNCHANGED conn
    PROVE  WakeInv'
<1>1. Shape
  BY DEF WakeInv
<1>2. DOMAIN stream[s] = DOMAIN NewStream(s) /\ DOMAIN quic[s] = DOMAIN NewQuic("none")
  BY <1>1 DEF Shape
<1> DEFINE W == stream[s].start_waiters \cup stream[s].read_waiters \cup stream[s].write_shutdown_waiters
<1>3. Wake(W)
  BY DEF HandleShutdownComplete
<1>4. stream' = [stream EXCEPT
                  ![s].state = "ShutdownComplete", ![s].recv_state = "ShutdownComplete",
                  ![s].send_state = "ShutdownComplete", ![s].recv_buffers = <<>>,
                  ![s].conn_error = closing,
                  ![s].start_waiters = {}, ![s].read_waiters = {},
                  ![s].write_shutdown_waiters = {}]
  BY DEF HandleShutdownComplete
<1>5. PICK completed : quic' = [quic EXCEPT ![s].phase = "down", ![s].completed = completed]
  <2> DEFINE completed == IF stream[s].recv_buffers = <<>> THEN quic[s].completed
                          ELSE quic[s].completed + stream[s].recv_len - stream[s].read_complete_cursor
  <2>1. quic' = [quic EXCEPT ![s].phase = "down", ![s].completed = completed]
    BY DEF HandleShutdownComplete
  <2> HIDE DEF completed
  <2> QED
    BY <2>1
<1>6. /\ DOMAIN stream' = Streams /\ DOMAIN stream'[s] = DOMAIN stream[s]
      /\ \A r \in Streams \ {s} : stream'[r] = stream[r]
  BY <1>1, <1>4 DEF Shape
<1>7. /\ stream'[s].state = "ShutdownComplete" /\ stream'[s].send_state = "ShutdownComplete"
      /\ stream'[s].recv_state = "ShutdownComplete"
  BY <1>1, <1>2, <1>4 DEF Shape, NewStream
<1>8. /\ DOMAIN quic' = Streams /\ DOMAIN quic'[s] = DOMAIN quic[s] /\ quic'[s].phase = "down"
      /\ \A r \in Streams \ {s} : quic'[r] = quic[r]
  BY <1>1, <1>2, <1>5 DEF Shape, NewQuic
<1>9. OnlyStream(s)
  BY <1>2, <1>6, <1>8 DEF OnlyStream
<1>10. \A t \in Task : task[t].stream = s /\ SleepsOnStream(t) => t \in W
  BY DEF SleepsOnStream
<1>11. StreamSound(s)'
  BY <1>7, <1>8 DEF StreamSound, Alive
<1> HIDE DEF W
<1>12. Woken(W)
  BY <1>1, <1>3, WakeWakes
<1> QED
  BY <1>7, <1>8, <1>9, <1>10, <1>11, <1>12, StreamCallbackKeeps

\* Every callback on a stream keeps the invariant.
LEMMA StreamCallbacksKeep ==
    ASSUME WakeInv, NEW s \in Streams, StreamCallback(s), UNCHANGED conn
    PROVE  WakeInv'
<1>1. CASE HandleStartComplete(s, "ok", TRUE) \/ HandleStartComplete(s, "ok", FALSE)
  BY <1>1, StartCompleteKeeps
<1>2. CASE HandleStartComplete(s, "limit_reached", FALSE) \/ HandleStartComplete(s, "aborted", FALSE)
  BY <1>2, StartCompleteKeeps
<1>3. CASE HandlePeerAccepted(s)
  BY <1>3, PeerAcceptedKeeps
<1>4. CASE HandleSendShutdownComplete(s, Lost) \/ HandlePeerReceiveAborted(s)
  <2>1. PICK closing : closing = Lost
    OBVIOUS
  <2> QED
    BY <1>4, <2>1, SendShutdownKeeps
<1>5. CASE \E length \in 0..MessageLength, fin \in BOOLEAN : HandleReceive(s, length, fin)
  BY <1>5, HandleReceiveKeeps
<1>6. CASE HandlePeerSendShutdown(s) \/ HandlePeerSendAborted(s)
  BY <1>6, ReceiveEndsKeeps
<1>7. CASE HandleShutdownComplete(s, Lost)
  <2>1. PICK closing : closing = Lost
    OBVIOUS
  <2> QED
    BY <1>7, <2>1, StreamDownKeeps
<1> QED
  BY <1>1, <1>2, <1>3, <1>4, <1>5, <1>6, <1>7 DEF StreamCallback

-----------------------------------------------------------------------------
(* Callbacks on the connection *)

\* A callback on the connection that wakes the tasks in W: a task that sleeps on
\* the connection is woken or has what it had.
LEMMA ConnectionCallbackKeeps ==
    ASSUME WakeInv, NEW W, Woken(W), UNCHANGED <<stream, quic>>,
           DOMAIN conn' = DOMAIN conn, conn'.local = conn.local,
           conn'.inbound_uni_streams = conn.inbound_uni_streams,
           conn'.state \in ConnectionStates \ {"Open"}, Underway => Underway',
           conn'.state = "ShutdownComplete" => \A s \in Streams : ~Alive(s),
           \A t \in Task \ W : SleepsOnConnection(t) => SleepsOnConnection(t)'
    PROVE  WakeInv'
<1>0. Shape /\ Owned /\ \A u \in Task : TaskSound(u) /\ SleepSound(u)
  BY DEF WakeInv
<1>1. Shape' /\ (conn.state = "Open" => conn.local)'
  BY <1>0 DEF Shape, Woken, NewStream, NewQuic, IdleTask
<1>2. \A s \in Streams : StreamSound(s)'
  <2> TAKE s \in Streams
  <2>1. StreamSound(s)
    BY DEF WakeInv
  <2> QED
    BY <2>1 DEF StreamSound, Alive
<1>3. ASSUME NEW u \in Task PROVE TaskSound(u)' /\ SleepSound(u)'
  <2>1. /\ task'[u].call = task[u].call /\ task'[u].stream = task[u].stream
        /\ task'[u].dropping = task[u].dropping
        /\ u \in W => task'[u].awake
        /\ u \notin W => task'[u] = task[u]
    BY DEF Woken
  <2>2. TaskSound(u)'
    BY <1>0, <2>1 DEF TaskSound
  <2>3. SleepsOnStream(u) => SleepsOnStream(u)'
    BY <2>1 DEF SleepsOnStream, Alive
  <2> QED
    BY <1>0, <2>1, <2>2, <2>3 DEF SleepSound
<1>4. Owned'
  <2>1. \A u \in Task : task'[u].stream = task[u].stream
    BY DEF Woken
  <2> QED
    BY <1>0, <2>1 DEF Owned
<1> QED
  BY <1>1, <1>2, <1>3, <1>4 DEF WakeInv

\* handle_event_connected keeps the invariant: whoever waits for the handshake
\* is in the list it drains.
LEMMA ConnectedKeeps ==
    ASSUME WakeInv, HandleConnected
    PROVE  WakeInv'
<1>1. Shape
  BY DEF WakeInv
<1>2. /\ conn.state = "Connecting" /\ Wake(conn.start_waiters) /\ UNCHANGED <<stream, quic>>
      /\ conn' = [conn EXCEPT !.state = "Connected", !.start_waiters = {}]
  BY DEF HandleConnected
<1>3. /\ DOMAIN conn' = DOMAIN conn /\ conn'.state = "Connected"
      /\ \A f \in DOMAIN conn \ {"state", "start_waiters"} : conn'[f] = conn[f]
  BY <1>1, <1>2 DEF Shape
<1>4. /\ conn'.local = conn.local /\ conn'.inbound_uni_streams = conn.inbound_uni_streams
      /\ conn'.certificate = conn.certificate /\ conn'.certificate_waiters = conn.certificate_waiters
  BY <1>1, <1>3 DEF Shape
<1>5. PICK W : W = conn.start_waiters
  OBVIOUS
<1>6. Woken(W)
  BY <1>1, <1>2, <1>5, WakeWakes
<1>7. \A t \in Task \ W : SleepsOnConnection(t) => SleepsOnConnection(t)'
  BY <1>2, <1>3, <1>4, <1>5, <1>6 DEF SleepsOnConnection, Woken
<1> QED
  BY <1>2, <1>3, <1>4, <1>6, <1>7, ConnectionCallbackKeeps DEF Underway, ConnectionStates

\* handle_event_peer_certificate_received keeps the invariant.
LEMMA CertificateReceivedKeeps ==
    ASSUME WakeInv, HandlePeerCertificateReceived
    PROVE  WakeInv'
<1>1. Shape
  BY DEF WakeInv
<1>2. /\ conn.state = "Connecting" /\ Wake(conn.certificate_waiters) /\ UNCHANGED <<stream, quic>>
      /\ conn' = [conn EXCEPT !.certificate = TRUE, !.certificate_waiters = {}]
  BY DEF HandlePeerCertificateReceived
<1>3. /\ DOMAIN conn' = DOMAIN conn
      /\ \A f \in DOMAIN conn \ {"certificate", "certificate_waiters"} : conn'[f] = conn[f]
  BY <1>1, <1>2 DEF Shape
<1>4. /\ conn'.local = conn.local /\ conn'.inbound_uni_streams = conn.inbound_uni_streams
      /\ conn'.state = conn.state /\ conn'.start_waiters = conn.start_waiters
      /\ conn'.inbound_uni_stream_waiters = conn.inbound_uni_stream_waiters
      /\ conn'.shutdown_waiters = conn.shutdown_waiters
  BY <1>1, <1>3 DEF Shape
<1>5. PICK W : W = conn.certificate_waiters
  OBVIOUS
<1>6. Woken(W)
  BY <1>1, <1>2, <1>5, WakeWakes
<1>7. \A t \in Task \ W : SleepsOnConnection(t) => SleepsOnConnection(t)'
  BY <1>2, <1>4, <1>5, <1>6 DEF SleepsOnConnection, Woken
<1> QED
  BY <1>2, <1>3, <1>4, <1>6, <1>7, ConnectionCallbackKeeps DEF Underway, ConnectionStates

\* The beginning of a shutdown, by the transport or by the peer, keeps the
\* invariant: only those that wait for the end of the shutdown sleep on.
LEMMA ShutdownInitiatedKeeps ==
    ASSUME WakeInv, NEW by, HandleShutdownInitiated(by)
    PROVE  WakeInv'
<1>1. Shape
  BY DEF WakeInv
<1>2. /\ conn.state \in {"Connecting", "Connected", "Shutdown"}
      /\ Wake(Waiters(CallLists)) /\ UNCHANGED <<stream, quic>>
      /\ conn' = [Drained(CallLists, conn) EXCEPT !.state = "Shutdown", !.error = by]
  BY DEF HandleShutdownInitiated
<1> DEFINE d == Drained(CallLists, conn)
<1>3. /\ DOMAIN d = DOMAIN conn
      /\ d.local = conn.local /\ d.inbound_uni_streams = conn.inbound_uni_streams
      /\ d.shutdown_waiters = conn.shutdown_waiters
  BY <1>1 DEF Drained, CallLists, Shape
<1> HIDE DEF d
<1>4. conn' = [d EXCEPT !.state = "Shutdown", !.error = by]
  BY <1>2 DEF d
<1>5. /\ DOMAIN conn' = DOMAIN conn /\ conn'.state = "Shutdown"
      /\ conn'.local = conn.local /\ conn'.inbound_uni_streams = conn.inbound_uni_streams
      /\ conn'.shutdown_waiters = conn.shutdown_waiters
  BY <1>1, <1>3, <1>4 DEF Shape
<1>6. PICK W : W = Waiters(CallLists)
  OBVIOUS
<1>7. Woken(W)
  BY <1>1, <1>2, <1>6, WakeWakes
<1>8. /\ conn.start_waiters \subseteq W /\ conn.certificate_waiters \subseteq W
      /\ conn.inbound_uni_stream_waiters \subseteq W
  BY <1>6 DEF Waiters, CallLists
<1>9. \A t \in Task \ W : SleepsOnConnection(t) => SleepsOnConnection(t)'
  BY <1>2, <1>5, <1>7, <1>8 DEF SleepsOnConnection, Woken
<1> QED
  BY <1>2, <1>5, <1>7, <1>9, ConnectionCallbackKeeps DEF Underway, ConnectionStates

\* The end of the shutdown keeps the invariant: nobody sleeps on.
LEMMA ConnectionDownKeeps ==
    ASSUME WakeInv, HandleConnectionShutdownComplete
    PROVE  WakeInv'
<1>1. Shape
  BY DEF WakeInv
<1> DEFINE lists == CallLists \cup {"shutdown_waiters"}
           d == Drained(lists, conn)
<1>2. /\ conn.state = "Shutdown" /\ Wake(Waiters(lists)) /\ UNCHANGED <<stream, quic>>
      /\ \A s \in Streams : ~Alive(s)
  BY DEF HandleConnectionShutdownComplete
<1>3. PICK error : conn' = [d EXCEPT !.state = "ShutdownComplete", !.error = error]
  <2> DEFINE error == IF d.error = "none" THEN "ByLocal" ELSE d.error
  <2>1. conn' = [d EXCEPT !.state = "ShutdownComplete", !.error = error]
    BY DEF HandleConnectionShutdownComplete
  <2> HIDE DEF error
  <2> QED
    BY <2>1
<1>4. /\ DOMAIN d = DOMAIN conn
      /\ d.local = conn.local /\ d.inbound_uni_streams = conn.inbound_uni_streams
  BY <1>1 DEF Drained, CallLists, Shape
<1>5. PICK W : W = Waiters(lists)
  OBVIOUS
<1>6. /\ conn.start_waiters \subseteq W /\ conn.certificate_waiters \subseteq W
      /\ conn.inbound_uni_stream_waiters \subseteq W /\ conn.shutdown_waiters \subseteq W
  BY <1>5 DEF Waiters, CallLists
<1> HIDE DEF d, lists
<1>7. /\ DOMAIN conn' = DOMAIN conn /\ conn'.state = "ShutdownComplete"
      /\ conn'.local = conn.local /\ conn'.inbound_uni_streams = conn.inbound_uni_streams
  BY <1>1, <1>3, <1>4 DEF Shape
<1>8. Woken(W)
  BY <1>1, <1>2, <1>5, WakeWakes
<1>9. \A t \in Task : SleepsOnConnection(t) => t \in W
  BY <1>6 DEF SleepsOnConnection
<1> QED
  BY <1>2, <1>7, <1>8, <1>9, ConnectionCallbackKeeps DEF Underway, ConnectionStates

\* A new stream of the peer keeps the invariant: it is nobody's yet.
LEMMA PeerStreamKeeps ==
    ASSUME WakeInv, NEW s \in Inbound, HandlePeerStreamStarted(s)
    PROVE  WakeInv'
<1>0. Shape /\ Owned /\ \A u \in Task : TaskSound(u) /\ SleepSound(u)
  BY DEF WakeInv
<1>1. s \in Streams /\ s \notin Outbound /\ s # NoStream
  BY StreamAssumption DEF StreamAssumption, Streams
<1> DEFINE q == conn.inbound_uni_streams
<1>2. /\ conn.state = "Connected" /\ quic[s].phase = "none" /\ UNCHANGED stream
      /\ quic' = [quic EXCEPT ![s].phase = "started"]
      /\ Wake(conn.inbound_uni_stream_waiters)
      /\ conn' = [conn EXCEPT !.inbound_uni_streams = Append(q, s), !.inbound_uni_stream_waiters = {}]
  BY DEF HandlePeerStreamStarted
<1>3. /\ DOMAIN conn' = DOMAIN conn /\ conn'.inbound_uni_streams = Append(q, s)
      /\ conn'.state = conn.state /\ conn'.local = conn.local
      /\ conn'.certificate = conn.certificate /\ conn'.certificate_waiters = conn.certificate_waiters
  BY <1>0, <1>2 DEF Shape
<1>4. q \in Seq(Inbound)
  BY <1>0 DEF Shape
<1>5. /\ Append(q, s) \in Seq(Inbound) /\ DOMAIN Append(q, s) = DOMAIN q \cup {Len(q) + 1}
      /\ Append(q, s)[Len(q) + 1] = s /\ Len(q) + 1 \notin DOMAIN q
      /\ \A i \in DOMAIN q : Append(q, s)[i] = q[i]
  BY <1>4
<1>6. /\ DOMAIN quic' = Streams /\ DOMAIN quic'[s] = DOMAIN quic[s] /\ quic'[s].phase = "started"
      /\ \A r \in Streams \ {s} : quic'[r] = quic[r]
  BY <1>0, <1>1, <1>2 DEF Shape, NewQuic
<1>7. PICK W : W = conn.inbound_uni_stream_waiters
  OBVIOUS
<1>8. Woken(W)
  BY <1>0, <1>2, <1>7, WakeWakes
<1>9. \A u \in Task : task[u].stream # s
  BY <1>0, <1>1, <1>2 DEF TaskSound, StreamCalls
<1>10. \A i \in DOMAIN q : q[i] # s /\ q[i] \in Streams
  BY <1>0, <1>2, <1>4 DEF Owned, Streams
<1> DEFINE p == Append(q, s)
           n == Len(q) + 1
<1>11. /\ p \in Seq(Inbound) /\ DOMAIN p = DOMAIN q \cup {n} /\ p[n] = s /\ n \notin DOMAIN q
       /\ \A i \in DOMAIN q : p[i] = q[i]
       /\ conn'.inbound_uni_streams = p
  BY <1>3, <1>5
<1> HIDE DEF p, n
<1>12. Shape' /\ (conn.state = "Open" => conn.local)'
  <2>1. \A r \in Streams : DOMAIN quic'[r] = DOMAIN NewQuic("none")
    BY <1>0, <1>6 DEF Shape
  <2> HIDE DEF q
  <2> QED
    BY <1>0, <1>2, <1>3, <1>6, <1>8, <1>11, <2>1 DEF Shape, Woken, NewStream, NewQuic, IdleTask
<1>13. \A r \in Streams : StreamSound(r)'
  <2> TAKE r \in Streams
  <2>1. StreamSound(r)
    BY DEF WakeInv
  <2>2. CASE r = s
    BY <1>1, <1>2, <1>3, <1>6, <2>1, <2>2 DEF StreamSound, Alive
  <2>3. CASE r # s
    BY <1>2, <1>3, <1>6, <2>1, <2>3 DEF StreamSound, Alive
  <2> QED
    BY <2>2, <2>3
<1>14. ASSUME NEW u \in Task PROVE TaskSound(u)' /\ SleepSound(u)'
  <2>1. /\ task'[u].call = task[u].call /\ task'[u].stream = task[u].stream
        /\ task'[u].dropping = task[u].dropping
        /\ u \in W => task'[u].awake
        /\ u \notin W => task'[u] = task[u]
    BY <1>8 DEF Woken
  <2>2. task[u].stream \in Streams => quic'[task[u].stream] = quic[task[u].stream]
    BY <1>6, <1>9
  <2>3. TaskSound(u)'
    BY <1>0, <1>2, <1>3, <2>1, <2>2 DEF TaskSound, Underway, Streams
  <2>4. SleepsOnStream(u) => SleepsOnStream(u)'
    BY <1>2, <1>3, <2>1, <2>2 DEF SleepsOnStream, Alive, Underway
  <2>5. u \notin W /\ SleepsOnConnection(u) => SleepsOnConnection(u)'
    BY <1>2, <1>3, <1>7, <2>1 DEF SleepsOnConnection
  <2> QED
    BY <1>0, <2>1, <2>3, <2>4, <2>5 DEF SleepSound
<1>15. Owned'
  <2>1. \A u \in Task : task'[u].stream = task[u].stream
    BY <1>8 DEF Woken
  <2>2. \A i \in DOMAIN q : /\ quic[q[i]].phase \in {"started", "down"}
                            /\ \A u \in Task : task[u].stream # q[i]
                            /\ \A j \in DOMAIN q : i # j => q[i] # q[j]
    BY <1>0 DEF Owned
  <2> HIDE DEF q
  <2>3. \A i \in DOMAIN p : /\ quic'[p[i]].phase \in {"started", "down"}
                            /\ \A u \in Task : task'[u].stream # p[i]
                            /\ \A j \in DOMAIN p : i # j => p[i] # p[j]
    BY <1>6, <1>9, <1>10, <1>11, <2>1, <2>2
  <2>4. \A u, v \in Task : u # v /\ task'[u].stream = task'[v].stream => task'[u].stream = NoStream
    BY <1>0, <2>1 DEF Owned
  <2> QED
    BY ONLY <1>11, <2>3, <2>4 DEF Owned
<1> QED
  BY <1>12, <1>13, <1>14, <1>15 DEF WakeInv

-----------------------------------------------------------------------------
(* The theorems *)

\* Initially every task is idle and no stream exists.
LEMMA WakeInvInitially == Init => WakeInv
<1> SUFFICES ASSUME Init PROVE WakeInv
  OBVIOUS
<1>1. /\ stream = [s \in Streams |-> NewStream(s)] /\ quic = [s \in Streams |-> NewQuic("none")]
      /\ task = [t \in Task |-> IdleTask]
  BY DEF Init, StreamInit
<1>2. PICK local \in BOOLEAN :
          conn = [local |-> local, state |-> IF local THEN "Open" ELSE "Connecting",
                  error |-> "none", certificate |-> FALSE, inbound_uni_streams |-> <<>>,
                  start_waiters |-> {}, certificate_waiters |-> {},
                  inbound_uni_stream_waiters |-> {}, shutdown_waiters |-> {}]
  BY DEF Init
<1>3. /\ DOMAIN conn = {"local", "state", "error", "certificate", "inbound_uni_streams",
                        "start_waiters", "certificate_waiters", "inbound_uni_stream_waiters",
                        "shutdown_waiters"}
      /\ conn.local = local /\ conn.inbound_uni_streams = <<>>
      /\ conn.state = IF local THEN "Open" ELSE "Connecting"
  BY <1>2
<1>4. Shape
  <2>1. /\ DOMAIN stream = Streams /\ DOMAIN quic = Streams /\ DOMAIN task = Task
        /\ \A s \in Streams : stream[s] = NewStream(s) /\ quic[s] = NewQuic("none")
        /\ \A t \in Task : task[t] = IdleTask
    BY <1>1
  <2>2. conn.state \in ConnectionStates /\ conn.inbound_uni_streams \in Seq(Inbound)
    BY <1>3 DEF ConnectionStates
  <2> QED
    BY <1>3, <2>1, <2>2 DEF Shape
<1>5. conn.state = "Open" => conn.local
  BY <1>3
<1>6. \A s \in Streams : StreamSound(s)
  <2> TAKE s \in Streams
  <2>1. /\ stream[s].state = "Open" /\ stream[s].send_state = "Closed"
        /\ stream[s].recv_state # "Start" /\ quic[s].phase = "none"
    BY <1>1 DEF NewStream, NewQuic
  <2> QED
    BY <2>1 DEF StreamSound, Alive
<1>7. \A t \in Task : /\ task[t].call = "idle" /\ task[t].stream = NoStream
                      /\ task[t].awake /\ task[t].dropping = <<>>
  BY <1>1 DEF IdleTask
<1>8. \A t \in Task : TaskSound(t) /\ SleepSound(t)
  BY <1>7 DEF TaskSound, SleepSound, StreamCalls
<1>9. Owned
  BY <1>3, <1>7 DEF Owned
<1> QED
  BY <1>4, <1>5, <1>6, <1>8, <1>9 DEF WakeInv

\* Every poll keeps the invariant.
LEMMA PollsKeep ==
    ASSUME WakeInv, NEW t \in Task, Poll(t)
    PROVE  WakeInv'
<1>1. CASE PollConnect(t)
  BY <1>1, PollConnectKeeps
<1>2. CASE PollAccept(t)
  BY <1>2, PollAcceptKeeps
<1>3. CASE PollReceiveRemoteCertificate(t)
  BY <1>3, PollCertificateKeeps
<1>4. CASE PollOpenOutboundStream(t)
  BY <1>4, PollOpenKeeps
<1>5. CASE PollAcceptInboundUniStream(t)
  BY <1>5, PollAcceptUniKeeps
<1>6. CASE PollShutdown(t)
  BY <1>6, PollShutdownKeeps
<1>7. CASE PollWrite(t) /\ UNCHANGED conn
  BY <1>7, PollWriteKeeps
<1>8. CASE PollFinishWrite(t) /\ UNCHANGED conn
  BY <1>8, PollFinishKeeps
<1>9. CASE PollRead(t) /\ UNCHANGED conn
  BY <1>9, PollReadKeeps
<1>10. CASE ReadComplete(t) /\ UNCHANGED conn
  BY <1>10, ReadCompleteKeeps
<1>11. CASE EndRead(t) /\ UNCHANGED conn
  BY <1>11, EndReadKeeps
<1> QED
  BY <1>1, <1>2, <1>3, <1>4, <1>5, <1>6, <1>7, <1>8, <1>9, <1>10, <1>11 DEF Poll

\* The invariant is inductive.
LEMMA WakeInvKept == WakeInv /\ [Next]_vars => WakeInv'
<1> SUFFICES ASSUME WakeInv, [Next]_vars PROVE WakeInv'
  OBVIOUS
<1>1. CASE \E t \in Task, call \in ConnectionCalls \ {"certificate"} : Begin(t, call)
  BY <1>1, BeginKeeps
<1>2. CASE \E t \in Task, s \in Outbound : BeginSend(t, s)
  BY <1>2, BeginSendKeeps
<1>3. CASE \E t \in Task : Poll(t)
  BY <1>3, PollsKeep
<1>4. CASE \E t \in Task : CloseConnection(t)
  BY <1>4, CloseKeeps
<1>5. CASE \E t \in Task : Timeout(t) /\ UNCHANGED conn
  BY <1>5, TimeoutKeeps
<1>6. CASE HandleConnected
  BY <1>6, ConnectedKeeps
<1>7. CASE HandlePeerCertificateReceived
  BY <1>7, CertificateReceivedKeeps
<1>8. CASE \E by \in {"ByTransport", "ByPeer"} : HandleShutdownInitiated(by)
  BY <1>8, ShutdownInitiatedKeeps
<1>9. CASE HandleConnectionShutdownComplete
  BY <1>9, ConnectionDownKeeps
<1>10. CASE \E s \in Inbound : HandlePeerStreamStarted(s)
  BY <1>10, PeerStreamKeeps
<1>11. CASE \E s \in Streams : StreamCallback(s) /\ UNCHANGED conn
  BY <1>11, StreamCallbacksKeep
<1>12. CASE UNCHANGED vars
  BY <1>12 DEF vars, WakeInv, Shape, StreamSound, TaskSound, Owned, SleepSound, SleepsOnConnection,
               SleepsOnStream, Alive, Underway
<1> QED
  BY <1>1, <1>2, <1>3, <1>4, <1>5, <1>6, <1>7, <1>8, <1>9, <1>10, <1>11, <1>12 DEF Next

\* The inductive invariant holds of every connection: where each stream and each
\* call on it has come to, that a stream has one owner, and where the waker of
\* each sleeping task is (the poll and handle_event functions of connection.rs
\* and stream.rs).
THEOREM WakerInvariant == Spec => []WakeInv
<1>1. Init => WakeInv
  BY WakeInvInitially
<1>2. WakeInv /\ [Next]_vars => WakeInv'
  BY WakeInvKept
<1> QED
  BY <1>1, <1>2, PTL DEF Spec

\* No wake-up is lost, whatever the order of polls, callbacks and timeouts: a
\* task that sleeps has its waker in a list that a callback will drain, and has
\* to wait, unless the connection is being shut down.
THEOREM NoWakeupIsLost == Spec => []NoLostWakeup
<1>1. WakeInv => NoLostWakeup
  BY SleepersWait
<1> QED
  BY <1>1, WakerInvariant, PTL

-----------------------------------------------------------------------------
(* Reading: the operators *)

\* One step of the fold of Unread.
UnreadBody(bs, f) ==
    [S \in SUBSET (DOMAIN bs) |->
        IF S = {} THEN 0 ELSE f[S \ {Max(S)}] + bs[Max(S)].len - bs[Max(S)].read]

\* The fold of Unread is a recursive function on sets of positions.
LEMMA UnreadUnfolds ==
    ASSUME NEW bs
    PROVE  Unread(bs) = (CHOOSE f : f = UnreadBody(bs, f))[DOMAIN bs]
BY Zenon DEF Unread, FoldLeft, MapThenFoldSet, UnreadBody

\* No buffers hold nothing.
LEMMA UnreadNone ==
    ASSUME NEW bs, DOMAIN bs = {}
    PROVE  Unread(bs) = 0
<1> DEFINE g == [S \in SUBSET (DOMAIN bs) |-> 0]
<1>1. g = UnreadBody(bs, g)
  BY DEF UnreadBody
<1>2. PICK f : f = CHOOSE h : h = UnreadBody(bs, h)
  OBVIOUS
<1>3. f = UnreadBody(bs, f)
  BY <1>1, <1>2
<1>4. DOMAIN bs \in SUBSET (DOMAIN bs)
  OBVIOUS
<1>5. f[DOMAIN bs] = 0
  BY <1>3, <1>4 DEF UnreadBody
<1> QED
  BY <1>2, <1>5, UnreadUnfolds

\* One buffer holds what has not been read of it.
LEMMA UnreadOne ==
    ASSUME NEW bs, DOMAIN bs = {1}, bs[1].len \in Int, bs[1].read \in Int
    PROVE  Unread(bs) = bs[1].len - bs[1].read
<1> DEFINE n == bs[1].len - bs[1].read
           g == [S \in SUBSET (DOMAIN bs) |-> IF S = {} THEN 0 ELSE n]
<1>1. Max({1}) = 1
  BY DEF Max
<1>2. g[{1}] = n /\ g[{}] = 0 /\ {1} \ {1} = {} /\ {1} # {}
  OBVIOUS
<1>3. g[{1} \ {Max({1})}] + bs[Max({1})].len - bs[Max({1})].read = n
  BY <1>1, <1>2
<1>4. /\ g = [S \in SUBSET {1} |-> g[S]]
      /\ UnreadBody(bs, g) = [S \in SUBSET {1} |-> UnreadBody(bs, g)[S]]
  BY DEF UnreadBody
<1> HIDE DEF g
<1>5. g = UnreadBody(bs, g)
  <2>1. UnreadBody(bs, g)[{}] = 0
    BY DEF UnreadBody
  <2>2. UnreadBody(bs, g)[{1}] = n
    <3>1. UnreadBody(bs, g)[{1}] = g[{1} \ {Max({1})}] + bs[Max({1})].len - bs[Max({1})].read
      BY <1>2 DEF UnreadBody
    <3> QED
      BY <1>3, <3>1
  <2>3. \A S \in SUBSET {1} : S = {} \/ S = {1}
    OBVIOUS
  <2>4. \A S \in SUBSET {1} : g[S] = UnreadBody(bs, g)[S]
    BY <1>2, <2>1, <2>2, <2>3
  <2> QED
    BY <1>4, <2>4
<1>6. PICK f : f = CHOOSE h : h = UnreadBody(bs, h)
  OBVIOUS
<1>7. f = UnreadBody(bs, f)
  BY <1>5, <1>6
<1>8. f[{}] = 0
  BY <1>7 DEF UnreadBody
<1>9. f[{1}] = f[{1} \ {Max({1})}] + bs[Max({1})].len - bs[Max({1})].read
  BY <1>2, <1>7 DEF UnreadBody
<1>10. f[{1}] = f[{}] + bs[1].len - bs[1].read
  BY <1>1, <1>2, <1>9
<1>11. f[{1}] = bs[1].len - bs[1].read
  BY ONLY <1>8, <1>10, bs[1].len \in Int, bs[1].read \in Int
<1> QED
  BY <1>6, <1>11, UnreadUnfolds

\* How many buffers a read uses up, and what it leaves.
Popped(bs, size) == Cardinality({k \in 1..Len(bs) : Unread(SubSeq(bs, 1, k)) < size})
Rest(bs, size) == SubSeq(bs, Popped(bs, size) + 1, Len(bs))

\* The first buffer is read further.
Advanced(rest, taken) == [rest EXCEPT ![1].read = @ + taken]

\* A read leaves `rest`, of whose first buffer it takes `taken`.
Leaves(bs, size, rest, taken) ==
    /\ rest = Rest(bs, size) /\ rest # <<>>
    /\ taken = size - Unread(SubSeq(bs, 1, Popped(bs, size)))

\* A read that leaves no buffer takes all there is.
LEMMA ReadsAll ==
    ASSUME NEW bs, NEW size, Rest(bs, size) = <<>>
    PROVE  /\ ReadUpTo(bs, size).read = Unread(bs) /\ ReadUpTo(bs, size).rest = <<>>
           /\ ReadUpTo(bs, size).dropped = SubSeq(bs, 1, Popped(bs, size))
           /\ ReadUpTo(bs, size).fin = (Popped(bs, size) > 0 /\ bs[Popped(bs, size)].fin)
BY DEF ReadUpTo, Popped, Rest

\* A read that leaves a buffer takes as much as it wants.
LEMMA ReadsSome ==
    ASSUME NEW bs, NEW size, NEW rest, NEW taken, Leaves(bs, size, rest, taken)
    PROVE  /\ ReadUpTo(bs, size).read = size
           /\ ReadUpTo(bs, size).rest = Advanced(rest, taken)
           /\ ReadUpTo(bs, size).dropped = SubSeq(bs, 1, Popped(bs, size))
           /\ ReadUpTo(bs, size).fin = FALSE
BY DEF ReadUpTo, Popped, Rest, Advanced, Leaves

\* A read of no buffers takes nothing.
LEMMA ReadNothing ==
    ASSUME NEW size
    PROVE  /\ ReadUpTo(<<>>, size).read = 0 /\ ReadUpTo(<<>>, size).rest = <<>>
           /\ ReadUpTo(<<>>, size).dropped = <<>> /\ ~ReadUpTo(<<>>, size).fin
<1>1. {k \in 1..Len(<<>>) : Unread(SubSeq(<<>>, 1, k)) < size} = {}
  OBVIOUS
<1>2. Popped(<<>>, size) = 0
  BY <1>1, FS_EmptySet DEF Popped
<1>3. Unread(<<>>) = 0
  BY UnreadNone
<1>4. Rest(<<>>, size) = <<>> /\ SubSeq(<<>>, 1, Popped(<<>>, size)) = <<>>
  BY <1>2 DEF Rest
<1>5. /\ ReadUpTo(<<>>, size).read = Unread(<<>>) /\ ReadUpTo(<<>>, size).rest = <<>>
      /\ ReadUpTo(<<>>, size).dropped = SubSeq(<<>>, 1, Popped(<<>>, size))
      /\ ReadUpTo(<<>>, size).fin = (Popped(<<>>, size) > 0 /\ <<>>[Popped(<<>>, size)].fin)
  BY <1>4, ReadsAll
<1>6. ~(Popped(<<>>, size) > 0)
  BY <1>2
<1> QED
  BY <1>3, <1>4, <1>5, <1>6

\* What a read of `size` bytes from the one buffer b can give.
UsesUpOrLeaves(p, b, size, bs) ==
    \/ /\ p.read = b.len - b.read /\ p.rest = <<>> /\ p.dropped = bs /\ p.fin = b.fin
    \/ /\ p.read = size /\ p.rest = <<[b EXCEPT !.read = @ + size]>>
       /\ p.dropped = <<>> /\ p.fin = FALSE /\ b.read + size <= b.len

\* A read of one buffer uses it up, or takes what it wants and leaves the rest.
LEMMA ReadOne ==
    ASSUME NEW b \in RecvBuffers, b.read <= b.len, NEW size \in Nat \ {0},
           NEW bs, bs = <<b>>
    PROVE  UsesUpOrLeaves(ReadUpTo(bs, size), b, size, bs)
<1>1. b.len \in Int /\ b.read \in Int /\ b.fin \in BOOLEAN
  BY DEF RecvBuffers
<1>2. bs \in Seq(RecvBuffers) /\ Len(bs) = 1 /\ bs[1] = b /\ DOMAIN bs = {1}
  OBVIOUS
<1>3. SubSeq(bs, 1, 1) = bs
  BY <1>2, SubSeqFull
<1>4. SubSeq(bs, 1, 0) = <<>> /\ SubSeq(bs, 2, 1) = <<>>
  BY <1>2, SubSeqEmpty
<1>5. Unread(bs) = b.len - b.read
  BY <1>1, <1>2, UnreadOne
<1>6. Unread(<<>>) = 0
  BY UnreadNone
<1>7. PICK unread : unread = b.len - b.read
  OBVIOUS
<1>8. 1..Len(bs) = {1} /\ Unread(SubSeq(bs, 1, 1)) = unread
  <2>1. 1..1 = {1}
    OBVIOUS
  <2> QED
    BY ONLY <1>2, <1>3, <1>5, <1>7, <2>1
<1>9. CASE unread < size
  <2>1. {k \in 1..Len(bs) : Unread(SubSeq(bs, 1, k)) < size} = {1}
    BY ONLY <1>8, <1>9
  <2>2. Popped(bs, size) = 1
    BY <2>1, FS_Singleton DEF Popped
  <2>3. Rest(bs, size) = <<>> /\ SubSeq(bs, 1, Popped(bs, size)) = bs
    BY <1>2, <1>3, <1>4, <2>2 DEF Rest
  <2>4. (Popped(bs, size) > 0 /\ bs[Popped(bs, size)].fin) = b.fin
    BY <1>1, <1>2, <2>2
  <2>5. /\ ReadUpTo(bs, size).read = Unread(bs) /\ ReadUpTo(bs, size).rest = <<>>
        /\ ReadUpTo(bs, size).dropped = bs /\ ReadUpTo(bs, size).fin = b.fin
    BY <2>3, <2>4, ReadsAll
  <2> QED
    BY <1>5, <2>5 DEF UsesUpOrLeaves
<1>10. CASE ~(unread < size)
  <2>1. {k \in 1..Len(bs) : Unread(SubSeq(bs, 1, k)) < size} = {}
    BY ONLY <1>8, <1>10
  <2>2. Popped(bs, size) = 0
    BY <2>1, FS_EmptySet DEF Popped
  <2>3. Rest(bs, size) = bs /\ SubSeq(bs, 1, Popped(bs, size)) = <<>>
    BY <1>2, <1>3, <1>4, <2>2 DEF Rest
  <2>4. bs # <<>>
    OBVIOUS
  <2>5. Unread(SubSeq(bs, 1, Popped(bs, size))) = 0
    BY <1>6, <2>3
  <2>6. size = size - Unread(SubSeq(bs, 1, Popped(bs, size))) /\ bs = Rest(bs, size)
    <3>1. size = size - 0
      OBVIOUS
    <3> QED
      BY Zenon, <2>3, <2>5, <3>1
  <2>7. [bs EXCEPT ![1].read = @ + size] = <<[b EXCEPT !.read = @ + size]>>
    OBVIOUS
  <2>8. /\ ReadUpTo(bs, size).read = size
        /\ ReadUpTo(bs, size).rest = Advanced(bs, size)
        /\ ReadUpTo(bs, size).dropped = SubSeq(bs, 1, Popped(bs, size))
        /\ ReadUpTo(bs, size).fin = FALSE
    <3>1. Leaves(bs, size, bs, size)
      BY Zenon, <2>4, <2>6 DEF Leaves
    <3> QED
      BY ONLY <3>1, ReadsSome
  <2>9. ReadUpTo(bs, size).rest = <<[b EXCEPT !.read = @ + size]>>
    BY <2>7, <2>8 DEF Advanced
  <2>10. b.read + size <= b.len
    BY <1>1, <1>7, <1>10
  <2> QED
    BY <2>3, <2>8, <2>9, <2>10 DEF UsesUpOrLeaves
<1> QED
  BY <1>9, <1>10

\* The complete prefix of the bytes before k ends at k.
LEMMA PrefixEnds ==
    ASSUME NEW k \in 0..MessageLength
    PROVE  CompletePrefix(0..k - 1) = k
<1>1. 0..k - 1 \subseteq 0..k - 1 /\ k \notin 0..k - 1
  BY LengthAssumption DEF LengthAssumption, MessageLength
<1>2. \A n \in 0..MessageLength : 0..n - 1 \subseteq 0..k - 1 /\ n \notin 0..k - 1 => n = k
  BY LengthAssumption DEF LengthAssumption, MessageLength
<1> QED
  BY <1>1, <1>2 DEF CompletePrefix

-----------------------------------------------------------------------------
(* What has been received, read and completed *)

\* b is the one buffer of s that MsQuic waits for.
Outstanding(s, b) ==
    /\ b.read <= b.len
    /\ b.offset = stream[s].read_complete_cursor
    /\ b.offset + b.len = stream[s].recv_len
    /\ quic[s].completed = stream[s].read_complete_cursor
    /\ quic[s].pending
    /\ b.fin => quic[s].fin

\* The bytes of a stream, up to the end of the peer's message.
StreamData(s) ==
    LET buffers == stream[s].recv_buffers
    IN  /\ stream[s].read_complete_map = 0..stream[s].read_complete_cursor - 1
        /\ stream[s].read_complete_cursor <= stream[s].recv_len
        /\ quic[s].completed <= stream[s].recv_len
        /\ quic[s].fin => stream[s].recv_len = MessageLength
        /\ buffers # <<>> => /\ Len(buffers) = 1 /\ Outstanding(s, buffers[1])
                             /\ quic[s].phase = "started"
        /\ s \in Outbound => /\ stream[s].recv_len = 0 /\ stream[s].read_complete_cursor = 0
                            /\ buffers = <<>>
        /\ s \in Inbound => quic[s].phase \in {"none", "started", "down", "closed"}
        /\ stream[s].recv_state = "Shutdown" => quic[s].fin /\ buffers = <<>>
        /\ s \in Inbound /\ stream[s].recv_state = "ShutdownComplete" =>
              stream[s].conn_error \/ stream[s].recv_error \/ (quic[s].fin /\ buffers = <<>>)
        /\ s \in Inbound /\ quic[s].receiving = "done" =>
              stream[s].recv_error \/ (quic[s].fin /\ buffers = <<>>)

\* The owner of s has taken the first `got` bytes: all that came, but for what is
\* left in the buffer, or was thrown away when the stream failed.
ReadSoFar(s, got) ==
    LET buffers == stream[s].recv_buffers
    IN  \/ buffers # <<>> /\ got = buffers[1].offset + buffers[1].read
        \/ buffers = <<>> /\ got = stream[s].recv_len
        \/ /\ buffers = <<>> /\ got <= stream[s].recv_len
           /\ quic[s].phase = "down" /\ (stream[s].conn_error \/ stream[s].recv_error)

\* When nothing of s is held by the code, MsQuic has been told of everything.
Settled(s) ==
    stream[s].recv_buffers = <<>> /\ (\A t \in Task : task[t].stream = s => task[t].dropping = <<>>) =>
        /\ quic[s].completed = stream[s].recv_len
        /\ quic[s].phase # "down" => stream[s].read_complete_cursor = stream[s].recv_len

Reading(t) == task[t].call \in {"read", "read_done"}

TaskData(t) ==
    /\ task[t].dropping # <<>> => /\ Len(task[t].dropping) = 1
                                  /\ Outstanding(task[t].stream, task[t].dropping[1])
                                  /\ stream[task[t].stream].recv_buffers = <<>>
    /\ Reading(t) => ReadSoFar(task[t].stream, task[t].got)
    /\ ~Reading(t) => task[t].got = 0

Unowned(s) == \A t \in Task : task[t].stream # s

DataInv ==
    /\ \A s \in Streams : StreamData(s) /\ Settled(s)
    /\ \A s \in Streams : Unowned(s) => ReadSoFar(s, 0)
    /\ \A t \in Task : TaskData(t)

\* What the invariant says of s is left alone.
SameData(s) ==
    /\ stream'[s].recv_buffers = stream[s].recv_buffers
    /\ stream'[s].recv_len = stream[s].recv_len
    /\ stream'[s].read_complete_map = stream[s].read_complete_map
    /\ stream'[s].read_complete_cursor = stream[s].read_complete_cursor
    /\ stream'[s].recv_state = stream[s].recv_state
    /\ stream'[s].conn_error = stream[s].conn_error
    /\ stream'[s].recv_error = stream[s].recv_error
    /\ quic'[s].pending = quic[s].pending /\ quic'[s].fin = quic[s].fin
    /\ quic'[s].completed = quic[s].completed /\ quic'[s].receiving = quic[s].receiving
    /\ s \in Inbound => \/ quic'[s].phase = quic[s].phase
                        \/ quic[s].phase = "none" /\ quic'[s].phase = "started"

\* t reads on, or does not read on.
SameReader(t) ==
    /\ task'[t].stream = task[t].stream /\ task'[t].got = task[t].got
    /\ task'[t].dropping = task[t].dropping
    /\ Reading(t)' <=> Reading(t)

\* t, which has read nothing, begins to read a stream, or begins or ends another call.
NewReader(t) ==
    /\ ~Reading(t) /\ task'[t].dropping = <<>> /\ task'[t].got = 0
    /\ Reading(t)' => task'[t].stream \in Streams /\ Unowned(task'[t].stream)

\* The bytes of a stream that is left alone stay as they are.
LEMMA DataStays ==
    ASSUME NEW s \in Streams, SameData(s), StreamData(s)
    PROVE  /\ StreamData(s)'
           /\ \A b : Outstanding(s, b) => Outstanding(s, b)'
           /\ \A got : ReadSoFar(s, got) => ReadSoFar(s, got)' \/ s \in Outbound
<1>1. \A b : Outstanding(s, b) => Outstanding(s, b)'
  BY DEF SameData, Outstanding
<1>2. \A got : ReadSoFar(s, got) => ReadSoFar(s, got)' \/ s \in Outbound
  BY DEF SameData, ReadSoFar, Streams
<1>3. stream[s].recv_buffers # <<>> => s \in Inbound /\ Outstanding(s, stream[s].recv_buffers[1])
  BY DEF StreamData, Streams
<1>4. stream[s].recv_buffers # <<>> => Outstanding(s, stream[s].recv_buffers[1])'
  <2> DEFINE b == stream[s].recv_buffers[1]
  <2>1. b' = b
    BY DEF SameData
  <2>2. PICK c : c = b
    OBVIOUS
  <2>3. stream[s].recv_buffers # <<>> => Outstanding(s, c)'
    BY <1>1, <1>3, <2>2
  <2>4. c = b'
    BY <2>1, <2>2
  <2> HIDE DEF b
  <2>5. stream[s].recv_buffers # <<>> => Outstanding(s, b)'
    BY <2>3, <2>4 DEF Outstanding
  <2> QED
    BY <2>5 DEF b
<1>5. StreamData(s)'
  BY <1>3, <1>4 DEF SameData, StreamData, Streams
<1> QED
  BY <1>1, <1>2, <1>5

\* An outbound stream has no bytes to read.
LEMMA OutboundUnread ==
    ASSUME NEW s \in Outbound, stream[s].recv_len = 0, stream[s].recv_buffers = <<>>
    PROVE  ReadSoFar(s, 0)
BY DEF ReadSoFar

\* What is known of a task that reads, or is dropping buffers.
LEMMA ReadersRead ==
    ASSUME WakeInv, NEW t \in Task
    PROVE  /\ task[t].dropping # <<>> => Reading(t)
           /\ Reading(t) => task[t].stream \in Inbound /\ task[t].stream \in Streams
           /\ ~Reading(t) /\ task[t].stream \in Streams => task[t].stream \in Outbound
<1>1. TaskSound(t)
  BY DEF WakeInv
<1>2. NoStream \notin Streams
  BY StreamAssumption DEF StreamAssumption
<1> QED
  BY <1>1, <1>2 DEF TaskSound, Reading, StreamCalls, Streams

\* A reader whose stream is left alone keeps what it had.
LEMMA ReaderStays ==
    ASSUME WakeInv, NEW t \in Task, TaskData(t), SameReader(t),
           task[t].stream \in Streams => SameData(task[t].stream) /\ StreamData(task[t].stream)
    PROVE  TaskData(t)'
<1>1. CASE ~Reading(t)
  BY <1>1, ReadersRead DEF TaskData, SameReader
<1>2. CASE Reading(t)
  <2>1. PICK s \in Streams : s = task[t].stream
    BY <1>2, ReadersRead
  <2>2. s \notin Outbound
    BY <1>2, <2>1, ReadersRead, StreamAssumption DEF StreamAssumption
  <2>3. PICK got, b : got = task[t].got /\ b = task[t].dropping[1]
    OBVIOUS
  <2>4. /\ \A c : Outstanding(s, c) => Outstanding(s, c)'
        /\ ReadSoFar(s, got) => ReadSoFar(s, got)'
    BY <2>1, <2>2, DataStays
  <2>5. s = task'[t].stream /\ got = task'[t].got /\ b = task'[t].dropping[1]
    BY <2>1, <2>3 DEF SameReader
  <2>6. ReadSoFar(task[t].stream, task[t].got)'
    <3>1. ReadSoFar(s, got)'
      BY <1>2, <2>1, <2>3, <2>4 DEF TaskData
    <3> QED
      BY <2>5, <3>1 DEF ReadSoFar
  <2>7. task[t].dropping # <<>> => Outstanding(task[t].stream, task[t].dropping[1])'
    <3>1. task[t].dropping # <<>> => Outstanding(s, b)'
      BY <2>1, <2>3, <2>4 DEF TaskData
    <3> QED
      BY <2>5, <3>1 DEF Outstanding
  <2>8. /\ task[t].dropping # <<>> => Len(task[t].dropping) = 1 /\ stream[s].recv_buffers = <<>>
        /\ task'[t].dropping = task[t].dropping
        /\ stream'[task'[t].stream].recv_buffers = stream[s].recv_buffers
        /\ Reading(t)'
    BY <1>2, <2>1, <2>5 DEF TaskData, SameReader, SameData
  <2> QED
    BY <2>6, <2>7, <2>8 DEF TaskData
<1> QED
  BY <1>1, <1>2

\* A step that leaves the bytes of every stream alone keeps the invariant, if
\* the tasks read on, or begin or end a call in which they have read nothing.
LEMMA DataSame ==
    ASSUME WakeInv, DataInv, \A s \in Streams : SameData(s),
           \A t \in Task : SameReader(t) \/ NewReader(t)
    PROVE  DataInv'
<1>1. ASSUME NEW s \in Streams PROVE StreamData(s)' /\ Settled(s)'
  <2>1. StreamData(s)' /\ StreamData(s) /\ Settled(s) /\ SameData(s)
    BY DataStays DEF DataInv
  <2>2. \A t \in Task : task[t].dropping # <<>> => SameReader(t)
    BY ReadersRead DEF NewReader
  <2>3. (\A t \in Task : task[t].stream = s => task[t].dropping = <<>>)'
           => \A t \in Task : task[t].stream = s => task[t].dropping = <<>>
    BY <2>2 DEF SameReader
  <2>4. CASE s \in Inbound
    <3>1. quic'[s].phase # "down" => quic[s].phase # "down"
      BY <2>1, <2>4 DEF SameData
    <3> QED
      BY <2>1, <2>3, <3>1 DEF Settled, SameData
  <2>5. CASE s \in Outbound
    <3>1. stream[s].recv_len = 0 /\ stream[s].read_complete_cursor = 0 /\ stream[s].recv_buffers = <<>>
      BY <2>1, <2>5 DEF StreamData
    <3>2. \A t \in Task : task[t].stream = s => task[t].dropping = <<>>
      BY <2>5, ReadersRead, StreamAssumption DEF StreamAssumption
    <3>3. quic[s].completed = 0
      BY <2>1, <3>1, <3>2 DEF Settled
    <3> QED
      BY <2>1, <3>1, <3>3 DEF Settled, SameData
  <2> QED
    BY <2>1, <2>4, <2>5 DEF Streams
<1>2. ASSUME NEW s \in Streams, Unowned(s)' PROVE ReadSoFar(s, 0)'
  <2>1. StreamData(s) /\ SameData(s) /\ (Unowned(s) => ReadSoFar(s, 0))
    BY DEF DataInv
  <2>2. CASE s \in Outbound
    BY <2>1, <2>2 DEF StreamData, SameData, ReadSoFar
  <2>3. CASE s \notin Outbound
    <3>1. Unowned(s)
      BY <1>2, <2>3, ReadersRead DEF Unowned, SameReader, NewReader
    <3> QED
      BY <2>1, <2>3, <3>1, DataStays
  <2> QED
    BY <2>2, <2>3
<1>3. ASSUME NEW t \in Task PROVE TaskData(t)'
  <2>1. CASE SameReader(t)
    BY <2>1, ReaderStays DEF DataInv
  <2>2. CASE NewReader(t) /\ ~Reading(t)'
    BY <2>2 DEF NewReader, TaskData
  <2>3. CASE NewReader(t) /\ Reading(t)'
    <3>1. PICK s \in Streams : s = task'[t].stream /\ Unowned(s)
      BY <2>3 DEF NewReader
    <3>2. StreamData(s) /\ SameData(s) /\ ReadSoFar(s, 0)
      BY <3>1 DEF DataInv
    <3>3. ReadSoFar(s, 0)'
      <4>1. CASE s \in Outbound
        BY <3>2, <4>1 DEF StreamData, SameData, ReadSoFar
      <4>2. CASE s \notin Outbound
        BY <3>2, <4>2, DataStays
      <4> QED
        BY <4>1, <4>2
    <3>4. ReadSoFar(task[t].stream, task[t].got)'
      <4>1. task'[t].got = 0
        BY <2>3 DEF NewReader
      <4> QED
        BY <3>1, <3>3, <4>1 DEF ReadSoFar
    <3> QED
      BY <2>3, <3>4 DEF TaskData, NewReader
  <2> QED
    BY <2>1, <2>2, <2>3
<1> QED
  BY <1>1, <1>2, <1>3 DEF DataInv

\* A step on stream s and its owner alone keeps the invariant if it does for them.
LEMMA DataLocal ==
    ASSUME WakeInv, DataInv, NEW s \in Streams, OnlyStream(s),
           \A t \in Task : task[t].stream # s => SameReader(t),
           \A t \in Task : task[t].stream = s => task'[t].stream \in {s, NoStream} /\ TaskData(t)',
           StreamData(s)', Settled(s)', Unowned(s)' => ReadSoFar(s, 0)'
    PROVE  DataInv'
<1>0. NoStream \notin Streams
  BY StreamAssumption DEF StreamAssumption
<1>1. \A r \in Streams \ {s} : SameData(r) /\ StreamData(r) /\ Settled(r)
  BY DEF OnlyStream, SameData, DataInv
<1>2. ASSUME NEW r \in Streams \ {s} PROVE StreamData(r)' /\ Settled(r)'
  <2>1. StreamData(r)'
    BY <1>1, DataStays
  <2>2. stream'[r] = stream[r] /\ quic'[r] = quic[r] /\ Settled(r)
    BY <1>1 DEF OnlyStream
  <2>3. (\A t \in Task : task[t].stream = r => task[t].dropping = <<>>)'
           => \A t \in Task : task[t].stream = r => task[t].dropping = <<>>
    BY DEF SameReader
  <2> QED
    BY <2>1, <2>2, <2>3 DEF Settled
<1>3. ASSUME NEW r \in Streams \ {s}, Unowned(r)' PROVE ReadSoFar(r, 0)'
  <2>1. Unowned(r)
    BY <1>3 DEF Unowned, SameReader
  <2>2. ReadSoFar(r, 0)
    BY <2>1 DEF DataInv
  <2> QED
    BY <2>2 DEF OnlyStream, ReadSoFar
<1>4. ASSUME NEW t \in Task, task[t].stream # s PROVE TaskData(t)'
  <2>1. task[t].stream \in Streams => SameData(task[t].stream) /\ StreamData(task[t].stream)
    BY <1>1, <1>4
  <2> QED
    BY <1>4, <2>1, ReaderStays DEF DataInv
<1> QED
  BY <1>2, <1>3, <1>4 DEF DataInv

-----------------------------------------------------------------------------
(* Types *)

StreamRecord ==
    [state : StreamStates, start_status : StartStatuses,
     recv_state : HalfStates, send_state : HalfStates,
     conn_error : BOOLEAN, recv_error : BOOLEAN, send_error : BOOLEAN,
     recv_buffers : Seq(RecvBuffers), recv_len : 0..MessageLength,
     read_complete_map : SUBSET (0..MessageLength - 1),
     read_complete_cursor : 0..MessageLength,
     start_waiters : SUBSET Task, read_waiters : SUBSET Task,
     write_shutdown_waiters : SUBSET Task]

QuicRecord ==
    [phase : {"none", "open", "starting", "blocked", "started", "failed", "down", "closed"},
     sending : {"open", "shutdown", "done"},
     pending : BOOLEAN, fin : BOOLEAN, completed : 0..MessageLength,
     receiving : {"open", "done"}]

TaskRecord ==
    [call : {"idle"} \cup StreamCalls \cup ConnectionCalls,
     stream : Streams \cup {NoStream}, awake : BOOLEAN,
     got : 0..MessageLength, dropping : Seq(RecvBuffers)]

ConnectionRecord ==
    [local : BOOLEAN, state : ConnectionStates, error : ConnectionErrors,
     certificate : BOOLEAN, inbound_uni_streams : Seq(Inbound),
     start_waiters : SUBSET Task, certificate_waiters : SUBSET Task,
     inbound_uni_stream_waiters : SUBSET Task, shutdown_waiters : SUBSET Task]

StreamsTyped == stream \in [Streams -> StreamRecord] /\ quic \in [Streams -> QuicRecord]

TasksTyped ==
    /\ task \in [Task -> TaskRecord]
    /\ \A t \in Task : task[t].call \in StreamCalls <=> task[t].stream # NoStream

\* The type invariant, part by part.
LEMMA TypeParts == TypeOK <=> StreamsTyped /\ TasksTyped /\ conn \in ConnectionRecord
BY DEF TypeOK, StreamTypeOK, StreamsTyped, TasksTyped, StreamRecord, QuicRecord, TaskRecord,
       ConnectionRecord

\* The length of a message is a positive number.
LEMMA LengthPositive == MessageLength \in Nat \ {0} /\ MessageLength >= HeaderLength
BY LengthAssumption DEF LengthAssumption, MessageLength

\* A new stream is well typed.
LEMMA NewTyped ==
    /\ \A s \in Streams : NewStream(s) \in StreamRecord
    /\ \A phase \in {"none", "closed"} : NewQuic(phase) \in QuicRecord
    /\ IdleTask \in TaskRecord
<1>1. 0 \in 0..MessageLength
  BY LengthPositive
<1>2. <<>> \in Seq(RecvBuffers)
  OBVIOUS
<1>3. ASSUME NEW s \in Streams PROVE NewStream(s) \in StreamRecord
  BY <1>1, <1>2 DEF NewStream, StreamRecord, StreamStates, StartStatuses, HalfStates
<1>4. ASSUME NEW phase \in {"none", "closed"} PROVE NewQuic(phase) \in QuicRecord
  BY <1>1 DEF NewQuic, QuicRecord
<1>5. IdleTask \in TaskRecord
  BY <1>1, <1>2 DEF IdleTask, TaskRecord
<1> QED
  BY <1>3, <1>4, <1>5

\* Waking, sleeping, returning and going on keep the tasks well typed.
LEMMA TaskSteps ==
    ASSUME TasksTyped
    PROVE  /\ \A W : Wake(W) => TasksTyped'
           /\ \A t \in Task : Sleep(t) => TasksTyped'
           /\ \A t \in Task : Return(t) => TasksTyped'
           /\ \A t \in Task, call \in StreamCalls :
                 Continue(t, call) /\ task[t].call \in StreamCalls => TasksTyped'
           /\ \A t \in Task, call \in ConnectionCalls :
                 Continue(t, call) /\ task[t].call \in ConnectionCalls => TasksTyped'
<1>1. ASSUME NEW W, Wake(W) PROVE TasksTyped'
  BY <1>1 DEF TasksTyped, TaskRecord, Wake
<1>2. ASSUME NEW t \in Task, Sleep(t) PROVE TasksTyped'
  BY <1>2 DEF TasksTyped, TaskRecord, Sleep
<1>3. ASSUME NEW t \in Task, Return(t) PROVE TasksTyped'
  <2>1. task' \in [Task -> TaskRecord]
    BY <1>3, NewTyped DEF TasksTyped, Return
  <2>2. IdleTask.call = "idle" /\ IdleTask.stream = NoStream
    BY DEF IdleTask
  <2> QED
    BY <1>3, <2>1, <2>2 DEF TasksTyped, Return, StreamCalls
<1>4. ASSUME NEW t \in Task, NEW call \in StreamCalls, Continue(t, call), task[t].call \in StreamCalls
      PROVE  TasksTyped'
  BY <1>4 DEF TasksTyped, TaskRecord, Continue
<1>5. ASSUME NEW t \in Task, NEW call \in ConnectionCalls, Continue(t, call),
             task[t].call \in ConnectionCalls
      PROVE  TasksTyped'
  BY <1>5, ZenonT(60) DEF TasksTyped, TaskRecord, Continue, StreamCalls, ConnectionCalls
<1> QED
  BY <1>1, <1>2, <1>3, <1>4, <1>5

-----------------------------------------------------------------------------
(* Types and bytes: the connection *)

FullInv == WakeInv /\ TypeOK /\ DataInv

\* How the steps of a task look to the reader of a stream.
LEMMA ReaderSteps ==
    ASSUME FullInv
    PROVE  /\ \A W : Wake(W) => \A u \in Task : SameReader(u)
           /\ \A t \in Task : Sleep(t) => \A u \in Task : SameReader(u)
           /\ \A t \in Task : Return(t) /\ ~Reading(t) => \A u \in Task : SameReader(u) \/ NewReader(u)
           /\ \A t \in Task : \A call : Continue(t, call) /\ ~Reading(t) /\ call \notin {"read", "read_done"}
                 => \A u \in Task : SameReader(u)
<1>1. Shape
  BY DEF FullInv, WakeInv
<1>2. ASSUME NEW W, Wake(W), NEW u \in Task PROVE SameReader(u)
  <2>1. Woken(W)
    BY <1>1, <1>2, WakeWakes
  <2> QED
    BY <2>1 DEF Woken, SameReader, Reading
<1>3. ASSUME NEW t \in Task, Sleep(t), NEW u \in Task PROVE SameReader(u)
  <2>1. /\ Moves(t) /\ task'[t].call = task[t].call /\ task'[t].stream = task[t].stream
        /\ task'[t].dropping = task[t].dropping /\ task'[t].got = task[t].got
    BY <1>1, <1>3, Sleeps
  <2> QED
    BY <2>1 DEF Moves, SameReader, Reading
<1>4. ASSUME NEW t \in Task, Return(t), ~Reading(t), NEW u \in Task PROVE SameReader(u) \/ NewReader(u)
  <2>1. /\ Moves(t) /\ task'[t].call = "idle" /\ task'[t].dropping = <<>> /\ task'[t].got = 0
    BY <1>1, <1>4, Returns
  <2>2. NewReader(t)
    BY <1>4, <2>1 DEF NewReader, Reading
  <2>3. u # t => SameReader(u)
    BY <2>1 DEF Moves, SameReader, Reading
  <2> QED
    BY <2>2, <2>3
<1>5. ASSUME NEW t \in Task, NEW call, Continue(t, call), ~Reading(t), call \notin {"read", "read_done"},
             NEW u \in Task
      PROVE  SameReader(u)
  <2>1. /\ Moves(t) /\ task'[t].call = call /\ task'[t].stream = task[t].stream
        /\ task'[t].dropping = task[t].dropping /\ task'[t].got = task[t].got
    BY <1>1, <1>5, Continues
  <2> QED
    BY <1>5, <2>1 DEF Moves, SameReader, Reading
<1> QED
  BY <1>2, <1>3, <1>4, <1>5

\* A step that leaves the streams alone.
LEMMA ConnectionStep ==
    ASSUME FullInv, UNCHANGED <<stream, quic>>, conn' \in ConnectionRecord, TasksTyped',
           \A t \in Task : SameReader(t) \/ NewReader(t)
    PROVE  TypeOK' /\ DataInv'
<1>1. \A s \in Streams : SameData(s)
  BY DEF SameData
<1>2. DataInv'
  BY <1>1, DataSame DEF FullInv
<1>3. StreamsTyped
  BY TypeParts DEF FullInv
<1>4. StreamsTyped'
  BY <1>3 DEF StreamsTyped
<1>5. (TypeOK <=> StreamsTyped /\ TasksTyped /\ conn \in ConnectionRecord)'
  BY DEF TypeOK, StreamTypeOK, StreamsTyped, TasksTyped, StreamRecord, QuicRecord, TaskRecord,
         ConnectionRecord
<1> QED
  BY <1>2, <1>4, <1>5

\* A waker in a list of the connection is well typed.
LEMMA WaiterTyped ==
    ASSUME conn \in ConnectionRecord, NEW t \in Task, NEW list \in CallLists \cup {"shutdown_waiters"},
           conn' = [conn EXCEPT ![list] = @ \cup {t}]
    PROVE  conn' \in ConnectionRecord
<1>1. CASE list = "start_waiters"
  BY <1>1 DEF ConnectionRecord
<1>2. CASE list = "certificate_waiters"
  BY <1>2 DEF ConnectionRecord
<1>3. CASE list = "inbound_uni_stream_waiters"
  BY <1>3 DEF ConnectionRecord
<1>4. CASE list = "shutdown_waiters"
  BY <1>4 DEF ConnectionRecord
<1> QED
  BY <1>1, <1>2, <1>3, <1>4 DEF CallLists

\* Waiting for the connection.
LEMMA WaitForConnectionStep ==
    ASSUME FullInv, NEW t \in Task, NEW list \in CallLists \cup {"shutdown_waiters"},
           WaitForConnection(t, list)
    PROVE  TypeOK' /\ DataInv'
<1>1. conn \in ConnectionRecord /\ TasksTyped
  BY TypeParts DEF FullInv
<1>2. conn' = [conn EXCEPT ![list] = @ \cup {t}] /\ Sleep(t) /\ UNCHANGED <<stream, quic>>
  BY DEF WaitForConnection
<1> QED
  BY <1>1, <1>2, WaiterTyped, TaskSteps, ReaderSteps, ConnectionStep

\* A call on the connection, or on a stream that was never started, returns.
LEMMA ReturnStep ==
    ASSUME FullInv, NEW t \in Task, ~Reading(t), ConnectionReturns(t)
    PROVE  TypeOK' /\ DataInv'
<1>1. conn \in ConnectionRecord /\ TasksTyped
  BY TypeParts DEF FullInv
<1>2. conn' = conn /\ Return(t) /\ UNCHANGED <<stream, quic>>
  BY DEF ConnectionReturns
<1> QED
  BY <1>1, <1>2, TaskSteps, ReaderSteps, ConnectionStep

\* A call goes on with the next one.
LEMMA ContinueStep ==
    ASSUME FullInv, NEW t \in Task, NEW call, Continue(t, call), UNCHANGED <<conn, stream, quic>>,
           ~Reading(t),
           \/ call \in {"write", "finish"} /\ task[t].call \in StreamCalls
           \/ call = "certificate" /\ task[t].call \in ConnectionCalls
    PROVE  TypeOK' /\ DataInv'
<1>1. conn \in ConnectionRecord /\ TasksTyped
  BY TypeParts DEF FullInv
<1>2. TasksTyped'
  <2>1. CASE call \in {"write", "finish"} /\ task[t].call \in StreamCalls
    <3>1. call \in StreamCalls
      BY <2>1 DEF StreamCalls
    <3> QED
      BY <1>1, <2>1, <3>1, TaskSteps
  <2>2. CASE call = "certificate" /\ task[t].call \in ConnectionCalls
    <3>1. call \in ConnectionCalls
      BY <2>2 DEF ConnectionCalls
    <3> QED
      BY <1>1, <2>2, <3>1, TaskSteps
  <2> QED
    BY <2>1, <2>2
<1>3. \A u \in Task : SameReader(u)
  BY ReaderSteps
<1> QED
  BY <1>1, <1>2, <1>3, ConnectionStep

\* Entering a call.
LEMMA BeginStep ==
    ASSUME FullInv, NEW t \in Task,
           \/ \E call \in ConnectionCalls \ {"certificate"} : Begin(t, call)
           \/ \E s \in Outbound : BeginSend(t, s)
    PROVE  TypeOK' /\ DataInv'
<1>0. conn \in ConnectionRecord /\ TasksTyped /\ Shape
  BY TypeParts DEF FullInv, WakeInv
<1>1. PICK new \in TaskRecord :
         /\ task[t].call = "idle" /\ UNCHANGED <<conn, stream, quic>>
         /\ task' = [task EXCEPT ![t] = new]
         /\ new.got = 0 /\ new.dropping = <<>>
         /\ new.call \notin {"read", "read_done"}
         /\ new.call \in StreamCalls <=> new.stream # NoStream
  <2>0. IdleTask \in TaskRecord
    BY NewTyped
  <2>1. ASSUME NEW call \in ConnectionCalls \ {"certificate"}, Begin(t, call)
        PROVE  \E new \in TaskRecord :
                  /\ task[t].call = "idle" /\ UNCHANGED <<conn, stream, quic>>
                  /\ task' = [task EXCEPT ![t] = new]
                  /\ new.got = 0 /\ new.dropping = <<>>
                  /\ new.call = call /\ new.stream = NoStream
    <3> DEFINE new == [IdleTask EXCEPT !.call = call]
    <3>1. new \in TaskRecord
      BY <2>0 DEF TaskRecord
    <3>2. new.got = 0 /\ new.dropping = <<>> /\ new.call = call /\ new.stream = NoStream
      BY DEF IdleTask
    <3>3. /\ task[t].call = "idle" /\ UNCHANGED <<conn, stream, quic>>
          /\ task' = [task EXCEPT ![t] = new]
      BY <2>1 DEF Begin
    <3> HIDE DEF new
    <3> QED
      BY <3>1, <3>2, <3>3
  <2>2. ASSUME NEW s \in Outbound, BeginSend(t, s)
        PROVE  \E new \in TaskRecord :
                  /\ task[t].call = "idle" /\ UNCHANGED <<conn, stream, quic>>
                  /\ task' = [task EXCEPT ![t] = new]
                  /\ new.got = 0 /\ new.dropping = <<>>
                  /\ new.call = "open" /\ new.stream = s
    <3> DEFINE new == [IdleTask EXCEPT !.call = "open", !.stream = s]
    <3>1. new \in TaskRecord
      BY <2>0 DEF TaskRecord, StreamCalls, Streams
    <3>2. new.got = 0 /\ new.dropping = <<>> /\ new.call = "open" /\ new.stream = s
      BY DEF IdleTask
    <3>3. /\ task[t].call = "idle" /\ UNCHANGED <<conn, stream, quic>>
          /\ task' = [task EXCEPT ![t] = new]
      BY <2>2 DEF BeginSend
    <3> HIDE DEF new
    <3> QED
      BY <3>1, <3>2, <3>3
  <2>3. \A s \in Outbound : s # NoStream
    BY StreamAssumption DEF StreamAssumption, Streams
  <2>4. \A call \in ConnectionCalls : call \notin StreamCalls /\ call \notin {"read", "read_done"}
    BY DEF ConnectionCalls, StreamCalls
  <2>5. "open" \in StreamCalls
    BY DEF StreamCalls
  <2>6. CASE \E call \in ConnectionCalls \ {"certificate"} : Begin(t, call)
    BY <2>1, <2>4, <2>6
  <2>7. CASE \E s \in Outbound : BeginSend(t, s)
    BY <2>2, <2>3, <2>5, <2>7
  <2> QED
    BY <2>6, <2>7
<1>2. TasksTyped'
  BY <1>0, <1>1 DEF TasksTyped
<1>3. NewReader(t) /\ \A u \in Task \ {t} : SameReader(u)
  BY <1>0, <1>1 DEF Shape, NewReader, SameReader, Reading
<1> QED
  BY <1>0, <1>1, <1>2, <1>3, ConnectionStep

\* Taking a stream of the peer.
LEMMA TakeStreamStep ==
    ASSUME FullInv, NEW t \in Task, Polls(t, "accept_uni"), conn.inbound_uni_streams # <<>>,
           conn' = [conn EXCEPT !.inbound_uni_streams = Tail(@)],
           task' = [task EXCEPT ![t].call = "read", ![t].stream = Head(conn.inbound_uni_streams)],
           UNCHANGED <<stream, quic>>
    PROVE  TypeOK' /\ DataInv'
<1>0. conn \in ConnectionRecord /\ TasksTyped /\ Owned /\ Shape /\ TaskData(t)
  BY TypeParts DEF FullInv, WakeInv, DataInv
<1>1. conn.inbound_uni_streams \in Seq(Inbound)
  BY <1>0 DEF ConnectionRecord
<1>2. PICK s : s = Head(conn.inbound_uni_streams)
  OBVIOUS
<1>3. /\ s \in Inbound /\ s = conn.inbound_uni_streams[1] /\ 1 \in DOMAIN conn.inbound_uni_streams
      /\ Tail(conn.inbound_uni_streams) \in Seq(Inbound)
  BY <1>1, <1>2
<1>4. conn' \in ConnectionRecord
  BY <1>0, <1>3 DEF ConnectionRecord
<1>5. s \in Streams /\ s # NoStream /\ Unowned(s)
  BY <1>0, <1>3, StreamAssumption DEF Owned, Unowned, Streams, StreamAssumption
<1>6. task' = [task EXCEPT ![t].call = "read", ![t].stream = s]
  BY <1>2
<1>7. TasksTyped'
  <2> DEFINE new == [task[t] EXCEPT !.call = "read", !.stream = s]
  <2>1. task[t] \in TaskRecord
    BY <1>0 DEF TasksTyped
  <2>2. new \in TaskRecord /\ new.call = "read" /\ new.stream = s
    BY <1>5, <2>1 DEF TaskRecord, StreamCalls
  <2>3. task' = [task EXCEPT ![t] = new]
    BY <1>6
  <2> HIDE DEF new
  <2> QED
    BY <1>0, <1>5, <2>2, <2>3 DEF TasksTyped, StreamCalls
<1>8. /\ task'[t].stream = s /\ task'[t].got = task[t].got /\ task'[t].dropping = task[t].dropping
      /\ \A u \in Task \ {t} : task'[u] = task[u]
  BY <1>0, <1>6 DEF TasksTyped, TaskRecord
<1>9. ~Reading(t) /\ task[t].dropping = <<>> /\ task[t].got = 0
  BY <1>0 DEF Polls, Reading, TaskData
<1>10. NewReader(t) /\ \A u \in Task \ {t} : SameReader(u)
  BY <1>5, <1>8, <1>9 DEF NewReader, SameReader, Reading
<1> QED
  BY <1>4, <1>7, <1>10, ConnectionStep

\* Asking for the shutdown of the connection.
LEMMA ShutDownTyped ==
    ASSUME conn \in ConnectionRecord
    PROVE  /\ ShutDown \in ConnectionRecord
           /\ \A t \in Task : [ShutDown EXCEPT !.shutdown_waiters = @ \cup {t}] \in ConnectionRecord
<1>1. ShutDown \in ConnectionRecord
  BY DEF ShutDown, ConnectionRecord, ConnectionStates, ConnectionErrors
<1> QED
  BY <1>1 DEF ConnectionRecord

\* Every poll of the connection.
LEMMA ConnectionPollStep ==
    ASSUME FullInv, NEW t \in Task,
           \/ PollConnect(t) \/ PollAccept(t) \/ PollReceiveRemoteCertificate(t)
           \/ PollAcceptInboundUniStream(t) \/ PollShutdown(t) \/ CloseConnection(t)
    PROVE  TypeOK' /\ DataInv'
<1>0. conn \in ConnectionRecord /\ TasksTyped
  BY TypeParts DEF FullInv
<1>1. task[t].call \in {"start", "accept", "certificate", "accept_uni", "shutdown", "idle"}
  BY DEF PollConnect, PollAccept, PollReceiveRemoteCertificate, PollAcceptInboundUniStream,
         PollShutdown, CloseConnection, Polls
<1>2. ~Reading(t)
  BY <1>1 DEF Reading
<1>3. CASE ConnectionReturns(t)
  BY <1>2, <1>3, ReturnStep
<1>4. CASE \E list \in CallLists \cup {"shutdown_waiters"} : WaitForConnection(t, list)
  BY <1>4, WaitForConnectionStep
<1>5. CASE /\ task[t].call \in {"start", "accept"}
           /\ Continue(t, "certificate") /\ UNCHANGED <<conn, stream, quic>>
  BY <1>2, <1>5, ContinueStep DEF ConnectionCalls
<1>6. CASE /\ conn' = [conn EXCEPT !.state = "Connecting", !.start_waiters = @ \cup {t}]
           /\ Sleep(t)
           /\ UNCHANGED <<stream, quic>>
  <2>1. conn' \in ConnectionRecord
    BY <1>0, <1>6 DEF ConnectionRecord, ConnectionStates
  <2> QED
    BY <1>0, <1>6, <2>1, TaskSteps, ReaderSteps, ConnectionStep
<1>7. CASE /\ conn' = [ShutDown EXCEPT !.shutdown_waiters = @ \cup {t}]
           /\ Sleep(t)
           /\ UNCHANGED <<stream, quic>>
  BY <1>0, <1>7, ShutDownTyped, TaskSteps, ReaderSteps, ConnectionStep
<1>8. CASE conn' = ShutDown /\ UNCHANGED <<stream, quic, task>>
  <2>1. TasksTyped' /\ \A u \in Task : SameReader(u)
    BY <1>0, <1>8 DEF TasksTyped, SameReader, Reading
  <2> QED
    BY <1>0, <1>8, <2>1, ShutDownTyped, ConnectionStep
<1>9. CASE /\ Polls(t, "accept_uni") /\ conn.inbound_uni_streams # <<>>
           /\ conn' = [conn EXCEPT !.inbound_uni_streams = Tail(@)]
           /\ task' = [task EXCEPT ![t].call = "read",
                                   ![t].stream = Head(conn.inbound_uni_streams)]
           /\ UNCHANGED <<stream, quic>>
  BY <1>9, TakeStreamStep
<1>10. CASE PollConnect(t)
  BY <1>3, <1>4, <1>5, <1>6, <1>10 DEF PollConnect, Polls, CallLists
<1>11. CASE PollAccept(t)
  BY <1>3, <1>4, <1>5, <1>11 DEF PollAccept, Polls, CallLists
<1>12. CASE PollReceiveRemoteCertificate(t)
  BY <1>3, <1>4, <1>12 DEF PollReceiveRemoteCertificate, CallLists
<1>13. CASE PollAcceptInboundUniStream(t)
  BY <1>3, <1>4, <1>9, <1>13 DEF PollAcceptInboundUniStream, CallLists
<1>14. CASE PollShutdown(t)
  <2>1. CASE /\ conn.state = "Shutdown"
             /\ conn' = [conn EXCEPT !.shutdown_waiters = @ \cup {t}]
             /\ Sleep(t)
             /\ UNCHANGED <<stream, quic>>
    <3>1. WaitForConnection(t, "shutdown_waiters")
      BY <2>1 DEF WaitForConnection
    <3> QED
      BY <1>4, <3>1
  <2> QED
    BY <1>3, <1>4, <1>7, <1>14, <2>1 DEF PollShutdown, CallLists
<1>15. CASE CloseConnection(t)
  BY <1>8, <1>15 DEF CloseConnection
<1> QED
  BY <1>10, <1>11, <1>12, <1>13, <1>14, <1>15

\* Draining lists of the connection keeps it well typed.
LEMMA DrainTyped ==
    ASSUME conn \in ConnectionRecord, NEW lists \in SUBSET (CallLists \cup {"shutdown_waiters"})
    PROVE  Drained(lists, conn) \in ConnectionRecord
<1> DEFINE d == Drained(lists, conn)
<1>1. DOMAIN d = DOMAIN conn /\ \A f \in DOMAIN conn : d[f] = IF f \in lists THEN {} ELSE conn[f]
  BY DEF Drained
<1>2. \A f \in {"local", "state", "error", "certificate", "inbound_uni_streams"} :
         f \in DOMAIN conn /\ f \notin lists
  BY DEF CallLists, ConnectionRecord
<1>3. /\ d.local = conn.local /\ d.state = conn.state /\ d.error = conn.error
      /\ d.certificate = conn.certificate /\ d.inbound_uni_streams = conn.inbound_uni_streams
  BY <1>1, <1>2
<1>4. /\ d.start_waiters \in SUBSET Task /\ d.certificate_waiters \in SUBSET Task
      /\ d.inbound_uni_stream_waiters \in SUBSET Task /\ d.shutdown_waiters \in SUBSET Task
  BY <1>1 DEF ConnectionRecord
<1>5. d = [f \in DOMAIN conn |-> d[f]]
  BY DEF Drained
<1> HIDE DEF d
<1>6. d \in ConnectionRecord
  BY <1>1, <1>3, <1>4, <1>5 DEF ConnectionRecord
<1> QED
  BY <1>6 DEF d

\* The callbacks of MsQuic on the connection.
LEMMA ConnectionCallbackStep ==
    ASSUME FullInv,
           \/ HandleConnected \/ HandlePeerCertificateReceived
           \/ \E by \in {"ByTransport", "ByPeer"} : HandleShutdownInitiated(by)
           \/ HandleConnectionShutdownComplete
    PROVE  TypeOK' /\ DataInv'
<1>0. conn \in ConnectionRecord /\ TasksTyped
  BY TypeParts DEF FullInv
<1>1. UNCHANGED <<stream, quic>> /\ \E W : Wake(W)
  BY DEF HandleConnected, HandlePeerCertificateReceived, HandleShutdownInitiated,
         HandleConnectionShutdownComplete
<1>2. conn' \in ConnectionRecord
  <2>1. CASE HandleConnected
    BY <1>0, <2>1 DEF HandleConnected, ConnectionRecord, ConnectionStates
  <2>2. CASE HandlePeerCertificateReceived
    BY <1>0, <2>2 DEF HandlePeerCertificateReceived, ConnectionRecord
  <2>3. ASSUME NEW by \in {"ByTransport", "ByPeer"}, HandleShutdownInitiated(by)
        PROVE  conn' \in ConnectionRecord
    <3>1. PICK d \in ConnectionRecord : d = Drained(CallLists, conn)
      BY <1>0, DrainTyped
    <3>2. conn' = [d EXCEPT !.state = "Shutdown", !.error = by]
      BY <2>3, <3>1 DEF HandleShutdownInitiated
    <3> QED
      BY <3>2 DEF ConnectionRecord, ConnectionStates, ConnectionErrors
  <2>4. CASE HandleConnectionShutdownComplete
    <3>1. PICK d \in ConnectionRecord : d = Drained(CallLists \cup {"shutdown_waiters"}, conn)
      BY <1>0, DrainTyped
    <3>2. conn' = [d EXCEPT !.state = "ShutdownComplete",
                            !.error = IF @ = "none" THEN "ByLocal" ELSE @]
      BY <2>4, <3>1 DEF HandleConnectionShutdownComplete
    <3> QED
      BY <3>2 DEF ConnectionRecord, ConnectionStates, ConnectionErrors
  <2> QED
    BY <2>1, <2>2, <2>3, <2>4
<1> QED
  BY <1>0, <1>1, <1>2, TaskSteps, ReaderSteps, ConnectionStep

\* A step that leaves the bytes of every stream alone.
LEMMA QuietStep ==
    ASSUME FullInv, StreamsTyped', TasksTyped', conn' \in ConnectionRecord,
           \A s \in Streams : SameData(s), \A t \in Task : SameReader(t) \/ NewReader(t)
    PROVE  TypeOK' /\ DataInv'
<1>1. DataInv'
  BY DataSame DEF FullInv
<1>2. (TypeOK <=> StreamsTyped /\ TasksTyped /\ conn \in ConnectionRecord)'
  BY DEF TypeOK, StreamTypeOK, StreamsTyped, TasksTyped, StreamRecord, QuicRecord, TaskRecord,
         ConnectionRecord
<1> QED
  BY <1>1, <1>2

\* The peer starts a stream.
LEMMA PeerStreamStep ==
    ASSUME FullInv, NEW s \in Inbound, HandlePeerStreamStarted(s)
    PROVE  TypeOK' /\ DataInv'
<1>0. conn \in ConnectionRecord /\ TasksTyped /\ StreamsTyped /\ s \in Streams
  BY TypeParts DEF FullInv, Streams
<1>1. /\ quic[s].phase = "none" /\ quic' = [quic EXCEPT ![s].phase = "started"]
      /\ conn' = [conn EXCEPT !.inbound_uni_streams = Append(@, s), !.inbound_uni_stream_waiters = {}]
      /\ Wake(conn.inbound_uni_stream_waiters) /\ stream' = stream
  BY DEF HandlePeerStreamStarted
<1>2. conn' \in ConnectionRecord
  <2>1. Append(conn.inbound_uni_streams, s) \in Seq(Inbound)
    BY <1>0 DEF ConnectionRecord
  <2> QED
    BY <1>0, <1>1, <2>1 DEF ConnectionRecord
<1>3. StreamsTyped'
  BY <1>0, <1>1 DEF StreamsTyped, QuicRecord
<1>4. \A r \in Streams : SameData(r)
  BY <1>0, <1>1 DEF SameData, StreamsTyped, QuicRecord
<1> QED
  BY <1>0, <1>1, <1>2, <1>3, <1>4, TaskSteps, ReaderSteps, QuietStep

-----------------------------------------------------------------------------
(* Types and bytes: steps that leave the bytes alone *)

\* Stream s becomes r, and MsQuic's side of it q, with the bytes they had.
KeepsBytes(s, r, q) ==
    /\ stream' = [stream EXCEPT ![s] = r] /\ quic' = [quic EXCEPT ![s] = q]
    /\ r.recv_buffers = stream[s].recv_buffers /\ r.recv_len = stream[s].recv_len
    /\ r.read_complete_map = stream[s].read_complete_map
    /\ r.read_complete_cursor = stream[s].read_complete_cursor
    /\ r.recv_state = stream[s].recv_state
    /\ r.conn_error = stream[s].conn_error /\ r.recv_error = stream[s].recv_error
    /\ q.pending = quic[s].pending /\ q.fin = quic[s].fin /\ q.completed = quic[s].completed
    /\ q.receiving = quic[s].receiving
    /\ s \in Inbound => q.phase = quic[s].phase

\* Such a step.
LEMMA KeepsBytesStep ==
    ASSUME FullInv, NEW s \in Streams, NEW r \in StreamRecord, NEW q \in QuicRecord,
           KeepsBytes(s, r, q), UNCHANGED conn, TasksTyped',
           \A t \in Task : SameReader(t) \/ NewReader(t)
    PROVE  TypeOK' /\ DataInv'
<1>0. conn \in ConnectionRecord /\ StreamsTyped
  BY TypeParts DEF FullInv
<1>1. StreamsTyped'
  BY <1>0 DEF KeepsBytes, StreamsTyped
<1>2. ASSUME NEW p \in Streams PROVE SameData(p)
  <2>1. CASE p = s
    <3>1. stream'[p] = r /\ quic'[p] = q
      BY <1>0, <2>1 DEF KeepsBytes, StreamsTyped
    <3> QED
      BY <2>1, <3>1 DEF KeepsBytes, SameData
  <2>2. CASE p # s
    <3>1. stream'[p] = stream[p] /\ quic'[p] = quic[p]
      BY <1>0, <2>2 DEF KeepsBytes, StreamsTyped
    <3> QED
      BY <3>1 DEF SameData
  <2> QED
    BY <2>1, <2>2
<1> QED
  BY <1>0, <1>1, <1>2, QuietStep

\* Leaving a waker in a list of a stream.
LEMMA WaitInStep ==
    ASSUME FullInv, NEW t \in Task, NEW s \in Streams, NEW list \in StreamLists,
           WaitIn(t, s, list), UNCHANGED <<conn, quic>>
    PROVE  TypeOK' /\ DataInv'
<1>0. StreamsTyped /\ TasksTyped
  BY TypeParts DEF FullInv
<1>1. stream[s] \in StreamRecord /\ quic[s] \in QuicRecord
  BY <1>0 DEF StreamsTyped
<1>2. TasksTyped' /\ \A u \in Task : SameReader(u)
  BY <1>0, TaskSteps, ReaderSteps DEF WaitIn
<1>3. \E r \in StreamRecord : KeepsBytes(s, r, quic[s])
  <2> DEFINE r == [stream[s] EXCEPT ![list] = @ \cup {t}]
  <2>1. stream' = [stream EXCEPT ![s] = r]
    BY DEF WaitIn
  <2>2. quic' = [quic EXCEPT ![s] = quic[s]]
    BY <1>0 DEF StreamsTyped
  <2>3. r \in StreamRecord
    <3>1. CASE list = "start_waiters"
      BY <1>1, <3>1 DEF StreamRecord
    <3>2. CASE list = "read_waiters"
      BY <1>1, <3>2 DEF StreamRecord
    <3>3. CASE list = "write_shutdown_waiters"
      BY <1>1, <3>3 DEF StreamRecord
    <3> QED
      BY <3>1, <3>2, <3>3 DEF StreamLists
  <2>4. \A f \in {"recv_buffers", "recv_len", "read_complete_map", "read_complete_cursor",
                  "recv_state", "conn_error", "recv_error"} : r[f] = stream[s][f]
    BY <1>1 DEF StreamRecord, StreamLists
  <2>5. /\ r.recv_buffers = stream[s].recv_buffers /\ r.recv_len = stream[s].recv_len
        /\ r.read_complete_map = stream[s].read_complete_map
        /\ r.read_complete_cursor = stream[s].read_complete_cursor
        /\ r.recv_state = stream[s].recv_state
        /\ r.conn_error = stream[s].conn_error /\ r.recv_error = stream[s].recv_error
    BY <2>4
  <2> HIDE DEF r
  <2>6. KeepsBytes(s, r, quic[s])
    BY <2>1, <2>2, <2>5 DEF KeepsBytes
  <2> QED
    BY <2>3, <2>6
<1> QED
  BY <1>1, <1>2, <1>3, KeepsBytesStep

\* What a task knows of the stream it sends on.
LEMMA SendersStream ==
    ASSUME FullInv, NEW t \in Task, task[t].call \in {"open", "write", "finish"}
    PROVE  /\ task[t].stream \in Outbound /\ task[t].stream \in Streams /\ ~Reading(t)
           /\ task[t].call \in StreamCalls
           /\ stream[task[t].stream] \in StreamRecord /\ quic[task[t].stream] \in QuicRecord
<1>1. StreamsTyped /\ TaskSound(t)
  BY TypeParts DEF FullInv, WakeInv
<1>2. task[t].stream \in Outbound
  BY <1>1 DEF TaskSound
<1> QED
  BY <1>1, <1>2 DEF StreamsTyped, Reading, StreamCalls, Streams

\* A stream is started, or its writing ended: t sleeps on it.
LEMMA StartStep ==
    ASSUME FullInv, NEW t \in Task, NEW s \in Outbound, Sleep(t), UNCHANGED conn,
           \/ /\ stream' = [stream EXCEPT ![s].state = "Start", ![s].send_state = "Start",
                                          ![s].start_waiters = @ \cup {t}]
              /\ quic' = [quic EXCEPT ![s].phase = "starting"]
           \/ /\ stream' = [stream EXCEPT ![s].send_state = "Shutdown",
                                          ![s].write_shutdown_waiters = @ \cup {t}]
              /\ quic' = [quic EXCEPT ![s].sending = "shutdown"]
    PROVE  TypeOK' /\ DataInv'
<1>0. StreamsTyped /\ TasksTyped /\ s \in Streams /\ s \notin Inbound
  BY TypeParts, StreamAssumption DEF FullInv, Streams, StreamAssumption
<1>1. stream[s] \in StreamRecord /\ quic[s] \in QuicRecord
  BY <1>0 DEF StreamsTyped
<1>2. TasksTyped' /\ \A u \in Task : SameReader(u)
  BY <1>0, TaskSteps, ReaderSteps
<1>3. CASE /\ stream' = [stream EXCEPT ![s].state = "Start", ![s].send_state = "Start",
                                       ![s].start_waiters = @ \cup {t}]
           /\ quic' = [quic EXCEPT ![s].phase = "starting"]
  <2> DEFINE r == [stream[s] EXCEPT !.state = "Start", !.send_state = "Start",
                                    !.start_waiters = @ \cup {t}]
             q == [quic[s] EXCEPT !.phase = "starting"]
  <2>1. r \in StreamRecord /\ q \in QuicRecord
    BY <1>1 DEF StreamRecord, QuicRecord, StreamStates, HalfStates
  <2>2. stream' = [stream EXCEPT ![s] = r] /\ quic' = [quic EXCEPT ![s] = q]
    BY <1>3
  <2>3. KeepsBytes(s, r, q)
    BY <1>0, <1>1, <2>2 DEF KeepsBytes, StreamRecord, QuicRecord
  <2> HIDE DEF r, q
  <2> QED
    BY <1>0, <1>2, <2>1, <2>3, KeepsBytesStep
<1>4. CASE /\ stream' = [stream EXCEPT ![s].send_state = "Shutdown",
                                       ![s].write_shutdown_waiters = @ \cup {t}]
           /\ quic' = [quic EXCEPT ![s].sending = "shutdown"]
  <2> DEFINE r == [stream[s] EXCEPT !.send_state = "Shutdown", !.write_shutdown_waiters = @ \cup {t}]
             q == [quic[s] EXCEPT !.sending = "shutdown"]
  <2>1. r \in StreamRecord /\ q \in QuicRecord
    BY <1>1 DEF StreamRecord, QuicRecord, HalfStates
  <2>2. KeepsBytes(s, r, q)
    BY <1>0, <1>1, <1>4, ZenonT(60) DEF KeepsBytes, StreamRecord, QuicRecord
  <2> HIDE DEF r, q
  <2> QED
    BY <1>0, <1>2, <2>1, <2>2, KeepsBytesStep
<1> QED
  BY <1>3, <1>4

\* Stream s becomes r, and MsQuic's side of it q.
Becomes(s, r, q) == stream' = [stream EXCEPT ![s] = r] /\ quic' = [quic EXCEPT ![s] = q]

\* A step on stream s, its owner and MsQuic's side of it.
LEMMA BytesStep ==
    ASSUME FullInv, NEW s \in Streams, NEW r \in StreamRecord, NEW q \in QuicRecord,
           Becomes(s, r, q), UNCHANGED conn, TasksTyped',
           \A t \in Task : task[t].stream # s => SameReader(t),
           \A t \in Task : task[t].stream = s => task'[t].stream \in {s, NoStream} /\ TaskData(t)',
           StreamData(s)', Settled(s)', Unowned(s)' => ReadSoFar(s, 0)'
    PROVE  TypeOK' /\ DataInv'
<1>0. conn \in ConnectionRecord /\ StreamsTyped /\ Shape
  BY TypeParts DEF FullInv, WakeInv
<1>1. StreamsTyped'
  BY <1>0 DEF Becomes, StreamsTyped
<1>2. stream'[s] = r /\ quic'[s] = q /\ stream' \in [Streams -> StreamRecord]
      /\ quic' \in [Streams -> QuicRecord]
      /\ \A p \in Streams \ {s} : stream'[p] = stream[p] /\ quic'[p] = quic[p]
  BY <1>0, <1>1 DEF Becomes, StreamsTyped
<1>3. DOMAIN r = DOMAIN NewStream(s) /\ DOMAIN q = DOMAIN NewQuic("none")
  BY DEF StreamRecord, QuicRecord, NewStream, NewQuic
<1>4. OnlyStream(s)
  BY <1>2, <1>3 DEF OnlyStream
<1>5. DataInv'
  BY <1>4, DataLocal DEF FullInv
<1>6. (TypeOK <=> StreamsTyped /\ TasksTyped /\ conn \in ConnectionRecord)'
  BY DEF TypeOK, StreamTypeOK, StreamsTyped, TasksTyped, StreamRecord, QuicRecord, TaskRecord,
         ConnectionRecord
<1> QED
  BY <1>0, <1>1, <1>5, <1>6

\* A stream has one owner.
LEMMA OneOwner ==
    ASSUME FullInv, NEW t \in Task, NEW s \in Streams, task[t].stream = s
    PROVE  \A u \in Task : task[u].stream = s => u = t
<1>1. NoStream \notin Streams /\ Owned
  BY StreamAssumption DEF StreamAssumption, FullInv, WakeInv
<1> QED
  BY <1>1 DEF Owned

\* The other tasks of a step of t keep what they read.
LEMMA OthersRead ==
    ASSUME NEW t \in Task, Moves(t)
    PROVE  \A u \in Task \ {t} : SameReader(u)
BY DEF Moves, SameReader, Reading

\* A call returns and drops its stream.
LEMMA CloseStep ==
    ASSUME FullInv, NEW t \in Task, task[t].stream \in Streams,
           Return(t), Close(task[t].stream), UNCHANGED conn
    PROVE  TypeOK' /\ DataInv'
<1>0. TasksTyped /\ Shape
  BY TypeParts DEF FullInv, WakeInv
<1>1. PICK s \in Streams : s = task[t].stream
  OBVIOUS
<1>2. Becomes(s, NewStream(s), NewQuic("closed"))
  BY <1>1 DEF Close, Becomes
<1>3. NewStream(s) \in StreamRecord /\ NewQuic("closed") \in QuicRecord
  BY NewTyped
<1>4. /\ Moves(t) /\ task'[t].call = "idle" /\ task'[t].stream = NoStream
      /\ task'[t].dropping = <<>> /\ task'[t].got = 0
  BY <1>0, Returns
<1>5. TasksTyped'
  BY <1>0, TaskSteps
<1>6. TaskData(t)' /\ \A u \in Task : task[u].stream # s => SameReader(u)
  BY <1>1, <1>4, OthersRead DEF TaskData, Reading
<1>7. stream'[s] = NewStream(s) /\ quic'[s] = NewQuic("closed")
  BY <1>0, <1>2 DEF Becomes, Shape
<1>8. /\ stream'[s].recv_buffers = <<>> /\ stream'[s].recv_len = 0
      /\ stream'[s].read_complete_map = {} /\ stream'[s].read_complete_cursor = 0
      /\ stream'[s].recv_state \notin {"Shutdown", "ShutdownComplete"}
  BY <1>7 DEF NewStream
<1>9. /\ quic'[s].completed = 0 /\ ~quic'[s].fin /\ quic'[s].phase = "closed"
      /\ quic'[s].receiving = "open"
  BY <1>7 DEF NewQuic
<1>10. StreamData(s)'
  <2>1. 0..0 - 1 = {}
    OBVIOUS
  <2> QED
    BY <1>8, <1>9, <2>1 DEF StreamData
<1>11. Settled(s)' /\ ReadSoFar(s, 0)'
  BY <1>8, <1>9 DEF Settled, ReadSoFar
<1>12. \A u \in Task : task[u].stream = s => u = t
  BY <1>1, OneOwner
<1> QED
  BY <1>2, <1>3, <1>4, <1>5, <1>6, <1>10, <1>11, <1>12, BytesStep

\* The polls of a task that sends.
LEMMA SendStep ==
    ASSUME FullInv, NEW t \in Task,
           \/ PollOpenOutboundStream(t)
           \/ (PollWrite(t) \/ PollFinishWrite(t)) /\ UNCHANGED conn
           \/ Timeout(t) /\ UNCHANGED conn
    PROVE  TypeOK' /\ DataInv'
<1>1. task[t].call \in {"open", "write", "finish"}
  BY DEF PollOpenOutboundStream, PollWrite, PollFinishWrite, Timeout, Polls
<1>2. PICK s \in Outbound : s = task[t].stream
  BY <1>1, SendersStream
<1>3. s \in Streams /\ ~Reading(t) /\ task[t].call \in StreamCalls
  BY <1>1, <1>2, SendersStream
<1>4. CASE Return(t) /\ UNCHANGED <<conn, stream, quic>>
  BY <1>3, <1>4, ReturnStep DEF ConnectionReturns
<1>5. CASE ReturnAndClose(t) /\ UNCHANGED conn
  BY <1>2, <1>3, <1>5, CloseStep DEF ReturnAndClose
<1>6. CASE WaitForConnection(t, "start_waiters")
  BY <1>6, WaitForConnectionStep DEF CallLists
<1>7. CASE \E list \in StreamLists : WaitIn(t, s, list) /\ UNCHANGED <<conn, quic>>
  BY <1>3, <1>7, WaitInStep
<1>8. CASE \E call \in {"write", "finish"} : Continue(t, call) /\ UNCHANGED <<conn, stream, quic>>
  BY <1>3, <1>8, ContinueStep
<1>9. CASE PollOpenOutboundStream(t)
  <2>1. CASE conn.state = "Connected" /\ PollStart(t, s) /\ UNCHANGED conn
    <3>1. CASE /\ stream' = [stream EXCEPT ![s].state = "Start", ![s].send_state = "Start",
                                           ![s].start_waiters = @ \cup {t}]
               /\ quic' = [quic EXCEPT ![s].phase = "starting"]
               /\ Sleep(t)
      BY <2>1, <3>1, StartStep
    <3>2. CASE WaitIn(t, s, "start_waiters") /\ UNCHANGED quic
      BY <1>7, <2>1, <3>2 DEF StreamLists
    <3> QED
      BY <1>5, <1>8, <2>1, <3>1, <3>2 DEF PollStart
  <2> QED
    BY <1>2, <1>4, <1>5, <1>6, <1>9, <2>1 DEF PollOpenOutboundStream
<1>10. CASE PollWrite(t) /\ UNCHANGED conn
  <2>1. CASE WaitIn(t, s, "start_waiters") /\ UNCHANGED quic
    BY <1>7, <1>10, <2>1 DEF StreamLists
  <2> QED
    BY <1>2, <1>5, <1>8, <1>10, <2>1 DEF PollWrite
<1>11. CASE PollFinishWrite(t) /\ UNCHANGED conn
  <2>1. CASE \E list \in {"start_waiters", "write_shutdown_waiters"} :
                WaitIn(t, s, list) /\ UNCHANGED quic
    BY <1>7, <1>11, <2>1 DEF StreamLists
  <2>2. CASE /\ stream' = [stream EXCEPT ![s].send_state = "Shutdown",
                                         ![s].write_shutdown_waiters = @ \cup {t}]
             /\ quic' = [quic EXCEPT ![s].sending = "shutdown"]
             /\ Sleep(t)
    BY <1>11, <2>2, StartStep
  <2> QED
    BY <1>2, <1>5, <1>11, <2>1, <2>2 DEF PollFinishWrite
<1>12. CASE Timeout(t) /\ UNCHANGED conn
  BY <1>2, <1>4, <1>5, <1>12 DEF Timeout, ReturnAndClose
<1> QED
  BY <1>9, <1>10, <1>11, <1>12

\* The callbacks on a stream that is started or written.
LEMMA SendCallbackStep ==
    ASSUME FullInv, NEW s \in Streams, UNCHANGED conn,
           \/ \E status \in {"ok", "limit_reached", "aborted"}, peer_accepted \in BOOLEAN :
                 HandleStartComplete(s, status, peer_accepted)
           \/ HandlePeerAccepted(s)
           \/ \E closing \in BOOLEAN : HandleSendShutdownComplete(s, closing)
           \/ HandlePeerReceiveAborted(s)
    PROVE  TypeOK' /\ DataInv'
<1>0. StreamsTyped /\ TasksTyped /\ StreamData(s)
  BY TypeParts DEF FullInv, DataInv
<1>1. stream[s] \in StreamRecord /\ quic[s] \in QuicRecord
  BY <1>0 DEF StreamsTyped
<1>2. s \notin Inbound
  BY <1>0, StreamAssumption DEF StreamData, StreamAssumption, HandleStartComplete, HandlePeerAccepted,
     HandleSendShutdownComplete, HandlePeerReceiveAborted
<1>3. \E W : Wake(W)
  BY DEF HandleStartComplete, HandlePeerAccepted, HandleSendShutdownComplete, HandlePeerReceiveAborted
<1>4. TasksTyped' /\ \A u \in Task : SameReader(u)
  BY <1>0, <1>3, TaskSteps, ReaderSteps
<1>5. ASSUME NEW r \in StreamRecord, NEW q \in QuicRecord, KeepsBytes(s, r, q)
      PROVE  TypeOK' /\ DataInv'
  BY <1>4, <1>5, KeepsBytesStep
<1>6. ASSUME NEW status \in {"ok", "limit_reached", "aborted"}, NEW peer_accepted \in BOOLEAN,
             HandleStartComplete(s, status, peer_accepted)
      PROVE  TypeOK' /\ DataInv'
  <2>1. PICK state \in StreamStates : state = IF peer_accepted THEN "StartComplete" ELSE stream[s].state
    BY <1>1 DEF StreamRecord, StreamStates
  <2>2. PICK half \in HalfStates : half = IF peer_accepted THEN "StartComplete" ELSE stream[s].send_state
    BY <1>1 DEF StreamRecord, HalfStates
  <2>3. PICK waiters \in SUBSET Task :
           waiters = IF peer_accepted \/ status = "limit_reached" THEN {} ELSE stream[s].start_waiters
    BY <1>1 DEF StreamRecord
  <2>4. PICK phase \in {"started", "blocked", "failed"} :
           phase = CASE peer_accepted -> "started"
                     [] status = "ok" /\ ~peer_accepted -> "blocked"
                     [] OTHER -> "failed"
    OBVIOUS
  <2> DEFINE r == [stream[s] EXCEPT !.start_status = status, !.state = state, !.send_state = half,
                                    !.start_waiters = waiters]
             q == [quic[s] EXCEPT !.phase = phase]
  <2>5. stream' = [stream EXCEPT ![s] = r]
    BY <1>6, <2>1, <2>2, <2>3 DEF HandleStartComplete
  <2>6. quic' = [quic EXCEPT ![s] = q]
    BY <1>6, <2>4 DEF HandleStartComplete
  <2>7. r \in StreamRecord
    BY <1>1 DEF StreamRecord, StartStatuses
  <2>8. q \in QuicRecord
    BY <1>1 DEF QuicRecord
  <2>9. KeepsBytes(s, r, q)
    BY <1>1, <1>2, <2>5, <2>6 DEF KeepsBytes, StreamRecord, QuicRecord
  <2> HIDE DEF r, q
  <2> QED
    BY <1>5, <2>7, <2>8, <2>9
<1>7. CASE HandlePeerAccepted(s)
  <2> DEFINE r == [stream[s] EXCEPT !.state = "StartComplete", !.send_state = "StartComplete",
                                    !.start_waiters = {}]
             q == [quic[s] EXCEPT !.phase = "started"]
  <2>1. stream' = [stream EXCEPT ![s] = r] /\ quic' = [quic EXCEPT ![s] = q]
    BY <1>7 DEF HandlePeerAccepted
  <2>2. r \in StreamRecord /\ q \in QuicRecord
    BY <1>1 DEF StreamRecord, QuicRecord, StreamStates, HalfStates
  <2>3. KeepsBytes(s, r, q)
    BY <1>1, <1>2, <2>1 DEF KeepsBytes, StreamRecord, QuicRecord
  <2> HIDE DEF r, q
  <2> QED
    BY <1>5, <2>2, <2>3
<1>8. ASSUME NEW closing \in BOOLEAN, HandleSendShutdownComplete(s, closing)
      PROVE  TypeOK' /\ DataInv'
  <2> DEFINE r == [stream[s] EXCEPT !.send_state = "ShutdownComplete", !.write_shutdown_waiters = {}]
             q == [quic[s] EXCEPT !.sending = "done"]
  <2>1. stream' = [stream EXCEPT ![s] = r] /\ quic' = [quic EXCEPT ![s] = q]
    BY <1>8 DEF HandleSendShutdownComplete
  <2>2. r \in StreamRecord /\ q \in QuicRecord
    BY <1>1 DEF StreamRecord, QuicRecord, HalfStates
  <2>3. KeepsBytes(s, r, q)
    BY <1>1, <1>2, <2>1 DEF KeepsBytes, StreamRecord, QuicRecord
  <2> HIDE DEF r, q
  <2> QED
    BY <1>5, <2>2, <2>3
<1>9. CASE HandlePeerReceiveAborted(s)
  <2> DEFINE r == [stream[s] EXCEPT !.send_state = "ShutdownComplete", !.send_error = TRUE,
                                    !.write_shutdown_waiters = {}]
  <2>1. stream' = [stream EXCEPT ![s] = r] /\ quic' = [quic EXCEPT ![s] = quic[s]]
    BY <1>0, <1>9 DEF HandlePeerReceiveAborted, StreamsTyped
  <2>2. r \in StreamRecord
    BY <1>1 DEF StreamRecord, HalfStates
  <2>3. KeepsBytes(s, r, quic[s])
    BY <1>1, <1>2, <2>1 DEF KeepsBytes, StreamRecord
  <2> HIDE DEF r
  <2> QED
    BY <1>1, <1>5, <2>2, <2>3
<1> QED
  BY <1>6, <1>7, <1>8, <1>9

-----------------------------------------------------------------------------
(* Types and bytes: callbacks on a stream that is read *)

\* What is being dropped stays outstanding, and what the reader has is still true.
ReadersKeep(s) ==
    /\ \A b : Outstanding(s, b) /\ stream[s].recv_buffers = <<>> =>
          Outstanding(s, b)' /\ stream'[s].recv_buffers = <<>>
    /\ \A got : ReadSoFar(s, got) => ReadSoFar(s, got)'

\* A callback that changes stream s and wakes tasks.
LEMMA CallbackStep ==
    ASSUME FullInv, NEW s \in Streams, NEW r \in StreamRecord, NEW q \in QuicRecord,
           Becomes(s, r, q), UNCHANGED conn, \E W : Wake(W),
           ReadersKeep(s), StreamData(s)', Settled(s)'
    PROVE  TypeOK' /\ DataInv'
<1>0. TasksTyped
  BY TypeParts DEF FullInv
<1>1. TasksTyped' /\ \A u \in Task : SameReader(u)
  BY <1>0, TaskSteps, ReaderSteps
<1>2. ASSUME NEW t \in Task, task[t].stream = s PROVE task'[t].stream = s /\ TaskData(t)'
  <2>1. SameReader(t) /\ TaskData(t)
    BY <1>1 DEF FullInv, DataInv
  <2>2. PICK got, b : got = task[t].got /\ b = task[t].dropping[1]
    OBVIOUS
  <2>3. task'[t].stream = s /\ got = task'[t].got /\ b = task'[t].dropping[1]
    BY <1>2, <2>1, <2>2 DEF SameReader
  <2>4. Reading(t) => ReadSoFar(task[t].stream, task[t].got)'
    <3>1. Reading(t) => ReadSoFar(s, got)'
      BY <1>2, <2>1, <2>2 DEF TaskData, ReadersKeep
    <3> QED
      BY <2>3, <3>1 DEF ReadSoFar
  <2>5. task[t].dropping # <<>> =>
           Outstanding(task[t].stream, task[t].dropping[1])' /\ stream'[s].recv_buffers = <<>>
    <3>1. task[t].dropping # <<>> => Outstanding(s, b)' /\ stream'[s].recv_buffers = <<>>
      BY <1>2, <2>1, <2>2 DEF TaskData, ReadersKeep
    <3> QED
      BY <2>3, <3>1 DEF Outstanding
  <2> QED
    BY <2>1, <2>3, <2>4, <2>5 DEF TaskData, SameReader
<1>3. Unowned(s)' => ReadSoFar(s, 0)'
  <2>1. Unowned(s)' => Unowned(s)
    BY <1>1 DEF Unowned, SameReader
  <2> QED
    BY <2>1 DEF FullInv, DataInv, ReadersKeep
<1> QED
  BY <1>1, <1>2, <1>3, BytesStep

\* Bytes arrive.
LEMMA ReceiveStep ==
    ASSUME FullInv, NEW s \in Streams, NEW length \in 0..MessageLength, NEW fin \in BOOLEAN,
           HandleReceive(s, length, fin), UNCHANGED conn
    PROVE  TypeOK' /\ DataInv'
<1>0. StreamsTyped /\ TasksTyped /\ StreamData(s) /\ Settled(s) /\ Shape
  BY TypeParts DEF FullInv, DataInv, WakeInv
<1>1. stream[s] \in StreamRecord /\ quic[s] \in QuicRecord /\ MessageLength \in Nat
  BY <1>0, LengthPositive DEF StreamsTyped
<1>2. /\ s \in Inbound /\ quic[s].phase = "started" /\ quic[s].receiving = "open"
      /\ ~quic[s].pending /\ ~quic[s].fin
      /\ stream[s].recv_len + length <= MessageLength
      /\ fin => stream[s].recv_len + length = MessageLength
  BY DEF HandleReceive
<1>3. stream[s].recv_buffers = <<>> /\ \A b : ~Outstanding(s, b)
  BY <1>0, <1>2 DEF StreamData, Outstanding
<1>4. \A t \in Task : task[t].stream = s => task[t].dropping = <<>>
  BY <1>3 DEF FullInv, DataInv, TaskData
<1>5. quic[s].completed = stream[s].recv_len /\ stream[s].read_complete_cursor = stream[s].recv_len
  BY <1>0, <1>2, <1>3, <1>4 DEF Settled
<1> DEFINE b == [offset |-> stream[s].recv_len, len |-> length, read |-> 0, fin |-> fin]
           new == stream[s].recv_len + length
           r == [stream[s] EXCEPT !.recv_len = new, !.recv_buffers = <<b>>, !.read_waiters = {}]
           q == [quic[s] EXCEPT !.pending = TRUE, !.fin = fin]
<1>6. b \in RecvBuffers /\ new \in 0..MessageLength
  BY <1>1, <1>2 DEF RecvBuffers, StreamRecord
<1>7. Append(stream[s].recv_buffers, b) = <<b>>
  BY <1>3
<1>8. Becomes(s, r, q)
  BY <1>7 DEF HandleReceive, Becomes
<1>9. r \in StreamRecord /\ q \in QuicRecord
  <2>1. <<b>> \in Seq(RecvBuffers)
    BY <1>6
  <2> HIDE DEF b, new
  <2> QED
    BY <1>1, <1>6, <2>1 DEF StreamRecord, QuicRecord
<1>10. b.offset = stream[s].recv_len /\ b.len = length /\ b.read = 0 /\ b.fin = fin
  OBVIOUS
<1> HIDE DEF b
<1>11. stream'[s] = r /\ quic'[s] = q
  BY <1>0, <1>8 DEF Becomes, Shape
<1>12. /\ stream'[s].recv_buffers = <<b>> /\ stream'[s].recv_len = new
       /\ stream'[s].read_complete_map = stream[s].read_complete_map
       /\ stream'[s].read_complete_cursor = stream[s].read_complete_cursor
       /\ stream'[s].recv_state = stream[s].recv_state
       /\ stream'[s].conn_error = stream[s].conn_error
       /\ stream'[s].recv_error = stream[s].recv_error
  BY <1>1, <1>11 DEF StreamRecord
<1>13. /\ quic'[s].pending = TRUE /\ quic'[s].fin = fin /\ quic'[s].phase = "started"
       /\ quic'[s].completed = quic[s].completed /\ quic'[s].receiving = "open"
  BY <1>1, <1>2, <1>11 DEF QuicRecord
<1>14. stream[s].recv_len \in Nat /\ length \in Nat
  BY <1>1 DEF StreamRecord
<1> HIDE DEF r, q
<1>15. Len(<<b>>) = 1 /\ <<b>>[1] = b /\ <<b>> # <<>>
  OBVIOUS
<1>16. Outstanding(s, stream[s].recv_buffers[1])'
  BY <1>5, <1>10, <1>12, <1>13, <1>14, <1>15 DEF Outstanding
<1>17. s \notin Outbound
  BY <1>2, StreamAssumption DEF StreamAssumption
<1>18. StreamData(s)'
  BY <1>0, <1>2, <1>3, <1>5, <1>12, <1>13, <1>14, <1>15, <1>16, <1>17 DEF StreamData
<1>19. Settled(s)'
  BY <1>12, <1>15 DEF Settled
<1>20. ReadersKeep(s)
  <2>1. ASSUME NEW got, ReadSoFar(s, got) PROVE ReadSoFar(s, got)'
    <3>1. got = stream[s].recv_len
      BY <1>2, <1>3, <2>1 DEF ReadSoFar
    <3>2. got = b.offset + b.read
      BY <1>10, <1>14, <3>1
    <3> QED
      BY <1>12, <1>15, <3>2 DEF ReadSoFar
  <2> QED
    BY <1>3, <2>1 DEF ReadersKeep
<1> QED
  BY <1>8, <1>9, <1>18, <1>19, <1>20, CallbackStep DEF HandleReceive

\* The peer's FIN is reported, or the peer aborts.
LEMMA ReceiveEndStep ==
    ASSUME FullInv, NEW s \in Streams, HandlePeerSendShutdown(s) \/ HandlePeerSendAborted(s),
           UNCHANGED conn
    PROVE  TypeOK' /\ DataInv'
<1>0. StreamsTyped /\ TasksTyped /\ StreamData(s) /\ Settled(s) /\ Shape
  BY TypeParts DEF FullInv, DataInv, WakeInv
<1>1. stream[s] \in StreamRecord /\ quic[s] \in QuicRecord /\ MessageLength \in Nat \ {0}
  BY <1>0, LengthPositive DEF StreamsTyped
<1>2. PICK error \in BOOLEAN :
         /\ stream' = [stream EXCEPT ![s].recv_state = "ShutdownComplete", ![s].recv_error = error,
                                     ![s].read_waiters = {}]
         /\ quic' = [quic EXCEPT ![s].receiving = "done"]
         /\ error = TRUE \/ (error = stream[s].recv_error /\ quic[s].fin /\ ~quic[s].pending)
         /\ quic[s].phase = "started"
  <2>1. CASE HandlePeerSendAborted(s)
    BY <2>1 DEF HandlePeerSendAborted
  <2>2. CASE HandlePeerSendShutdown(s)
    <3>1. stream[s].recv_error \in BOOLEAN
      BY <1>1 DEF StreamRecord
    <3>2. [stream[s] EXCEPT !.recv_state = "ShutdownComplete", !.read_waiters = {}]
          = [stream[s] EXCEPT !.recv_state = "ShutdownComplete", !.recv_error = stream[s].recv_error,
                              !.read_waiters = {}]
      BY <1>1 DEF StreamRecord
    <3>3. stream' = [stream EXCEPT ![s].recv_state = "ShutdownComplete",
                                   ![s].recv_error = stream[s].recv_error, ![s].read_waiters = {}]
      <4> DEFINE a == [stream[s] EXCEPT !.recv_state = "ShutdownComplete", !.read_waiters = {}]
                 b == [stream[s] EXCEPT !.recv_state = "ShutdownComplete",
                                        !.recv_error = stream[s].recv_error, !.read_waiters = {}]
      <4>1. stream' = [stream EXCEPT ![s] = a]
        BY <2>2 DEF HandlePeerSendShutdown
      <4>2. a = b
        BY <3>2
      <4>3. stream' = [stream EXCEPT ![s] = b]
        BY <4>1, <4>2
      <4> QED
        BY <4>3
    <3> QED
      BY <2>2, <3>1, <3>3 DEF HandlePeerSendShutdown
  <2> QED
    BY <2>1, <2>2
<1> DEFINE r == [stream[s] EXCEPT !.recv_state = "ShutdownComplete", !.recv_error = error,
                                  !.read_waiters = {}]
           q == [quic[s] EXCEPT !.receiving = "done"]
<1>3. r \in StreamRecord /\ q \in QuicRecord
  BY <1>1 DEF StreamRecord, QuicRecord, HalfStates
<1>4. Becomes(s, r, q)
  BY <1>2 DEF Becomes
<1>5. stream'[s] = r /\ quic'[s] = q
  BY <1>0, <1>4 DEF Becomes, Shape
<1>6. /\ stream'[s].recv_buffers = stream[s].recv_buffers
      /\ stream'[s].recv_len = stream[s].recv_len
      /\ stream'[s].read_complete_map = stream[s].read_complete_map
      /\ stream'[s].read_complete_cursor = stream[s].read_complete_cursor
      /\ stream'[s].recv_state = "ShutdownComplete"
      /\ stream'[s].conn_error = stream[s].conn_error
      /\ stream'[s].recv_error = error
  BY <1>1, <1>5 DEF StreamRecord
<1>7. /\ quic'[s].pending = quic[s].pending /\ quic'[s].fin = quic[s].fin
      /\ quic'[s].phase = quic[s].phase
      /\ quic'[s].completed = quic[s].completed /\ quic'[s].receiving = "done"
  BY <1>1, <1>5 DEF QuicRecord
<1> HIDE DEF r, q
<1>8. \A b : Outstanding(s, b) => Outstanding(s, b)'
  BY <1>6, <1>7 DEF Outstanding
<1>9. \A got : ReadSoFar(s, got) => ReadSoFar(s, got)'
  BY <1>2, <1>6, <1>7 DEF ReadSoFar
<1>10. ReadersKeep(s)
  BY <1>6, <1>8, <1>9 DEF ReadersKeep
<1>11. Settled(s)'
  <2>1. \A u \in Task : SameReader(u)
    BY ReaderSteps DEF HandlePeerSendShutdown, HandlePeerSendAborted
  <2> QED
    BY <1>0, <1>6, <1>7, <2>1 DEF Settled, SameReader
<1>12. error = TRUE \/ (quic[s].fin /\ stream[s].recv_buffers = <<>>)
  BY <1>0, <1>2 DEF StreamData, Outstanding
<1>13. stream[s].recv_buffers # <<>> => Outstanding(s, stream[s].recv_buffers[1])'
  <2>1. PICK b : b = stream[s].recv_buffers[1]
    OBVIOUS
  <2>2. stream[s].recv_buffers # <<>> => Outstanding(s, b)'
    BY <1>0, <1>8, <2>1 DEF StreamData
  <2> QED
    BY <1>6, <2>1, <2>2 DEF Outstanding
<1>14. StreamData(s)'
  BY <1>0, <1>6, <1>7, <1>12, <1>13 DEF StreamData
<1> QED
  BY <1>3, <1>4, <1>10, <1>11, <1>14, CallbackStep DEF HandlePeerSendShutdown, HandlePeerSendAborted

\* MsQuic is done with a stream.
LEMMA StreamDownStep ==
    ASSUME FullInv, NEW s \in Streams, NEW closing \in BOOLEAN, HandleShutdownComplete(s, closing),
           UNCHANGED conn
    PROVE  TypeOK' /\ DataInv'
<1>0. StreamsTyped /\ TasksTyped /\ StreamData(s) /\ Settled(s) /\ Shape
  BY TypeParts DEF FullInv, DataInv, WakeInv
<1>1. stream[s] \in StreamRecord /\ quic[s] \in QuicRecord /\ MessageLength \in Nat \ {0}
  BY <1>0, LengthPositive DEF StreamsTyped
<1>2. MayShutDown(s, closing) /\ Alive(s)
  BY DEF HandleShutdownComplete, MayShutDown
<1>3. PICK done : done = IF stream[s].recv_buffers = <<>> THEN quic[s].completed
                         ELSE quic[s].completed + stream[s].recv_len - stream[s].read_complete_cursor
  OBVIOUS
<1> DEFINE r == [stream[s] EXCEPT
                    !.state = "ShutdownComplete", !.recv_state = "ShutdownComplete",
                    !.send_state = "ShutdownComplete", !.recv_buffers = <<>>,
                    !.conn_error = closing,
                    !.start_waiters = {}, !.read_waiters = {}, !.write_shutdown_waiters = {}]
           q == [quic[s] EXCEPT !.phase = "down", !.completed = done]
<1>4. stream[s].recv_len \in Nat /\ stream[s].read_complete_cursor \in Nat /\ quic[s].completed \in Nat
  BY <1>1 DEF StreamRecord, QuicRecord
<1>5. stream[s].recv_buffers # <<>> =>
         /\ Outstanding(s, stream[s].recv_buffers[1]) /\ stream[s].recv_buffers[1] \in RecvBuffers
         /\ s \in Inbound /\ done = stream[s].recv_len
  <2>1. stream[s].recv_buffers \in Seq(RecvBuffers)
    BY <1>1 DEF StreamRecord
  <2>2. stream[s].recv_buffers # <<>> => stream[s].recv_buffers[1] \in RecvBuffers
    BY <2>1
  <2>3. stream[s].recv_buffers # <<>> => Outstanding(s, stream[s].recv_buffers[1])
    BY <1>0 DEF StreamData
  <2>4. stream[s].recv_buffers # <<>> => s \in Inbound
    BY <1>0 DEF StreamData, Streams
  <2> QED
    BY <1>3, <1>4, <2>2, <2>3, <2>4 DEF Outstanding
<1>6. done <= stream[s].recv_len /\ done \in 0..MessageLength
  BY <1>0, <1>1, <1>3, <1>5 DEF StreamData, StreamRecord, QuicRecord
<1>7. r \in StreamRecord /\ q \in QuicRecord
  <2>1. <<>> \in Seq(RecvBuffers)
    OBVIOUS
  <2> QED
    BY <1>1, <1>6, <2>1 DEF StreamRecord, QuicRecord, HalfStates, StreamStates
<1>8. Becomes(s, r, q)
  <2>1. stream' = [stream EXCEPT ![s] = r]
    BY DEF HandleShutdownComplete
  <2>2. quic' = [quic EXCEPT ![s] = q]
    BY <1>3 DEF HandleShutdownComplete
  <2> QED
    BY <2>1, <2>2 DEF Becomes
<1>9. stream'[s] = r /\ quic'[s] = q
  BY <1>0, <1>8 DEF Becomes, Shape
<1>10. /\ stream'[s].recv_buffers = <<>>
       /\ stream'[s].recv_len = stream[s].recv_len
       /\ stream'[s].read_complete_map = stream[s].read_complete_map
       /\ stream'[s].read_complete_cursor = stream[s].read_complete_cursor
       /\ stream'[s].recv_state = "ShutdownComplete"
       /\ stream'[s].conn_error = closing
       /\ stream'[s].recv_error = stream[s].recv_error
  BY <1>1, <1>9 DEF StreamRecord
<1>11. /\ quic'[s].pending = quic[s].pending /\ quic'[s].fin = quic[s].fin
       /\ quic'[s].phase = "down"
       /\ quic'[s].completed = done /\ quic'[s].receiving = quic[s].receiving
  BY <1>1, <1>9 DEF QuicRecord
<1> HIDE DEF r, q
<1>12. s \in Inbound => closing \/ stream[s].recv_error \/ (quic[s].fin /\ stream[s].recv_buffers = <<>>)
  BY <1>0, <1>2, StreamAssumption DEF MayShutDown, StreamData, StreamAssumption
<1>13. StreamData(s)'
  BY <1>0, <1>6, <1>10, <1>11, <1>12 DEF StreamData
<1>14. Settled(s)'
  <2>1. \A u \in Task : SameReader(u)
    BY ReaderSteps DEF HandleShutdownComplete
  <2>2. stream[s].recv_buffers = <<>> => done = quic[s].completed
    BY <1>3
  <2> QED
    BY <1>0, <1>5, <1>10, <1>11, <2>1, <2>2 DEF Settled, SameReader
<1>15. ReadersKeep(s)
  <2>1. ASSUME NEW b, Outstanding(s, b), stream[s].recv_buffers = <<>> PROVE Outstanding(s, b)'
    BY <1>3, <1>10, <1>11, <2>1 DEF Outstanding
  <2>2. ASSUME NEW got, ReadSoFar(s, got) PROVE ReadSoFar(s, got)'
    <3>1. CASE stream[s].recv_buffers # <<>>
      <4>1. PICK b \in RecvBuffers : b = stream[s].recv_buffers[1]
        BY <1>5, <3>1
      <4>2. got = b.offset + b.read /\ b.read <= b.len /\ b.offset + b.len = stream[s].recv_len
        BY <1>5, <2>2, <3>1, <4>1 DEF ReadSoFar, Outstanding
      <4>3. got <= stream[s].recv_len
        BY <1>1, <4>2 DEF RecvBuffers
      <4>4. closing \/ stream[s].recv_error
        BY <1>5, <1>12, <3>1
      <4> QED
        BY <1>10, <1>11, <4>3, <4>4 DEF ReadSoFar
    <3>2. CASE stream[s].recv_buffers = <<>>
      <4>1. got = stream[s].recv_len
        BY <1>2, <2>2, <3>2 DEF ReadSoFar, Alive
      <4> QED
        BY <1>10, <4>1 DEF ReadSoFar
    <3> QED
      BY <3>1, <3>2
  <2> QED
    BY <1>10, <2>1, <2>2 DEF ReadersKeep
<1> QED
  BY <1>7, <1>8, <1>13, <1>14, <1>15, CallbackStep DEF HandleShutdownComplete

-----------------------------------------------------------------------------
(* Types and bytes: reading *)

\* Reader t and its stream s become new and r, by a read of the one buffer b.
ReadsFrom(t, s, b, r, new) ==
    /\ stream' = [stream EXCEPT ![s] = r] /\ task' = [task EXCEPT ![t] = new]
    /\ UNCHANGED <<conn, quic>>
    /\ r.recv_len = stream[s].recv_len
    /\ r.read_complete_map = stream[s].read_complete_map
    /\ r.read_complete_cursor = stream[s].read_complete_cursor
    /\ r.conn_error = stream[s].conn_error /\ r.recv_error = stream[s].recv_error
    /\ new.stream = s /\ new.call \in {"read", "read_done"}
    /\ \/ /\ r.recv_buffers = <<>> /\ new.dropping = <<b>> /\ new.got = stream[s].recv_len
          /\ r.recv_state = stream[s].recv_state \/ (r.recv_state = "Shutdown" /\ b.fin)
       \/ /\ new.dropping = <<>>
          /\ \E c \in RecvBuffers :
                /\ r.recv_buffers = <<c>> /\ new.got = c.offset + c.read
                /\ c.read <= c.len /\ c.offset = b.offset /\ c.len = b.len /\ c.fin = b.fin
          /\ r.recv_state = stream[s].recv_state

\* A read of a buffer.
LEMMA ReadsFromStep ==
    ASSUME FullInv, NEW t \in Task, NEW s \in Inbound, task[t].stream = s, Reading(t),
           NEW b, stream[s].recv_buffers = <<b>>, stream[s].recv_state = "StartComplete",
           NEW r \in StreamRecord, NEW new \in TaskRecord, ReadsFrom(t, s, b, r, new)
    PROVE  TypeOK' /\ DataInv'
<1>0. StreamsTyped /\ TasksTyped /\ StreamData(s) /\ Shape /\ s \in Streams
  BY TypeParts DEF FullInv, DataInv, WakeInv, Streams
<1>1. quic[s] \in QuicRecord /\ Becomes(s, r, quic[s])
  BY <1>0 DEF StreamsTyped, Becomes, ReadsFrom
<1>2. stream'[s] = r /\ quic' = quic /\ task'[t] = new /\ \A u \in Task \ {t} : task'[u] = task[u]
  BY <1>0 DEF ReadsFrom, Shape
<1>3. <<b>> # <<>> /\ <<b>>[1] = b /\ Len(<<b>>) = 1
  OBVIOUS
<1>4. Outstanding(s, b) /\ quic[s].phase = "started"
  BY <1>0, <1>3 DEF StreamData
<1>5. s # NoStream /\ s \notin Outbound
  BY <1>0, StreamAssumption DEF StreamAssumption
<1>6. TasksTyped'
  BY <1>0, <1>2, <1>5 DEF TasksTyped, StreamCalls, ReadsFrom
<1>7. \A u \in Task : task[u].stream = s => u = t
  BY <1>0, OneOwner
<1>8. \A u \in Task : task[u].stream # s => SameReader(u)
  BY <1>2 DEF SameReader, Reading
<1>9. task'[t].stream = s /\ ~Unowned(s)' /\ Reading(t)'
  BY <1>2 DEF Unowned, Reading, ReadsFrom
<1>10. /\ stream'[s].recv_len = stream[s].recv_len
       /\ stream'[s].read_complete_map = stream[s].read_complete_map
       /\ stream'[s].read_complete_cursor = stream[s].read_complete_cursor
       /\ stream'[s].conn_error = stream[s].conn_error /\ stream'[s].recv_error = stream[s].recv_error
  BY <1>2 DEF ReadsFrom
<1>11. CASE /\ r.recv_buffers = <<>> /\ new.dropping = <<b>> /\ new.got = stream[s].recv_len
            /\ r.recv_state = stream[s].recv_state \/ (r.recv_state = "Shutdown" /\ b.fin)
  <2>1. stream'[s].recv_buffers = <<>> /\ stream'[s].recv_state = r.recv_state
    BY <1>2, <1>11
  <2>2. Outstanding(s, b)'
    BY <1>2, <1>4, <1>10 DEF Outstanding
  <2>3. task'[t].dropping = <<b>> /\ task'[t].got = stream'[s].recv_len
    BY <1>2, <1>10, <1>11
  <2>4. Outstanding(task[t].stream, task[t].dropping[1])'
    BY <1>3, <1>9, <2>2, <2>3 DEF Outstanding
  <2>5. ReadSoFar(task[t].stream, task[t].got)'
    BY <1>9, <2>1, <2>3 DEF ReadSoFar
  <2>6. TaskData(t)'
    BY <1>3, <1>9, <2>1, <2>3, <2>4, <2>5 DEF TaskData
  <2>7. StreamData(s)'
    BY <1>0, <1>2, <1>3, <1>4, <1>5, <1>10, <1>11, <2>1 DEF StreamData, Outstanding
  <2>8. Settled(s)'
    BY <1>3, <1>9, <2>3 DEF Settled
  <2> QED
    BY <1>0, <1>1, <1>6, <1>7, <1>8, <1>9, <2>6, <2>7, <2>8, BytesStep DEF ReadsFrom
<1>12. ASSUME NEW c \in RecvBuffers, new.dropping = <<>>,
              r.recv_buffers = <<c>>, new.got = c.offset + c.read,
              c.read <= c.len, c.offset = b.offset, c.len = b.len, c.fin = b.fin,
              r.recv_state = stream[s].recv_state
       PROVE  TypeOK' /\ DataInv'
  <2>0. <<c>> # <<>> /\ <<c>>[1] = c /\ Len(<<c>>) = 1
    OBVIOUS
  <2>1. stream'[s].recv_buffers = <<c>> /\ stream'[s].recv_state = "StartComplete"
    BY <1>2, <1>12
  <2>2. Outstanding(s, stream[s].recv_buffers[1])'
    BY <1>2, <1>4, <1>10, <1>12, <2>0, <2>1 DEF Outstanding
  <2>3. task'[t].dropping = <<>> /\ task'[t].got = c.offset + c.read
    BY <1>2, <1>12
  <2>4. ReadSoFar(task[t].stream, task[t].got)'
    BY <1>9, <2>0, <2>1, <2>3 DEF ReadSoFar
  <2>5. TaskData(t)'
    BY <1>9, <2>3, <2>4 DEF TaskData
  <2>6. StreamData(s)'
    BY <1>0, <1>2, <1>3, <1>4, <1>5, <1>10, <2>0, <2>1, <2>2 DEF StreamData
  <2>7. Settled(s)'
    BY <2>0, <2>1 DEF Settled
  <2> QED
    BY <1>0, <1>1, <1>6, <1>7, <1>8, <1>9, <2>5, <2>6, <2>7, BytesStep DEF ReadsFrom
<1> QED
  BY <1>11, <1>12 DEF ReadsFrom

\* What a reader asks for is a positive number of bytes.
LEMMA WantsSome ==
    ASSUME NEW got \in 0..MessageLength
    PROVE  Wanted(got) \in Nat \ {0}
BY LengthAssumption DEF LengthAssumption, Wanted, MessageLength

\* A read takes what the one buffer of s has, or as much as it wants of it.
LEMMA TakeStep ==
    ASSUME FullInv, NEW t \in Task, NEW s \in Inbound, task[t].stream = s, Polls(t, "read"),
           stream[s].recv_state = "StartComplete", UNCHANGED <<conn, quic>>,
           NEW b \in RecvBuffers, stream[s].recv_buffers = <<b>>,
           NEW p, p = ReadUpTo(stream[s].recv_buffers, Wanted(task[t].got)),
           NEW ended \in BOOLEAN,
           stream' = [stream EXCEPT ![s].recv_buffers = p.rest,
                                    ![s].recv_state = IF p.fin THEN "Shutdown" ELSE @],
           task' = [task EXCEPT ![t].got = @ + p.read, ![t].dropping = p.dropped,
                                ![t].call = IF ended THEN "read_done" ELSE @]
    PROVE  TypeOK' /\ DataInv'
<1>0. StreamsTyped /\ TasksTyped /\ StreamData(s) /\ TaskData(t) /\ s \in Streams
  BY TypeParts DEF FullInv, DataInv, Streams
<1>1. stream[s] \in StreamRecord /\ task[t] \in TaskRecord /\ MessageLength \in Nat
  BY <1>0, LengthPositive DEF StreamsTyped, TasksTyped
<1>2. <<b>> # <<>> /\ <<b>>[1] = b /\ task[t].call = "read" /\ Reading(t)
  BY DEF Polls, Reading
<1>3. Outstanding(s, b) /\ task[t].got = b.offset + b.read
  BY <1>0, <1>2 DEF StreamData, TaskData, ReadSoFar
<1>4. PICK size \in Nat \ {0} : size = Wanted(task[t].got)
  BY <1>1, WantsSome DEF TaskRecord
<1>5. PICK call \in {"read", "read_done"} : call = IF ended THEN "read_done" ELSE task[t].call
  BY <1>2
<1>6. call \in StreamCalls
  BY DEF StreamCalls
<1>7. /\ b.offset \in Nat /\ b.read \in Nat /\ b.len \in Nat /\ b.fin \in BOOLEAN
      /\ stream[s].recv_len \in 0..MessageLength
      /\ b.read <= b.len /\ b.offset + b.len = stream[s].recv_len
  BY <1>1, <1>3 DEF RecvBuffers, StreamRecord, Outstanding
<1>8. \/ /\ p.read = b.len - b.read /\ p.rest = <<>> /\ p.dropped = <<b>> /\ p.fin = b.fin
      \/ /\ p.read = size /\ p.rest = <<[b EXCEPT !.read = @ + size]>>
         /\ p.dropped = <<>> /\ p.fin = FALSE /\ b.read + size <= b.len
  <2>1. PICK bs : bs = <<b>>
    OBVIOUS
  <2>2. p = ReadUpTo(bs, size)
    BY <1>4, <2>1
  <2>3. UsesUpOrLeaves(ReadUpTo(bs, size), b, size, bs)
    BY <1>7, <2>1, ReadOne
  <2> QED
    BY <2>1, <2>2, <2>3 DEF UsesUpOrLeaves
<1>9. CASE p.read = b.len - b.read /\ p.rest = <<>> /\ p.dropped = <<b>> /\ p.fin = b.fin
  <2>1. PICK state \in {"Shutdown", "StartComplete"} :
           /\ state = IF p.fin THEN "Shutdown" ELSE stream[s].recv_state
           /\ state = stream[s].recv_state \/ (state = "Shutdown" /\ b.fin)
    BY <1>7, <1>9
  <2>2. PICK got : got = task[t].got + p.read
    OBVIOUS
  <2>3. got = stream[s].recv_len
    BY <1>3, <1>7, <1>9, <2>2
  <2> DEFINE r == [stream[s] EXCEPT !.recv_buffers = <<>>, !.recv_state = state]
             new == [task[t] EXCEPT !.got = got, !.dropping = <<b>>, !.call = call]
  <2>4. <<>> \in Seq(RecvBuffers) /\ <<b>> \in Seq(RecvBuffers)
    OBVIOUS
  <2>5. r \in StreamRecord
    BY <1>1, <2>4 DEF StreamRecord, HalfStates
  <2>6. new \in TaskRecord
    BY <1>1, <1>6, <1>7, <2>3, <2>4 DEF TaskRecord
  <2>7. stream' = [stream EXCEPT ![s] = r]
    BY <1>9, <2>1
  <2>8. task' = [task EXCEPT ![t] = new]
    BY <1>5, <1>9, <2>2
  <2>9. /\ r.recv_len = stream[s].recv_len
        /\ r.read_complete_map = stream[s].read_complete_map
        /\ r.read_complete_cursor = stream[s].read_complete_cursor
        /\ r.conn_error = stream[s].conn_error /\ r.recv_error = stream[s].recv_error
        /\ r.recv_buffers = <<>> /\ r.recv_state = state
    BY <1>1 DEF StreamRecord
  <2>10. new.stream = s /\ new.call = call /\ new.dropping = <<b>> /\ new.got = got
    BY <1>1 DEF TaskRecord
  <2> HIDE DEF r, new
  <2>11. ReadsFrom(t, s, b, r, new)
    BY <2>1, <2>3, <2>7, <2>8, <2>9, <2>10 DEF ReadsFrom
  <2> QED
    BY <1>2, <2>5, <2>6, <2>11, ReadsFromStep
<1>10. CASE /\ p.read = size /\ p.rest = <<[b EXCEPT !.read = @ + size]>>
            /\ p.dropped = <<>> /\ p.fin = FALSE /\ b.read + size <= b.len
  <2>1. PICK c : c = [b EXCEPT !.read = @ + size]
    OBVIOUS
  <2>2. c \in RecvBuffers
    BY <1>10, <2>1, <1>1 DEF RecvBuffers
  <2>3. c.read = b.read + size /\ c.offset = b.offset /\ c.len = b.len /\ c.fin = b.fin
    BY <2>1 DEF RecvBuffers
  <2>4. PICK got : got = task[t].got + p.read
    OBVIOUS
  <2>5. got = c.offset + c.read /\ got \in 0..MessageLength
    BY <1>1, <1>3, <1>7, <1>10, <2>3, <2>4, SMTT(30)
  <2> DEFINE r == [stream[s] EXCEPT !.recv_buffers = <<c>>, !.recv_state = "StartComplete"]
             new == [task[t] EXCEPT !.got = got, !.dropping = <<>>, !.call = call]
  <2>6. <<>> \in Seq(RecvBuffers) /\ <<c>> \in Seq(RecvBuffers)
    BY <2>2
  <2>7. r \in StreamRecord
    BY <1>1, <2>6 DEF StreamRecord, HalfStates
  <2>8. new \in TaskRecord
    BY <1>1, <1>6, <2>5, <2>6 DEF TaskRecord
  <2>9. stream' = [stream EXCEPT ![s] = r]
    BY <1>10, <2>1
  <2>10. task' = [task EXCEPT ![t] = new]
    BY <1>5, <1>10, <2>4
  <2>11. /\ r.recv_len = stream[s].recv_len
         /\ r.read_complete_map = stream[s].read_complete_map
         /\ r.read_complete_cursor = stream[s].read_complete_cursor
         /\ r.conn_error = stream[s].conn_error /\ r.recv_error = stream[s].recv_error
         /\ r.recv_buffers = <<c>> /\ r.recv_state = stream[s].recv_state
    BY <1>1 DEF StreamRecord
  <2>12. new.stream = s /\ new.call = call /\ new.dropping = <<>> /\ new.got = got
    BY <1>1 DEF TaskRecord
  <2>13. c.read <= c.len
    BY <1>10, <2>3
  <2> HIDE DEF r, new
  <2>14. ReadsFrom(t, s, b, r, new)
    BY <2>2, <2>3, <2>5, <2>9, <2>10, <2>11, <2>12, <2>13 DEF ReadsFrom
  <2> QED
    BY <1>2, <2>7, <2>8, <2>14, ReadsFromStep
<1> QED
  BY <1>8, <1>9, <1>10

\* A read finds nothing: an empty buffer is dropped, and t sleeps.
LEMMA WaitForBytesStep ==
    ASSUME FullInv, NEW t \in Task, NEW s \in Inbound, task[t].stream = s, Polls(t, "read"),
           stream[s].recv_state = "StartComplete", UNCHANGED <<conn, quic>>,
           NEW b \in RecvBuffers, stream[s].recv_buffers = <<b>>,
           NEW p, p = ReadUpTo(stream[s].recv_buffers, Wanted(task[t].got)),
           p.read = 0, ~p.fin,
           stream' = [stream EXCEPT ![s].recv_buffers = <<>>, ![s].read_waiters = @ \cup {t}],
           task' = [task EXCEPT ![t].awake = FALSE, ![t].dropping = p.dropped]
    PROVE  TypeOK' /\ DataInv'
<1>0. StreamsTyped /\ TasksTyped /\ StreamData(s) /\ TaskData(t) /\ s \in Streams
  BY TypeParts DEF FullInv, DataInv, Streams
<1>1. stream[s] \in StreamRecord /\ task[t] \in TaskRecord /\ MessageLength \in Nat
  BY <1>0, LengthPositive DEF StreamsTyped, TasksTyped
<1>2. <<b>> # <<>> /\ <<b>>[1] = b /\ task[t].call = "read" /\ Reading(t)
  BY DEF Polls, Reading
<1>3. Outstanding(s, b) /\ task[t].got = b.offset + b.read
  BY <1>0, <1>2 DEF StreamData, TaskData, ReadSoFar
<1>4. PICK size \in Nat \ {0} : size = Wanted(task[t].got)
  BY <1>1, WantsSome DEF TaskRecord
<1>5. /\ b.offset \in Nat /\ b.read \in Nat /\ b.len \in Nat /\ b.fin \in BOOLEAN
      /\ stream[s].recv_len \in 0..MessageLength
      /\ b.read <= b.len /\ b.offset + b.len = stream[s].recv_len
  BY <1>1, <1>3 DEF RecvBuffers, StreamRecord, Outstanding
<1>6. p.read = b.len - b.read /\ p.dropped = <<b>>
  <2>1. PICK bs : bs = <<b>>
    OBVIOUS
  <2>2. p = ReadUpTo(bs, size)
    BY <1>4, <2>1
  <2>3. UsesUpOrLeaves(ReadUpTo(bs, size), b, size, bs)
    BY <1>5, <2>1, ReadOne
  <2> QED
    BY <2>1, <2>2, <2>3 DEF UsesUpOrLeaves
<1>7. task[t].got = stream[s].recv_len
  BY <1>3, <1>5, <1>6
<1> DEFINE r == [stream[s] EXCEPT !.recv_buffers = <<>>, !.read_waiters = @ \cup {t}]
           new == [task[t] EXCEPT !.awake = FALSE, !.dropping = <<b>>]
<1>8. <<>> \in Seq(RecvBuffers) /\ <<b>> \in Seq(RecvBuffers)
  OBVIOUS
<1>9. r \in StreamRecord /\ new \in TaskRecord
  <2>1. r \in StreamRecord
    BY ONLY <1>1, <1>8, t \in Task DEF StreamRecord
  <2>2. new \in TaskRecord
    BY ONLY <1>1, <1>8 DEF TaskRecord
  <2> QED
    BY <2>1, <2>2
<1>10. stream' = [stream EXCEPT ![s] = r]
  OBVIOUS
<1>11. task' = [task EXCEPT ![t] = new]
  BY <1>6
<1>12. /\ r.recv_len = stream[s].recv_len
       /\ r.read_complete_map = stream[s].read_complete_map
       /\ r.read_complete_cursor = stream[s].read_complete_cursor
       /\ r.conn_error = stream[s].conn_error /\ r.recv_error = stream[s].recv_error
       /\ r.recv_buffers = <<>> /\ r.recv_state = stream[s].recv_state
  BY <1>1 DEF StreamRecord
<1>13. /\ new.stream = s /\ new.call = "read" /\ new.dropping = <<b>>
       /\ new.got = stream[s].recv_len
  BY <1>1, <1>2, <1>7 DEF TaskRecord
<1> HIDE DEF r, new
<1>14. ReadsFrom(t, s, b, r, new)
  BY <1>10, <1>11, <1>12, <1>13 DEF ReadsFrom
<1> QED
  BY <1>2, <1>9, <1>14, ReadsFromStep

\* poll_read.
LEMMA PollReadStep ==
    ASSUME FullInv, NEW t \in Task, PollRead(t), UNCHANGED conn
    PROVE  TypeOK' /\ DataInv'
<1>1. Polls(t, "read") /\ task[t].call = "read" /\ task[t].dropping = <<>>
  BY DEF PollRead, Polls
<1>2. task[t].stream \in Inbound
  BY <1>1 DEF FullInv, WakeInv, TaskSound
<1>3. PICK s \in Inbound : s = task[t].stream
  BY <1>2
<1>4. /\ s \in Streams /\ stream[s].recv_state # "Start" /\ StreamsTyped /\ TasksTyped
      /\ StreamData(s)
  BY TypeParts DEF FullInv, DataInv, WakeInv, StreamSound, Streams
<1>5. stream[s] \in StreamRecord /\ quic[s] \in QuicRecord /\ task[t] \in TaskRecord
  BY <1>4 DEF StreamsTyped, TasksTyped
<1>6. PICK p : p = ReadUpTo(stream[s].recv_buffers, Wanted(task[t].got))
  OBVIOUS
<1>7. PICK ended \in BOOLEAN : ended = (p.fin /\ p.read = 0 /\ task[t].got = MessageLength)
  OBVIOUS
<1>8. CASE ReturnAndClose(t)
  BY <1>3, <1>4, <1>8, CloseStep DEF ReturnAndClose
<1>9. stream[s].recv_buffers = <<>> => p.read = 0 /\ ~p.fin /\ p.dropped = <<>>
  BY <1>6, ReadNothing
<1>10. stream[s].recv_buffers # <<>> => \E b \in RecvBuffers : stream[s].recv_buffers = <<b>>
  <2>1. stream[s].recv_buffers \in Seq(RecvBuffers)
    BY <1>5 DEF StreamRecord
  <2>2. stream[s].recv_buffers # <<>> => Len(stream[s].recv_buffers) = 1
    BY <1>4 DEF StreamData
  <2>3. ASSUME NEW bs \in Seq(RecvBuffers), Len(bs) = 1 PROVE \E b \in RecvBuffers : bs = <<b>>
    <3>1. bs[1] \in RecvBuffers /\ bs = <<bs[1]>>
      BY <2>3
    <3> QED
      BY <3>1
  <2> QED
    BY <2>1, <2>2, <2>3
<1>11. CASE /\ stream[s].recv_state = "StartComplete"
            /\ p.read > 0 \/ p.fin
            /\ stream' = [stream EXCEPT ![s].recv_buffers = p.rest,
                                        ![s].recv_state = IF p.fin THEN "Shutdown" ELSE @]
            /\ task' = [task EXCEPT ![t].got = @ + p.read, ![t].dropping = p.dropped,
                                    ![t].call = IF ended THEN "read_done" ELSE @]
            /\ UNCHANGED quic
  <2>1. stream[s].recv_buffers # <<>>
    BY <1>9, <1>11
  <2>2. PICK b \in RecvBuffers : stream[s].recv_buffers = <<b>>
    BY <1>10, <2>1
  <2> QED
    BY <1>1, <1>3, <1>6, <1>11, <2>2, TakeStep
<1>12. CASE /\ stream[s].recv_state = "StartComplete"
            /\ p.read = 0 /\ ~p.fin
            /\ stream' = [stream EXCEPT ![s].recv_buffers = <<>>,
                                        ![s].read_waiters = @ \cup {t}]
            /\ task' = [task EXCEPT ![t].awake = FALSE, ![t].dropping = p.dropped]
            /\ UNCHANGED quic
  <2>1. CASE stream[s].recv_buffers # <<>>
    <3>1. PICK b \in RecvBuffers : stream[s].recv_buffers = <<b>>
      BY <1>10, <2>1
    <3> QED
      BY <1>1, <1>3, <1>6, <1>12, <3>1, WaitForBytesStep
  <2>2. CASE stream[s].recv_buffers = <<>>
    <3> DEFINE r == [stream[s] EXCEPT !.recv_buffers = <<>>, !.read_waiters = @ \cup {t}]
               new == [task[t] EXCEPT !.awake = FALSE, !.dropping = <<>>]
    <3>1. <<>> \in Seq(RecvBuffers)
      OBVIOUS
    <3>2. r \in StreamRecord /\ new \in TaskRecord
      BY <1>5, <3>1 DEF StreamRecord, TaskRecord
    <3>3. stream' = [stream EXCEPT ![s] = r] /\ quic' = [quic EXCEPT ![s] = quic[s]]
      BY <1>4, <1>12 DEF StreamsTyped
    <3>4. task' = [task EXCEPT ![t] = new]
      BY <1>9, <1>12, <2>2
    <3>5. KeepsBytes(s, r, quic[s])
      BY <1>5, <2>2, <3>3 DEF KeepsBytes, StreamRecord
    <3>6. /\ new.stream = task[t].stream /\ new.call = task[t].call
          /\ new.dropping = task[t].dropping /\ new.got = task[t].got
      BY <1>1, <1>5 DEF TaskRecord
    <3> HIDE DEF r, new
    <3>7. task'[t] = new /\ \A u \in Task \ {t} : task'[u] = task[u]
      BY <1>4, <3>4 DEF TasksTyped
    <3>8. TasksTyped'
      BY <1>4, <3>2, <3>4, <3>6, <3>7 DEF TasksTyped
    <3>9. \A u \in Task : SameReader(u)
      BY <3>6, <3>7 DEF SameReader, Reading
    <3> QED
      BY <1>4, <1>5, <3>2, <3>5, <3>8, <3>9, KeepsBytesStep
  <2> QED
    BY <2>1, <2>2
<1> QED
  BY <1>3, <1>4, <1>6, <1>7, <1>8, <1>11, <1>12 DEF PollRead

\* A buffer that was read is dropped.
LEMMA ReadCompleteStep ==
    ASSUME FullInv, NEW t \in Task, ReadComplete(t), UNCHANGED conn
    PROVE  TypeOK' /\ DataInv'
<1>0. StreamsTyped /\ TasksTyped /\ TaskData(t) /\ TaskSound(t) /\ Shape
  BY TypeParts DEF FullInv, DataInv, WakeInv
<1>1. task[t].dropping # <<>> /\ Reading(t) /\ task[t].stream \in Inbound
  BY <1>0 DEF ReadComplete, TaskSound, Reading
<1>2. PICK s \in Inbound : s = task[t].stream
  BY <1>1
<1>3. s \in Streams /\ StreamData(s) /\ s \notin Outbound /\ s # NoStream
  BY <1>2, StreamAssumption DEF FullInv, DataInv, Streams, StreamAssumption
<1>4. stream[s] \in StreamRecord /\ quic[s] \in QuicRecord /\ task[t] \in TaskRecord
      /\ MessageLength \in Nat \ {0}
  BY <1>0, <1>3, LengthPositive DEF StreamsTyped, TasksTyped
<1>5. PICK b : b = Head(task[t].dropping)
  OBVIOUS
<1>6. b \in RecvBuffers /\ Tail(task[t].dropping) = <<>> /\ b = task[t].dropping[1]
  <2>1. task[t].dropping \in Seq(RecvBuffers) /\ Len(task[t].dropping) = 1
    BY <1>0, <1>1, <1>4 DEF TaskRecord, TaskData
  <2>2. ASSUME NEW d \in Seq(RecvBuffers), Len(d) = 1
        PROVE  Head(d) = d[1] /\ d[1] \in RecvBuffers /\ Tail(d) = <<>>
    <3>1. Head(d) = d[1] /\ d[1] \in RecvBuffers /\ Tail(d) \in Seq(RecvBuffers) /\ Len(Tail(d)) = 0
      BY <2>2
    <3> QED
      BY <3>1, EmptySeq
  <2> QED
    BY <1>5, <2>1, <2>2
<1>7. Outstanding(s, b) /\ stream[s].recv_buffers = <<>>
  BY <1>0, <1>1, <1>2, <1>6 DEF TaskData
<1>8. PICK cursor, end : cursor = stream[s].read_complete_cursor /\ end = stream[s].recv_len
  OBVIOUS
<1>9. /\ cursor \in 0..MessageLength /\ end \in 0..MessageLength /\ cursor <= end
      /\ b.offset = cursor /\ b.offset + b.len = end /\ b.offset \in Nat /\ b.len \in Nat
      /\ quic[s].completed = cursor
  BY <1>3, <1>4, <1>6, <1>7, <1>8 DEF StreamRecord, StreamData, Outstanding, RecvBuffers
<1>10. PICK map : map = stream[s].read_complete_map \cup (b.offset..b.offset + b.len - 1)
  OBVIOUS
<1>11. map = 0..end - 1
  <2>1. stream[s].read_complete_map = 0..cursor - 1
    BY <1>3, <1>8 DEF StreamData
  <2>2. (0..cursor - 1) \cup (cursor..end - 1) = 0..end - 1
    BY <1>4, <1>9
  <2> QED
    BY <1>9, <1>10, <2>1, <2>2
<1>12. CompletePrefix(map) = end
  BY <1>9, <1>11, PrefixEnds
<1> DEFINE r == [stream[s] EXCEPT !.read_complete_map = map, !.read_complete_cursor = end]
           q == [quic[s] EXCEPT !.pending = FALSE, !.completed = end]
           new == [task[t] EXCEPT !.dropping = <<>>]
<1>13. stream' = [stream EXCEPT ![s] = r]
  <2>1. stream' = [stream EXCEPT ![s].read_complete_map = map,
                                 ![s].read_complete_cursor = IF cursor < end THEN end ELSE @]
    BY <1>2, <1>5, <1>8, <1>10, <1>12 DEF ReadComplete
  <2>2. end = IF cursor < end THEN end ELSE stream[s].read_complete_cursor
    BY <1>4, <1>8, <1>9
  <2> QED
    BY <2>1, <2>2
<1>14. task' = [task EXCEPT ![t] = new]
  BY <1>6 DEF ReadComplete
<1>15. PICK k \in QuicRecord : /\ quic' = [quic EXCEPT ![s] = k]
                               /\ k.phase = quic[s].phase /\ k.fin = quic[s].fin
                               /\ k.receiving = quic[s].receiving /\ k.completed = end
  <2>1. CASE quic' = [quic EXCEPT ![s].pending = FALSE, ![s].completed = @ + end - cursor]
    <3>1. quic[s].completed + end - cursor = end
      BY <1>4, <1>9
    <3>2. quic' = [quic EXCEPT ![s] = q]
      BY <2>1, <3>1
    <3>3. q \in QuicRecord
      BY <1>4, <1>9 DEF QuicRecord
    <3>4. /\ q.phase = quic[s].phase /\ q.fin = quic[s].fin
          /\ q.receiving = quic[s].receiving /\ q.completed = end
      BY <1>4 DEF QuicRecord
    <3> HIDE DEF q
    <3> QED
      BY <3>2, <3>3, <3>4
  <2>2. CASE quic' = quic /\ ~(cursor < end)
    <3>1. cursor = end
      BY <1>4, <1>9, <2>2
    <3>2. quic' = [quic EXCEPT ![s] = quic[s]]
      BY <1>0, <2>2 DEF StreamsTyped
    <3> QED
      BY <1>4, <1>9, <3>1, <3>2
  <2> QED
    BY <1>2, <1>5, <1>8, <1>10, <1>12, <2>1, <2>2 DEF ReadComplete
<1>16. r \in StreamRecord
  <2>1. map \in SUBSET (0..MessageLength - 1)
    BY <1>4, <1>9, <1>11
  <2> QED
    BY <1>4, <1>9, <2>1 DEF StreamRecord
<1>17. new \in TaskRecord /\ new.stream = s /\ new.call = task[t].call /\ new.got = task[t].got
       /\ new.dropping = <<>>
  <2>1. <<>> \in Seq(RecvBuffers)
    OBVIOUS
  <2> QED
    BY <1>2, <1>4, <2>1 DEF TaskRecord
<1>18. /\ r.recv_buffers = <<>> /\ r.recv_len = end
       /\ r.read_complete_map = map /\ r.read_complete_cursor = end
       /\ r.recv_state = stream[s].recv_state
       /\ r.conn_error = stream[s].conn_error /\ r.recv_error = stream[s].recv_error
  BY <1>4, <1>7, <1>8 DEF StreamRecord
<1> HIDE DEF r, q, new
<1>19. stream'[s] = r /\ quic'[s] = k /\ Becomes(s, r, k)
  BY <1>0, <1>3, <1>13, <1>15 DEF StreamsTyped, Becomes
<1>20. task'[t] = new /\ \A u \in Task \ {t} : task'[u] = task[u]
  BY <1>0, <1>14 DEF TasksTyped
<1>21. TasksTyped'
  BY <1>0, <1>2, <1>14, <1>17, <1>20 DEF TasksTyped
<1>22. \A u \in Task : task[u].stream # s => SameReader(u)
  BY <1>2, <1>20 DEF SameReader, Reading
<1>23. Reading(t)' /\ task'[t].stream = s /\ task'[t].dropping = <<>> /\ task'[t].got = task[t].got
  BY <1>1, <1>17, <1>20 DEF Reading
<1>24. TaskData(t)'
  <2>1. PICK got : got = task[t].got
    OBVIOUS
  <2>2. ReadSoFar(s, got)
    BY <1>0, <1>1, <1>2, <2>1 DEF TaskData
  <2>3. ReadSoFar(s, got)'
    BY <1>7, <1>8, <1>15, <1>18, <1>19, <2>2 DEF ReadSoFar
  <2>4. ReadSoFar(task[t].stream, task[t].got)'
    BY <1>23, <2>1, <2>3 DEF ReadSoFar
  <2> QED
    BY <1>23, <2>4 DEF TaskData
<1>25. StreamData(s)'
  BY <1>3, <1>4, <1>7, <1>8, <1>9, <1>11, <1>15, <1>18, <1>19 DEF StreamData
<1>26. Settled(s)' /\ ~Unowned(s)'
  BY <1>15, <1>18, <1>19, <1>23 DEF Settled, Unowned
<1>27. \A u \in Task : task[u].stream = s => u = t
  BY <1>2, <1>3, OneOwner
<1> QED
  BY <1>3, <1>16, <1>19, <1>21, <1>22, <1>23, <1>24, <1>25, <1>26, <1>27, BytesStep

\* recv returns.
LEMMA EndReadStep ==
    ASSUME FullInv, NEW t \in Task, EndRead(t), UNCHANGED conn
    PROVE  TypeOK' /\ DataInv'
<1>1. task[t].stream \in Streams
  BY DEF EndRead, Polls, FullInv, WakeInv, TaskSound, Streams
<1> QED
  BY <1>1, CloseStep DEF EndRead, ReturnAndClose

-----------------------------------------------------------------------------
(* Types and bytes: the invariant, and what it is for *)

\* The invariant holds at first.
LEMMA FullInvInitially == Init => FullInv
<1> SUFFICES ASSUME Init PROVE FullInv
  OBVIOUS
<1>1. WakeInv
  BY WakeInvInitially
<1>2. /\ stream = [s \in Streams |-> NewStream(s)] /\ quic = [s \in Streams |-> NewQuic("none")]
      /\ task = [t \in Task |-> IdleTask]
  BY DEF Init, StreamInit
<1>3. StreamsTyped
  BY <1>2, NewTyped DEF StreamsTyped
<1>4. \A t \in Task : /\ task[t].call = "idle" /\ task[t].stream = NoStream
                      /\ task[t].dropping = <<>> /\ task[t].got = 0
  BY <1>2 DEF IdleTask
<1>5. TasksTyped
  BY <1>2, <1>4, NewTyped DEF TasksTyped, StreamCalls
<1>6. conn \in ConnectionRecord
  <2>1. <<>> \in Seq(Inbound)
    OBVIOUS
  <2> QED
    BY <2>1 DEF Init, ConnectionRecord, ConnectionStates, ConnectionErrors
<1>7. TypeOK
  BY <1>3, <1>5, <1>6, TypeParts
<1>8. ASSUME NEW s \in Streams PROVE StreamData(s) /\ Settled(s) /\ ReadSoFar(s, 0)
  <2>1. /\ stream[s].recv_buffers = <<>> /\ stream[s].recv_len = 0
        /\ stream[s].read_complete_map = {} /\ stream[s].read_complete_cursor = 0
        /\ stream[s].recv_state \notin {"Shutdown", "ShutdownComplete"}
    BY <1>2 DEF NewStream
  <2>2. /\ quic[s].completed = 0 /\ ~quic[s].fin /\ quic[s].phase = "none"
        /\ quic[s].receiving = "open"
    BY <1>2 DEF NewQuic
  <2>3. 0..0 - 1 = {}
    OBVIOUS
  <2> QED
    BY <2>1, <2>2, <2>3 DEF StreamData, Settled, ReadSoFar
<1>9. \A t \in Task : TaskData(t)
  BY <1>4 DEF TaskData, Reading
<1> QED
  BY <1>1, <1>7, <1>8, <1>9 DEF FullInv, DataInv

\* Every step keeps the invariant.
LEMMA FullInvKept == FullInv /\ [Next]_vars => FullInv'
<1> SUFFICES ASSUME FullInv, [Next]_vars PROVE FullInv'
  OBVIOUS
<1>0. WakeInv'
  BY WakeInvKept DEF FullInv
<1> SUFFICES TypeOK' /\ DataInv'
  BY <1>0 DEF FullInv
<1>1. ASSUME NEW t \in Task, NEW call \in ConnectionCalls \ {"certificate"}, Begin(t, call)
      PROVE  TypeOK' /\ DataInv'
  BY <1>1, BeginStep
<1>2. ASSUME NEW t \in Task, NEW s \in Outbound, BeginSend(t, s) PROVE TypeOK' /\ DataInv'
  BY <1>2, BeginStep
<1>3. ASSUME NEW t \in Task, Poll(t) \/ CloseConnection(t) PROVE TypeOK' /\ DataInv'
  BY <1>3, ConnectionPollStep, SendStep, PollReadStep, ReadCompleteStep, EndReadStep DEF Poll
<1>4. ASSUME NEW t \in Task, Timeout(t), UNCHANGED conn PROVE TypeOK' /\ DataInv'
  BY <1>4, SendStep
<1>5. CASE \/ HandleConnected \/ HandlePeerCertificateReceived
           \/ \E by \in {"ByTransport", "ByPeer"} : HandleShutdownInitiated(by)
           \/ HandleConnectionShutdownComplete
  BY <1>5, ConnectionCallbackStep
<1>6. ASSUME NEW s \in Inbound, HandlePeerStreamStarted(s) PROVE TypeOK' /\ DataInv'
  BY <1>6, PeerStreamStep
<1>7. ASSUME NEW s \in Streams, StreamCallback(s), UNCHANGED conn PROVE TypeOK' /\ DataInv'
  <2>1. Lost \in BOOLEAN
    BY DEF Lost
  <2>2. CASE \/ \E status \in {"ok", "limit_reached", "aborted"}, peer_accepted \in BOOLEAN :
                   HandleStartComplete(s, status, peer_accepted)
             \/ HandlePeerAccepted(s)
             \/ \E closing \in BOOLEAN : HandleSendShutdownComplete(s, closing)
             \/ HandlePeerReceiveAborted(s)
    BY <1>7, <2>2, SendCallbackStep
  <2>3. ASSUME NEW length \in 0..MessageLength, NEW fin \in BOOLEAN, HandleReceive(s, length, fin)
        PROVE  TypeOK' /\ DataInv'
    BY <1>7, <2>3, ReceiveStep
  <2>4. CASE HandlePeerSendShutdown(s) \/ HandlePeerSendAborted(s)
    BY <1>7, <2>4, ReceiveEndStep
  <2>5. ASSUME NEW closing \in BOOLEAN, HandleShutdownComplete(s, closing)
        PROVE  TypeOK' /\ DataInv'
    BY <1>7, <2>5, StreamDownStep
  <2> QED
    BY <1>7, <2>1, <2>2, <2>3, <2>4, <2>5 DEF StreamCallback
<1>8. CASE UNCHANGED vars
  <2>1. /\ TasksTyped /\ conn \in ConnectionRecord
    BY TypeParts DEF FullInv
  <2>2. TasksTyped' /\ conn' \in ConnectionRecord /\ UNCHANGED <<stream, quic>>
    BY <1>8, <2>1 DEF vars, TasksTyped
  <2>3. \A t \in Task : SameReader(t)
    BY <1>8 DEF vars, SameReader, Reading
  <2> QED
    BY <2>2, <2>3, ConnectionStep
<1> QED
  BY <1>1, <1>2, <1>3, <1>4, <1>5, <1>6, <1>7, <1>8 DEF Next

\* With the invariant, a reader at the end of a stream has the whole message.
LEMMA EndMeansAll == FullInv => NoBusyLoop
<1> SUFFICES ASSUME FullInv, NEW t \in Task, task[t].call = "read", AtEnd(task[t].stream)
             PROVE  task[t].got = MessageLength
  BY DEF NoBusyLoop
<1>1. PICK s \in Inbound : s = task[t].stream
  BY DEF FullInv, WakeInv, TaskSound
<1>2. s \in Streams
  BY DEF Streams
<1>3. StreamData(s) /\ TaskData(t) /\ StreamSound(s)
  BY <1>2 DEF FullInv, DataInv, WakeInv
<1>4. quic[s].fin /\ stream[s].recv_buffers = <<>> /\ stream[s].recv_len = MessageLength
  BY <1>1, <1>3 DEF AtEnd, StreamData
<1>5. ReadSoFar(s, task[t].got)
  BY <1>1, <1>3 DEF TaskData, Reading
<1>6. ~(quic[s].phase = "down" /\ (stream[s].conn_error \/ stream[s].recv_error))
  BY <1>1, <1>3 DEF AtEnd, StreamSound
<1> QED
  BY <1>4, <1>5, <1>6 DEF ReadSoFar

\* The invariant of the bytes, by induction over the steps.
THEOREM BytesInvariant == Spec => []FullInv
<1>1. Init => FullInv
  BY FullInvInitially
<1>2. FullInv /\ [Next]_vars => FullInv'
  BY FullInvKept
<1> QED
  BY <1>1, <1>2, PTL DEF Spec

\* Connections, streams, MsQuic's side of them and tasks stay well typed: bytes
\* received, read and completed stay within a message, and a task is on a stream
\* exactly while a call on one is under way (connection.rs, stream.rs).
THEOREM TypeCorrect == Spec => []TypeOK
<1>1. FullInv => TypeOK
  BY DEF FullInv
<1> QED
  BY <1>1, BytesInvariant, PTL

\* A read that returns Ok(0) for ever is met by a reader that has the whole
\* message only: read_message_from_stream does not spin, whatever the length of
\* messages and however receives, aborts and shutdowns interleave.
THEOREM ReadersNeverSpin == Spec => []NoBusyLoop
BY BytesInvariant, EndMeansAll, PTL

\* MsQuic is told of every byte at most once (read_complete and
\* handle_event_shutdown_complete).
THEOREM BytesCompletedOnce == Spec => []CompletedOnce
<1>1. FullInv => CompletedOnce
  BY DEF FullInv, DataInv, StreamData, CompletedOnce
<1> QED
  BY <1>1, BytesInvariant, PTL
=============================================================================
