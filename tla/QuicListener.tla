---------------------------- MODULE QuicListener ----------------------------
(***************************************************************************)
(* The asynchronous wrapper around an MsQuic listener                      *)
(* (msquic_async/listener.rs; create_listener and accept of msquic/mod.rs):*)
(* MsQuic's callbacks queue connections, tasks poll the queue and leave a  *)
(* waker when there is nothing in it, and stopping is itself a future.     *)
(* Every function body under the mutex is one step; Listener::poll_stop    *)
(* calls into MsQuic after it has released it, which is a step of its own. *)
(***************************************************************************)
EXTENDS Integers, Sequences

CONSTANTS
    Acceptor,       \* tasks that call accept
    MaxConnections, \* bound on the connections that arrive
    MaxStarts       \* bound on how often the listener is started

ASSUME ListenerAssumption == MaxConnections \in Nat /\ MaxStarts \in Nat

VARIABLES
    listener,       \* the state of the listener, and how often it has been started
    new_connections,\* connections that nobody has accepted yet
    accepting,      \* accepting[t]: what the accept call of task t is doing
    stopping,       \* what the stop call is doing
    arrived,        \* every connection MsQuic has reported, in order
    accepted        \* every connection that was handed to a task, in order

quicListenerVars == <<listener, new_connections, accepting, stopping, arrived, accepted>>

QuicListenerTypeOK ==
    /\ listener \in [state: {"Open", "StartComplete", "Shutdown", "ShutdownComplete"},
                     starts: 0..MaxStarts]
    /\ new_connections \in Seq(1..MaxConnections)
    /\ accepting \in [Acceptor -> {"idle", "polling", "waiting", "failed"}]
    /\ stopping \in {"idle", "polling", "calling", "waiting", "stopped"}

QuicListenerInit ==
    /\ listener = [state |-> "Open", starts |-> 0]
    /\ new_connections = <<>>
    /\ accepting = [t \in Acceptor |-> "idle"]
    /\ stopping = "idle"
    /\ arrived = <<>>
    /\ accepted = <<>>

\* The wakers of all waiting accept calls are drained and woken.
WakeAcceptors == [t \in Acceptor |-> IF accepting[t] = "waiting" THEN "polling" ELSE accepting[t]]

-----------------------------------------------------------------------------
(* Calls of the application *)

\* Listener::start; in the other states it answers AlreadyStarted.
StartListener ==
    /\ listener.state \in {"Open", "ShutdownComplete"}
    /\ listener.starts < MaxStarts
    /\ listener' = [state |-> "StartComplete", starts |-> listener.starts + 1]
    /\ UNCHANGED <<new_connections, accepting, stopping, arrived, accepted>>

CallAccept(t) ==
    /\ accepting[t] \in {"idle", "failed"}
    /\ accepting' = [accepting EXCEPT ![t] = "polling"]
    /\ UNCHANGED <<listener, new_connections, stopping, arrived, accepted>>

\* poll_accept: queued connections come first, even after the listener has
\* been stopped.
PollAccept(t) ==
    /\ accepting[t] = "polling"
    /\ \/ /\ new_connections # <<>>
          /\ new_connections' = Tail(new_connections)
          /\ accepted' = Append(accepted, Head(new_connections))
          /\ accepting' = [accepting EXCEPT ![t] = "idle"]
       \/ /\ new_connections = <<>>
          /\ accepting' = [accepting EXCEPT ![t] =
                IF listener.state \in {"Open", "ShutdownComplete"} THEN "failed" ELSE "waiting"]
          /\ UNCHANGED <<new_connections, accepted>>
    /\ UNCHANGED <<listener, stopping, arrived>>

CallStop ==
    /\ stopping \in {"idle", "stopped"}
    /\ listener.state # "Open"
    /\ stopping' = "polling"
    /\ UNCHANGED <<listener, new_connections, accepting, arrived, accepted>>

\* poll_stop: whoever finds the listener started will call MsQuic's stop; the
\* waker is registered before.
PollStop ==
    /\ stopping = "polling"
    /\ stopping' = CASE listener.state = "StartComplete" -> "calling"
                     [] listener.state = "Shutdown" -> "waiting"
                     [] OTHER -> "stopped"
    /\ listener' = [listener EXCEPT !.state = IF @ = "StartComplete" THEN "Shutdown" ELSE @]
    /\ UNCHANGED <<new_connections, accepting, arrived, accepted>>

\* MsQuic's stop returns at once; its completion is reported by a callback.
StopCalled ==
    /\ stopping = "calling"
    /\ stopping' = "waiting"
    /\ UNCHANGED <<listener, new_connections, accepting, arrived, accepted>>

-----------------------------------------------------------------------------
(* Callbacks of MsQuic *)

\* Faulty variant: the connection is queued, but nobody is woken.
QueueConnectionSilently(c) ==
    /\ listener.state \in {"StartComplete", "Shutdown"}
    /\ c = Len(arrived) + 1
    /\ arrived' = Append(arrived, c)
    /\ new_connections' = Append(new_connections, c)
    /\ UNCHANGED <<listener, accepting, stopping, accepted>>

\* A connection may still be reported while the listener is being stopped.
HandleNewConnection(c) ==
    /\ listener.state \in {"StartComplete", "Shutdown"}
    /\ c = Len(arrived) + 1
    /\ arrived' = Append(arrived, c)
    /\ new_connections' = Append(new_connections, c)
    /\ accepting' = WakeAcceptors
    /\ UNCHANGED <<listener, stopping, accepted>>

\* Faulty variant: what is queued is thrown away with the listener.
StopCompleteDiscarding ==
    /\ listener.state = "Shutdown"
    /\ stopping = "waiting"
    /\ listener' = [listener EXCEPT !.state = "ShutdownComplete"]
    /\ new_connections' = <<>>
    /\ accepting' = WakeAcceptors
    /\ stopping' = "polling"
    /\ UNCHANGED <<arrived, accepted>>

\* Faulty variant: only those who wait for connections are woken.
StopCompleteForgettingStopper ==
    /\ listener.state = "Shutdown"
    /\ stopping = "waiting"
    /\ listener' = [listener EXCEPT !.state = "ShutdownComplete"]
    /\ accepting' = WakeAcceptors
    /\ UNCHANGED <<new_connections, stopping, arrived, accepted>>

HandleStopComplete ==
    /\ listener.state = "Shutdown"
    /\ stopping = "waiting"
    /\ listener' = [listener EXCEPT !.state = "ShutdownComplete"]
    /\ accepting' = WakeAcceptors
    /\ stopping' = "polling"
    /\ UNCHANGED <<new_connections, arrived, accepted>>

QuicListenerNext ==
    \/ StartListener
    \/ \E t \in Acceptor : CallAccept(t) \/ PollAccept(t)
    \/ CallStop \/ PollStop \/ StopCalled
    \/ \E c \in 1..MaxConnections : HandleNewConnection(c)
    \/ HandleStopComplete

QuicListenerSpec == QuicListenerInit /\ [][QuicListenerNext]_quicListenerVars

-----------------------------------------------------------------------------
(* Properties *)

\* No connection waits in the queue while a task sleeps in accept, and no task
\* sleeps in accept on a listener that has stopped: its waker has been called
\* by handle_event_new_connection or handle_event_stop_complete.
AcceptorsAwake ==
    \A t \in Acceptor : accepting[t] = "waiting" =>
        /\ new_connections = <<>>
        /\ listener.state \in {"StartComplete", "Shutdown"}

\* Every connection is handed out once and in the order of arrival, those
\* included that were queued when the listener stopped.
ConnectionsConserved == accepted \o new_connections = arrived

\* Whoever stops the listener gets an answer, and so does everyone who was
\* waiting for a connection.
StopReturns ==
    (listener.state = "Shutdown") ~>
        (stopping = "stopped" /\ \A t \in Acceptor : accepting[t] # "waiting")
=============================================================================
