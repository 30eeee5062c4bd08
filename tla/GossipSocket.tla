---------------------------- MODULE GossipSocket ----------------------------
(***************************************************************************)
(* Gossip over the transport layer (chitchat/src/transport/                *)
(* transport_layer.rs): the queue and the sending task of an outgoing      *)
(* connection, the listener task, the handlers of incoming connections and *)
(* the queue they share.  One socket sends to one other socket; a message  *)
(* is the number of the send call that carries it.  A connection of the    *)
(* transport layer delivers the messages of one task in order until it is  *)
(* lost.  Each end notices that in its own time: the sending task when it  *)
(* fails to send, the receiving end when nothing more arrives for its      *)
(* handler; what was not read by then is lost.                             *)
(***************************************************************************)
EXTENDS Integers, Sequences

CONSTANTS
    MaxMessages,        \* bound on the calls of send
    MaxLinks,           \* bound on the connections that are opened
    CHANNEL_CAPACITY,
    SOFT_LEN_THRESHOLD

ASSUME SocketAssumption ==
    /\ MaxMessages \in Nat /\ MaxLinks \in Nat
    /\ CHANNEL_CAPACITY \in Nat \ {0} /\ SOFT_LEN_THRESHOLD \in Nat

VARIABLES
    outgoing,   \* the sender's entry for the receiver: connection, task, queue
    link,       \* link[c]: how far connection c has come at the receiver
    wire,       \* wire[c]: messages written to connection c that may still be read
    reading,    \* reading[c]: the message its handler is receiving, 0 for none
    listening,  \* the listener task of the receiver
    inbox,      \* the receiver's queue of incoming messages
    receiver,   \* the receiver's socket, and the message that recv has in hand
    sent,       \* calls of send so far
    delivered   \* what recv has returned, each with its connection

socketVars == <<outgoing, link, wire, reading, listening, inbox, receiver, sent, delivered>>

Link == 1..MaxLinks
Message == 1..MaxMessages
Envelope == [link: Link, message: Message]
NoEnvelope == [link |-> 0, message |-> 0]

SocketTypeOK ==
    /\ outgoing \in [link: 0..MaxLinks, queue: Seq(Message), sending: 0..MaxMessages,
                     task: {"none", "waiting", "writing", "finishing", "closed", "finished"}]
    /\ link \in [Link -> {"unused", "offered", "up", "down"}]
    /\ wire \in [Link -> Seq(Message)]
    /\ reading \in [Link -> 0..MaxMessages]
    /\ listening \in {"starting", "accepting", "failed", "stopped"}
    /\ inbox \in Seq(Envelope) /\ Len(inbox) <= CHANNEL_CAPACITY
    /\ receiver \in [socket: {"open", "dropped"}, holding: Envelope \cup {NoEnvelope}]

SocketInit ==
    /\ outgoing = [link |-> 0, queue |-> <<>>, sending |-> 0, task |-> "none"]
    /\ link = [c \in Link |-> "unused"]
    /\ wire = [c \in Link |-> <<>>]
    /\ reading = [c \in Link |-> 0]
    /\ listening = "starting"
    /\ inbox = <<>>
    /\ receiver = [socket |-> "open", holding |-> NoEnvelope]
    /\ sent = 0
    /\ delivered = <<>>

\* Faulty variant: what does not fit is not queued.
TrySend(queue, x) == IF Len(queue) < CHANNEL_CAPACITY THEN Append(queue, x) ELSE queue

\* Faulty variant: an unbounded queue.
SendUnbounded(queue, x) == Append(queue, x)

\* force_send of a bounded channel: the oldest entry makes room.
ForceSend(queue, x) ==
    IF Len(queue) < CHANNEL_CAPACITY THEN Append(queue, x) ELSE Append(Tail(queue), x)

\* The receiving end is rid of a connection, with everything on it that nobody
\* has read.
Lost(c) ==
    /\ link' = [link EXCEPT ![c] = "down"]
    /\ wire' = [wire EXCEPT ![c] = <<>>]

-----------------------------------------------------------------------------
(* The sending socket *)

\* get_or_create_outgoing_connection returns the entry whose task is not
\* finished.  Its channel is closed when the task has dropped its receiver.
SendOnExisting ==
    /\ sent < MaxMessages
    /\ outgoing.task \notin {"none", "finished"}
    /\ sent' = sent + 1
    /\ outgoing' = IF outgoing.task = "closed" THEN outgoing
                   ELSE [outgoing EXCEPT !.queue = ForceSend(@, sent + 1)]
    /\ UNCHANGED <<link, wire, reading, listening, inbox, receiver, delivered>>

SendOnNew(c) ==
    /\ sent < MaxMessages
    /\ outgoing.task \in {"none", "finished"}
    /\ c = outgoing.link + 1
    /\ listening = "accepting"
    /\ sent' = sent + 1
    /\ link' = [link EXCEPT ![c] = "offered"]
    /\ outgoing' = [link |-> c, queue |-> <<sent + 1>>, sending |-> 0, task |-> "waiting"]
    /\ UNCHANGED <<wire, reading, listening, inbox, receiver, delivered>>

\* connect fails, or is cut off by the two seconds a message handler has: the
\* finished entry stays.
SendWithoutConnection ==
    /\ sent < MaxMessages
    /\ outgoing.task \in {"none", "finished"}
    /\ sent' = sent + 1
    /\ UNCHANGED <<outgoing, link, wire, reading, listening, inbox, receiver, delivered>>

\* Faulty variant: the message stays in the queue while it is sent.
PeekMessage ==
    /\ outgoing.task = "waiting"
    /\ outgoing.queue # <<>>
    /\ outgoing' = [outgoing EXCEPT !.task = "writing", !.sending = Head(outgoing.queue)]
    /\ UNCHANGED <<link, wire, reading, listening, inbox, receiver, sent, delivered>>

\* handle_outgoing_connection: messages_rx.recv
TakeMessage ==
    /\ outgoing.task = "waiting"
    /\ outgoing.queue # <<>>
    /\ outgoing' = [outgoing EXCEPT !.task = "writing", !.queue = Tail(@),
                                    !.sending = Head(outgoing.queue)]
    /\ UNCHANGED <<link, wire, reading, listening, inbox, receiver, sent, delivered>>

\* connection.send: open a stream and write; then flush and close it.  If the
\* other end is gone, nobody reads what is written.
WriteMessage ==
    /\ outgoing.task = "writing"
    /\ wire' = IF link[outgoing.link] = "down" THEN wire
               ELSE [wire EXCEPT ![outgoing.link] = Append(@, outgoing.sending)]
    /\ outgoing' = [outgoing EXCEPT !.task = "finishing"]
    /\ UNCHANGED <<link, reading, listening, inbox, receiver, sent, delivered>>

\* The end of a stream counts as a success, even if it came from the loss of
\* the connection (handle_event_send_shutdown_complete ignores the difference).
FinishMessage ==
    /\ outgoing.task = "finishing"
    /\ outgoing' = [outgoing EXCEPT !.task = "waiting", !.sending = 0]
    /\ UNCHANGED <<link, wire, reading, listening, inbox, receiver, sent, delivered>>

\* An error or a timeout of any part of send ends the task; connection and
\* queue are dropped.  The receiver goes on reading what has arrived until it
\* notices (LoseConnection).
SendFails ==
    /\ outgoing.task \in {"writing", "finishing"}
    /\ outgoing' = [outgoing EXCEPT !.task = "closed", !.queue = <<>>, !.sending = 0]
    /\ UNCHANGED <<link, wire, reading, listening, inbox, receiver, sent, delivered>>

\* Only now does is_finished say so.
TaskFinishes ==
    /\ outgoing.task = "closed"
    /\ outgoing' = [outgoing EXCEPT !.task = "finished"]
    /\ UNCHANGED <<link, wire, reading, listening, inbox, receiver, sent, delivered>>

\* The receiving end learns that the sender has closed a connection or that the
\* network has taken it away, or its handler gives it up: the handshake failed,
\* or a message could not be parsed.
LoseConnection(c) ==
    /\ link[c] \in {"offered", "up"}
    /\ Lost(c)
    /\ UNCHANGED <<outgoing, reading, listening, inbox, receiver, sent, delivered>>

-----------------------------------------------------------------------------
(* The listener task and the handlers of the receiving socket *)

CreateListener ==
    /\ listening = "starting"
    /\ listening' \in {"accepting", "failed"}
    /\ UNCHANGED <<outgoing, link, wire, reading, inbox, receiver, sent, delivered>>

AcceptConnection(c) ==
    /\ listening = "accepting"
    /\ link[c] = "offered"
    /\ link' = [link EXCEPT ![c] = "up"]
    /\ UNCHANGED <<outgoing, wire, reading, listening, inbox, receiver, sent, delivered>>

\* Connections that were not accepted go with the listener.
StopListening ==
    /\ listening = "accepting"
    /\ receiver.socket = "dropped"
    /\ listening' = "stopped"
    /\ link' = [c \in Link |-> IF link[c] = "offered" THEN "down" ELSE link[c]]
    /\ wire' = [c \in Link |-> IF link[c] = "offered" THEN <<>> ELSE wire[c]]
    /\ UNCHANGED <<outgoing, reading, inbox, receiver, sent, delivered>>

\* handle_incoming_connection: accept_recv
AcceptMessage(c) ==
    /\ link[c] = "up"
    /\ reading[c] = 0
    /\ wire[c] # <<>>
    /\ reading' = [reading EXCEPT ![c] = Head(wire[c])]
    /\ wire' = [wire EXCEPT ![c] = Tail(@)]
    /\ UNCHANGED <<outgoing, link, listening, inbox, receiver, sent, delivered>>

\* A stream whose connection is lost while it is read may fail.
ReadFails(c) ==
    /\ reading[c] # 0
    /\ link[c] = "down"
    /\ reading' = [reading EXCEPT ![c] = 0]
    /\ UNCHANGED <<outgoing, link, wire, listening, inbox, receiver, sent, delivered>>

\* The force_send of the handler; it stops when the socket is gone.
EnqueueMessage(c) ==
    /\ reading[c] # 0
    /\ reading' = [reading EXCEPT ![c] = 0]
    /\ \/ /\ receiver.socket = "open"
          /\ inbox' = ForceSend(inbox, [link |-> c, message |-> reading[c]])
          /\ UNCHANGED <<link, wire>>
       \/ /\ receiver.socket = "dropped"
          /\ Lost(c)
          /\ UNCHANGED inbox
    /\ UNCHANGED <<outgoing, listening, receiver, sent, delivered>>

-----------------------------------------------------------------------------
(* recv of the receiving socket, and the server task that calls it *)

PopMessage ==
    /\ receiver.socket = "open"
    /\ receiver.holding = NoEnvelope
    /\ inbox # <<>>
    /\ receiver' = [receiver EXCEPT !.holding = Head(inbox)]
    /\ inbox' = Tail(inbox)
    /\ UNCHANGED <<outgoing, link, wire, reading, listening, sent, delivered>>

\* The length is read after the message was taken out.
ReturnMessage(expired) ==
    /\ receiver.socket = "open"
    /\ receiver.holding # NoEnvelope
    /\ receiver' = [receiver EXCEPT !.holding = NoEnvelope]
    /\ delivered' = IF Len(inbox) >= SOFT_LEN_THRESHOLD /\ expired
                    THEN delivered ELSE Append(delivered, receiver.holding)
    /\ UNCHANGED <<outgoing, link, wire, reading, listening, inbox, sent>>

\* Faulty variant: the socket keeps a sender of its own queue.
NeverClosed == FALSE

\* Every sender of the queue is gone: the listener task's and the handlers'.
IncomingClosed ==
    /\ listening \in {"failed", "stopped"}
    /\ \A c \in Link : link[c] # "up" /\ reading[c] = 0

\* "Incoming channel is broken": run returns, and the socket goes with it.
RecvFails ==
    /\ receiver.socket = "open"
    /\ receiver.holding = NoEnvelope
    /\ inbox = <<>>
    /\ IncomingClosed
    /\ receiver' = [receiver EXCEPT !.socket = "dropped"]
    /\ UNCHANGED <<outgoing, link, wire, reading, listening, inbox, sent, delivered>>

\* The server is shut down between two messages.
DropSocket ==
    /\ receiver.socket = "open"
    /\ receiver.holding = NoEnvelope
    /\ receiver' = [receiver EXCEPT !.socket = "dropped"]
    /\ inbox' = <<>>
    /\ UNCHANGED <<outgoing, link, wire, reading, listening, sent, delivered>>

\* The steps of the sending task, of a handler, and of the server task.
SenderStep == TakeMessage \/ WriteMessage \/ FinishMessage \/ SendFails
HandlerStep(c) == AcceptMessage(c) \/ EnqueueMessage(c)
RecvStep == PopMessage \/ RecvFails \/ \E expired \in BOOLEAN : ReturnMessage(expired)

SocketNext ==
    \/ SendOnExisting \/ SendWithoutConnection \/ SenderStep \/ TaskFinishes
    \/ CreateListener \/ StopListening \/ RecvStep \/ DropSocket
    \/ \E c \in Link : \/ SendOnNew(c) \/ LoseConnection(c) \/ AcceptConnection(c)
                       \/ HandlerStep(c) \/ ReadFails(c)

SocketSpec == SocketInit /\ [][SocketNext]_socketVars

-----------------------------------------------------------------------------
(* Properties *)

\* The messages of connection c on their way: in the hand of recv, in its queue,
\* read by the handler, on the connection, written by the sending task, in its
\* queue.  (No message has the number 0.)
Held(c) ==
    IF receiver.holding.link = c THEN Message \cap {receiver.holding.message} ELSE {}
Waiting(c) == Message \cap {inbox[i].message : i \in {j \in DOMAIN inbox : inbox[j].link = c}}
Read(c) == Message \cap {reading[c]}
OnWire(c) == Message \cap {wire[c][i] : i \in DOMAIN wire[c]}
Writing(c) ==
    IF outgoing.link = c /\ outgoing.task = "writing" THEN Message \cap {outgoing.sending} ELSE {}
Queued(c) ==
    IF outgoing.link = c THEN Message \cap {outgoing.queue[i] : i \in DOMAIN outgoing.queue} ELSE {}

Places(c) == <<Held(c), Waiting(c), Read(c), OnWire(c), Writing(c), Queued(c)>>

InTransit(c) == LET places == Places(c) IN UNION {places[k] : k \in 1..6}

Channel == INSTANCE LossyChannel WITH
    in_transit <- [c \in Link |-> InTransit(c)], received <- delivered

\* However queues overflow, tasks end and connections break, the socket is a
\* lossy channel: no message is received twice, and those of one connection in
\* the order of the send calls.
ImplementsLossyChannel == Channel!ChannelSpec

\* No earlier connection may still bring messages to the receiver.
EarlierLinksGone ==
    \A c \in Link \ {outgoing.link} : link[c] \in {"unused", "down"} /\ reading[c] = 0

\* A full queue costs old messages, never the latest one: the last message of
\* all is received unless a send fails, its connection is lost or the receiver
\* goes away.  It has to be alone, though: messages that were late on an earlier
\* connection, which the receiver had not noticed to be lost, may push it out of
\* the receiver's queue.
NewestArrives ==
    (sent = MaxMessages /\ outgoing.queue # <<>> /\ EarlierLinksGone) ~>
        \/ \E i \in 1..Len(delivered) : delivered[i].message = MaxMessages
        \/ outgoing.task \in {"closed", "finished"}
        \/ \E c \in Link : c = outgoing.link /\ link[c] = "down"
        \/ receiver.socket = "dropped"

\* A server that cannot listen does not go on gossiping: the queue of a
\* listener task that failed is closed, and recv ends the server task.
DeafServerEnds == (listening = "failed") ~> (receiver.socket = "dropped")
=============================================================================
