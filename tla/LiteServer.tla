----------------------------- MODULE LiteServer -----------------------------
(***************************************************************************)
(* The block feed of transport-layer/src/server.rs: start and its three    *)
(* tasks (server, sessions_handler, message_multiplexor), the tasks of     *)
(* sessions_handler's pool (the logger, the acceptor, one per session) and *)
(* the channels between them.  Tasks whose handle is dropped run on.       *)
(* Every session holds a sender of the broadcast channel it reads, so that *)
(* the channel never closes for it.                                        *)
(***************************************************************************)
EXTENDS Integers, Sequences, FiniteSets

CONSTANTS
    MaxClients,         \* bound on the clients, numbered as they connect
    MaxBlocks,          \* bound on the raw blocks that are broadcast
    ShortBlocks,        \* those of fewer than ten bytes when serialized
    BroadcastCapacity,  \* messages the broadcast channel retains
    JoinCapacity        \* room for handles on their way to the pool

ASSUME LiteAssumption ==
    /\ MaxClients \in Nat /\ MaxBlocks \in Nat /\ ShortBlocks \subseteq 1..MaxBlocks
    /\ BroadcastCapacity \in Nat \ {0} /\ JoinCapacity \in Nat \ {0}

VARIABLES
    running,        \* running[h]: the tasks whose handles start waits for, and start itself
    session_recv,   \* clients on their way to the acceptor
    acceptor,       \* what the acceptor does, and for whom
    joins,          \* handles on their way to the pool
    pool,           \* sessions whose handle is in the pool
    held,           \* sessions_handler waits behind the acceptor's blocked thread
    task,           \* task[s]: what subscriber s is doing
    next_block,     \* next_block[s]: the block it receives next
    feed,           \* blocks broadcast so far
    last_sent       \* last_sent[c]: the block last sent to client c, 0 for none

liteVars == <<running, session_recv, acceptor, joins, pool, held, task, next_block, feed, last_sent>>

Client == 1..MaxClients
NoClient == 0
\* The logging task subscribes to the feed, as sessions do.
Logger == 0
Subscriber == Client \cup {Logger}

LiteTypeOK ==
    /\ running \in [{"server", "sessions", "multiplexor", "start"} -> BOOLEAN]
    /\ session_recv \in Seq(Client)
    /\ acceptor \in [at: {"receiving", "handing", "ended"}, client: Client \cup {NoClient}]
    /\ joins \in Seq(Client) /\ Len(joins) <= JoinCapacity
    /\ pool \subseteq Subscriber
    /\ held \in BOOLEAN
    /\ task \in [Subscriber -> {"away", "requested", "accepting", "streaming", "sending", "failed"}]
    /\ next_block \in [Subscriber -> 1..(MaxBlocks + 1)]
    /\ feed \in 0..MaxBlocks

LiteInit ==
    /\ running = [h \in {"server", "sessions", "multiplexor", "start"} |-> TRUE]
    /\ session_recv = <<>> /\ joins = <<>>
    /\ acceptor = [at |-> "receiving", client |-> NoClient]
    /\ pool = {Logger}
    /\ held = FALSE
    /\ task = [s \in Subscriber |-> IF s = Logger THEN "accepting" ELSE "away"]
    /\ next_block = [s \in Subscriber |-> 1]
    /\ feed = 0
    /\ last_sent = [c \in Client |-> 0]

-----------------------------------------------------------------------------
(* server and the acceptor *)

\* create_listener fails.
ServerFails ==
    /\ running["server"]
    /\ \A c \in Client : task[c] = "away"
    /\ running' = [running EXCEPT !["server"] = FALSE]
    /\ UNCHANGED <<session_recv, acceptor, joins, pool, held, task, next_block, feed, last_sent>>

\* session_sender.send fails when the acceptor has dropped the other end; the
\* request goes with the server task.
AcceptRequest(c) ==
    /\ running["server"]
    /\ \A e \in Client : task[e] = "away" <=> e >= c
    /\ task' = [task EXCEPT ![c] = "requested"]
    /\ \/ /\ acceptor.at # "ended"
          /\ session_recv' = Append(session_recv, c)
          /\ UNCHANGED running
       \/ /\ acceptor.at = "ended"
          /\ running' = [running EXCEPT !["server"] = FALSE]
          /\ UNCHANGED session_recv
    /\ UNCHANGED <<acceptor, joins, pool, held, next_block, feed, last_sent>>

\* The acceptor's blocking receive returns and the session is spawned, which
\* releases whatever task was queued behind it on its thread.
SpawnSession ==
    /\ acceptor.at = "receiving"
    /\ session_recv # <<>>
    /\ session_recv' = Tail(session_recv)
    /\ acceptor' = [at |-> "handing", client |-> Head(session_recv)]
    /\ task' = [task EXCEPT ![Head(session_recv)] = "accepting"]
    /\ held' = FALSE
    /\ UNCHANGED <<running, joins, pool, next_block, feed, last_sent>>

AcceptorDisconnected ==
    /\ acceptor.at = "receiving"
    /\ session_recv = <<>>
    /\ ~running["server"]
    /\ acceptor' = [acceptor EXCEPT !.at = "ended"]
    /\ held' = FALSE
    /\ UNCHANGED <<running, session_recv, joins, pool, task, next_block, feed, last_sent>>

\* sessions_handler has nothing to do and would have to be woken.
PoolIdle == joins = <<>> /\ \A s \in pool : task[s] # "failed"

\* tx.send(...).await: waking sessions_handler may queue it on this very
\* thread, which the acceptor goes on to block.
HandOver ==
    /\ acceptor.at = "handing"
    /\ \/ /\ running["sessions"]
          /\ Len(joins) < JoinCapacity
          /\ joins' = Append(joins, acceptor.client)
          /\ acceptor' = [at |-> "receiving", client |-> NoClient]
          /\ held' \in IF PoolIdle THEN BOOLEAN ELSE {FALSE}
          /\ UNCHANGED session_recv
       \/ /\ ~running["sessions"]
          /\ acceptor' = [acceptor EXCEPT !.at = "ended"]
          /\ session_recv' = <<>>
          /\ UNCHANGED <<joins, held>>
    /\ UNCHANGED <<running, pool, task, next_block, feed, last_sent>>

-----------------------------------------------------------------------------
(* Sessions and the logger *)

\* The handshake succeeds or fails; a session sees what is sent from now on.
Subscribe(s) ==
    /\ task[s] = "accepting"
    /\ \/ task' = [task EXCEPT ![s] = "streaming"] /\ next_block' = [next_block EXCEPT ![s] = feed + 1]
       \/ s # Logger /\ task' = [task EXCEPT ![s] = "failed"] /\ UNCHANGED next_block
    /\ UNCHANGED <<running, session_recv, acceptor, joins, pool, held, feed, last_sent>>

Lagging(s) == feed - next_block[s] + 1 > BroadcastCapacity

\* Faulty variant: whoever lags goes on with the oldest message there is.
ReceiveSkipping(s) ==
    /\ task[s] = "streaming"
    /\ next_block[s] <= feed
    /\ next_block' = [next_block EXCEPT ![s] = IF Lagging(s) THEN feed - BroadcastCapacity + 2 ELSE @ + 1]
    /\ task' = [task EXCEPT ![s] = IF s = Logger THEN "streaming" ELSE "sending"]
    /\ UNCHANGED <<running, session_recv, acceptor, joins, pool, held, feed, last_sent>>

\* brx.recv: lagging is an error, for the logger too, whose slice of the first
\* ten bytes also panics on a shorter message.
Receive(s) ==
    /\ task[s] = "streaming"
    /\ next_block[s] <= feed
    /\ \/ /\ Lagging(s) \/ (s = Logger /\ next_block[s] \in ShortBlocks)
          /\ task' = [task EXCEPT ![s] = "failed"]
          /\ UNCHANGED next_block
       \/ /\ ~Lagging(s) /\ ~(s = Logger /\ next_block[s] \in ShortBlocks)
          /\ task' = [task EXCEPT ![s] = IF s = Logger THEN "streaming" ELSE "sending"]
          /\ next_block' = [next_block EXCEPT ![s] = @ + 1]
    /\ UNCHANGED <<running, session_recv, acceptor, joins, pool, held, feed, last_sent>>

\* connection.send, or its failure
SendBlock(c) ==
    /\ task[c] = "sending"
    /\ \/ /\ task' = [task EXCEPT ![c] = "streaming"]
          /\ last_sent' = [last_sent EXCEPT ![c] = next_block[c] - 1]
       \/ task' = [task EXCEPT ![c] = "failed"] /\ UNCHANGED last_sent
    /\ UNCHANGED <<running, session_recv, acceptor, joins, pool, held, next_block, feed>>

-----------------------------------------------------------------------------
(* message_multiplexor, sessions_handler and start *)

\* A block is broadcast, or the channel of raw blocks is closed.
Multiplex ==
    /\ running["multiplexor"]
    /\ \/ feed < MaxBlocks /\ feed' = feed + 1 /\ UNCHANGED running
       \/ running' = [running EXCEPT !["multiplexor"] = FALSE] /\ UNCHANGED feed
    /\ UNCHANGED <<session_recv, acceptor, joins, pool, held, task, next_block, last_sent>>

PoolReceives ==
    /\ running["sessions"] /\ ~held
    /\ joins # <<>>
    /\ pool' = pool \cup {Head(joins)}
    /\ joins' = Tail(joins)
    /\ UNCHANGED <<running, session_recv, acceptor, held, task, next_block, feed, last_sent>>

\* Faulty variant: a session that fails is removed from the pool, no more.
PoolForgets ==
    /\ running["sessions"] /\ ~held
    /\ \E s \in pool : task[s] = "failed" /\ pool' = pool \ {s}
    /\ UNCHANGED <<running, session_recv, acceptor, joins, held, task, next_block, feed, last_sent>>

\* v??: the first task of the pool that fails ends sessions_handler, which
\* drops the pool and the channel of handles.
PoolFails ==
    /\ running["sessions"] /\ ~held
    /\ (\E s \in pool : task[s] = "failed") \/ acceptor.at = "ended"
    /\ running' = [running EXCEPT !["sessions"] = FALSE]
    /\ pool' = {} /\ joins' = <<>>
    /\ UNCHANGED <<session_recv, acceptor, held, task, next_block, feed, last_sent>>

\* The select of start.
StartReturns ==
    /\ running["start"]
    /\ \E h \in {"server", "sessions", "multiplexor"} : ~running[h]
    /\ running' = [running EXCEPT !["start"] = FALSE]
    /\ UNCHANGED <<session_recv, acceptor, joins, pool, held, task, next_block, feed, last_sent>>

LiteNext ==
    \/ ServerFails \/ SpawnSession \/ AcceptorDisconnected \/ HandOver
    \/ \E c \in Client : AcceptRequest(c) \/ SendBlock(c)
    \/ \E s \in Subscriber : Subscribe(s) \/ Receive(s)
    \/ Multiplex \/ PoolReceives \/ PoolFails \/ StartReturns

LiteSpec == LiteInit /\ [][LiteNext]_liteVars

-----------------------------------------------------------------------------
(* Properties *)

\* A client is sent consecutive blocks: a session that missed one has ended.
ContiguousFeed ==
    [][\A c \in Client : last_sent'[c] # last_sent[c] /\ last_sent[c] # 0
                            => last_sent'[c] = last_sent[c] + 1]_liteVars

\* A failed session of the pool makes start return an error, at the latest when
\* the next client connects.  (Before, sessions_handler may be stuck behind the
\* acceptor's blocking receive.)
FailureStopsServer ==
    (acceptor.at = "handing" /\ \E s \in pool : task[s] = "failed") ~> ~running["start"]
=============================================================================
