------------------------------ MODULE MCParts ------------------------------
(***************************************************************************)
(* The components around the core that do not share state in the model,    *)
(* checked side by side: in each behaviour one of them runs.               *)
(***************************************************************************)
EXTENDS Wire, PeerSelection, KeyListeners, QuicListener, GossipSocket, LiteServer

CONSTANTS
    p1, p2, p3, p4,     \* members of the cluster
    content             \* what every value of a key is

VARIABLE part           \* the component that runs

Idle(own) ==
    /\ part = own /\ UNCHANGED part
    /\ own # "wire" => UNCHANGED wireVars
    /\ own # "peers" => UNCHANGED peerVars
    /\ own # "keys" => UNCHANGED listenerVars
    /\ own # "listener" => UNCHANGED quicListenerVars
    /\ own # "socket" => UNCHANGED socketVars
    /\ own # "lite" => UNCHANGED liteVars

Init ==
    /\ part \in {"wire", "peers", "keys", "listener", "socket", "lite"}
    /\ WireInit /\ PeerInit /\ ListenerInit /\ QuicListenerInit /\ SocketInit /\ LiteInit
    /\ part # "keys" => owner_writes = CHOOSE w \in Histories : TRUE

Next ==
    \/ Idle("wire") /\ WireNext
    \/ Idle("peers") /\ PeerNext
    \/ Idle("keys") /\ ListenerNext
    \/ Idle("listener") /\ QuicListenerNext
    \/ Idle("socket") /\ SocketNext
    \/ Idle("lite") /\ LiteNext

vars == <<part, wireVars, peerVars, listenerVars, quicListenerVars, socketVars, liteVars>>

\* The steps that are not kept waiting for ever: tasks that were woken are
\* polled, MsQuic completes a stop.  The tasks of each part are numbered, so
\* that parts share the conditions: sessions_handler and start; two acceptors,
\* whoever stops the listener, and MsQuic; the tasks of a sender, of a
\* listener, of incoming connections, and of a server.
Task(i) ==
    \/ part = "lite" /\ Idle("lite") /\ ((i = 1 /\ PoolFails) \/ (i = 2 /\ StartReturns))
    \/ /\ part = "listener" /\ Idle("listener")
       /\ \/ i \in Acceptor /\ PollAccept(i)
          \/ i = 3 /\ (PollStop \/ StopCalled)
          \/ i = 4 /\ HandleStopComplete
    \/ /\ part = "socket" /\ Idle("socket")
       /\ \/ i = 1 /\ SenderStep
          \/ i = 2 /\ (CreateListener \/ \E k \in Link : AcceptConnection(k))
          \/ i = 3 /\ \E k \in Link : HandlerStep(k)
          \/ i = 4 /\ RecvStep

Fairness == \A i \in 1..4 : WF_vars(Task(i))

Spec == Init /\ [][Next]_vars /\ Fairness

\* Values for the constants.
MCMember == {p1, p2, p3, p4}
MCDnsHosted == [n \in MCMember |-> IF n = p1 THEN {p4} ELSE {}]
MCCuts == {{p1, p2}}
short == <<1, 2>>
long == <<1, 2, 1>>
wide == <<3>>
MCKey == {short, long, wide}
MCPrefix == {<<>>, <<1, 1>>, short, wide}
Write(key, value, status) == [key |-> key, value |-> value, status |-> status]
\* A deletion; and a value that waits for its TTL above another, so that a reset
\* tells of that one again, with a key in between that cannot be sliced.
MCHistories ==
    {<<Write(short, content, "Set"), Write(short, NoValue, "Deleted")>>,
     <<Write(long, content, "Set"), Write(wide, content, "Set"),
       Write(short, content, "DeleteAfterTtl")>>}
MCIds == {[node_id |-> 8, ip |-> "V4"], [node_id |-> 8, ip |-> "V6"]}
MCShapes == {[key |-> 20, value |-> 40, noise |-> FALSE],
             [key |-> 20, value |-> 16350, noise |-> TRUE],
             [key |-> 20, value |-> 20000, noise |-> FALSE],
             [key |-> 20, value |-> 40000, noise |-> TRUE]}

\* The variables of the parts have their types.  (Wire's values are those that
\* its properties speak of; the types of KeyListeners are part of ListenerInv in
\* ListenerProofs.)
TypesOK ==
    PeerTypeOK /\ QuicListenerTypeOK /\ SocketTypeOK /\ LiteTypeOK
=============================================================================
