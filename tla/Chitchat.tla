------------------------------- MODULE Chitchat -------------------------------
(***************************************************************************)
(* The replication protocol of chitchat: every node owns one NodeState and *)
(* keeps a replica of every other node's (ClusterState, state.rs).  Nodes  *)
(* reconcile pairwise with SYN (a digest), SYN-ACK (a digest and a delta)  *)
(* and ACK (a delta) datagrams (lib.rs, process_message), which the UDP    *)
(* transport may lose, duplicate, reorder or delay.                        *)
(*                                                                         *)
(* One server task per node takes one step at a time: it handles one       *)
(* datagram, or runs one gossip round, under the lock on Chitchat.  The    *)
(* application writes its own node's state between any two of them.        *)
(*                                                                         *)
(* The failure detector decides which nodes are scheduled for deletion and *)
(* which are removed; here its decisions are inputs (Membership.tla models *)
(* how they are taken).                                                    *)
(***************************************************************************)
EXTENDS NodeState, Sequences, Functions

CONSTANTS
    Node,           \* the ChitchatIds of the cluster(s)
    Cluster,        \* Cluster[n] is the cluster_id node n is configured with
    Mortal,         \* nodes the failure detectors of others may give up on
    WriteLimit,     \* WriteLimit[n] bounds the versions node n writes
    Rooms,          \* how many delta operations a datagram may have room for
    MaxInFlight,    \* bound on the number of datagrams in flight
    MaxDelay        \* a datagram is delivered within this many ticks, or never

ASSUME ClusterAssumption == IsFiniteSet(Node) /\ Cluster \in [Node -> STRING]
ASSUME BoundsAssumption ==
    /\ WriteLimit \in [Node -> Nat]
    /\ Rooms \subseteq Nat
    /\ MaxInFlight \in Nat
    /\ MaxDelay \in Nat

VARIABLES
    node_states,    \* node_states[n][m]: what node n holds of node m's state
    scheduled,      \* scheduled[n]: nodes that n's failure detector wants deleted
    network,        \* datagrams in flight
    history         \* history[m]: every write of node m, indexed by its version

vars == <<node_states, scheduled, network, history>>

Write == [key: Key, value: Value \cup {NoValue}, status: Statuses, left: Nat]

NodeDigests == [last_gc_version: Nat, max_version: Nat]
Digests == [Node -> NodeDigests]
Deltas == [Node -> NodeDeltas]

Messages ==
    [type: {"Syn"}, src: Node, dst: Node, ttl: Nat, digest: Digests]
    \cup [type: {"SynAck"}, src: Node, dst: Node, ttl: Nat, digest: Digests, delta: Deltas]
    \cup [type: {"Ack"}, src: Node, dst: Node, ttl: Nat, delta: Deltas]
    \cup [type: {"BadCluster"}, src: Node, dst: Node, ttl: Nat]

\* Every variable holds values of the shape the Rust types give it; no node
\* schedules itself for deletion.
TypeOK ==
    /\ node_states \in [Node -> [Node -> NodeStates]]
    /\ scheduled \in [Node -> SUBSET Node]
    /\ \A n \in Node : n \notin scheduled[n]
    /\ network \in SUBSET Messages
    /\ history \in [Node -> Seq(Write)]

Init ==
    /\ node_states = [n \in Node |-> [m \in Node |-> NewNodeState]]
    /\ scheduled = [n \in Node |-> {}]
    /\ network = {}
    /\ history = [n \in Node |-> <<>>]

-----------------------------------------------------------------------------
(* Digests and deltas *)

\* A node that is left out of the digest reads as (0, 0) at the receiver.
ComputeDigest(states, hidden) ==
    [m \in Node |->
        IF m \in hidden
        THEN [last_gc_version |-> 0, max_version |-> 0]
        ELSE [last_gc_version |-> states[m].last_gc_version,
              max_version |-> states[m].max_version]]

\* The peer lacks tombstones we have collected: it has to start over.
ShouldReset(state, peer) ==
    /\ peer.last_gc_version < state.last_gc_version
    /\ peer.max_version < state.last_gc_version

FromVersion(state, peer) == IF ShouldReset(state, peer) THEN 0 ELSE peer.max_version

\* Faulty variant: an off-by-one in the comparison of versions.
StaleNodesBehindByTwo(states, digest, hidden) ==
    {m \in Node \ hidden : states[m].max_version > digest[m].max_version + 1}

StaleNodes(states, digest, hidden) ==
    {m \in Node \ hidden : states[m].max_version > digest[m].max_version}

\* Staleness::cmp: a is gossiped before b.  Unknown nodes come first, the
\* lowest max_version first; then the nodes with the most stale key-values.
GossipedBefore(a, fromA, b, fromB) ==
    \/ fromA = 0 /\ fromB # 0
    \/ fromA = 0 /\ fromB = 0 /\ a.max_version < b.max_version
    \/ /\ fromA # 0 /\ fromB # 0
       /\ Cardinality(StaleKeys(a, fromA)) > Cardinality(StaleKeys(b, fromB))

\* Delta operations a stale node needs: its header, and its key-values or a
\* SetMaxVersion.
OpCount(state, from) == 1 + Max({1, Cardinality(StaleKeys(state, from))})

\* What is left of the room once the nodes in `before` are written.
RoomAfter(states, digest, before, room) ==
    room - MapThenSumSet(LAMBDA x : OpCount(states[x], FromVersion(states[x], digest[x])),
                         before)

\* The deltas compute_partial_delta_respecting_mtu may return when the datagram
\* has room for `room` operations: one for every order of the stale nodes that
\* respects their staleness, since ties are shuffled.
PartialDeltas(states, digest, hidden, room) ==
    LET stale == StaleNodes(states, digest, hidden)
        From(m) == FromVersion(states[m], digest[m])
        Orders == {rank \in Injection(stale, 1..Cardinality(stale)) :
                      \A a, b \in stale :
                          GossipedBefore(states[a], From(a), states[b], From(b))
                              => rank[a] < rank[b]}
        RoomFor(m, rank) ==
            RoomAfter(states, digest, {x \in stale : rank[x] < rank[m]}, room)
    IN  {[m \in Node |-> IF m \in stale /\ RoomFor(m, rank) \in 1..room
                         THEN NodeDelta(states[m], From(m), RoomFor(m, rank))
                         ELSE EmptyNodeDelta]
            : rank \in Orders}

ApplyDeltas(states, delta) == [m \in Node |-> ApplyDelta(states[m], delta[m])]

-----------------------------------------------------------------------------
(* The application's writes to its own node's state *)

OwnWrite(n, k, new) ==
    /\ node_states' = [node_states EXCEPT ![n][n] = new]
    /\ history' =
          [history EXCEPT ![n] =
              IF new.max_version = node_states[n][n].max_version THEN @
              ELSE Append(@, [key |-> k, value |-> new.key_values[k].value,
                              status |-> new.key_values[k].status,
                              left |-> new.key_values[k].left])]
    /\ UNCHANGED <<scheduled, network>>

MayWrite(n) == node_states[n][n].max_version < WriteLimit[n]

SetKey(n, k, v) == MayWrite(n) /\ OwnWrite(n, k, Set(node_states[n][n], k, v))

SetKeyWithTtl(n, k, v) == MayWrite(n) /\ OwnWrite(n, k, SetWithTtl(node_states[n][n], k, v))

DeleteKey(n, k) == MayWrite(n) /\ OwnWrite(n, k, Delete(node_states[n][n], k))

DeleteKeyAfterTtl(n, k) == MayWrite(n) /\ OwnWrite(n, k, DeleteAfterTtl(node_states[n][n], k))

-----------------------------------------------------------------------------
(* Gossip *)

Send(messages) ==
    /\ Cardinality(messages) <= MaxInFlight
    /\ network' = messages

SynMessage(n, states, p) ==
    [type |-> "Syn", src |-> n, dst |-> p, ttl |-> MaxDelay,
     digest |-> ComputeDigest(states, scheduled[n])]

\* One gossip round: collect expired tombstones in every state we hold, send a
\* SYN to each selected peer, then forget the nodes whose grace period is over.
GossipMultiple(n, peers, forgotten) ==
    LET collected == [m \in Node |-> GcKeysMarkedForDeletion(node_states[n][m])]
    IN  /\ n \notin peers
        /\ forgotten \subseteq scheduled[n]
        /\ Send(network \cup {SynMessage(n, collected, p) : p \in peers})
        /\ node_states' = [node_states EXCEPT ![n] =
                              [m \in Node |-> IF m \in forgotten THEN NewNodeState
                                                                 ELSE collected[m]]]
        /\ scheduled' = [scheduled EXCEPT ![n] = @ \ forgotten]
        /\ UNCHANGED history

\* The Gossip command: a SYN outside of the gossip rounds.
Gossip(n, p) ==
    /\ n # p
    /\ Send(network \cup {SynMessage(n, node_states[n], p)})
    /\ UNCHANGED <<node_states, scheduled, history>>

\* The datagram is consumed, or duplicated by the network and left in flight.
Delivered(m, duplicated) == IF duplicated THEN network ELSE network \ {m}

\* Faulty variant: the cluster_id of a SYN is not looked at.
HandleAnySyn(m, duplicated, room) ==
    LET states == node_states[m.dst]
        hidden == scheduled[m.dst]
        Reply(delta) == [type |-> "SynAck", src |-> m.dst, dst |-> m.src, ttl |-> MaxDelay,
                         digest |-> ComputeDigest(states, hidden), delta |-> delta]
    IN  /\ m.type = "Syn"
        /\ \E delta \in PartialDeltas(states, m.digest, hidden, room) :
              Send(Delivered(m, duplicated) \cup {Reply(delta)})
        /\ UNCHANGED <<node_states, scheduled, history>>

HandleSyn(m, duplicated, room) ==
    LET states == node_states[m.dst]
        hidden == scheduled[m.dst]
        Reply(delta) == [type |-> "SynAck", src |-> m.dst, dst |-> m.src, ttl |-> MaxDelay,
                         digest |-> ComputeDigest(states, hidden), delta |-> delta]
    IN  /\ m.type = "Syn"
        /\ Cluster[m.src] = Cluster[m.dst]
        /\ \E delta \in PartialDeltas(states, m.digest, hidden, room) :
              Send(Delivered(m, duplicated) \cup {Reply(delta)})
        /\ UNCHANGED <<node_states, scheduled, history>>

HandleForeignSyn(m, duplicated) ==
    /\ m.type = "Syn"
    /\ Cluster[m.src] # Cluster[m.dst]
    /\ Send(Delivered(m, duplicated)
            \cup {[type |-> "BadCluster", src |-> m.dst, dst |-> m.src, ttl |-> MaxDelay]})
    /\ UNCHANGED <<node_states, scheduled, history>>

HandleSynAck(m, duplicated, room) ==
    LET states == ApplyDeltas(node_states[m.dst], m.delta)
        Reply(delta) == [type |-> "Ack", src |-> m.dst, dst |-> m.src, ttl |-> MaxDelay,
                         delta |-> delta]
    IN  /\ m.type = "SynAck"
        /\ node_states' = [node_states EXCEPT ![m.dst] = states]
        /\ \E delta \in PartialDeltas(states, m.digest, scheduled[m.dst], room) :
              Send(Delivered(m, duplicated) \cup {Reply(delta)})
        /\ UNCHANGED <<scheduled, history>>

HandleAck(m, duplicated) ==
    /\ m.type = "Ack"
    /\ node_states' = [node_states EXCEPT ![m.dst] = ApplyDeltas(@, m.delta)]
    /\ Send(Delivered(m, duplicated))
    /\ UNCHANGED <<scheduled, history>>

HandleBadCluster(m, duplicated) ==
    /\ m.type = "BadCluster"
    /\ Send(Delivered(m, duplicated))
    /\ UNCHANGED <<node_states, scheduled, history>>

\* process_message on one datagram.
Receive(m, duplicated) ==
    \/ \E room \in Rooms : HandleSyn(m, duplicated, room) \/ HandleSynAck(m, duplicated, room)
    \/ HandleForeignSyn(m, duplicated)
    \/ HandleAck(m, duplicated)
    \/ HandleBadCluster(m, duplicated)

-----------------------------------------------------------------------------
(* The environment: the network, the failure detectors and the clock *)

Lose(m) ==
    /\ network' = network \ {m}
    /\ UNCHANGED <<node_states, scheduled, history>>

\* Faulty variant: the failure detector watches its own node, too.
ChangeAnySchedule(n, m) ==
    /\ m \in Mortal
    /\ scheduled' = [scheduled EXCEPT ![n] = IF m \in @ THEN @ \ {m} ELSE @ \cup {m}]
    /\ UNCHANGED <<node_states, network, history>>

\* n's failure detector puts m on its deletion schedule, or sees it alive again.
ChangeSchedule(n, m) ==
    /\ m \in Mortal \ {n}
    /\ scheduled' = [scheduled EXCEPT ![n] = IF m \in @ THEN @ \ {m} ELSE @ \cup {m}]
    /\ UNCHANGED <<node_states, network, history>>

AgeWrites(w) == [v \in 1..Len(w) |-> [w[v] EXCEPT !.left = Older(w[v].left)]]

\* Time passes for everyone; datagrams that are too old are lost.
Tick ==
    /\ node_states' = [n \in Node |-> [m \in Node |-> Age(node_states[n][m])]]
    /\ history' = [n \in Node |-> AgeWrites(history[n])]
    /\ network' = {[m EXCEPT !.ttl = @ - 1] : m \in {d \in network : d.ttl > 0}}
    /\ UNCHANGED scheduled

Next ==
    \/ \E n \in Node, k \in Key :
          \/ \E v \in Value : SetKey(n, k, v) \/ SetKeyWithTtl(n, k, v)
          \/ DeleteKey(n, k)
          \/ DeleteKeyAfterTtl(n, k)
    \/ \E n \in Node : \E peers \in SUBSET Node, forgotten \in SUBSET scheduled[n] :
          GossipMultiple(n, peers, forgotten)
    \/ \E n, p \in Node : Gossip(n, p)
    \/ \E m \in network, duplicated \in BOOLEAN : Receive(m, duplicated)
    \/ \E m \in network : Lose(m)
    \/ \E n, m \in Node : ChangeSchedule(n, m)
    \/ Tick

Spec == Init /\ [][Next]_vars

\* The server's interval timer keeps starting gossip rounds with every peer it
\* can select, and links are fair-lossy: a kind of datagram that keeps being
\* sent from n to p keeps getting through.  Gossip is strongly fair because the
\* bound on the datagrams in flight, which is the model's, may block it.  Of
\* datagrams between clusters it is enough that they do not block it for ever.
ReceiveFrom(n, p, type) ==
    \E m \in network : m.src = n /\ m.dst = p /\ m.type = type /\ Receive(m, FALSE)

ReceiveForeign ==
    \E m \in network : Cluster[m.src] # Cluster[m.dst] /\ Receive(m, FALSE)

Fairness ==
    /\ \A n, p \in Node :
          n # p /\ Cluster[n] = Cluster[p] =>
              /\ SF_vars(GossipMultiple(n, {p}, {}))
              /\ \A type \in {"Syn", "SynAck", "Ack"} : SF_vars(ReceiveFrom(n, p, type))
    /\ WF_vars(ReceiveForeign)

FairSpec == Spec /\ Fairness

-----------------------------------------------------------------------------
(* Safety *)

\* The version of the last write of key k among the first `bound` writes of w.
LatestVersion(w, k, bound) == Max({0} \cup {v \in 1..bound : w[v].key = k})

\* The entry of key k is one of the writes w, as their owner made it.
Authentic(w, k, e) ==
    Present(e) =>
        /\ e.version <= Len(w)
        /\ w[e.version].key = k
        /\ w[e.version].value = e.value
        /\ w[e.version].status = e.status

\* Whatever is lost, duplicated, delayed or applied out of order, a replica
\* holds nothing its owner has not written: every entry is the owner's write
\* of that version, and neither max_version nor last_gc_version runs ahead of
\* the owner (apply_delta, set_versioned_value, gc_keys_marked_for_deletion).
AuthenticReplicas ==
    \A n, m \in Node :
        LET s == node_states[n][m]
        IN  /\ s.max_version <= Len(history[m])
            /\ s.last_gc_version <= Len(history[m])
            /\ \A k \in Key : /\ Authentic(history[m], k, s.key_values[k])
                              /\ s.key_values[k].version <= s.max_version

\* The state s of the node that made the writes w.
HoldsLastWrites(w, s) ==
    /\ s.max_version = Len(w)
    /\ \A k \in Key :
          LET v == LatestVersion(w, k, Len(w))
          IN  \/ s.key_values[k].version = v
              \/ /\ ~Present(s.key_values[k])
                 /\ w[v].status # "Set"
                 /\ v <= s.last_gc_version

\* No delta, however stale, touches a node's own state: its max_version counts
\* its writes, so that no version is used twice, and each key holds its last
\* write unless that write was a deletion that has been collected.  The code
\* has no guard for this (process_delta applies deltas for the self node too).
OwnStateIntact ==
    \A n \in Node : HoldsLastWrites(history[n], node_states[n][n])

LastWrite(w, k) == LatestVersion(w, k, Len(w))

\* A replica holds an outdated key-value only as long as the last write of the
\* key is still to come: it lies above max_version, and is not a deletion that
\* the replica claims to have collected and would skip.  Otherwise no peer would
\* ever correct the replica: deleted keys do not come back
\* (prepare_apply_delta: "We won't miss anything by applying the delta!").
NoResurrectedKey ==
    \A n, m \in Node, k \in Key :
        LET s == node_states[n][m]
            e == s.key_values[k]
            last == LastWrite(history[m], k)
        IN  (Present(e) /\ e.version # last) =>
                /\ last > s.max_version
                /\ last > s.last_gc_version \/ history[m][last].status = "Set"

\* A write at or below a replica's max_version is missing there only if it was
\* a deletion that has been collected, or if a later write supersedes it.
NothingMissed ==
    \A n, m \in Node, k \in Key :
        LET s == node_states[n][m]
            v == LatestVersion(history[m], k, s.max_version)
        IN  (v # 0 /\ ~Present(s.key_values[k])) =>
                \/ history[m][v].status # "Set" /\ v <= s.last_gc_version
                \/ LatestVersion(history[m], k, Len(history[m])) > v

\* No loss, duplication, reordering or truncation of deltas, no reset and no
\* collection of tombstones makes a replica skip a write above its
\* last_gc_version: of a key last written between there and max_version, it holds
\* that write.
FaithfulAboveCollection ==
    \A n, m \in Node, k \in Key :
        LET s == node_states[n][m]
            last == LastWrite(history[m], k)
        IN  (s.last_gc_version < last /\ last <= s.max_version)
                => s.key_values[k].version = last

\* No state leaks between clusters, although only SYN messages are checked for
\* their cluster_id.
ClusterIsolation ==
    \A n, m \in Node : Cluster[n] # Cluster[m] => node_states[n][m] = NewNodeState

\* A replica never goes back to a less fresh (last_gc_version, max_version),
\* except when the whole node is forgotten: stale deltas cannot undo newer ones.
ReplicasOnlyFreshen ==
    [][\A n, m \in Node :
          LET old == node_states[n][m]
              new == node_states'[n][m]
          IN  \/ ~Fresher(old.last_gc_version, old.max_version,
                          new.last_gc_version, new.max_version)
              \/ m \in scheduled[n] /\ new = NewNodeState]_vars

-----------------------------------------------------------------------------
(* Liveness *)

SameCluster(n, m) == Cluster[n] = Cluster[m]

\* n reads from its replica of m what m itself reads.
InSync(n, m) ==
    \A k \in Key : Get(node_states[n][m], k) = Get(node_states[m][m], k)

\* No tombstone of node m has been collected by anyone.
NothingCollected(m) == \A n \in Node : node_states[n][m].last_gc_version = 0

\* Once the writes stop, every node of the cluster ends up reading every other
\* node's current key-values, as long as nothing is collected or scheduled.
Converges ==
    [](\A m \in Node : NothingCollected(m) /\ scheduled[m] = {})
        => <>[](\A n, m \in Node : SameCluster(n, m) => InSync(n, m))

=============================================================================
