# A TLA+ development of the Acki Nacki igniter

The igniter runs beside every future block keeper node. It publishes the node's
keys and the licenses delegated to it, gossips them with the other igniters
(through a vendored and modified copy of the `chitchat` library), and answers,
over a REST API, which nodes are in order and which licenses were delegated
anew. This directory models that program: the data structure chitchat
replicates, the replication protocol, the membership bookkeeping, what the
igniter concludes from the replicated states, and the way messages take: their
encoding, the choice of peers, gossip over QUIC connections, and the
asynchronous wrapper of MsQuic in the `transport-layer` crate.

## 1. The system

| Part | State | Operations | Hard because |
|---|---|---|---|
| `NodeState` (`chitchat/src/state.rs`, `types.rs`) | versioned key-values, `max_version`, `last_gc_version` | `set`, `set_with_ttl`, `delete`, `delete_after_ttl`, `gc_keys_marked_for_deletion`, `apply_delta` | tombstones are collected by each replica on its own clock; a delta may have been computed for an older replica |
| Reconciliation (`lib.rs`, `state.rs`, `delta.rs`, `digest.rs`, `message.rs`) | one `NodeState` per known node (`ClusterState`) | SYN, SYN-ACK, ACK, BadCluster; partial deltas | UDP loses, duplicates, delays and reorders; deltas are cut off at a datagram's size; only SYNs carry the `cluster_id` |
| Server task (`server.rs`) | interval timer, command channel, resolved seeds | `gossip_multiple`, `gossip`, `handle_message` (cut off after two seconds), `select_nodes_for_gossip`, DNS refresh | interleaves with the application's writes under one mutex; random choices must keep the cluster in one piece |
| Failure detector and membership (`failure_detector.rs`, `lib.rs`) | sampling windows, live and dead nodes with times of death, watcher channel | `report_heartbeat`, `update_node(s)_liveness`, `scheduled_for_deletion_nodes`, `garbage_collect` | every node judges on its own; digests that mention a dead node keep travelling |
| Licenses (`igniter/src/lib.rs`, `utils.rs`, `open_api/routes.rs`, `revoked_license_watcher.rs`) | none of its own: it reads snapshots of the `ClusterState` | start-up (`to_gossip`), `index`, `getRevokedLicenses`, `export`, the watcher | partial replicas; several states per node after a restart; `index` takes the lock twice |
| Listeners (`listener.rs`) | callbacks per key prefix | subscribe, trigger, `forever`, drop | handles are dropped while callbacks run; ranges of prefixes; none is registered by the igniter |
| Wire format (`serialize.rs`, `delta.rs`, the codecs) | a stream of blocks, some compressed; a delta under construction | bound, append, flush, finish, read back | lengths are promised before they are known; a delta is written twice |
| Transports (`chitchat/src/transport/`) | queues per peer of the QUIC transport, tasks per connection | connect, send, receive, drop the oldest | bounded queues, tasks that outlive the socket; the igniter itself runs on `UdpTransport` |
| MsQuic wrapper (`transport-layer/src/msquic/`) | a connection, its streams, their lists of wakers and receive buffers | polls of tasks (connect, accept, open, write, finish, read, shutdown) and callbacks of MsQuic's threads | every callback races every poll and every timeout; used by the QUIC transport, not by the igniter on UDP |
| MsQuic listener (`msquic_async/listener.rs`) | queue of new connections, lists of wakers | start, accept, stop; callbacks | callbacks race polls; connections arrive while the listener stops |
| `LiteServer` (`transport-layer/src/server.rs`) | sessions, pool of their handles, broadcast channel | start, accept, broadcast | lagging sessions, failing tasks, detached tasks, blocking receives; not started by the igniter |
| WebTransport, TLS, PKCS#12 | certificates | wrappers over libraries | I/O and encodings |
| Command line, configuration, container updater, telemetry | - | parsing, Docker API, counters | I/O |

A write goes from the owner's `NodeState` into a digest-driven delta, through
the network, into a replica, and from a snapshot of the replicas into an answer
of the REST API. Membership decides which replicas are offered to others
(nodes dead for more than half of `dead_node_grace_period` are not), and which
are dropped. A restart of the igniter is a new `ChitchatId`, hence a new node to
chitchat, under the same `pubkey`.

## 2. Modules

```
                                        TLC                TLAPS
NodeState --> Chitchat              --> MCChitchat         ChitchatProofs
Membership                          --> MCMembership       MembershipProofs
Licenses                            --> MCLicenses         LicensesProofs
QuicStream --> QuicConnection       --> MCQuicConnection   QuicConnectionProofs
NodeState --> KeyListeners          --> MCParts            ListenerProofs
PeerSelection                       --> MCParts            PartsProofs
QuicListener, LiteServer            --> MCParts            PartsProofs
GossipSocket ..> LossyChannel       --> MCParts            PartsProofs (refinement)
Wire                                --> MCParts            FoldLemmas --> WireProofs
```

**`NodeState`** is the data structure, as pure operators with the names of the
methods. A key that is absent is an entry of version 0, which the source
reserves. An `Instant` is a number of ticks left (0 from the end of the grace
period on), so that clocks need no bound. `ApplyDelta` is
`prepare_apply_delta` followed by `apply_delta`: `FromTheFuture`, `Applicable`
and `InvitesReset` are its three conditions, in its order. The log line
"received an inapplicable delta, ignoring it" is followed by no `return`, and
the model goes on to the reset as the code does.

**`Chitchat`** is the protocol between nodes. `node_states[n][m]` is what `n`
holds of `m`; `scheduled[n]` is the output of `n`'s failure detector, an input
here (`ChangeSchedule`); `network` is a set of datagrams, which may be lost
(`Lose`), delivered again (`duplicated`), delivered in any order, and delayed up
to `MaxDelay` ticks. `history` records every write for the properties; no action
reads it. `PartialDeltas` is `compute_partial_delta_respecting_mtu`: stale nodes
in an order that respects `Staleness::cmp`, ties in any order as the code
shuffles them, each with its key-values by increasing version, cut off where the
datagram is full. Room is counted in delta operations (`Rooms`), not bytes.
`GossipMultiple` is one gossip round; the application may write between its
garbage collection and its SYN, a case that the separate action `Gossip` covers
because it may send a SYN at any time. A reply lost to the two-second timeout of
`handle_message` is a lost datagram.

**`Membership`** follows one watched node, the subject, through any number of
observers: what an observer records of one node never depends on what it records
of another. A view collects the fields spread over `ClusterState`,
`FailureDetector` and `Chitchat`: node state and heartbeat, sampling window
(`sampled`, `silence`), live, dead with the time of death, watched. phi is
abstracted to its verdicts: alive up to `AliveFor` ticks of silence, dead after
`DeadAfter`, either in between; a window without intervals has no phi, and is
dead. One tick contains at least one gossip round of every observer, as the
interval timer guarantees. `heard`, `since` and `gone` are for the properties.

**`Licenses`** is the igniter. An instance is a process with its `ChitchatId`;
ids are numbers in the order of the `BTreeMap` of node states, taken in any order
because `generate_server_id` is random. A replica is a prefix of the six
key-values an instance writes at its start, which is what `AuthenticReplicas` and
`FaithfulAboveCollection` of `Chitchat` leave of keys that are written once and never
deleted: nothing is collected, so a replica holds every key up to its `max_version`. `index` is two actions, one per acquisition of the lock.
Signatures are valid when they were given; the model has no forger.

**`QuicStream`** and **`QuicConnection`** are the streams and the connection of
`msquic_async`. Polls and callbacks hold the mutex of the object they work on, so
that each is one action; `stream[s]` and `conn` have the fields, and their states
the names, of `StreamInnerExclusive` and `ConnectionInnerExclusive`. `task[t]` is
the call a task is inside of (`send`, `recv`, `connect`, ... of `msquic/mod.rs`),
how many bytes of a message it has read, and whether the runtime is to poll it; a
waker in a list is the task that left it. `quic[s]` is external: what the code
relies on MsQuic to remember and to respect. It has at most one receive
outstanding until `receive_complete` is called (multi-receive is not enabled), it
reports the end of the peer's sending after the FIN was completed, it shuts streams
down before their connection, and it calls nobody back once a handle is closed. A
receive buffer popped by `poll_read` is dropped after the mutex is released, hence
in an action of its own, `ReadComplete`, with which callbacks interleave. A call
that fails or times out drops its stream (`Close`). Messages are not empty: for an
empty one `read_message_from_stream` returns without draining. Streams are handed to
their users once they have started, so that the arms for `Start` of the write and
read polls are never taken.

**`Wire`** follows one reply that carries a delta, from `process_message` (how
much room is there) through `DeltaSerializer` (operation by operation, as long as
they fit), `Delta::serialize` (again, with a writer of its own) and the transport's
limit to the receiver. Every length is the real number of bytes; contents are
reduced to whether zstd shortens them. The bytes of a stream are the positions of
its operations laid end to end, and a block is an interval of them with the length
it is stored under, so that an operation may straddle blocks. `ZstdLen` is external:
ten bytes of frame, noise as it is, text to a quarter; a block whose compressed form
would be longer than the block itself is stored as it is. A subtraction below zero panics (debug) or wraps around (release): both
are successors of `StartReply`.

**`PeerSelection`** has `select_nodes_for_gossip` as the set of selections that have
a probability above zero, a gossip round that contacts one of them, declaring nodes
dead and forgetting them, the refresh of seeds that are given by host names, and a
network that is cut in two. A handshake is abstracted to what it does to the two
views: each learns the nodes whose heartbeats the other side hears.

**`KeyListeners`** is one replica, a `NodeState` of the first module, and the table of
listeners under its read-write lock. A delta is applied one mutation at a time
(`ApplyMutation`); one that is a value and newer than the entry holds the read lock
until all its listeners have returned, one action each. A handle that is dropped waits
for the write lock, which it may get between two mutations. A delta may also reset the
replica (`ReceiveReset`), and the owner may be forgotten and learnt again
(`ForgetNode`): the listeners stay and are told of everything anew. Deltas carry any of
the owner's writes, late ones and repetitions included; which of them peers really send
is `Chitchat`'s concern. Keys and prefixes are sequences of numbers with the order of
strings, because `trigger_event` looks prefixes up by a range; `WideChar` are the
characters of several bytes, at which its slice panics: the rest of the delta is then
lost and the server's task is over (`TriggerPanics`). `seen` is for the properties: what
each listener was told of last, cleared when the replica starts afresh.

**`QuicListener`** is `msquic_async/listener.rs` in the style of `QuicConnection`:
each body under the mutex is an action, a waker is the task that sleeps, and
`poll_stop`, which calls MsQuic after it has released the mutex, is two actions.

**`GossipSocket`** is `transport_layer.rs`, one socket sending to another: the queue
and task per outgoing connection, the listener task, the handler per incoming one,
the shared queue, `recv` and the server task behind it. A connection is external: it
delivers what one task writes in order until it is lost, with everything unread on
it. The sending task may give up (`SendFails`) while the other end still reads what has
arrived, and a connection that the receiver has lost may be written to in vain, since
neither end learns at once of what the other knows; that is what `QuicStream` and `QuicConnection` provide, except that they do not
say in which order streams are accepted (MsQuic reports them in the order in which
they were opened). **`LossyChannel`** is what the gossip protocol above needs: per
connection, messages may be lost at any point and are never repeated, reordered or
invented. Messages are numbered in the order of the `send` calls, so that what is on
its way on a connection is a set of numbers, and receiving one takes everything below
it out of the set. The mapping is the union, for each connection, of the message in
`recv`'s hand, the shared queue, the one a handler reads, the wire, the one being
written and the sender's queue.

**`LiteServer`** is the block feed: the three tasks that `start` waits for, the
acceptor, one session per client, and the logger, which is a subscriber like the
sessions. `session_recv.recv()` blocks a thread of the runtime; a task that tokio
queued behind it on that thread (its slot for the task woken last is not stolen
from) waits until the acceptor yields, which is `held`.

`MC*` modules give the constants their small values. `MCParts` puts the last six
modules (`Wire`, `PeerSelection`, `KeyListeners`, `QuicListener`, `GossipSocket` and
`LiteServer`) side by side: `part`, chosen initially, says which of them runs, and the
others stay in their initial states. They share no state, so that nothing would be
gained by interleaving them.

## 3. Runs

| Run | Instance | What it shows |
|---|---|---|
| `reorder` | 2 nodes, 2 keys, deltas of 1 key-value or complete; 2 datagrams in flight up to 3 writes, 1 from the fourth on; one write with a TTL | `AuthenticReplicas`, `OwnStateIntact`, `NoResurrectedKey`, `FaithfulAboveCollection`, `ReplicasOnlyFreshen` |
| `live` | 3 nodes in 2 clusters, one of them taken for dead now and then, 2 writes, deltas of 1 key-value, fair | `TypeOK`, `ClusterIsolation`, `FaithfulAboveCollection`, `Converges` |
| `lost` | 2 nodes, 3 writes | violation of `NothingMissed` |
| `resurrected` | 3 nodes, 3 writes | violation of `NoResurrectedKey` |
| `hearing` | 1 observer, 6 heartbeats, every kind of datagram, delays | `TypeOK`, `ListsAgree`, `HeardIsLive` |
| `detect` | 2 observers, grace period of 3 ticks, fair | `NoEcho`, `RelearnedFromLateObserver`, `CrashDetected` |
| `zombie` | 3 observers, grace period of 3 ticks, fair | violation of `ForgottenForGood` |
| `watcher` | 2 nodes, 3 starts, 1 license delegated up to twice, fair | `TypeOK`, `IndexSound`, `WarnedOnlyIfOutdated`, `RevocationWarned` |
| `wakeups` | a connection opened by either side, 2 tasks, 1 stream each way, messages of 1 byte after a header of 1, fair | `TypeOK`, `NoLostWakeup`, `NoBusyLoop`, `CompletedOnce`, `CallsReturn` |
| `parts` | each of six components by itself, see below; fair | `Wire`: `PromisedLength`, `DeltaWithinMtu`, `DeltaRoundTrip`, `OverrunBounded`; `PeerSelection`: `SplitsAreBridged`; `KeyListeners`: `ListenersUpToDate`, `ToldInOrder`; `QuicListener`: `AcceptorsAwake`, `ConnectionsConserved`, `StopReturns`; `GossipSocket`: `ImplementsLossyChannel`, `NewestArrives`, `DeafServerEnds`; `LiteServer`: `ContiguousFeed`, `FailureStopsServer`; `TypesOK` |
| `hidden` | 2 nodes, 3 starts, 2 licenses | violation of `IndexComplete` |
| `renewed` | 2 nodes, 3 starts, 1 license delegated twice | violation of `RevokedIsRedelegated` |

Why the bounds are enough. Versions matter only by their order and by equality
with `last_gc_version`; three writes to two keys give an overwritten key, a
deleted one and a live one above and below a collected version, the
configurations that the conditions of `prepare_apply_delta` tell apart. Two
datagrams in flight give every reordering of a pair and a duplicate that
overtakes; three nodes give a relay that lags. One observer sees every sequence
of heartbeats, silences and collections, because time is unbounded and only the
number of heartbeats is limited; six are enough to die, to be forgotten and to
become live again. Three starts of two nodes give a restart next to a node that
watches it. Two tasks suffice for one to close what the other waits for, and for both
to wait in one list; a message of two bytes arrives whole, in two pieces, cut off, and
with its FIN in the last piece or after it. The safety theorems of section 5 hold without any of these bounds.
`reorder` goes to a fourth write, with a state constraint that leaves one datagram in
flight from there on and allows one TTL before it, because three do not show why
`NoResurrectedKey` and `FaithfulAboveCollection` are about *last* writes: after writes
to k1, k1, k2 and k1, a delta with room for one key-value takes a replica from version 1
straight to version 3, since the fourth write has overwritten the second; it holds k1 as
of version 1, skips version 2 for good, and is in order, as version 4 is still to come.
Larger clusters are covered by the theorem `ReplicasFaithful`; `resurrected` shows that
`NoResurrectedKey` is a property of two nodes.

The bounds of `parts`. Payload limits are those of UDP (65507) and QUIC (10000000),
one below a block (300), and one that two incompressible values fill to the last
byte (32795); a digest of 3000 nodes is longer than a UDP datagram, one of 2690 just
fits; four operations out of short, block-sized, longer compressible and longer
incompressible values put block boundaries before, inside and after an operation.
Four members that are all seeds, cut into halves once after they have found each
other, one of them knowing one seed by a host name: the smallest cluster in
which a half has live seeds of its own. Two acceptors, three connections, two starts. Four messages over two
connections with queues of two (1000 in the code, where the soft threshold equals
the capacity as it does here). Two clients, three blocks, one of them short, and
channels of one.

For the listeners a key extends another, a third has a wide first character, and the
prefixes are the empty one, two of the keys and a sibling that lies in their range
without being a prefix of theirs. One history of the owner sets and deletes a key; the
other sets a key, then the wide one, then one with a TTL, so that a reset tells of the
first again and the panic leaves the last unapplied. Deltas carry any of the writes. The
run may stop, because nothing follows the panic.

`Prefixes` leaves out lengths at which a replica is parsed in the same way.
`Queried` restricts the index route to one node: requests do not interact.
Symmetry is used for keys only, in runs without liveness.

### Fairness

`Chitchat!Fairness`: the interval timer starts rounds for ever and the choice of
peers is random, so each pair of a cluster gossips again and again; a kind of
datagram that is sent for ever from one node to another gets through again and
again (fair-lossy links). Both are strong fairness: the bound on datagrams in
flight, an artefact of the model, disables sending now and then. Datagrams
between clusters are only assumed to be handled or lost.

`Membership!Fairness`: timers fire, time passes, and an observer to which datagrams
are sent for ever receives some.

`Licenses!Fairness`: replicas catch up (what `Converges` shows) and the watcher
wakes up. Instances that run are not forgotten there: nodes that stay cut off from
each other for whole grace periods would never learn of a re-delegation.

`QuicConnection!Fairness`: the runtime polls a task that was woken, timers expire, a
handshake succeeds (or is given up: MsQuic has a timeout for it), and MsQuic completes
the shutdown of a connection and its streams. Nothing obliges the peer to open a stream,
to accept ours, to acknowledge, or to end a message it has begun: `quic_settings.rs:40`
sets the idle timeout to 0, which is none, and no keep-alive. `CallsReturn` therefore
lets a reader wait for its peer (`AwaitsPeer`), and says that it waits for nothing else:
if it does not return, MsQuic is again and again ready for the next receive, the
connection stands, and nothing comes.

`MCParts!Fairness`: a task that was woken is polled (the acceptors and the one who
stops the listener; the sending task, the listener task, the handlers and the server
task of a socket; `sessions_handler` and `start`), and MsQuic completes a stop. In
`LiteServer` neither clients nor blocks are obliged to come, and `sessions_handler` is
not assumed to run while it is held behind the acceptor. Gossip rounds of
`PeerSelection` have no fairness: `SplitsAreBridged` says that a way back exists, which
a random choice takes with probability one.

## 4. Findings

1. **`lost`.** A replica whose `max_version` *equals* the sender's
   `last_gc_version` needs no reset in the eyes of the sender (`<`), which sends
   only what is above; the receiver (`>`) resets itself and loses what was below.
   Since its `max_version` then claims to cover the lost keys, nobody sends them
   again.
2. **`resurrected`.** The owner's highest version is a deletion, and it has collected
   the tombstone. A peer that is new takes the owner's delta, complete as it is, for a
   reset: it ends up with `last_gc_version` at the deletion and `max_version` at the
   highest key-value, which is below. A third node that lags behind still has the deleted
   key with a version in between and has collected nothing; its delta passes the first
   condition (`state.rs:167`), and the deleted key is back. It takes a third node: with two, `NoResurrectedKey` is
   checked by `reorder` and proved (`TwoNodesNeverResurrect`).
3. **`zombie`.** Observers that notice a crash at times a third of the grace
   period apart re-introduce the dead node to one another for ever. Two observers
   cannot (`detect`: `RelearnedFromLateObserver` says how far apart their times of
   death have to be).
4. **`hidden`.** `index` compares a state with the first verified state of the same
   pubkey. A node that restarts with a changed list of licenses is dropped from
   the answer while its previous state is known and comes first.
5. **`renewed`.** A node that restarts with a renewed delegation is reported to have
   lost the license, because its own previous state holds the older delegation.

The igniter deletes no key-values, so that 1 and 2 concern chitchat as a library; 4 and 5
last as long as the old instance is known, which is 20 seconds by default (`failure_detector.rs:166`, where the comment says 24 hours), or longer by 3.

Noticed while modelling, and not part of a run: the `SetMaxVersion` operation of
a delta has an effect on the reset path only, so that a replica whose missing
versions were all collected stays below its owner's `max_version`; `from_state`
throws away what `remove_with_outdated_timestamps` leaves of the states, so that
`/export` lists outdated delegations, too; `RevokedLicense::provider_pubkey` holds
the pubkey of the node; the end of sending is reported to `finish_write` with a
`_graceful` flag that is ignored, so that a send may succeed although the connection
closed before anything was acknowledged; streams that arrived and were not accepted
are lost with the connection; `recv_waiters` (datagrams) is drained by none of the
shutdown handlers; `read_message_from_stream` takes a read of 0 bytes for progress,
and `NoBusyLoop` holds only because a stream that is cut off ends with an error; and if
the peer vanishes in the middle of a message, `recv`, which has no timeout, waits until
this side closes the connection, since nothing makes MsQuic look for a peer that is
silent.

Around the core: `process_message` subtracts one byte for a header of four, so that a
reply whose delta fills its room is refused by UDP (`OverrunBounded` bounds the excess
by three bytes); with a digest longer than the datagram the same line panics or, in a
release build, wraps around to a delta without a limit. A value longer than a block
may push a delta over its mtu by three bytes per further block, which
`serialized_len_upperbound_after` does not count, although its comment calls it an upper
bound; `DeltaWithinMtu` excludes such values. One longer than 65535 bytes fails the
assertion of `append`. `SplitsAreBridged` holds for `GOSSIP_COUNT` = 3 with any set of
seeds; with 4 it would not. A callback that drops a handle waits for itself. `subscribe_event` promises a call
"every time a key matching the supplied prefix is inserted or updated" (`lib.rs:364`),
but `trigger_event` takes the first byte of a key as the lower end of a range of prefixes
(`listener.rs:109`) and panics if the first character is longer: listeners of the key's
prefixes are not called, the rest of the delta is not applied, and the task of the gossip
server ends. `ListenersUpToDate` exempts such keys; the igniter registers no listener and
its keys are ASCII. A connection that the sender has given
up may still have messages on it, and the receiver's queue is shared: they may push out
newer ones of the next connection, which is why `NewestArrives` asks for earlier
connections to be gone. `Socket::send` promises to return an
error only if the transport is broken for good (`transport/mod.rs:28`), yet a failed
connection attempt or a sending task that has just ended is an error, too, and the next
`send` may succeed. The soft TTL of the QUIC transport applies only when a handler
refills the queue between the removal of a message and the look at its length, because
threshold and capacity are equal. In `LiteServer` a block of fewer than ten serialized
bytes, and any session that fails or lags, stops the server; sessions that were
running go on without it, and the acceptor serves one more client before it notices.
A poll of a woken `stop` future stops a listener that was started again meanwhile.
The handlers of incoming connections outlive a dropped gossip socket, each until it
has read one more message.

## 5. Theorems

Every theorem holds for all values of the constants that satisfy the named `ASSUME`s
of the modules (finite sets of nodes and the like, bounds that are natural numbers,
capacities and lengths above zero, sentinels that are not members of the sets they are
sentinels for). Some of the theorems about deletions and deaths have a further
hypothesis, given below: a bound on how long a datagram is under way, and in one case
the number of nodes.

### Chitchat (`ChitchatProofs`)

* `TypeCorrect`: `Spec => []TypeOK`, through `TypeInv`, which adds that versions in
  states and deltas are bounded by the owner's writes; without it `Max` over the
  versions of a delta is not known to exist.
* `OwnStateSafe`: `OwnStateIntact`. `process_delta` applies deltas for the node
  itself without a guard; that they never change anything is a global argument.
  The inductive invariant `SafetyInv` has, besides `TypeInv`: every entry of a
  replica and of a delta in flight is a write of its owner (`StateOK`, `DeltaOK`);
  every version that was collected was a deletion whose grace period is over
  (`HistoryOK`, `CollectedWrite`); and a delta in flight *to* its owner has a
  `last_gc_version` below the owner's `max_version` (`MessageOK`), so that it
  is applicable and all its mutations are known. The last one is where time comes in: the digest
  that the delta answers was sent at most `MaxDelay` ticks ago, and no deletion
  made since can have been collected. The hypothesis is
  `MaxDelay < GracePeriod`: no datagram outlives the grace period of deletions
  (10 seconds in the igniter).
* `ReplicasAuthentic`: `AuthenticReplicas`, from the same invariant.
* `ReplicasFaithful`: `FaithfulAboveCollection`, for any number of nodes, under the same
  hypothesis. `FaithfulInv` says of deltas in flight what the property says of
  replicas: a key last written within the versions a delta spans, above what its
  sender has collected, is in the delta (`DeltaFaithful`). A write cannot break it,
  because its version is above everything that replicas and deltas have seen. A
  delta that is applied joins two ranges without a gap: `from_version_excluded` is at
  most the replica's `max_version`, or the replica is reset. A delta that was cut off
  spans only up to its last key-value, which is why its key-values have to be sorted by
  version.
* `TwoNodesNeverResurrect`: `NoResurrectedKey` for `Node = {a, b}`, under the same
  hypothesis. `CurrentInv` adds that every outdated key-value waits for a write above
  both `max_version` and `last_gc_version` (`StateCurrent`), and that a delta was made by
  the owner itself at some point of its history (`CurrentAt`): up to there its
  key-values were last writes, and deletions since then are too young to have been
  collected by anyone. With a third node the delta's maker may lag behind, and the
  second half fails; that is finding 2.
* `ReplicasFreshen`: `ReplicasOnlyFreshen`, an action property, from `TypeInv`
  alone; no assumption on delays.
* `ClustersIsolated`: `ClusterIsolation`. `IsolationInv` adds that SYN-ACK and ACK
  datagrams stay within a cluster and say nothing of other clusters' nodes: the
  check on SYN is enough because every exchange starts with one.

### Membership (`MembershipProofs`)

One invariant, `MembershipInv`, serves all of them. Besides `TypeOK` and `ListsAgree`
it says of each record that the window's silence is the time since the last heartbeat
(`RecordSound`), what three growing heartbeats lead to before `HeardIsLive` can see it
(`WindowSound`: a sampled interval, and liveness after the next round), and of each
datagram in flight how long its sender can have taken the subject for dead
(`DatagramSound`: half the grace period, plus the time the datagram has been under
way, because `scheduled_for_deletion_nodes` silences a sender after half of it).

* `TypeCorrect`, `ListsAlwaysAgree`, `HeardOfNodesAreLive`: the invariants of `hearing`,
  for any number of observers.
* `NothingEchoes`: `NoEcho`, when `2 * MaxDelay < GracePeriod`. `DatagramSound` puts a
  datagram of a node that has just forgotten the subject beyond its last tick.
* `RelearnedOnlyFromLateObservers`: the action property `RelearnedFromLateObserver`, for
  any number of observers; `zombie` shows that three of them are enough to use the
  freedom it leaves.

### Licenses (`LicensesProofs`)

`LicensesInv` adds to `TypeOK` and `WarnedOnlyIfOutdated` that only what was published
is replicated (`SeenIsPublished`). `NoFalseWarning` and `IndexIsSound` rest on two facts
about the operators: `licenses` is the last of the six key-values, so that a replica
that has it is complete, and a license reported as revoked is one that two instances
published with different timestamps.

### MsQuic connections and streams (`QuicConnectionProofs`)

* `NoWakeupIsLost`: `NoLostWakeup`, for any number of tasks and streams. `NoLostWakeup`
  says of a sleeping task that it has to wait; that this stays true needs to be known of
  tasks that are awake, too, and of streams nobody waits on yet. `WakeInv` has how far a
  stream has come in the code against how far in MsQuic (`StreamSound`: a stream in
  `Start` is one for which MsQuic still owes the end of the start, a half that is open
  belongs to a stream that MsQuic has started, and a stream with callbacks left
  belongs to a connection that is not completely shut down), which call can be on
  which stream (`TaskSound`), that a stream has one owner or waits in the queue of
  the connection (`Owned`), and, for each kind of call, the list in which the waker of
  a sleeping task is (`SleepSound`).
* `ReadersNeverSpin`, `BytesCompletedOnce` and `TypeCorrect`: `NoBusyLoop`,
  `CompletedOnce` and `TypeOK`, for messages of any length that arrive in any pieces.
  `FullInv` adds the bytes to `WakeInv`. At most one receive buffer is outstanding, in
  the stream or in the hands of a task that is about to drop it; it starts where
  completion has come to and ends where reception has (`Outstanding`); a FIN means that
  the whole message was received (`StreamData`); the reader has read up to its position in
  that buffer (`ReadSoFar`), except on a stream that failed; and when nothing is
  outstanding MsQuic has been told of everything (`Settled`), which is what the next
  receive relies on. `ReadUpTo` is a fold over the buffers; that there is at most one
  makes it computable by lemmas (`ReadNothing`, `ReadOne`) without induction.

### The wire format (`WireProofs`, `FoldLemmas`)

* `PromiseIsKept`, `DeltasFit`, `DeltasSurvive`, `OverrunIsBounded`: the four properties of
  `Wire`, for payload limits, digests, key-values and sequences of operations of any size,
  from the same invariant (`WireInvariant`).

`WireInv` relates three ways in which the code goes over the same operations: the
builder, the serializer's writer, and the second writer of `Delta::serialize`. `BuilderInv`:
the nodes built so far, laid end to end, are the operations written. `WriterInv`: the
blocks are contiguous and hold exactly the bytes that left the buffer. `Streams` is the
heart of it: the serializer's block size is the mtu where that is below 16384, so that
the two writers need not agree block by block. They do because in the one case they
are the same writer, and in the other the mtu is too small for either to fill a block, so
that both write the same single block at the end. It also has the bound: as long as
every operation is no longer than a block, what was written, with the headers still to
come, stays within `serialized_len_upperbound_after` (`Budget`).

`ZstdLen` is never unfolded: the results do not depend on how well zstd compresses, only
on the same block being compressed to the same length twice. The writers and lengths are
folds over sequences. `FoldLemmas` shows once, for any operator, that a fold goes one
element at a time, by looking at a least counterexample, and `WireProofs` instantiates it
for each of them; round trips then follow action by action, without induction over data.

### The parts around the core

In `PartsProofs`, but for the listeners.

* MsQuic listener and `LiteServer`: `AcceptorsStayAwake` and `NoConnectionIsLost`, whose
  properties are inductive together with the types; `FeedsAreContiguous`, which needs
  that a session's next block is one or two ahead of the last one it sent, depending on
  whether it is sending (`SessionSound`), and that a client waits in one place at a time
  (`WaitingSound`).
* The composition: `PartsKeepTheirSpecs`, that `MCParts` refines the specification of
  each of its six parts, so that the theorems about parts (those of `WireProofs`
  included) are theorems about what the run checks; `TypesAreKept`, for all
  of them but the listeners, whose types are part of `ListenerInv`.
* Listeners (`ListenerProofs`): `ListenersStayUpToDate` and `ListenersToldInOrder`, for any
  prefixes, keys and histories, with resets, forgetting and the panic. The first exempts
  keys with a wide first character, of which only listeners of the empty prefix are told
  (section 4). The second speaks of every call of a listener: its version is above all
  that the listener was told of since the replica last started afresh, so that a
  repetition would violate it. `RangeComplete` is the lemma behind the first: every
  non-empty prefix of a key lies in the range from its first character to the key itself,
  in the order of strings. `ListenerInv` has that listeners still to be called are
  exactly the ones that are behind, and, for the second, that no listener has been told
  of more than `max_version`, while all that a delta has left to apply lies above it.
* Choice of peers: `EverySplitIsBridged`, for clusters of any size and any set of
  seeds. A half none of whose nodes may contact a seed of the other has more nodes
  than there are seeds, but at most two that are no seeds; so the other half has a
  single seed and it has two or more itself (`StuckSide`). That cannot be true of both
  halves, because GOSSIP_COUNT is only 3. Nothing but the shape of a split is needed
  for this, so the invariant is `SplitsAreBridged` itself.
* The gossip socket: `SocketIsLossyChannel`, the refinement, for any number of messages and
  connections and any capacity of the queues. `SocketInv` orders the six places
  in which a message of a connection can be: whatever is nearer to `recv` was sent
  earlier (`TransitSound`), and nothing is on its way that was not sent (`SentSound`).

### Only model-checked

The liveness properties, which are out of the prover's reach: `Converges`,
`CrashDetected`, `RevocationWarned`, `CallsReturn`, `StopReturns`, `NewestArrives`,
`DeafServerEnds`, `FailureStopsServer`. Every invariant and every action property that
a passing run checks is a theorem.
`CrashDetected` is checked for two observers. With more of them, each holding
another old heartbeat of a node that crashed, a newcomer may count the node
among the live ones for a while.

## 6. Not modelled

* `reset_node_state`, `catchup_callback`, `extra_liveness_predicate`: no code of the
  repository uses them.
* Byte values, zstd itself, and messages without a delta (`Wire`); `ChannelTransport`
  and the delaying and dropping wrappers, which are for tests.
* Of the MsQuic wrapper datagrams and bidirectional streams (not enabled by
  `quic_settings.rs`), `abort_read`, `abort_write`, `read_chunk` (not called).
* WebTransport, TLS, PKCS#12: wrappers over third-party libraries, and encodings.
* The container updater (one loop around the Docker API without state of its own), the
  command line, configuration files, telemetry.

`PROJECT.json` gives the reason for each.

## 7. Plan

Done: all the modules of section 2, and the proofs of all their safety properties. What a
continuation would look at:

1. a repair of the comparison behind finding 1 and of the reset behind finding 2, which
   leaves `max_version` below `last_gc_version`, with
   `NothingMissed` and `NoResurrectedKey` as the properties to prove of the repaired code
   for any number of nodes;
2. `reset_node_state` and `catchup_callback`, once code of the repository uses them.
