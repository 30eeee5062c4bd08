---------------------------- MODULE KeyListeners ----------------------------
(***************************************************************************)
(* Key-change listeners of chitchat (listener.rs, subscribe_event of       *)
(* lib.rs, and NodeState::apply_delta with set_versioned_value).  One node *)
(* keeps a replica of another's key-values.  Deltas bring it forward or    *)
(* make it start afresh, its tombstones are collected, and it is forgotten *)
(* when its owner is given up.  The mutations of a delta are applied one   *)
(* by one; each one that is a value calls the listeners whose prefix its   *)
(* key has, one after the other, under a read lock on the table of         *)
(* listeners.  Handles are dropped by other threads meanwhile.             *)
(*                                                                         *)
(* Which deltas the peers really send is Chitchat's concern: here a delta  *)
(* carries any of the owner's writes, at most one for each key.            *)
(*                                                                         *)
(* Keys and prefixes are sequences of characters, characters are numbers;  *)
(* those in WideChar take more than one byte.                              *)
(***************************************************************************)
EXTENDS NodeState, Sequences, SequencesExt

CONSTANTS
    Handle,         \* the subscriptions that may be made
    Prefix,         \* the prefixes they may be made for
    WideChar,       \* characters that take several bytes
    Histories,      \* the sequences of writes that the owner may make
    NoUpdate        \* no update is under way

\* A write of the owner; its version is its place in the history.
OwnerWrites == [key: Key, value: Value \cup {NoValue}, status: Statuses]

ASSUME UpdateAssumption == NoUpdate \notin Key
ASSUME StringAssumption ==
    Prefix \subseteq Seq(Nat) /\ Prefix # {} /\ Key \subseteq Seq(Nat)
ASSUME HistoryAssumption == \A w \in Histories : w \in Seq(OwnerWrites)

VARIABLES
    subscription,   \* subscription[h]: the state and the prefix of a handle
    owner_writes,   \* the writes of the owner
    replica,        \* the owner's NodeState, as this node holds it
    pending,        \* versions of the current delta that are still to be applied
    update,         \* the key whose listeners are being called: the read lock is held
    to_call,        \* listeners that this update still has to call
    seen,           \* seen[h][k]: the version of k that listener h has last been told of,
                    \* or found when it subscribed; 0 when the replica starts afresh
    server          \* the task that handles messages, and whether a panic has ended it

listenerVars ==
    <<subscription, owner_writes, replica, pending, update, to_call, seen, server>>

Version == 0..Len(owner_writes)

ListenerTypeOK ==
    /\ subscription \in [Handle -> [state: {"none", "held", "dropping", "dropped", "forever"},
                                    prefix: Prefix]]
    /\ owner_writes \in Histories
    /\ replica \in NodeStates
    /\ pending \subseteq Version \ {0}
    /\ update \in Key \cup {NoUpdate}
    /\ to_call \subseteq Handle
    /\ seen \in [Handle -> [Key -> Version]]
    /\ server \in {"running", "panicked"}

NothingSeen == [h \in Handle |-> [k \in Key |-> 0]]

ListenerInit ==
    /\ subscription = [h \in Handle |-> [state |-> "none", prefix |-> CHOOSE p \in Prefix : TRUE]]
    /\ owner_writes \in Histories
    /\ replica = NewNodeState
    /\ pending = {}
    /\ update = NoUpdate
    /\ to_call = {}
    /\ seen = NothingSeen
    /\ server = "running"

-----------------------------------------------------------------------------
(* The table of listeners *)

\* The order of strings, as BTreeMap has it.
LexLess(s, t) ==
    \/ IsStrictPrefix(s, t)
    \/ \E i \in DOMAIN s \cap DOMAIN t :
          /\ s[i] < t[i]
          /\ \A j \in 1..(i - 1) : s[j] = t[j]

LexLeq(s, t) == s = t \/ LexLess(s, t)

\* Listeners in the table: a handle's listener stays there until its drop has
\* taken the write lock; `forever` leaves it there for good.
Registered == {h \in Handle : subscription[h].state \in {"held", "dropping", "forever"}}

ListenersOf(prefix) == {h \in Registered : subscription[h].prefix = prefix}

\* Faulty variant: the range of prefixes stops short of the key itself.
PrefixRangeExcludingKey(key) ==
    {p \in Prefix : LexLeq(<<key[1]>>, p) /\ LexLess(p, key)}

\* The prefixes from the first character of the key up to the key.
PrefixRange(key) ==
    {p \in Prefix : LexLeq(<<key[1]>>, p) /\ LexLeq(p, key)}

\* The slice key[0..1] is not a character: trigger_event panics there.
Unsliceable(key) == key # <<>> /\ key[1] \in WideChar

\* trigger_event: the listeners of the empty prefix, then those of the range
\* whose prefix the key really has.
Triggered(key) ==
    ListenersOf(<<>>)
    \cup (IF key = <<>> \/ Unsliceable(key) THEN {}
          ELSE UNION {ListenersOf(p) : p \in {q \in PrefixRange(key) : IsPrefix(q, key)}})

-----------------------------------------------------------------------------
(* Subscriptions *)

\* subscribe_event is a method of Chitchat: it waits for the delta that is
\* being applied.
SubscribeEvent(h, prefix) ==
    /\ pending = {} /\ update = NoUpdate
    /\ subscription[h].state = "none"
    /\ subscription' = [subscription EXCEPT ![h] = [state |-> "held", prefix |-> prefix]]
    /\ seen' = [seen EXCEPT ![h] = [k \in Key |-> replica.key_values[k].version]]
    /\ UNCHANGED <<owner_writes, replica, pending, update, to_call, server>>

Forever(h) ==
    /\ subscription[h].state = "held"
    /\ subscription' = [subscription EXCEPT ![h].state = "forever"]
    /\ UNCHANGED <<owner_writes, replica, pending, update, to_call, seen, server>>

\* A handle goes out of scope; its drop waits for the write lock.
DropHandle(h) ==
    /\ subscription[h].state = "held"
    /\ subscription' = [subscription EXCEPT ![h].state = "dropping"]
    /\ UNCHANGED <<owner_writes, replica, pending, update, to_call, seen, server>>

\* The write lock is free between any two updates, also of one delta.
RemoveListener(h) ==
    /\ subscription[h].state = "dropping"
    /\ update = NoUpdate
    /\ subscription' = [subscription EXCEPT ![h].state = "dropped"]
    /\ UNCHANGED <<owner_writes, replica, pending, update, to_call, seen, server>>

-----------------------------------------------------------------------------
(* The replica *)

\* The server's task takes up its next message or gossip round.
ServerIdle == server = "running" /\ pending = {} /\ update = NoUpdate

\* A delta with some of the owner's writes.  It starts from version 0: one that
\* starts above the replica is dropped whole, and any other is applied as if it
\* started there.
OwnerDelta(gc, versions, max) ==
    LET Carried(k) == {v \in versions : owner_writes[v].key = k}
        Mutation(v) == [value |-> owner_writes[v].value, version |-> v,
                        status |-> owner_writes[v].status, left |-> 0]
    IN  [from_version_excluded |-> 0,
         last_gc_version |-> gc,
         key_values |-> [k \in Key |-> IF Carried(k) = {} THEN Vacant
                                       ELSE Mutation(CHOOSE v \in Carried(k) : TRUE)],
         max_version |-> max]

\* A delta has one mutation for a key at most, a SetMaxVersion only if it has
\* none at all, and its sender has collected up to some deletion.
PossibleDelta(gc, versions, max) ==
    /\ gc # 0 => ScheduledForDeletion(owner_writes[gc])
    /\ \A v, w \in versions : owner_writes[v].key = owner_writes[w].key => v = w
    /\ versions # {} => max = 0

NewVersions(s, d) == {d.key_values[k].version : k \in NewMutations(s, d)}

\* prepare_apply_delta lets the delta be applied to what there is; one with
\* nothing new changes nothing.
ReceiveDelta(d) ==
    /\ ServerIdle
    /\ Applicable(replica, d)
    /\ NewVersions(replica, d) # {}
    /\ pending' = NewVersions(replica, d)
    /\ UNCHANGED <<subscription, owner_writes, replica, update, to_call, seen, server>>

\* prepare_apply_delta resets the replica, which keeps its listeners.
ReceiveReset(d) ==
    /\ ServerIdle
    /\ InvitesReset(replica, d)
    /\ replica' = ResetNodeState(d)
    /\ pending' = NewVersions(replica', d)
    /\ seen' = NothingSeen
    /\ UNCHANGED <<subscription, owner_writes, update, to_call, server>>

\* set_versioned_value for a write of the owner: an outdated value changes
\* nothing and tells nobody, a deletion tells nobody.
ApplyVersion(v) ==
    LET w == owner_writes[v]
    IN  /\ replica' = SetVersionedValue(replica, w.key, VersionedValue(w.value, v, w.status))
        /\ IF replica.key_values[w.key].version >= v \/ w.status = "Deleted"
           THEN UNCHANGED <<update, to_call>>
           ELSE update' = w.key /\ to_call' = Triggered(w.key)

\* Faulty variant: the mutations are applied in no particular order.
ApplyAnyMutation ==
    /\ update = NoUpdate
    /\ \E v \in pending : ApplyVersion(v) /\ pending' = pending \ {v}
    /\ UNCHANGED <<subscription, owner_writes, seen, server>>

\* The next mutation of the delta, by increasing version.
ApplyMutation ==
    /\ update = NoUpdate
    /\ \E v \in pending :
          /\ \A w \in pending : v <= w
          /\ ApplyVersion(v)
          /\ pending' = pending \ {v}
    /\ UNCHANGED <<subscription, owner_writes, seen, server>>

\* The callback of one listener returns.
CallListener(h) ==
    /\ h \in to_call
    /\ \A g \in to_call : LexLeq(subscription[h].prefix, subscription[g].prefix)
    /\ seen' = [seen EXCEPT ![h][update] = replica.key_values[update].version]
    /\ to_call' = to_call \ {h}
    /\ UNCHANGED <<subscription, owner_writes, replica, pending, update, server>>

TriggerReturns ==
    /\ update # NoUpdate /\ ~Unsliceable(update)
    /\ to_call = {}
    /\ update' = NoUpdate
    /\ UNCHANGED <<subscription, owner_writes, replica, pending, to_call, seen, server>>

\* The slice panics once the listeners of the empty prefix are called.  The
\* panic releases the locks on its way up through apply_delta to the server's
\* task: the rest of the delta is not applied, and no other message is.
TriggerPanics ==
    /\ update # NoUpdate /\ Unsliceable(update)
    /\ to_call = {}
    /\ update' = NoUpdate
    /\ pending' = {}
    /\ server' = "panicked"
    /\ UNCHANGED <<subscription, owner_writes, replica, to_call, seen>>

CollectTombstones ==
    /\ ServerIdle
    /\ replica' = GcKeysMarkedForDeletion(replica)
    /\ UNCHANGED <<subscription, owner_writes, pending, update, to_call, seen, server>>

\* The failure detector gives the owner up; it may be learnt again later.
ForgetNode ==
    /\ ServerIdle
    /\ replica' = NewNodeState
    /\ seen' = NothingSeen
    /\ UNCHANGED <<subscription, owner_writes, pending, update, to_call, server>>

TimePasses ==
    /\ ServerIdle
    /\ replica' = Age(replica)
    /\ UNCHANGED <<subscription, owner_writes, pending, update, to_call, seen, server>>

ListenerNext ==
    \/ \E h \in Handle, p \in Prefix : SubscribeEvent(h, p)
    \/ \E h \in Handle : CallListener(h) \/ Forever(h) \/ DropHandle(h) \/ RemoveListener(h)
    \/ \E gc, max \in Version, versions \in SUBSET (Version \ {0}) :
          /\ PossibleDelta(gc, versions, max)
          /\ \/ ReceiveDelta(OwnerDelta(gc, versions, max))
             \/ ReceiveReset(OwnerDelta(gc, versions, max))
    \/ ApplyMutation
    \/ TriggerReturns
    \/ TriggerPanics
    \/ CollectTombstones
    \/ ForgetNode
    \/ TimePasses

ListenerSpec == ListenerInit /\ [][ListenerNext]_listenerVars

-----------------------------------------------------------------------------
(* Properties *)

\* Between updates, a listener has been told of the value that the replica
\* holds of every key with its prefix, also after a reset and after the owner
\* was forgotten and learnt again: the range of the table that trigger_event
\* looks at misses no prefix of the key.  Keys whose first character is wide
\* are exempt, but for listeners of the empty prefix: trigger_event panics
\* before it calls the others, although subscribe_event promises a call for
\* every key.
ListenersUpToDate ==
    update = NoUpdate =>
        \A h \in Registered, k \in Key :
            (/\ Visible(replica.key_values[k])
             /\ IsPrefix(subscription[h].prefix, k)
             /\ Unsliceable(k) => subscription[h].prefix = <<>>)
                => seen[h][k] = replica.key_values[k].version

\* A callback is called only for a key that has its prefix and only until the
\* drop of its handle has returned, and the version it is told of is later
\* than every one it was told of, of any key, since the replica last started
\* afresh: the callbacks come in the order of the owner's writes and none is
\* repeated, whatever order the deltas come in.  (After a reset, or once the
\* node was forgotten, what is learnt again is told again.)
ToldInOrder ==
    [][\A h \in Handle :
          CallListener(h) =>
              /\ h \in Registered
              /\ IsPrefix(subscription[h].prefix, update)
              /\ \A k \in Key : seen[h][k] < replica.key_values[update].version]_listenerVars
=============================================================================
