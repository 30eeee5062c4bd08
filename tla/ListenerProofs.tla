---------------------------- MODULE ListenerProofs ----------------------------
(***************************************************************************)
(* Proofs about KeyListeners, for every set of prefixes, keys and handles  *)
(* and every history of the owner's writes: the walk over the table of     *)
(* listeners finds every prefix of a key (of a key that it can slice), so  *)
(* that no listener misses a value, and no listener is told of a version   *)
(* twice or out of order, until the replica starts afresh.                 *)
(*                                                                         *)
(* The facts about NodeState that this rests on are those of               *)
(* ChitchatProofs: what is well formed there is well formed here.          *)
(***************************************************************************)
EXTENDS KeyListeners, ChitchatProofs, SequenceTheorems

-----------------------------------------------------------------------------
(* Strings *)

\* A prefix is a shorter string with the same characters.
LEMMA PrefixChars ==
    ASSUME NEW s \in Seq(Nat), NEW t \in Seq(Nat)
    PROVE  IsPrefix(s, t) <=> Len(s) <= Len(t) /\ \A i \in 1..Len(s) : s[i] = t[i]
<1>1. SubSeq(s, 1, Len(s)) = s
  OBVIOUS
<1>2. ASSUME Len(s) <= Len(t)
      PROVE  /\ SubSeq(t, 1, Len(s)) \in Seq(Nat)
             /\ Len(SubSeq(t, 1, Len(s))) = Len(s)
             /\ \A i \in 1..Len(s) : SubSeq(t, 1, Len(s))[i] = t[i]
  BY <1>2
<1> QED
  BY <1>1, <1>2 DEF IsPrefix

\* The range of the table that trigger_event walks misses no prefix of the key:
\* every non-empty prefix lies between the first character and the key itself.
LEMMA RangeComplete ==
    ASSUME NEW p \in Prefix, NEW k \in Key, IsPrefix(p, k), p # <<>>
    PROVE  k # <<>> /\ p \in PrefixRange(k)
<1> USE StringAssumption
<1>1. p \in Seq(Nat) /\ k \in Seq(Nat) /\ Len(p) \in Nat /\ Len(p) > 0
  OBVIOUS
<1>2. Len(p) <= Len(k) /\ \A i \in 1..Len(p) : p[i] = k[i]
  BY <1>1, PrefixChars
<1>3. k # <<>> /\ p[1] = k[1] /\ k[1] \in Nat
  BY <1>1, <1>2
<1> DEFINE c == <<k[1]>>
<1>4. c \in Seq(Nat) /\ Len(c) = 1 /\ c[1] = k[1]
  BY <1>3
<1>5. IsPrefix(c, p)
  <2>1. \A i \in 1..1 : c[i] = p[i]
    BY <1>3, <1>4
  <2>2. Len(c) <= Len(p)
    BY <1>1, <1>4
  <2> HIDE DEF c
  <2>3. \A i \in 1..Len(c) : c[i] = p[i]
    BY <1>4, <2>1
  <2> QED
    BY <1>1, <1>4, <2>2, <2>3, PrefixChars, Zenon
<1>6. LexLeq(c, p)
  BY <1>5 DEF LexLeq, LexLess, IsStrictPrefix
<1>7. LexLeq(p, k)
  BY DEF LexLeq, LexLess, IsStrictPrefix
<1> QED
  BY <1>3, <1>6, <1>7 DEF PrefixRange

\* trigger_event calls exactly the listeners whose prefix the key has, those of
\* the empty prefix alone if it cannot slice the key.
LEMMA TriggeredExactly ==
    ASSUME ListenerTypeOK, NEW k \in Key, NEW h \in Handle
    PROVE  h \in Triggered(k) <=>
               /\ h \in Registered
               /\ IsPrefix(subscription[h].prefix, k)
               /\ Unsliceable(k) => subscription[h].prefix = <<>>
<1> USE StringAssumption
<1> DEFINE p == subscription[h].prefix
<1>1. p \in Prefix /\ p \in Seq(Nat) /\ k \in Seq(Nat)
  BY DEF ListenerTypeOK
<1>2. p = <<>> => IsPrefix(p, k)
  <2>1. SUFFICES ASSUME p = <<>> PROVE IsPrefix(p, k)
    OBVIOUS
  <2>2. Len(p) = 0 /\ Len(k) \in Nat /\ 1..0 = {}
    BY <1>1, <2>1
  <2> HIDE DEF p
  <2> QED
    BY <1>1, <2>2, PrefixChars
<1>3. ASSUME k = <<>>, IsPrefix(p, k) PROVE p = <<>>
  BY <1>1, <1>3, PrefixChars
<1>4. p # <<>> /\ IsPrefix(p, k) => p \in PrefixRange(k)
  BY <1>1, RangeComplete
<1> HIDE DEF p
<1>5. h \in Triggered(k) <=>
          /\ h \in Registered
          /\ \/ p = <<>>
             \/ k # <<>> /\ ~Unsliceable(k) /\ p \in PrefixRange(k) /\ IsPrefix(p, k)
  BY DEF Triggered, ListenersOf, p
<1> QED
  BY <1>2, <1>3, <1>4, <1>5 DEF p

-----------------------------------------------------------------------------
(* The deltas *)

\* A delta made of the owner's writes is well formed.
LEMMA OwnerDeltaWellFormed ==
    ASSUME ListenerTypeOK, NEW gc \in Version, NEW max \in Version,
           NEW versions \in SUBSET (Version \ {0})
    PROVE  WellFormedDelta(Len(owner_writes), OwnerDelta(gc, versions, max))
<1> DEFINE n == Len(owner_writes)
           Carried(k) == {v \in versions : owner_writes[v].key = k}
           Mutation(v) == [value |-> owner_writes[v].value, version |-> v,
                           status |-> owner_writes[v].status, left |-> 0]
           kv == [k \in Key |-> IF Carried(k) = {} THEN Vacant
                                ELSE Mutation(CHOOSE v \in Carried(k) : TRUE)]
<1>1. owner_writes \in Seq(OwnerWrites) /\ n \in Nat
  BY HistoryAssumption DEF ListenerTypeOK
<1>2. versions \subseteq 1..n /\ gc \in 0..n /\ max \in 0..n
  BY <1>1 DEF Version
<1>3. \A v \in 1..n : Mutation(v) \in Entry /\ Mutation(v).version = v
  <2> TAKE v \in 1..n
  <2>1. owner_writes[v] \in OwnerWrites /\ v \in Nat
    BY <1>1
  <2>2. owner_writes[v].value \in Value \cup {NoValue} /\ owner_writes[v].status \in Statuses
    BY <2>1 DEF OwnerWrites
  <2> QED
    BY <2>1, <2>2 DEF Entry
<1> HIDE DEF Mutation
<1>4. \A k \in Key : kv[k] \in Entry /\ kv[k].version <= n
  <2> TAKE k \in Key
  <2>1. Carried(k) # {} => (CHOOSE v \in Carried(k) : TRUE) \in 1..n
    BY <1>2
  <2> HIDE DEF Carried
  <2> QED
    BY <1>1, <1>3, <2>1, VacantType
<1>5. OwnerDelta(gc, versions, max) =
         [from_version_excluded |-> 0, last_gc_version |-> gc, key_values |-> kv,
          max_version |-> max]
  BY DEF OwnerDelta, Mutation
<1>6. kv \in [Key -> Entry]
  BY <1>4
<1> HIDE DEF kv
<1> QED
  BY <1>1, <1>2, <1>4, <1>5, <1>6 DEF WellFormedDelta, NodeDeltas

\* The versions that a delta has in store are above those of the state.
LEMMA NewVersionsAbove ==
    ASSUME NEW b \in Nat, NEW s, WellFormed(b, s), NEW d, WellFormedDelta(b, d)
    PROVE  /\ NewVersions(s, d) \subseteq 1..b
           /\ \A v \in NewVersions(s, d) : v > s.max_version
<1>1. \A k \in Key : d.key_values[k].version \in Nat /\ d.key_values[k].version <= b
  BY DEF WellFormedDelta, NodeDeltas, Entry
<1>2. \A k \in NewMutations(s, d) : k \in Key /\ d.key_values[k].version > s.max_version
  BY DEF NewMutations, DeltaKeys
<1>3. s.max_version \in Nat
  BY DEF WellFormed, NodeStates
<1> QED
  BY <1>1, <1>2, <1>3 DEF NewVersions

\* set_versioned_value of a write that is above everything the state has seen.
LEMMA SetNewest ==
    ASSUME NEW b \in Nat, NEW s, WellFormed(b, s), NEW k \in Key, NEW x \in Value \cup {NoValue},
           NEW status \in Statuses, NEW v \in 1..b, v > s.max_version
    PROVE  LET t == SetVersionedValue(s, k, VersionedValue(x, v, status))
           IN  /\ WellFormed(b, t)
               /\ t.max_version = v
               /\ t.key_values[k].version = v
               /\ t.key_values[k].status = status
               /\ \A j \in Key \ {k} : t.key_values[j] = s.key_values[j]
<1> DEFINE e == VersionedValue(x, v, status)
           kv == [s.key_values EXCEPT ![k] = e]
<1>1. /\ s \in NodeStates /\ s.max_version \in Nat /\ s.last_gc_version \in Nat
      /\ s.last_gc_version <= b
      /\ \A j \in Key : /\ s.key_values[j] \in Entry
                        /\ s.key_values[j].version \in Nat
                        /\ s.key_values[j].version <= s.max_version
  BY DEF WellFormed, NodeStates, Entry
<1>2. e \in Entry /\ e.version = v /\ e.status = status
  BY VersionedValueType
<1>3. Max({v, s.max_version}) = v
  BY <1>1 DEF Max
<1> HIDE DEF e
<1>4. SetVersionedValue(s, k, e) = StateOf(kv, v, s.last_gc_version)
  <2>1. ~(s.key_values[k].version >= e.version)
    BY <1>1, <1>2
  <2> QED
    BY <1>1, <1>2, <1>3, <2>1 DEF SetVersionedValue, NodeStates
<1>5. kv \in [Key -> Entry] /\ kv[k] = e /\ \A j \in Key \ {k} : kv[j] = s.key_values[j]
  BY <1>1, <1>2 DEF NodeStates
<1>6. \A j \in Key : kv[j].version <= v
  BY <1>1, <1>2, <1>5
<1> HIDE DEF kv
<1>7. WellFormed(b, StateOf(kv, v, s.last_gc_version))
  BY <1>1, <1>5, <1>6 DEF WellFormed, StateOf, NodeStates
<1> QED
  BY <1>2, <1>4, <1>5, <1>7 DEF StateOf, e

-----------------------------------------------------------------------------
(* The inductive invariant *)

\* Listener h is to hear of the value of k that the replica holds.
Concerns(h, k) ==
    /\ Visible(replica.key_values[k])
    /\ IsPrefix(subscription[h].prefix, k)
    /\ Unsliceable(k) => subscription[h].prefix = <<>>

\* What a delta still has in store is above everything that was applied, and
\* nobody has been told of more than what was applied.  While an update is
\* under way, its version is the highest; the listeners it still has to call
\* are registered, its key has their prefix, all they were told of is older,
\* and nobody else is behind.
ListenerInv ==
    /\ ListenerTypeOK
    /\ WellFormed(Len(owner_writes), replica)
    /\ \A v \in pending : v > replica.max_version
    /\ \A h \in Handle, k \in Key : seen[h][k] <= replica.max_version
    /\ to_call \subseteq Registered
    /\ update = NoUpdate => to_call = {}
    /\ update # NoUpdate => replica.key_values[update].version = replica.max_version
    /\ \A h \in to_call : /\ IsPrefix(subscription[h].prefix, update)
                          /\ \A k \in Key : seen[h][k] < replica.max_version
    /\ \A h \in Registered, k \in Key :
          Concerns(h, k) =>
              seen[h][k] = replica.key_values[k].version \/ (k = update /\ h \in to_call)

\* The types that the invariant gives to the parts of the state.
LEMMA ReplicaTypes ==
    ASSUME ListenerInv
    PROVE  /\ Len(owner_writes) \in Nat
           /\ owner_writes \in Seq(OwnerWrites)
           /\ Version = 0..Len(owner_writes)
           /\ replica \in NodeStates
           /\ replica.max_version \in Version
           /\ \A k \in Key : /\ replica.key_values[k].version \in Version
                             /\ replica.key_values[k].version <= replica.max_version
<1>1. owner_writes \in Seq(OwnerWrites) /\ Len(owner_writes) \in Nat
  BY HistoryAssumption DEF ListenerInv, ListenerTypeOK
<1>2. /\ replica \in NodeStates /\ replica.max_version \in Nat
      /\ replica.max_version <= Len(owner_writes)
      /\ \A k \in Key : /\ replica.key_values[k].version \in Nat
                        /\ replica.key_values[k].version <= replica.max_version
  BY DEF ListenerInv, WellFormed, NodeStates, Entry
<1> QED
  BY <1>1, <1>2 DEF Version

\* Subscribing: the listener starts from what there is.
LEMMA SubscribeStep ==
    ASSUME ListenerInv, NEW h \in Handle, NEW p \in Prefix, SubscribeEvent(h, p)
    PROVE  ListenerInv'
<1> USE DEF ListenerInv, ListenerTypeOK
<1>1. /\ update = NoUpdate /\ to_call = {} /\ pending = {}
      /\ UNCHANGED <<owner_writes, replica, pending, update, to_call, server>>
      /\ subscription' = [subscription EXCEPT ![h] = [state |-> "held", prefix |-> p]]
      /\ seen' = [seen EXCEPT ![h] = [k \in Key |-> replica.key_values[k].version]]
  BY DEF SubscribeEvent
<1>2. subscription' \in [Handle -> [state: {"none", "held", "dropping", "dropped", "forever"},
                                    prefix: Prefix]]
  BY <1>1
<1>3. /\ Version' = Version
      /\ \A k \in Key : /\ replica.key_values[k].version \in Version
                        /\ replica.key_values[k].version <= replica.max_version
  BY <1>1, ReplicaTypes DEF Version
<1>4. seen' \in [Handle -> [Key -> Version]]
  BY <1>1, <1>3
<1>5. \A k \in Key : seen'[h][k] = replica.key_values[k].version
  BY <1>1
<1>6. \A g \in Handle \ {h} : subscription'[g] = subscription[g] /\ seen'[g] = seen[g]
  BY <1>1
<1>7. \A g \in Handle, k \in Key : seen'[g][k] <= replica.max_version
  BY <1>3, <1>5, <1>6
<1>8. \A g \in Registered', k \in Key : Concerns(g, k)' => seen'[g][k] = replica.key_values[k].version
  BY <1>1, <1>5, <1>6 DEF Registered, Concerns
<1>9. WellFormed(Len(owner_writes), replica)'
  BY <1>1
<1> QED
  BY <1>1, <1>2, <1>3, <1>4, <1>7, <1>8, <1>9

\* A handle changes its state, and its listener stays in the table or leaves it
\* between two updates.
LEMMA HandleStep ==
    ASSUME ListenerInv, NEW h \in Handle, Forever(h) \/ DropHandle(h) \/ RemoveListener(h)
    PROVE  ListenerInv'
<1> USE DEF ListenerInv, ListenerTypeOK
<1>1. UNCHANGED <<owner_writes, replica, pending, update, to_call, seen, server>>
  BY DEF Forever, DropHandle, RemoveListener
<1>2. /\ subscription' \in [Handle -> [state: {"none", "held", "dropping", "dropped", "forever"},
                                       prefix: Prefix]]
      /\ \A g \in Handle : subscription'[g].prefix = subscription[g].prefix
  <2>1. PICK state \in {"dropping", "dropped", "forever"} :
           subscription' = [subscription EXCEPT ![h].state = state]
    BY DEF Forever, DropHandle, RemoveListener
  <2> QED
    BY <2>1
<1>3. Registered' \subseteq Registered
  BY DEF Forever, DropHandle, RemoveListener, Registered
<1>4. to_call \subseteq Registered'
  BY DEF Forever, DropHandle, RemoveListener, Registered
<1>5. \A g \in Registered', k \in Key : Concerns(g, k)' <=> Concerns(g, k)
  BY <1>1, <1>2 DEF Concerns, Registered
<1>6. \A g \in to_call' : /\ IsPrefix(subscription'[g].prefix, update')
                          /\ \A k \in Key : seen'[g][k] < replica'.max_version
  BY <1>1, <1>2
<1>7. Version' = Version /\ WellFormed(Len(owner_writes), replica)'
  BY <1>1 DEF Version
<1> QED
  BY <1>1, <1>2, <1>3, <1>4, <1>5, <1>6, <1>7

\* The replica is brought to another state without anyone being told: what it
\* holds was there already, or it starts afresh and so do the listeners.
LEMMA ReplicaStep ==
    ASSUME ListenerInv, update = NoUpdate, UNCHANGED <<subscription, owner_writes, update, to_call, server>>,
           WellFormed(Len(owner_writes), replica'),
           pending' \subseteq 1..Len(owner_writes),
           \A v \in pending' : v > replica'.max_version,
           \/ /\ seen' = seen
              /\ replica'.max_version = replica.max_version
              /\ \A k \in Key :
                    \/ ~Visible(replica'.key_values[k])
                    \/ /\ replica'.key_values[k].version = replica.key_values[k].version
                       /\ replica'.key_values[k].status = replica.key_values[k].status
           \/ /\ seen' = NothingSeen
              /\ \A k \in Key : replica'.key_values[k] = Vacant
    PROVE  ListenerInv'
<1>1. /\ Len(owner_writes) \in Nat /\ Version = 0..Len(owner_writes) /\ Version' = Version
      /\ to_call = {} /\ to_call' = {} /\ update' = NoUpdate
      /\ Registered' = Registered /\ Registered \subseteq Handle
  BY ReplicaTypes DEF ListenerInv, Version, Registered
<1>2. replica' \in NodeStates /\ replica'.max_version \in Nat
  BY DEF WellFormed, NodeStates
<1>3. pending' \subseteq Version' \ {0}
  BY <1>1
<1>4. /\ seen' \in [Handle -> [Key -> Version']]
      /\ \A h \in Handle, k \in Key : seen'[h][k] <= replica'.max_version
      /\ \A h \in Registered', k \in Key : Concerns(h, k)' => seen'[h][k] = replica'.key_values[k].version
  <2>1. CASE /\ seen' = seen
             /\ replica'.max_version = replica.max_version
             /\ \A k \in Key :
                   \/ ~Visible(replica'.key_values[k])
                   \/ /\ replica'.key_values[k].version = replica.key_values[k].version
                      /\ replica'.key_values[k].status = replica.key_values[k].status
    <3>1. \A h \in Registered', k \in Key : Concerns(h, k)' => Concerns(h, k)
      BY <1>1, <2>1 DEF Concerns, Visible, Present
    <3>2. \A h \in Registered', k \in Key : Concerns(h, k)' =>
             replica'.key_values[k].version = replica.key_values[k].version
      BY <2>1 DEF Concerns
    <3> QED
      BY <1>1, <2>1, <3>1, <3>2 DEF ListenerInv, ListenerTypeOK
  <2>2. CASE seen' = NothingSeen /\ \A k \in Key : replica'.key_values[k] = Vacant
    <3>1. \A h \in Handle, k \in Key : ~Concerns(h, k)'
      BY <2>2, VacantType DEF Concerns, Visible
    <3>2. /\ seen' \in [Handle -> [Key -> Version']]
          /\ \A h \in Handle, k \in Key : seen'[h][k] = 0
      BY <1>1, <2>2 DEF NothingSeen
    <3> QED
      BY <1>1, <1>2, <3>1, <3>2
  <2> QED
    BY <2>1, <2>2
<1>5. WellFormed(Len(owner_writes), replica)'
  OBVIOUS
<1> QED
  BY <1>1, <1>2, <1>3, <1>4, <1>5 DEF ListenerInv, ListenerTypeOK

\* A delta is taken up, on top of what there is or afresh.
LEMMA DeltaStep ==
    ASSUME ListenerInv, NEW gc \in Version, NEW max \in Version,
           NEW versions \in SUBSET (Version \ {0}),
           \/ ReceiveDelta(OwnerDelta(gc, versions, max))
           \/ ReceiveReset(OwnerDelta(gc, versions, max))
    PROVE  ListenerInv'
<1> DEFINE d == OwnerDelta(gc, versions, max)
           n == Len(owner_writes)
<1>1. n \in Nat /\ WellFormed(n, replica)
  BY ReplicaTypes DEF ListenerInv
<1>2. WellFormedDelta(n, d)
  BY OwnerDeltaWellFormed DEF ListenerInv
<1> HIDE DEF d
<1>3. CASE ReceiveDelta(d)
  <2>1. /\ update = NoUpdate /\ pending' = NewVersions(replica, d)
        /\ UNCHANGED <<subscription, owner_writes, replica, update, to_call, seen, server>>
    BY <1>3 DEF ReceiveDelta, ServerIdle
  <2>2. pending' \subseteq 1..n /\ \A v \in pending' : v > replica.max_version
    BY <1>1, <1>2, <2>1, NewVersionsAbove
  <2> QED
    BY <1>1, <2>1, <2>2, ReplicaStep
<1>4. CASE ReceiveReset(d)
  <2>1. /\ update = NoUpdate /\ replica' = ResetNodeState(d)
        /\ pending' = NewVersions(replica', d) /\ seen' = NothingSeen
        /\ UNCHANGED <<subscription, owner_writes, update, to_call, server>>
    BY <1>4 DEF ReceiveReset, ServerIdle
  <2>2. WellFormed(n, replica') /\ \A k \in Key : replica'.key_values[k] = Vacant
    BY <1>1, <1>2, <2>1, ResetWellFormed
  <2>3. pending' \subseteq 1..n /\ \A v \in pending' : v > replica'.max_version
    BY <1>1, <1>2, <2>1, <2>2, NewVersionsAbove
  <2> QED
    BY <2>1, <2>2, <2>3, ReplicaStep
<1> QED
  BY <1>3, <1>4 DEF d

\* Time passes, tombstones are collected, or the owner is forgotten.
LEMMA UpkeepStep ==
    ASSUME ListenerInv, CollectTombstones \/ ForgetNode \/ TimePasses
    PROVE  ListenerInv'
<1> DEFINE n == Len(owner_writes)
<1>1. n \in Nat /\ WellFormed(n, replica)
  BY ReplicaTypes DEF ListenerInv
<1>2. /\ update = NoUpdate /\ pending = {} /\ pending' = {}
      /\ UNCHANGED <<subscription, owner_writes, update, to_call, server>>
  BY DEF CollectTombstones, ForgetNode, TimePasses, ServerIdle
<1>3. CASE CollectTombstones
  <2>1. replica' = GcKeysMarkedForDeletion(replica) /\ seen' = seen
    BY <1>3 DEF CollectTombstones
  <2>2. /\ WellFormed(n, replica') /\ replica'.max_version = replica.max_version
        /\ \A k \in Key : replica'.key_values[k] = Vacant
                          \/ replica'.key_values[k] = replica.key_values[k]
    BY <1>1, <2>1, GcWellFormed
  <2>3. \A k \in Key :
           \/ ~Visible(replica'.key_values[k])
           \/ /\ replica'.key_values[k].version = replica.key_values[k].version
              /\ replica'.key_values[k].status = replica.key_values[k].status
    BY <2>2, VacantType DEF Visible
  <2> QED
    BY <1>2, <2>1, <2>2, <2>3, ReplicaStep
<1>4. CASE ForgetNode
  <2>1. replica' = NewNodeState /\ seen' = NothingSeen
    BY <1>4 DEF ForgetNode
  <2>2. WellFormed(n, replica') /\ \A k \in Key : replica'.key_values[k] = Vacant
    BY <1>1, <2>1, NewNodeStateWellFormed DEF NewNodeState, StateOf
  <2> QED
    BY <1>2, <2>1, <2>2, ReplicaStep
<1>5. CASE TimePasses
  <2>1. replica' = Age(replica) /\ seen' = seen
    BY <1>5 DEF TimePasses
  <2>2. /\ WellFormed(n, replica') /\ replica'.max_version = replica.max_version
        /\ \A k \in Key : /\ replica'.key_values[k].version = replica.key_values[k].version
                          /\ replica'.key_values[k].status = replica.key_values[k].status
    BY <1>1, <2>1, AgeWellFormed
  <2> QED
    BY <1>2, <2>1, <2>2, ReplicaStep
<1> QED
  BY <1>3, <1>4, <1>5

\* The lowest of the versions in store is applied: everyone whose prefix the key
\* has is to be called, or nobody if it is a deletion.
LEMMA MutationStep ==
    ASSUME ListenerInv, ApplyMutation
    PROVE  ListenerInv'
<1> DEFINE n == Len(owner_writes)
<1>1. /\ n \in Nat /\ WellFormed(n, replica) /\ Version = 0..n
      /\ owner_writes \in Seq(OwnerWrites)
      /\ replica.max_version \in Version
      /\ \A k \in Key : /\ replica.key_values[k].version \in Version
                        /\ replica.key_values[k].version <= replica.max_version
  BY ReplicaTypes DEF ListenerInv
<1>2. update = NoUpdate /\ to_call = {} /\ UNCHANGED <<subscription, owner_writes, seen, server>>
  BY DEF ApplyMutation, ListenerInv
<1>3. PICK v \in pending : (\A w \in pending : v <= w) /\ ApplyVersion(v) /\ pending' = pending \ {v}
  BY DEF ApplyMutation
<1>4. v \in 1..n /\ v > replica.max_version /\ pending \subseteq 1..n
  BY <1>1 DEF ListenerInv, ListenerTypeOK
<1>5. PICK k \in Key, x \in Value \cup {NoValue}, status \in Statuses :
         owner_writes[v].key = k /\ owner_writes[v].value = x /\ owner_writes[v].status = status
  <2>1. owner_writes[v] \in OwnerWrites
    BY <1>1, <1>4
  <2> QED
    BY <2>1 DEF OwnerWrites
<1>6. /\ replica' = SetVersionedValue(replica, k, VersionedValue(x, v, status))
      /\ IF replica.key_values[k].version >= v \/ status = "Deleted"
         THEN UNCHANGED <<update, to_call>>
         ELSE update' = k /\ to_call' = Triggered(k)
  BY <1>3, <1>5 DEF ApplyVersion
<1>7. /\ WellFormed(n, replica') /\ replica'.max_version = v
      /\ replica'.key_values[k].version = v /\ replica'.key_values[k].status = status
      /\ \A j \in Key \ {k} : replica'.key_values[j] = replica.key_values[j]
  <2> DEFINE t == SetVersionedValue(replica, k, VersionedValue(x, v, status))
  <2> HIDE DEF n
  <2>1. /\ WellFormed(n, t) /\ t.max_version = v
        /\ t.key_values[k].version = v /\ t.key_values[k].status = status
        /\ \A j \in Key \ {k} : t.key_values[j] = replica.key_values[j]
    BY <1>1, <1>4, SetNewest
  <2>2. replica' = t
    BY <1>6
  <2> HIDE DEF t
  <2> QED
    BY <2>1, <2>2
<1>8. ~(replica.key_values[k].version >= v)
  BY <1>1, <1>4, <1>5
<1>9. /\ Version' = Version /\ WellFormed(Len(owner_writes), replica)'
      /\ replica' \in NodeStates
      /\ Registered' = Registered /\ Registered \subseteq Handle
  BY <1>2, <1>7 DEF Version, Registered, WellFormed
<1>10. /\ pending' \subseteq Version' \ {0}
       /\ \A w \in pending' : w > replica'.max_version
  BY <1>1, <1>3, <1>4, <1>7, <1>9
<1>11. \A h \in Handle, j \in Key : seen'[h][j] < v /\ seen'[h][j] <= replica'.max_version
  <2> TAKE h \in Handle, j \in Key
  <2>1. seen[h][j] \in Version /\ seen[h][j] <= replica.max_version
    BY DEF ListenerInv, ListenerTypeOK
  <2> QED
    BY <1>1, <1>2, <1>4, <1>7, <2>1
<1>12. \A h \in Registered', j \in Key \ {k} :
          Concerns(h, j)' => seen'[h][j] = replica'.key_values[j].version
  BY <1>2, <1>7, <1>9 DEF Concerns, ListenerInv
<1>13. CASE status = "Deleted"
  <2>1. UNCHANGED <<update, to_call>>
    BY <1>6, <1>13
  <2>2. \A h \in Registered' : ~Concerns(h, k)'
    BY <1>7, <1>13 DEF Concerns, Visible
  <2>3. \A h \in Registered', j \in Key :
           Concerns(h, j)' => seen'[h][j] = replica'.key_values[j].version
    BY <1>12, <2>2
  <2> QED
    BY <1>2, <1>9, <1>10, <1>11, <2>1, <2>3 DEF ListenerInv, ListenerTypeOK
<1>14. CASE status # "Deleted"
  <2>1. update' = k /\ to_call' = Triggered(k)
    BY <1>6, <1>8, <1>14
  <2>2. Triggered(k) \subseteq Registered
    BY DEF Triggered, ListenersOf
  <2>3. \A h \in Handle : h \in Triggered(k) <=>
           /\ h \in Registered
           /\ IsPrefix(subscription[h].prefix, k)
           /\ Unsliceable(k) => subscription[h].prefix = <<>>
    BY <1>5, TriggeredExactly DEF ListenerInv
  <2>4. \A h \in to_call' : /\ IsPrefix(subscription'[h].prefix, update')
                            /\ \A j \in Key : seen'[h][j] < replica'.max_version
    BY <1>2, <1>7, <1>9, <1>11, <2>1, <2>2, <2>3
  <2>5. \A h \in Registered', j \in Key :
           Concerns(h, j)' => seen'[h][j] = replica'.key_values[j].version
                              \/ (j = update' /\ h \in to_call')
    <3> TAKE h \in Registered', j \in Key
    <3>1. CASE j = k
      BY <1>2, <1>9, <2>1, <2>3, <3>1 DEF Concerns
    <3>2. CASE j # k
      BY <1>12, <3>2
    <3> QED
      BY <3>1, <3>2
  <2>6. /\ update' \in Key \cup {NoUpdate} /\ update' # NoUpdate
        /\ to_call' \subseteq Handle /\ to_call' \subseteq Registered'
        /\ replica'.key_values[update'].version = replica'.max_version
    BY <1>5, <1>7, <1>9, <2>1, <2>2, UpdateAssumption
  <2> QED
    BY <1>2, <1>9, <1>10, <1>11, <2>4, <2>5, <2>6 DEF ListenerInv, ListenerTypeOK
<1> QED
  BY <1>13, <1>14

\* One listener is called, and is up to date from then on.
LEMMA CallStep ==
    ASSUME ListenerInv, NEW h \in Handle, CallListener(h)
    PROVE  ListenerInv'
<1> USE DEF ListenerInv, ListenerTypeOK
<1>1. /\ h \in to_call /\ to_call' = to_call \ {h}
      /\ seen' = [seen EXCEPT ![h][update] = replica.key_values[update].version]
      /\ UNCHANGED <<subscription, owner_writes, replica, pending, update, server>>
  BY DEF CallListener
<1>2. update \in Key /\ update # NoUpdate
  BY <1>1
<1>3. /\ replica.max_version \in Version /\ Version' = Version
      /\ replica.key_values[update].version = replica.max_version
  BY <1>1, <1>2, ReplicaTypes DEF Version
<1>4. seen' \in [Handle -> [Key -> Version]]
  BY <1>1, <1>2, <1>3
<1>5. /\ seen'[h][update] = replica.key_values[update].version
      /\ \A g \in Handle, k \in Key : g # h \/ k # update => seen'[g][k] = seen[g][k]
  BY <1>1, <1>2
<1>6. Registered' = Registered /\ \A g \in Handle, k \in Key : Concerns(g, k)' <=> Concerns(g, k)
  BY <1>1 DEF Registered, Concerns
<1>7. \A g \in Handle, k \in Key : seen'[g][k] <= replica.max_version
  <2> TAKE g \in Handle, k \in Key
  <2>1. CASE g = h /\ k = update
    BY <1>3, <1>5, <2>1, ReplicaTypes
  <2>2. CASE ~(g = h /\ k = update)
    BY <1>5, <2>2
  <2> QED
    BY <2>1, <2>2
<1>8. \A g \in to_call' : /\ IsPrefix(subscription'[g].prefix, update')
                          /\ \A k \in Key : seen'[g][k] < replica'.max_version
  BY <1>1, <1>5
<1>9. \A g \in Registered', k \in Key :
         Concerns(g, k)' => seen'[g][k] = replica'.key_values[k].version
                            \/ (k = update' /\ g \in to_call')
  <2> TAKE g \in Registered', k \in Key
  <2>1. g \in Handle
    BY DEF Registered
  <2> QED
    BY <1>1, <1>5, <1>6, <2>1
<1>10. WellFormed(Len(owner_writes), replica)'
  BY <1>1
<1> QED
  BY <1>1, <1>2, <1>3, <1>4, <1>6, <1>7, <1>8, <1>9, <1>10

\* The walk over the table ends, by returning or by the panic that drops the rest
\* of the delta.
LEMMA EndStep ==
    ASSUME ListenerInv, TriggerReturns \/ TriggerPanics
    PROVE  ListenerInv'
<1>1. /\ update' = NoUpdate /\ to_call = {} /\ pending' \subseteq pending
      /\ UNCHANGED <<subscription, owner_writes, replica, to_call, seen>>
      /\ server' \in {server, "panicked"}
  BY DEF TriggerReturns, TriggerPanics
<1>2. /\ Version' = Version /\ Registered' = Registered
      /\ WellFormed(Len(owner_writes), replica)'
  BY <1>1 DEF ListenerInv, Version, Registered
<1>3. \A h \in Registered', k \in Key :
         Concerns(h, k)' => seen'[h][k] = replica'.key_values[k].version
  BY <1>1, <1>2 DEF ListenerInv, Concerns
<1> QED
  BY <1>1, <1>2, <1>3 DEF ListenerInv, ListenerTypeOK

\* The invariant of the listeners holds in every reachable state.
THEOREM ListenerInvariant == ListenerSpec => []ListenerInv
<1>1. ListenerInit => ListenerInv
  <2> SUFFICES ASSUME ListenerInit PROVE ListenerInv
    OBVIOUS
  <2> USE StringAssumption
  <2>1. subscription \in [Handle -> [state: {"none", "held", "dropping", "dropped", "forever"},
                                     prefix: Prefix]]
    BY DEF ListenerInit
  <2>2. owner_writes \in Histories /\ Len(owner_writes) \in Nat
    BY HistoryAssumption DEF ListenerInit
  <2>3. /\ WellFormed(Len(owner_writes), replica) /\ replica \in NodeStates
        /\ replica.max_version = 0
    BY <2>2, NewNodeStateWellFormed DEF ListenerInit, WellFormed, NewNodeState, StateOf
  <2>4. /\ seen \in [Handle -> [Key -> Version]]
        /\ \A h \in Handle, k \in Key : seen[h][k] = 0
    BY <2>2 DEF ListenerInit, NothingSeen, Version
  <2>5. Registered = {}
    BY DEF ListenerInit, Registered
  <2> QED
    BY <2>1, <2>2, <2>3, <2>4, <2>5 DEF ListenerInit, ListenerInv, ListenerTypeOK
<1>2. ListenerInv /\ [ListenerNext]_listenerVars => ListenerInv'
  <2> SUFFICES ASSUME ListenerInv, [ListenerNext]_listenerVars
               PROVE  ListenerInv'
    OBVIOUS
  <2>1. CASE UNCHANGED listenerVars
    BY <2>1 DEF listenerVars, ListenerInv, ListenerTypeOK, Registered, Concerns, Version
  <2> QED
    BY <2>1, SubscribeStep, HandleStep, DeltaStep, UpkeepStep, MutationStep, CallStep, EndStep
       DEF ListenerNext
<1> QED
  BY <1>1, <1>2, PTL DEF ListenerSpec

-----------------------------------------------------------------------------
(* What follows from it *)

\* Between updates every listener has been told of the values that the replica
\* holds of the keys with its prefix, across resets and relearning; listeners of
\* a non-empty prefix only for keys that trigger_event can slice.
THEOREM ListenersStayUpToDate == ListenerSpec => []ListenersUpToDate
<1>1. ListenerInv => ListenersUpToDate
  BY DEF ListenerInv, ListenersUpToDate, Concerns
<1> QED
  BY <1>1, ListenerInvariant, PTL

\* A callback is called for a registered listener and a key with its prefix only,
\* with a version above every one it was told of since the replica last started
\* afresh: nothing is told twice or out of order (trigger_event, apply_delta).
THEOREM ListenersToldInOrder == ListenerSpec => ToldInOrder
<1> DEFINE InOrder(h) ==
             CallListener(h) =>
                 /\ h \in Registered
                 /\ IsPrefix(subscription[h].prefix, update)
                 /\ \A k \in Key : seen[h][k] < replica.key_values[update].version
<1>1. ListenerInv => \A h \in Handle : InOrder(h)
  <2> SUFFICES ASSUME ListenerInv, NEW h \in Handle, CallListener(h)
               PROVE  /\ h \in Registered
                      /\ IsPrefix(subscription[h].prefix, update)
                      /\ \A k \in Key : seen[h][k] < replica.key_values[update].version
    OBVIOUS
  <2>1. h \in to_call
    BY DEF CallListener
  <2> QED
    BY <2>1 DEF ListenerInv
<1> QED
  BY <1>1, ListenerInvariant, PTL DEF ListenerSpec, ToldInOrder
=============================================================================
