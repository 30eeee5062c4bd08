---------------------------- MODULE ChitchatProofs ----------------------------
(***************************************************************************)
(* Proofs about Chitchat, for every set of nodes and keys and every bound. *)
(***************************************************************************)
EXTENDS Chitchat, WellFoundedInduction, FiniteSetTheorems, TLAPS

-----------------------------------------------------------------------------
(* Maxima of bounded sets *)

\* A non-empty set of naturals has a least element.
LEMMA MinExists ==
    ASSUME NEW S \in SUBSET Nat, S # {}
    PROVE  \E x \in S : \A y \in S : x <= y
<1> DEFINE R == {ss \in Nat \X Nat : ss[1] < ss[2]}
<1>1. IsWellFoundedOn(R, Nat)
  BY NatLessThanWellFounded, Zenon DEF OpToRel
<1> HIDE DEF R
<1>2. PICK x \in S : \A y \in S : ~(<<y, x>> \in R)
  BY <1>1, WFMin, Zenon
<1>3. \A y \in S : ~(y < x)
  BY <1>2 DEF R
<1>4. QED
  BY <1>3

\* Max picks the greatest element of a set of naturals that is bounded above.
LEMMA MaxExists ==
    ASSUME NEW S \in SUBSET Nat, S # {}, NEW b \in Nat, \A x \in S : x <= b
    PROVE  Max(S) \in S /\ \A y \in S : y <= Max(S)
<1> DEFINE T == {b - x : x \in S}
<1>1. T \in SUBSET Nat
  OBVIOUS
<1>2. T # {}
  <2>1. PICK x \in S : TRUE
    OBVIOUS
  <2>2. b - x \in T
    BY <2>1
  <2> QED
    BY <2>2
<1> HIDE DEF T
<1>3. PICK t \in T : \A u \in T : t <= u
  BY <1>1, <1>2, MinExists
<1>4. PICK x \in S : t = b - x
  BY <1>3 DEF T
<1>5. \A y \in S : x >= y
  <2>1. \A y \in S : b - y \in T
    BY DEF T
  <2> QED
    BY <1>3, <1>4, <2>1
<1>6. QED
  BY <1>5 DEF Max

\* The maximum of a natural and of finitely or infinitely many others below b.
LEMMA MaxWith ==
    ASSUME NEW a \in Nat, NEW S \in SUBSET Nat, NEW b \in Nat, a <= b, \A x \in S : x <= b
    PROVE  /\ Max({a} \cup S) \in Nat
           /\ a <= Max({a} \cup S)
           /\ Max({a} \cup S) <= b
           /\ \A x \in S : x <= Max({a} \cup S)
           /\ Max({a} \cup S) = a \/ Max({a} \cup S) \in S
<1> DEFINE T == {a} \cup S
<1>1. T \in SUBSET Nat /\ T # {} /\ \A x \in T : x <= b
  OBVIOUS
<1> HIDE DEF T
<1>2. Max(T) \in T /\ \A y \in T : y <= Max(T)
  BY <1>1, MaxExists
<1>3. a \in T /\ S \subseteq T /\ \A x \in T : x = a \/ x \in S
  BY DEF T
<1>4. QED
  BY <1>1, <1>2, <1>3 DEF T

-----------------------------------------------------------------------------
(***************************************************************************)
(* Shape.  Every version in a state or a delta is bounded, which is what   *)
(* makes the Max in the operators well defined.                            *)
(***************************************************************************)

\* A node state of the right type whose versions are at most b.
WellFormed(b, s) ==
    /\ s \in NodeStates
    /\ s.max_version <= b
    /\ s.last_gc_version <= b
    /\ \A k \in Key : s.key_values[k].version <= s.max_version

\* A node delta of the right type whose versions are at most b.
WellFormedDelta(b, d) ==
    /\ d \in NodeDeltas
    /\ d.last_gc_version <= b
    /\ d.max_version <= b
    /\ \A k \in Key : d.key_values[k].version <= b

\* An absent key is an entry like any other, of version 0.
LEMMA VacantType == Vacant \in Entry /\ ~Present(Vacant) /\ Vacant.version = 0
  BY DEF Vacant, Entry, Statuses, Present

\* NodeState::new satisfies every bound.
LEMMA NewNodeStateWellFormed ==
    ASSUME NEW b \in Nat
    PROVE  WellFormed(b, NewNodeState)
  BY VacantType DEF WellFormed, NewNodeState, StateOf, NodeStates

\* A stamped value has the fields it was given and a full grace period ahead.
LEMMA VersionedValueType ==
    ASSUME NEW v \in Value \cup {NoValue}, NEW version \in Nat, NEW status \in Statuses
    PROVE  /\ VersionedValue(v, version, status) \in Entry
           /\ VersionedValue(v, version, status).version = version
           /\ VersionedValue(v, version, status).value = v
           /\ VersionedValue(v, version, status).status = status
           /\ VersionedValue(v, version, status).left
                = IF status = "Set" THEN 0 ELSE GracePeriod
  BY GraceAssumption DEF VersionedValue, Entry, Statuses

\* One tick of the clock changes nothing but the time that is left.
LEMMA AgeWellFormed ==
    ASSUME NEW b \in Nat, NEW s, WellFormed(b, s)
    PROVE  /\ WellFormed(b, Age(s))
           /\ Age(s).max_version = s.max_version
           /\ Age(s).last_gc_version = s.last_gc_version
           /\ \A k \in Key :
                 /\ Age(s).key_values[k].version = s.key_values[k].version
                 /\ Age(s).key_values[k].value = s.key_values[k].value
                 /\ Age(s).key_values[k].status = s.key_values[k].status
                 /\ Age(s).key_values[k].left = Older(s.key_values[k].left)
<1>1. \A k \in Key : s.key_values[k] \in Entry
  BY DEF WellFormed, NodeStates
<1>2. \A k \in Key : Older(s.key_values[k].left) \in Nat
  BY <1>1 DEF Entry, Older
<1>3. \A k \in Key : [s.key_values[k] EXCEPT !.left = Older(s.key_values[k].left)] \in Entry
  BY <1>1, <1>2 DEF Entry
<1>4. Age(s) \in NodeStates
  BY <1>3 DEF Age, WellFormed, NodeStates
<1>5. \A k \in Key : Age(s).key_values[k]
                       = [s.key_values[k] EXCEPT !.left = Older(s.key_values[k].left)]
  BY DEF Age, WellFormed, NodeStates
<1>6. QED
  BY <1>1, <1>4, <1>5 DEF Age, WellFormed, NodeStates, Entry

-----------------------------------------------------------------------------
(* What the operations do to the shape *)

\* The effect of every write that is not ignored: key k gets a new value under
\* the next version.
Rewritten(s, k, v, status) ==
    StateOf([s.key_values EXCEPT ![k] = VersionedValue(v, s.max_version + 1, status)],
            s.max_version + 1,
            s.last_gc_version)

\* A write that is not ignored takes the next version and touches one key only.
LEMMA RewrittenWellFormed ==
    ASSUME NEW b \in Nat, NEW s, WellFormed(b, s), s.max_version < b,
           NEW k \in Key, NEW v \in Value \cup {NoValue}, NEW status \in Statuses
    PROVE  /\ WellFormed(b, Rewritten(s, k, v, status))
           /\ Rewritten(s, k, v, status).max_version = s.max_version + 1
           /\ Rewritten(s, k, v, status).last_gc_version = s.last_gc_version
           /\ Rewritten(s, k, v, status).key_values[k]
                = VersionedValue(v, s.max_version + 1, status)
           /\ \A j \in Key \ {k} :
                 Rewritten(s, k, v, status).key_values[j] = s.key_values[j]
<1> DEFINE e == VersionedValue(v, s.max_version + 1, status)
<1>1. s.max_version \in Nat /\ s \in NodeStates
  BY DEF WellFormed, NodeStates
<1>2. e \in Entry /\ e.version = s.max_version + 1
  BY <1>1, VersionedValueType
<1> HIDE DEF e
<1>3. \A j \in Key : s.key_values[j] \in Entry /\ s.key_values[j].version \in Nat
  BY <1>1 DEF NodeStates, Entry
<1>4. QED
  BY <1>1, <1>2, <1>3 DEF WellFormed, NodeStates, Rewritten, StateOf, e

\* Each of the four writes of the owner is ignored or rewrites the key.
LEMMA SetRewrites ==
    ASSUME NEW b \in Nat, NEW s, WellFormed(b, s), NEW k \in Key, NEW v,
           NEW status \in Statuses
    PROVE  SetVersionedValue(s, k, VersionedValue(v, s.max_version + 1, status))
             = Rewritten(s, k, v, status)
<1>1. /\ s.max_version \in Nat /\ s \in NodeStates
      /\ s.key_values[k].version \in Nat /\ s.key_values[k].version <= s.max_version
  BY DEF WellFormed, NodeStates, Entry
<1>2. Max({s.max_version + 1, s.max_version}) = s.max_version + 1
  BY <1>1 DEF Max
<1>3. VersionedValue(v, s.max_version + 1, status).version = s.max_version + 1
  BY DEF VersionedValue
<1>4. QED
  BY <1>1, <1>2, <1>3 DEF SetVersionedValue, Rewritten

\* set, set_with_ttl, delete and delete_after_ttl each do nothing, or rewrite their
\* key under the next version.
LEMMA WritesRewrite ==
    ASSUME NEW b \in Nat, NEW s, WellFormed(b, s), NEW k \in Key, NEW v, NEW new,
           \/ v \in Value /\ (new = Set(s, k, v) \/ new = SetWithTtl(s, k, v))
           \/ new = Delete(s, k)
           \/ new = DeleteAfterTtl(s, k)
    PROVE  \/ new = s
           \/ \E x \in Value \cup {NoValue}, status \in Statuses : new = Rewritten(s, k, x, status)
<1>1. /\ s \in NodeStates /\ s.key_values[k] \in Entry /\ s.max_version \in Nat
      /\ s.key_values[k].value \in Value \cup {NoValue}
  BY DEF WellFormed, NodeStates, Entry
<1>2. "Set" \in Statuses /\ "Deleted" \in Statuses /\ "DeleteAfterTtl" \in Statuses
  BY DEF Statuses
<1>3. CASE v \in Value /\ new = Set(s, k, v)
  BY <1>2, <1>3, SetRewrites DEF Set
<1>4. CASE v \in Value /\ new = SetWithTtl(s, k, v)
  BY <1>2, <1>4, SetRewrites DEF SetWithTtl
<1>5. CASE new = Delete(s, k)
  <2>1. new = s \/ new = Rewritten(s, k, NoValue, "Deleted")
    BY <1>1, <1>5 DEF Delete, Rewritten
  <2> QED
    BY <1>2, <2>1
<1>6. CASE new = DeleteAfterTtl(s, k)
  <2>1. new = s \/ new = Rewritten(s, k, s.key_values[k].value, "DeleteAfterTtl")
    BY <1>1, <1>6 DEF DeleteAfterTtl, Rewritten
  <2> QED
    BY <1>1, <1>2, <2>1
<1>7. QED
  BY <1>3, <1>4, <1>5, <1>6

\* Garbage collection empties the collectable entries and leaves max_version
\* alone; last_gc_version covers everything that was collected.
LEMMA GcWellFormed ==
    ASSUME NEW b \in Nat, NEW s, WellFormed(b, s)
    PROVE  LET t == GcKeysMarkedForDeletion(s)
           IN  /\ WellFormed(b, t)
               /\ t.max_version = s.max_version
               /\ s.last_gc_version <= t.last_gc_version
               /\ \A k \in Key : t.key_values[k] = IF k \in Collectable(s) THEN Vacant
                                                   ELSE s.key_values[k]
               /\ \A k \in Collectable(s) : s.key_values[k].version <= t.last_gc_version
               /\ \/ t.last_gc_version = s.last_gc_version
                  \/ \E k \in Collectable(s) : t.last_gc_version = s.key_values[k].version
<1> DEFINE V == {s.key_values[k].version : k \in Collectable(s)}
           g == Max({s.last_gc_version} \cup V)
           kv == [k \in Key |-> IF k \in Collectable(s) THEN Vacant ELSE s.key_values[k]]
<1>1. /\ s \in NodeStates
      /\ s.last_gc_version \in Nat /\ s.max_version \in Nat
      /\ s.last_gc_version <= b /\ s.max_version <= b
      /\ \A k \in Key : /\ s.key_values[k] \in Entry
                        /\ s.key_values[k].version \in Nat
                        /\ s.key_values[k].version <= s.max_version
  BY DEF WellFormed, NodeStates, Entry
<1>2. Collectable(s) \subseteq Key
  BY DEF Collectable
<1>3. V \in SUBSET Nat /\ \A x \in V : x <= b
  BY <1>1, <1>2
<1>4. /\ g \in Nat /\ s.last_gc_version <= g /\ g <= b
      /\ \A x \in V : x <= g
      /\ g = s.last_gc_version \/ g \in V
  BY <1>1, <1>3, MaxWith
<1>5. GcKeysMarkedForDeletion(s) = StateOf(kv, s.max_version, g)
  BY DEF GcKeysMarkedForDeletion
<1>6. kv \in [Key -> Entry] /\ \A k \in Key : kv[k].version <= s.max_version
  BY <1>1, VacantType
<1> HIDE DEF g, kv
<1>7. WellFormed(b, StateOf(kv, s.max_version, g))
  BY <1>1, <1>4, <1>6 DEF WellFormed, StateOf, NodeStates
<1>8. QED
  BY <1>4, <1>5, <1>7 DEF StateOf, kv

\* Applying the mutations of a delta.
LEMMA ApplyMutationsWellFormed ==
    ASSUME NEW b \in Nat, NEW s, WellFormed(b, s), NEW d, WellFormedDelta(b, d)
    PROVE  LET t == ApplyMutations(s, d)
               new == NewMutations(s, d)
           IN  /\ WellFormed(b, t)
               /\ t.last_gc_version = s.last_gc_version
               /\ s.max_version <= t.max_version
               /\ t.max_version = s.max_version
                    \/ \E k \in new : t.max_version = d.key_values[k].version
               /\ \A k \in Key :
                     t.key_values[k] =
                        IF k \in new /\ s.key_values[k].version < d.key_values[k].version
                        THEN VersionedValue(d.key_values[k].value, d.key_values[k].version,
                                            d.key_values[k].status)
                        ELSE s.key_values[k]
<1> DEFINE new == NewMutations(s, d)
           V == {d.key_values[k].version : k \in new}
           top == Max({s.max_version} \cup V)
           Stamped(e) == VersionedValue(e.value, e.version, e.status)
           kv == [k \in Key |-> IF k \in new /\ s.key_values[k].version < d.key_values[k].version
                                THEN Stamped(d.key_values[k]) ELSE s.key_values[k]]
<1>1. /\ s \in NodeStates
      /\ s.last_gc_version \in Nat /\ s.max_version \in Nat
      /\ s.last_gc_version <= b /\ s.max_version <= b
      /\ \A k \in Key : /\ s.key_values[k] \in Entry
                        /\ s.key_values[k].version \in Nat
                        /\ s.key_values[k].version <= s.max_version
  BY DEF WellFormed, NodeStates, Entry
<1>2. \A k \in Key : /\ d.key_values[k] \in Entry
                     /\ d.key_values[k].version \in Nat
                     /\ d.key_values[k].version <= b
                     /\ d.key_values[k].value \in Value \cup {NoValue}
                     /\ d.key_values[k].status \in Statuses
  BY DEF WellFormedDelta, NodeDeltas, Entry
<1>3. new \subseteq Key
  BY DEF NewMutations, DeltaKeys
<1>4. V \in SUBSET Nat /\ \A x \in V : x <= b
  BY <1>2, <1>3
<1>5. /\ top \in Nat /\ s.max_version <= top /\ top <= b
      /\ \A x \in V : x <= top
      /\ top = s.max_version \/ top \in V
  BY <1>1, <1>4, MaxWith
<1>6. \A k \in Key : /\ Stamped(d.key_values[k]) \in Entry
                     /\ Stamped(d.key_values[k]).version = d.key_values[k].version
  BY <1>2, VersionedValueType
<1>7. ApplyMutations(s, d) = StateOf(kv, top, s.last_gc_version)
  BY DEF ApplyMutations
<1>8. kv \in [Key -> Entry]
  BY <1>1, <1>6
<1>9. \A k \in Key : kv[k].version <= top
  <2> SUFFICES ASSUME NEW k \in Key PROVE kv[k].version <= top
    OBVIOUS
  <2>1. CASE k \in new /\ s.key_values[k].version < d.key_values[k].version
    BY <1>5, <1>6, <2>1
  <2>2. CASE ~(k \in new /\ s.key_values[k].version < d.key_values[k].version)
    BY <1>1, <1>5, <2>2
  <2>3. QED
    BY <2>1, <2>2
<1> HIDE DEF top, kv
<1>10. WellFormed(b, StateOf(kv, top, s.last_gc_version))
  BY <1>1, <1>5, <1>8, <1>9 DEF WellFormed, StateOf, NodeStates
<1>11. QED
  BY <1>5, <1>7, <1>10 DEF StateOf, kv

\* The state a reset starts from.
LEMMA ResetWellFormed ==
    ASSUME NEW b \in Nat, NEW d, WellFormedDelta(b, d)
    PROVE  /\ WellFormed(b, ResetNodeState(d))
           /\ ResetNodeState(d).last_gc_version = d.last_gc_version
           /\ \A k \in Key : ResetNodeState(d).key_values[k] = Vacant
  BY VacantType DEF WellFormed, WellFormedDelta, ResetNodeState, StateOf, NodeStates, NodeDeltas

\* A delta is ignored, applied to the state, or applied to a reset state.
LEMMA ApplyDeltaCases ==
    ASSUME NEW s, NEW d
    PROVE  \/ ApplyDelta(s, d) = s
           \/ Applicable(s, d) /\ ApplyDelta(s, d) = ApplyMutations(s, d)
           \/ InvitesReset(s, d) /\ ApplyDelta(s, d) = ApplyMutations(ResetNodeState(d), d)
  BY DEF ApplyDelta

\* Applying a delta keeps a replica within the bounds of its owner.
LEMMA ApplyDeltaWellFormed ==
    ASSUME NEW b \in Nat, NEW s, WellFormed(b, s), NEW d, WellFormedDelta(b, d)
    PROVE  WellFormed(b, ApplyDelta(s, d))
  BY ApplyDeltaCases, ApplyMutationsWellFormed, ResetWellFormed

\* A node delta carries entries of the state it was made from, and its
\* last_gc_version.
LEMMA NodeDeltaWellFormed ==
    ASSUME NEW b \in Nat, NEW s, WellFormed(b, s), NEW from \in Nat, NEW room
    PROVE  LET d == NodeDelta(s, from, room)
           IN  /\ WellFormedDelta(b, d)
               /\ d.last_gc_version = s.last_gc_version
               /\ d.max_version = s.max_version \/ d.max_version = 0
               /\ \A k \in Key :
                     \/ d.key_values[k] = Vacant
                     \/ /\ d.key_values[k].version = s.key_values[k].version
                        /\ d.key_values[k].value = s.key_values[k].value
                        /\ d.key_values[k].status = s.key_values[k].status
<1> DEFINE d == NodeDelta(s, from, room)
           Sent(k) == [s.key_values[k] EXCEPT !.left = 0]
<1>1. /\ s.last_gc_version \in Nat /\ s.max_version \in Nat
      /\ s.last_gc_version <= b /\ s.max_version <= b
      /\ \A k \in Key : /\ s.key_values[k] \in Entry
                        /\ s.key_values[k].version \in Nat
                        /\ s.key_values[k].version <= s.max_version
  BY DEF WellFormed, NodeStates, Entry
<1>2. \A k \in Key : /\ Sent(k) \in Entry
                     /\ Sent(k).version = s.key_values[k].version
                     /\ Sent(k).value = s.key_values[k].value
                     /\ Sent(k).status = s.key_values[k].status
  BY <1>1 DEF Entry
<1>3. /\ d.from_version_excluded = from
      /\ d.last_gc_version = s.last_gc_version
      /\ d.max_version = s.max_version \/ d.max_version = 0
  BY DEF NodeDelta
<1>4. \A k \in Key : d.key_values[k] = Vacant \/ d.key_values[k] = Sent(k)
  BY DEF NodeDelta
<1>5. d \in [from_version_excluded: {from}, last_gc_version: {s.last_gc_version},
             key_values: [Key -> {d.key_values[k] : k \in Key}], max_version: {d.max_version}]
  BY DEF NodeDelta
<1> HIDE DEF d, Sent
<1>6. \A k \in Key : d.key_values[k] \in Entry /\ d.key_values[k].version <= b
  BY <1>1, <1>2, <1>4, VacantType
<1>7. d \in NodeDeltas
  BY <1>1, <1>3, <1>5, <1>6 DEF NodeDeltas
<1>8. WellFormedDelta(b, d)
  BY <1>1, <1>3, <1>6, <1>7 DEF WellFormedDelta
<1>9. QED
  BY <1>2, <1>3, <1>4, <1>8 DEF d

\* The delta that does not mention a node is within every bound.
LEMMA EmptyNodeDeltaWellFormed ==
    ASSUME NEW b \in Nat
    PROVE  WellFormedDelta(b, EmptyNodeDelta)
  BY VacantType DEF WellFormedDelta, EmptyNodeDelta, NodeDeltas

\* What a partial delta says of each node: nothing, or the node delta of a node
\* that the peer's digest is behind on.
LEMMA PartialDeltaCases ==
    ASSUME NEW states, NEW digest, NEW hidden, NEW room,
           NEW delta \in PartialDeltas(states, digest, hidden, room)
    PROVE  /\ delta = [m \in Node |-> delta[m]]
           /\ \A m \in Node :
                 \/ delta[m] = EmptyNodeDelta
                 \/ /\ m \in StaleNodes(states, digest, hidden)
                    /\ \E r \in 1..room :
                          delta[m] = NodeDelta(states[m], FromVersion(states[m], digest[m]), r)
<1> DEFINE stale == StaleNodes(states, digest, hidden)
           From(m) == FromVersion(states[m], digest[m])
           RoomFor(m, rank) == RoomAfter(states, digest, {x \in stale : rank[x] < rank[m]}, room)
<1>1. PICK rank : delta = [m \in Node |-> IF m \in stale /\ RoomFor(m, rank) \in 1..room
                                          THEN NodeDelta(states[m], From(m), RoomFor(m, rank))
                                          ELSE EmptyNodeDelta]
  BY Zenon DEF PartialDeltas
<1> HIDE DEF stale, From, RoomFor
<1>2. QED
  BY <1>1, Zenon DEF stale, From

\* Every delta that may be computed is within the bounds of the nodes it is about.
LEMMA PartialDeltaWellFormed ==
    ASSUME NEW states, \A m \in Node : WellFormed(WriteLimit[m], states[m]),
           NEW digest \in Digests, NEW hidden, NEW room,
           NEW delta \in PartialDeltas(states, digest, hidden, room)
    PROVE  delta \in Deltas /\ \A m \in Node : WellFormedDelta(WriteLimit[m], delta[m])
<1>1. \A m \in Node : WellFormedDelta(WriteLimit[m], delta[m])
  <2> SUFFICES ASSUME NEW m \in Node PROVE WellFormedDelta(WriteLimit[m], delta[m])
    OBVIOUS
  <2>1. WriteLimit[m] \in Nat
    BY BoundsAssumption
  <2>2. FromVersion(states[m], digest[m]) \in Nat
    BY DEF FromVersion, Digests, NodeDigests
  <2>3. QED
    BY <2>1, <2>2, PartialDeltaCases, EmptyNodeDeltaWellFormed, NodeDeltaWellFormed
<1>2. \A m \in Node : delta[m] \in NodeDeltas
  BY <1>1 DEF WellFormedDelta
<1>3. QED
  BY <1>1, <1>2, PartialDeltaCases DEF Deltas

-----------------------------------------------------------------------------
(* The type invariant *)

DeltaWellFormed(m) ==
    m.type \in {"SynAck", "Ack"} => \A x \in Node : WellFormedDelta(WriteLimit[x], m.delta[x])

\* TypeOK, strengthened by the bound on all versions: those of node m never
\* exceed WriteLimit[m].
TypeInv ==
    /\ TypeOK
    /\ \A n, m \in Node : WellFormed(WriteLimit[m], node_states[n][m])
    /\ \A m \in network : DeltaWellFormed(m)

\* compute_digest returns digests.
LEMMA DigestType ==
    ASSUME NEW states, \A m \in Node : WellFormed(WriteLimit[m], states[m]), NEW hidden
    PROVE  ComputeDigest(states, hidden) \in Digests
  BY DEF ComputeDigest, Digests, NodeDigests, WellFormed, NodeStates

\* The fields of a datagram, by its type.
LEMMA MessageFields ==
    ASSUME NEW m \in Messages
    PROVE  /\ m.src \in Node /\ m.dst \in Node /\ m.ttl \in Nat
           /\ m.type \in {"Syn", "SynAck", "Ack", "BadCluster"}
           /\ m.type \in {"Syn", "SynAck"} => m.digest \in Digests
           /\ m.type \in {"SynAck", "Ack"} => m.delta \in Deltas
  BY DEF Messages

\* A SYN is a datagram without a delta.
LEMMA SynType ==
    ASSUME NEW n \in Node, NEW p \in Node, NEW states,
           \A m \in Node : WellFormed(WriteLimit[m], states[m])
    PROVE  SynMessage(n, states, p) \in Messages /\ DeltaWellFormed(SynMessage(n, states, p))
<1>1. ComputeDigest(states, scheduled[n]) \in Digests
  BY DigestType
<1>2. QED
  BY <1>1, BoundsAssumption DEF SynMessage, Messages, DeltaWellFormed

\* Every action leaves the bounded types intact.  Only node_states[n] of one
\* node changes in most of them.
LEMMA UpdateStates ==
    ASSUME TypeInv, NEW n \in Node, NEW states,
           states = [m \in Node |-> states[m]],
           \A m \in Node : WellFormed(WriteLimit[m], states[m]),
           node_states' = [node_states EXCEPT ![n] = states]
    PROVE  /\ node_states' \in [Node -> [Node -> NodeStates]]
           /\ \A x, m \in Node : WellFormed(WriteLimit[m], node_states'[x][m])
<1>1. node_states \in [Node -> [Node -> NodeStates]]
  BY DEF TypeInv, TypeOK
<1>2. states \in [Node -> NodeStates]
  BY DEF WellFormed
<1>3. QED
  BY <1>1, <1>2 DEF TypeInv

\* The initial state satisfies the type invariant.
LEMMA TypeInvInit == Init => TypeInv
<1> SUFFICES ASSUME Init PROVE TypeInv
  OBVIOUS
<1>1. \A m \in Node : WriteLimit[m] \in Nat
  BY BoundsAssumption
<1>2. \A m \in Node : WellFormed(WriteLimit[m], NewNodeState)
  BY <1>1, NewNodeStateWellFormed
<1>3. Node = {} \/ NewNodeState \in NodeStates
  BY <1>2 DEF WellFormed
<1>4. node_states \in [Node -> [Node -> NodeStates]]
  BY <1>3 DEF Init
<1>5. \A n, m \in Node : WellFormed(WriteLimit[m], node_states[n][m])
  BY <1>2 DEF Init
<1>6. QED
  BY <1>4, <1>5 DEF Init, TypeInv, TypeOK

\* A state that differs from the old one in its own entry only.
LEMMA TypeInvOwnWrite ==
    ASSUME TypeInv, NEW n \in Node, NEW k \in Key, NEW v,
           \/ v \in Value /\ (SetKey(n, k, v) \/ SetKeyWithTtl(n, k, v))
           \/ DeleteKey(n, k) \/ DeleteKeyAfterTtl(n, k)
    PROVE  TypeInv'
<1> DEFINE s == node_states[n][n]
           b == WriteLimit[n]
<1>1. b \in Nat /\ WellFormed(b, s) /\ s.max_version < b
  BY BoundsAssumption DEF TypeInv, SetKey, SetKeyWithTtl, DeleteKey, DeleteKeyAfterTtl, MayWrite
<1>2. PICK new : /\ OwnWrite(n, k, new)
                 /\ \/ v \in Value /\ (new = Set(s, k, v) \/ new = SetWithTtl(s, k, v))
                    \/ new = Delete(s, k) \/ new = DeleteAfterTtl(s, k)
  BY DEF SetKey, SetKeyWithTtl, DeleteKey, DeleteKeyAfterTtl
<1> HIDE DEF s, b
<1>3. \/ new = s
      \/ \E x \in Value \cup {NoValue}, status \in Statuses : new = Rewritten(s, k, x, status)
  BY <1>1, <1>2, WritesRewrite
<1>4. WellFormed(b, new)
  BY <1>1, <1>3, RewrittenWellFormed
<1>5. new \in NodeStates /\ new.key_values[k] \in Entry
  BY <1>4 DEF WellFormed, NodeStates
<1>6. node_states' = [node_states EXCEPT ![n][n] = new] /\ node_states \in [Node -> [Node -> NodeStates]]
  BY <1>2 DEF OwnWrite, TypeInv, TypeOK
<1>7. node_states' \in [Node -> [Node -> NodeStates]]
  BY <1>5, <1>6
<1>8. \A x, m \in Node : WellFormed(WriteLimit[m], node_states'[x][m])
  BY <1>4, <1>6 DEF TypeInv, b
<1>9. history' \in [Node -> Seq(Write)]
  <2>1. [key |-> k, value |-> new.key_values[k].value, status |-> new.key_values[k].status,
         left |-> new.key_values[k].left] \in Write
    BY <1>5 DEF Write, Entry
  <2>2. history \in [Node -> Seq(Write)]
    BY DEF TypeInv, TypeOK
  <2>3. QED
    BY <1>2, <2>1, <2>2 DEF OwnWrite
<1>10. QED
  BY <1>2, <1>7, <1>8, <1>9 DEF OwnWrite, TypeInv, TypeOK, DeltaWellFormed

\* Collecting and forgetting in a gossip round preserve the type invariant.
LEMMA TypeInvGossip ==
    ASSUME TypeInv, NEW n \in Node, NEW peers \in SUBSET Node, NEW forgotten \in SUBSET scheduled[n],
           GossipMultiple(n, peers, forgotten)
    PROVE  TypeInv'
<1> DEFINE collected == [m \in Node |-> GcKeysMarkedForDeletion(node_states[n][m])]
           states == [m \in Node |-> IF m \in forgotten THEN NewNodeState ELSE collected[m]]
<1>1. \A m \in Node : WriteLimit[m] \in Nat /\ WellFormed(WriteLimit[m], node_states[n][m])
  BY BoundsAssumption DEF TypeInv
<1>2. \A m \in Node : WellFormed(WriteLimit[m], collected[m])
  BY <1>1, GcWellFormed
<1>3. \A m \in Node : WellFormed(WriteLimit[m], states[m])
  BY <1>1, <1>2, NewNodeStateWellFormed
<1>4. /\ network' = network \cup {SynMessage(n, collected, p) : p \in peers}
      /\ node_states' = [node_states EXCEPT ![n] = states]
      /\ scheduled' = [scheduled EXCEPT ![n] = @ \ forgotten]
      /\ history' = history
  BY DEF GossipMultiple, Send
<1> HIDE DEF collected
<1>5. states = [m \in Node |-> states[m]]
  OBVIOUS
<1> HIDE DEF states
<1>6. \A m \in network' : m \in Messages /\ DeltaWellFormed(m)
  BY <1>2, <1>4, SynType DEF TypeInv, TypeOK
<1>7. /\ node_states' \in [Node -> [Node -> NodeStates]]
      /\ \A x, m \in Node : WellFormed(WriteLimit[m], node_states'[x][m])
  BY <1>3, <1>4, <1>5, UpdateStates
<1>8. QED
  BY <1>4, <1>6, <1>7 DEF TypeInv, TypeOK, DeltaWellFormed

\* apply_delta on all the states a node holds keeps their bounds.
LEMMA ApplyDeltasWellFormed ==
    ASSUME TypeInv, NEW m \in network, m.type \in {"SynAck", "Ack"}
    PROVE  LET states == ApplyDeltas(node_states[m.dst], m.delta)
           IN  /\ states = [x \in Node |-> states[x]]
               /\ \A x \in Node : WellFormed(WriteLimit[x], states[x])
<1>1. m \in Messages /\ DeltaWellFormed(m)
  BY DEF TypeInv, TypeOK
<1>2. \A x \in Node : /\ WriteLimit[x] \in Nat
                      /\ WellFormed(WriteLimit[x], node_states[m.dst][x])
                      /\ WellFormedDelta(WriteLimit[x], m.delta[x])
  BY <1>1, MessageFields, BoundsAssumption DEF TypeInv, DeltaWellFormed
<1>3. QED
  BY <1>2, ApplyDeltaWellFormed DEF ApplyDeltas

\* process_message preserves the type invariant, whichever message it handles.
LEMMA TypeInvReceive ==
    ASSUME TypeInv, NEW m \in network, NEW duplicated \in BOOLEAN, Receive(m, duplicated)
    PROVE  TypeInv'
<1>1. m \in Messages /\ m.src \in Node /\ m.dst \in Node
  BY MessageFields DEF TypeInv, TypeOK
<1>2. Delivered(m, duplicated) \subseteq network
  BY DEF Delivered
<1>3. network \subseteq Messages /\ \A x \in network : DeltaWellFormed(x)
  BY DEF TypeInv, TypeOK
<1>4. \A x \in Node : WellFormed(WriteLimit[x], node_states[m.dst][x])
  BY <1>1 DEF TypeInv
<1>5. ASSUME NEW room \in Rooms, HandleSyn(m, duplicated, room)
      PROVE  TypeInv'
  <2> DEFINE states == node_states[m.dst]
             hidden == scheduled[m.dst]
  <2>1. m.type = "Syn" /\ UNCHANGED <<node_states, scheduled, history>>
    BY <1>5 DEF HandleSyn
  <2>2. PICK delta \in PartialDeltas(states, m.digest, hidden, room) :
            network' = Delivered(m, duplicated) \cup
                {[type |-> "SynAck", src |-> m.dst, dst |-> m.src, ttl |-> MaxDelay,
                  digest |-> ComputeDigest(states, hidden), delta |-> delta]}
    BY <1>5 DEF HandleSyn, Send
  <2>3. delta \in Deltas /\ \A x \in Node : WellFormedDelta(WriteLimit[x], delta[x])
    BY <1>1, <1>4, <2>1, PartialDeltaWellFormed, MessageFields
  <2>4. ComputeDigest(states, hidden) \in Digests
    BY <1>4, DigestType
  <2> HIDE DEF states, hidden
  <2>5. \A x \in network' : x \in Messages /\ DeltaWellFormed(x)
    BY <1>1, <1>2, <1>3, <2>2, <2>3, <2>4, BoundsAssumption DEF Messages, DeltaWellFormed
  <2>6. QED
    BY <2>1, <2>5 DEF TypeInv, TypeOK, DeltaWellFormed
<1>6. ASSUME NEW room \in Rooms, HandleSynAck(m, duplicated, room)
      PROVE  TypeInv'
  <2> DEFINE states == ApplyDeltas(node_states[m.dst], m.delta)
  <2>1. m.type = "SynAck" /\ UNCHANGED <<scheduled, history>>
    BY <1>6 DEF HandleSynAck
  <2>2. node_states' = [node_states EXCEPT ![m.dst] = states]
    BY <1>6 DEF HandleSynAck
  <2>3. PICK delta \in PartialDeltas(states, m.digest, scheduled[m.dst], room) :
            network' = Delivered(m, duplicated) \cup
                {[type |-> "Ack", src |-> m.dst, dst |-> m.src, ttl |-> MaxDelay, delta |-> delta]}
    BY <1>6 DEF HandleSynAck, Send
  <2>4. states = [x \in Node |-> states[x]] /\ \A x \in Node : WellFormed(WriteLimit[x], states[x])
    BY <2>1, ApplyDeltasWellFormed
  <2> HIDE DEF states
  <2>5. delta \in Deltas /\ \A x \in Node : WellFormedDelta(WriteLimit[x], delta[x])
    BY <1>1, <2>1, <2>4, PartialDeltaWellFormed, MessageFields
  <2>6. \A x \in network' : x \in Messages /\ DeltaWellFormed(x)
    BY <1>1, <1>2, <1>3, <2>3, <2>5, BoundsAssumption DEF Messages, DeltaWellFormed
  <2>7. /\ node_states' \in [Node -> [Node -> NodeStates]]
        /\ \A x, y \in Node : WellFormed(WriteLimit[y], node_states'[x][y])
    BY <1>1, <2>2, <2>4, UpdateStates
  <2>8. QED
    BY <2>1, <2>6, <2>7 DEF TypeInv, TypeOK, DeltaWellFormed
<1>7. CASE HandleAck(m, duplicated)
  <2> DEFINE states == ApplyDeltas(node_states[m.dst], m.delta)
  <2>1. /\ m.type = "Ack" /\ UNCHANGED <<scheduled, history>>
        /\ node_states' = [node_states EXCEPT ![m.dst] = states]
        /\ network' = Delivered(m, duplicated)
    BY <1>1, <1>7 DEF HandleAck, Send, TypeInv, TypeOK
  <2>2. states = [x \in Node |-> states[x]] /\ \A x \in Node : WellFormed(WriteLimit[x], states[x])
    BY <2>1, ApplyDeltasWellFormed
  <2> HIDE DEF states
  <2>3. /\ node_states' \in [Node -> [Node -> NodeStates]]
        /\ \A x, y \in Node : WellFormed(WriteLimit[y], node_states'[x][y])
    BY <1>1, <2>1, <2>2, UpdateStates
  <2>4. QED
    BY <1>2, <1>3, <2>1, <2>3 DEF TypeInv, TypeOK, DeltaWellFormed
<1>8. CASE HandleForeignSyn(m, duplicated)
  <2>1. \A x \in network' : x \in Messages /\ DeltaWellFormed(x)
    BY <1>1, <1>2, <1>3, <1>8, BoundsAssumption DEF HandleForeignSyn, Send, Messages, DeltaWellFormed
  <2>2. QED
    BY <1>8, <2>1 DEF HandleForeignSyn, TypeInv, TypeOK, DeltaWellFormed
<1>9. CASE HandleBadCluster(m, duplicated)
  BY <1>2, <1>3, <1>9 DEF HandleBadCluster, Send, TypeInv, TypeOK, DeltaWellFormed
<1>10. QED
  BY <1>5, <1>6, <1>7, <1>8, <1>9 DEF Receive

\* The writes of a history keep everything but the time that is left of them.
LEMMA AgeWritesType ==
    ASSUME NEW w \in Seq(Write)
    PROVE  /\ AgeWrites(w) \in Seq(Write)
           /\ Len(AgeWrites(w)) = Len(w)
           /\ \A v \in 1..Len(w) : /\ AgeWrites(w)[v].key = w[v].key
                                   /\ AgeWrites(w)[v].value = w[v].value
                                   /\ AgeWrites(w)[v].status = w[v].status
                                   /\ AgeWrites(w)[v].left = Older(w[v].left)
<1>1. \A v \in 1..Len(w) : w[v] \in Write /\ w[v].left \in Nat
  <2>1. \A v \in 1..Len(w) : w[v] \in Write
    OBVIOUS
  <2>2. QED
    BY <2>1 DEF Write
<1>2. \A v \in 1..Len(w) : Older(w[v].left) \in Nat
  BY <1>1 DEF Older
<1>3. \A v \in 1..Len(w) : [w[v] EXCEPT !.left = Older(w[v].left)] \in Write
  BY <1>1, <1>2 DEF Write
<1>4. Len(w) \in Nat
  OBVIOUS
<1>5. \A v \in 1..Len(w) : AgeWrites(w)[v] = [w[v] EXCEPT !.left = Older(w[v].left)]
  BY DEF AgeWrites
<1>6. AgeWrites(w) \in [1..Len(w) -> Write]
  BY <1>3 DEF AgeWrites
<1>7. AgeWrites(w) \in Seq(Write) /\ Len(AgeWrites(w)) = Len(w)
  BY <1>4, <1>6
<1>8. QED
  BY <1>1, <1>5, <1>7 DEF Write

\* A datagram that stays in flight for one more tick is otherwise the same.
LEMMA OlderMessage ==
    ASSUME NEW d \in Messages, d.ttl > 0, NEW m, m = [d EXCEPT !.ttl = @ - 1]
    PROVE  /\ m \in Messages
           /\ m.type = d.type /\ m.src = d.src /\ m.dst = d.dst /\ m.ttl = d.ttl - 1
           /\ d.type \in {"Syn", "SynAck"} => m.digest = d.digest
           /\ d.type \in {"SynAck", "Ack"} => m.delta = d.delta
<1>1. d.ttl \in Nat
  BY MessageFields
<1>2. CASE d \in [type: {"Syn"}, src: Node, dst: Node, ttl: Nat, digest: Digests]
  BY <1>1, <1>2 DEF Messages
<1>3. CASE d \in [type: {"SynAck"}, src: Node, dst: Node, ttl: Nat, digest: Digests, delta: Deltas]
  BY <1>1, <1>3 DEF Messages
<1>4. CASE d \in [type: {"Ack"}, src: Node, dst: Node, ttl: Nat, delta: Deltas]
  BY <1>1, <1>4 DEF Messages
<1>5. CASE d \in [type: {"BadCluster"}, src: Node, dst: Node, ttl: Nat]
  BY <1>1, <1>5 DEF Messages
<1>6. QED
  BY <1>2, <1>3, <1>4, <1>5 DEF Messages

\* The passing of time preserves the type invariant.
LEMMA TypeInvTick == ASSUME TypeInv, Tick PROVE TypeInv'
<1>1. \A n, m \in Node : WellFormed(WriteLimit[m], node_states'[n][m])
  BY AgeWellFormed, BoundsAssumption DEF Tick, TypeInv
<1>2. node_states' \in [Node -> [Node -> NodeStates]]
  BY <1>1 DEF WellFormed, Tick
<1>3. history' \in [Node -> Seq(Write)]
  BY AgeWritesType DEF Tick, TypeInv, TypeOK
<1>4. \A m \in network' : m \in Messages /\ DeltaWellFormed(m)
  <2> SUFFICES ASSUME NEW m \in network' PROVE m \in Messages /\ DeltaWellFormed(m)
    OBVIOUS
  <2>1. PICK d \in network : d.ttl > 0 /\ m = [d EXCEPT !.ttl = @ - 1]
    BY DEF Tick
  <2>2. d \in Messages /\ DeltaWellFormed(d)
    BY DEF TypeInv, TypeOK
  <2>3. QED
    BY <2>1, <2>2, OlderMessage DEF DeltaWellFormed
<1>5. QED
  BY <1>1, <1>2, <1>3, <1>4 DEF Tick, TypeInv, TypeOK, DeltaWellFormed

\* The type invariant is inductive.
LEMMA TypeInvNext == TypeInv /\ [Next]_vars => TypeInv'
<1> SUFFICES ASSUME TypeInv, [Next]_vars PROVE TypeInv'
  OBVIOUS
<1>1. CASE UNCHANGED vars
  BY <1>1 DEF vars, TypeInv, TypeOK, DeltaWellFormed
<1>2. ASSUME NEW n \in Node, NEW k \in Key, NEW v \in Value, SetKey(n, k, v) \/ SetKeyWithTtl(n, k, v)
      PROVE  TypeInv'
  BY <1>2, TypeInvOwnWrite
<1>3. ASSUME NEW n \in Node, NEW k \in Key, DeleteKey(n, k) \/ DeleteKeyAfterTtl(n, k)
      PROVE  TypeInv'
  BY <1>3, TypeInvOwnWrite
<1>4. ASSUME NEW n \in Node, NEW peers \in SUBSET Node, NEW forgotten \in SUBSET scheduled[n],
             GossipMultiple(n, peers, forgotten)
      PROVE  TypeInv'
  BY <1>4, TypeInvGossip
<1>5. ASSUME NEW n \in Node, NEW p \in Node, Gossip(n, p)
      PROVE  TypeInv'
  <2>1. SynMessage(n, node_states[n], p) \in Messages
        /\ DeltaWellFormed(SynMessage(n, node_states[n], p))
    BY SynType DEF TypeInv
  <2>2. QED
    BY <1>5, <2>1 DEF Gossip, Send, TypeInv, TypeOK, DeltaWellFormed
<1>6. ASSUME NEW m \in network, NEW duplicated \in BOOLEAN, Receive(m, duplicated)
      PROVE  TypeInv'
  BY <1>6, TypeInvReceive
<1>7. ASSUME NEW m \in network, Lose(m)
      PROVE  TypeInv'
  BY <1>7 DEF Lose, TypeInv, TypeOK, DeltaWellFormed
<1>8. ASSUME NEW n \in Node, NEW m \in Node, ChangeSchedule(n, m)
      PROVE  TypeInv'
  BY <1>8 DEF ChangeSchedule, TypeInv, TypeOK, DeltaWellFormed
<1>9. CASE Tick
  BY <1>9, TypeInvTick
<1>10. QED
  BY <1>1, <1>2, <1>3, <1>4, <1>5, <1>6, <1>7, <1>8, <1>9 DEF Next

\* Every reachable state is of the declared types, whatever is lost, delayed,
\* duplicated or truncated, and no node schedules itself for deletion.
THEOREM TypeCorrect == Spec => []TypeOK
<1>1. Spec => []TypeInv
  BY TypeInvInit, TypeInvNext, PTL DEF Spec
<1>2. TypeInv => TypeOK
  BY DEF TypeInv
<1>3. QED
  BY <1>1, <1>2, PTL

-----------------------------------------------------------------------------
(***************************************************************************)
(* Safety.  A node's own state is never touched by a delta as long as a    *)
(* datagram cannot be in flight for a whole grace period: MaxDelay <       *)
(* GracePeriod.  The argument: a tombstone of node n that some replica has *)
(* collected was written at least one grace period ago.  So n's digest in  *)
(* a SYN that is still in flight has seen it, and the reply's              *)
(* last_gc_version is below what n itself has reached: the reply does not  *)
(* invite n to reset.  All versions in the reply were n's own, so that n   *)
(* knows them.                                                             *)
(***************************************************************************)

\* A write waits for its deletion at most for the grace period.
HistoryOK(w) ==
    \A v \in 1..Len(w) : w[v].left <= IF w[v].status = "Set" THEN 0 ELSE GracePeriod

\* Version g is 0, or a deletion whose grace period is over for its owner.
CollectedWrite(w, g) ==
    g = 0 \/ (g \in 1..Len(w) /\ w[g].status # "Set" /\ w[g].left = 0)

\* Replica s of the node that made the writes w is authentic, and its clocks
\* for deletions do not run ahead of the owner's.
StateOK(w, s) ==
    /\ s.max_version <= Len(w)
    /\ CollectedWrite(w, s.last_gc_version)
    /\ \A k \in Key : Authentic(w, k, s.key_values[k])
    /\ \A k \in Key : Present(s.key_values[k]) =>
                          w[s.key_values[k].version].left <= s.key_values[k].left

DeltaOK(w, d) ==
    /\ d.max_version <= Len(w)
    /\ CollectedWrite(w, d.last_gc_version)
    /\ \A k \in Key : Authentic(w, k, d.key_values[k])

\* The deletions that a digest at version v has not seen are younger than the
\* digest itself.
RecentSince(w, v, ttl) ==
    \A x \in 1..Len(w) : (x > v /\ w[x].status # "Set") => w[x].left >= GracePeriod - MaxDelay + ttl

MessageOK(m) ==
    /\ m.ttl <= MaxDelay
    /\ m.type \in {"Syn", "SynAck"} =>
          RecentSince(history[m.src], m.digest[m.src].max_version, m.ttl)
    /\ m.type \in {"SynAck", "Ack"} =>
          /\ \A x \in Node : DeltaOK(history[x], m.delta[x])
          /\ \/ m.delta[m.dst].last_gc_version = 0
             \/ m.delta[m.dst].last_gc_version < Len(history[m.dst])

\* The inductive invariant.
SafetyInv ==
    /\ TypeInv
    /\ \A n \in Node : HistoryOK(history[n])
    /\ \A n, m \in Node : StateOK(history[m], node_states[n][m])
    /\ OwnStateIntact
    /\ \A m \in network : MessageOK(m)

-----------------------------------------------------------------------------
(* The last write of a key *)

\* The last write of a key among all the writes w: 0, or the greatest version of k.
LEMMA LatestVersionRange ==
    ASSUME NEW w \in Seq(Write), NEW k
    PROVE  LET v == LatestVersion(w, k, Len(w))
           IN  /\ v \in Nat /\ v <= Len(w)
               /\ v # 0 => v \in 1..Len(w) /\ w[v].key = k
               /\ \A x \in 1..Len(w) : w[x].key = k => x <= v
<1> DEFINE S == {v \in 1..Len(w) : w[v].key = k}
<1>1. 0 \in Nat /\ 0 <= Len(w) /\ Len(w) \in Nat /\ S \in SUBSET Nat /\ \A x \in S : x <= Len(w)
  OBVIOUS
<1>2. LatestVersion(w, k, Len(w)) = Max({0} \cup S)
  BY DEF LatestVersion
<1> HIDE DEF S
<1>3. /\ Max({0} \cup S) \in Nat /\ Max({0} \cup S) <= Len(w)
      /\ \A x \in S : x <= Max({0} \cup S)
      /\ Max({0} \cup S) = 0 \/ Max({0} \cup S) \in S
  BY <1>1, MaxWith, Zenon
<1>4. QED
  BY <1>2, <1>3 DEF S

\* A state that knows of no write agrees with any history.
LEMMA NewStateOK ==
    ASSUME NEW w \in Seq(Write)
    PROVE  StateOK(w, NewNodeState)
<1>1. /\ NewNodeState.max_version = 0 /\ NewNodeState.last_gc_version = 0
      /\ \A k \in Key : NewNodeState.key_values[k] = Vacant
  BY DEF NewNodeState, StateOf
<1>2. 0 <= Len(w)
  OBVIOUS
<1>3. QED
  BY ONLY <1>1, <1>2, VacantType DEF StateOK, CollectedWrite, Authentic

-----------------------------------------------------------------------------
(* The passage of time *)

\* Aging the writes shortens the times that are left.
LEMMA AgeWritesOK ==
    ASSUME NEW w \in Seq(Write), HistoryOK(w)
    PROVE  HistoryOK(AgeWrites(w))
<1>1. \A v \in 1..Len(w) : w[v].left \in Nat /\ Older(w[v].left) \in Nat /\ Older(w[v].left) <= w[v].left
  <2>1. \A v \in 1..Len(w) : w[v] \in Write
    OBVIOUS
  <2>2. QED
    BY <2>1 DEF Write, Older
<1>2. QED
  BY <1>1, AgeWritesType, GraceAssumption, SMTT(30) DEF HistoryOK

\* A deletion whose grace period is over stays one.
LEMMA AgeCollected ==
    ASSUME NEW w \in Seq(Write), NEW g, CollectedWrite(w, g)
    PROVE  CollectedWrite(AgeWrites(w), g)
  BY AgeWritesType DEF CollectedWrite, Older

\* Aging keeps an entry authentic: it only changes the time that is left.
LEMMA AgeAuthentic ==
    ASSUME NEW w \in Seq(Write), NEW k, NEW e, NEW f, e.version \in Nat,
           f.version = e.version, f.value = e.value, f.status = e.status,
           Authentic(w, k, e)
    PROVE  Authentic(AgeWrites(w), k, f)
<1>1. CASE ~Present(e)
  BY <1>1 DEF Authentic, Present
<1>2. CASE Present(e)
  <2>1. e.version \in 1..Len(w)
    BY <1>2 DEF Authentic, Present
  <2>2. QED
    BY <1>2, <2>1, AgeWritesType DEF Authentic
<1>3. QED
  BY <1>1, <1>2

\* A replica and its owner age together.
LEMMA AgeStateOK ==
    ASSUME NEW w \in Seq(Write), NEW b \in Nat, NEW s, WellFormed(b, s), StateOK(w, s)
    PROVE  StateOK(AgeWrites(w), Age(s))
<1>1. \A k \in Key : s.key_values[k].version \in Nat /\ s.key_values[k].left \in Nat
  BY DEF WellFormed, NodeStates, Entry
<1>2. /\ Age(s).max_version <= Len(AgeWrites(w))
      /\ CollectedWrite(AgeWrites(w), Age(s).last_gc_version)
  BY AgeWellFormed, AgeWritesType, AgeCollected DEF StateOK
<1>3. \A k \in Key : Authentic(AgeWrites(w), k, Age(s).key_values[k])
  BY <1>1, AgeWellFormed, AgeAuthentic DEF StateOK
<1>4. ASSUME NEW k \in Key, Present(Age(s).key_values[k])
      PROVE  AgeWrites(w)[Age(s).key_values[k].version].left <= Age(s).key_values[k].left
  <2> DEFINE v == s.key_values[k].version
  <2>1. /\ Age(s).key_values[k].version = v
        /\ Age(s).key_values[k].left = Older(s.key_values[k].left)
        /\ Present(s.key_values[k])
    BY <1>4, AgeWellFormed DEF Present
  <2>2. v \in 1..Len(w) /\ w[v].left <= s.key_values[k].left
    BY <1>1, <2>1 DEF StateOK, Authentic, Present
  <2>3. w[v] \in Write
    BY <2>2
  <2>4. w[v].left \in Nat
    BY <2>3 DEF Write
  <2>5. AgeWrites(w)[v].left = Older(w[v].left)
    BY <2>2, AgeWritesType
  <2>6. Older(w[v].left) <= Older(s.key_values[k].left)
    BY <1>1, <2>2, <2>4, SMTT(30) DEF Older
  <2>7. QED
    BY <2>1, <2>5, <2>6
<1>5. QED
  BY <1>2, <1>3, <1>4 DEF StateOK

\* Deltas in flight stay authentic while time passes.
LEMMA AgeDeltaOK ==
    ASSUME NEW w \in Seq(Write), NEW b \in Nat, NEW d, WellFormedDelta(b, d), DeltaOK(w, d)
    PROVE  DeltaOK(AgeWrites(w), d)
<1>1. \A k \in Key : d.key_values[k].version \in Nat
  BY DEF WellFormedDelta, NodeDeltas, Entry
<1>2. QED
  BY <1>1, AgeWritesType, AgeCollected, AgeAuthentic DEF DeltaOK

\* A datagram loses one tick of its own life as the deletions it has not seen
\* lose one of theirs.
LEMMA AgeRecent ==
    ASSUME NEW w \in Seq(Write), NEW v \in Nat, NEW ttl \in Nat, ttl > 0, ttl <= MaxDelay,
           MaxDelay < GracePeriod, RecentSince(w, v, ttl)
    PROVE  RecentSince(AgeWrites(w), v, ttl - 1)
<1> SUFFICES ASSUME NEW x \in 1..Len(AgeWrites(w)), x > v, AgeWrites(w)[x].status # "Set"
             PROVE  AgeWrites(w)[x].left >= GracePeriod - MaxDelay + (ttl - 1)
  BY DEF RecentSince
<1>1. x \in 1..Len(w) /\ w[x].status # "Set" /\ AgeWrites(w)[x].left = Older(w[x].left)
  BY AgeWritesType
<1>2. w[x] \in Write
  BY <1>1
<1>3. w[x].left \in Nat
  BY <1>2 DEF Write
<1>4. w[x].left >= GracePeriod - MaxDelay + ttl
  BY <1>1 DEF RecentSince
<1>5. QED
  BY <1>1, <1>3, <1>4, GraceAssumption, BoundsAssumption DEF Older

\* A node holds its last writes while time passes.
LEMMA AgeHolds ==
    ASSUME NEW w \in Seq(Write), NEW b \in Nat, NEW s, WellFormed(b, s), HoldsLastWrites(w, s),
           CollectedWrite(w, s.last_gc_version)
    PROVE  HoldsLastWrites(AgeWrites(w), Age(s))
<1>1. \A k \in Key : LatestVersion(AgeWrites(w), k, Len(w)) = LatestVersion(w, k, Len(w))
  <2>1. \A k \in Key : {v \in 1..Len(w) : AgeWrites(w)[v].key = k} = {v \in 1..Len(w) : w[v].key = k}
    BY AgeWritesType
  <2>2. QED
    BY <2>1 DEF LatestVersion
<1>2. QED
  <2>1. Age(s).max_version = Len(AgeWrites(w))
    BY AgeWellFormed, AgeWritesType DEF HoldsLastWrites
  <2>2. ASSUME NEW k \in Key
        PROVE  LET v == LatestVersion(AgeWrites(w), k, Len(AgeWrites(w)))
               IN  \/ Age(s).key_values[k].version = v
                   \/ /\ ~Present(Age(s).key_values[k])
                      /\ AgeWrites(w)[v].status # "Set"
                      /\ v <= Age(s).last_gc_version
    <3> DEFINE v == LatestVersion(w, k, Len(w))
    <3>1. LatestVersion(AgeWrites(w), k, Len(AgeWrites(w))) = v
      BY <1>1, AgeWritesType
    <3>2. CASE s.key_values[k].version = v
      BY <3>1, <3>2, AgeWellFormed
    <3>3. CASE ~Present(s.key_values[k]) /\ w[v].status # "Set" /\ v <= s.last_gc_version
      <4>1. v = 0 \/ v \in 1..Len(w)
        BY LatestVersionRange
      <4>2. QED
        BY <3>1, <3>3, <4>1, AgeWellFormed, AgeWritesType DEF Present
    <3>4. QED
      BY <3>2, <3>3 DEF HoldsLastWrites
  <2>3. QED
    BY <2>1, <2>2 DEF HoldsLastWrites

-----------------------------------------------------------------------------
(* A new write of the owner *)

\* One more write.
LEMMA AppendWrite ==
    ASSUME NEW w \in Seq(Write), NEW x \in Write
    PROVE  /\ Append(w, x) \in Seq(Write)
           /\ Len(Append(w, x)) = Len(w) + 1
           /\ \A v \in 1..Len(w) : Append(w, x)[v] = w[v]
           /\ Append(w, x)[Len(w) + 1] = x
  OBVIOUS

\* What was authentic stays so when the owner writes again.
LEMMA AppendAuthentic ==
    ASSUME NEW w \in Seq(Write), NEW x \in Write, NEW k, NEW e, e.version \in Nat, Authentic(w, k, e)
    PROVE  Authentic(Append(w, x), k, e)
<1>1. CASE ~Present(e)
  BY <1>1 DEF Authentic
<1>2. CASE Present(e)
  <2>1. e.version \in 1..Len(w)
    BY <1>2 DEF Authentic, Present
  <2>2. QED
    BY <1>2, <2>1, AppendWrite DEF Authentic
<1>3. QED
  BY <1>1, <1>2

\* What was collected stays so when the owner writes again.
LEMMA AppendCollected ==
    ASSUME NEW w \in Seq(Write), NEW x \in Write, NEW g, CollectedWrite(w, g)
    PROVE  CollectedWrite(Append(w, x), g)
  BY AppendWrite DEF CollectedWrite

\* Replicas stay authentic when the owner writes again.
LEMMA AppendStateOK ==
    ASSUME NEW w \in Seq(Write), NEW x \in Write, NEW b \in Nat, NEW s, WellFormed(b, s), StateOK(w, s)
    PROVE  StateOK(Append(w, x), s)
<1>1. s.max_version \in Nat /\ \A k \in Key : s.key_values[k].version \in Nat
  BY DEF WellFormed, NodeStates, Entry
<1>2. s.max_version <= Len(Append(w, x)) /\ CollectedWrite(Append(w, x), s.last_gc_version)
  BY <1>1, AppendWrite, AppendCollected DEF StateOK
<1>3. \A k \in Key : Authentic(Append(w, x), k, s.key_values[k])
  BY <1>1, AppendAuthentic DEF StateOK
<1>4. ASSUME NEW k \in Key, Present(s.key_values[k])
      PROVE  Append(w, x)[s.key_values[k].version].left <= s.key_values[k].left
  <2>1. s.key_values[k].version \in 1..Len(w)
    BY <1>1, <1>4 DEF StateOK, Authentic, Present
  <2>2. QED
    BY <1>4, <2>1, AppendWrite DEF StateOK
<1>5. QED
  BY <1>2, <1>3, <1>4 DEF StateOK

\* Deltas in flight stay authentic when the owner writes again.
LEMMA AppendDeltaOK ==
    ASSUME NEW w \in Seq(Write), NEW x \in Write, NEW b \in Nat, NEW d, WellFormedDelta(b, d),
           DeltaOK(w, d)
    PROVE  DeltaOK(Append(w, x), d)
<1>1. d.max_version \in Nat /\ \A k \in Key : d.key_values[k].version \in Nat
  BY DEF WellFormedDelta, NodeDeltas, Entry
<1>2. QED
  BY <1>1, AppendWrite, AppendAuthentic, AppendCollected DEF DeltaOK

\* A new deletion has the whole grace period ahead of it: it is younger than any
\* digest in flight.
LEMMA AppendRecent ==
    ASSUME NEW w \in Seq(Write), NEW x \in Write, NEW v \in Nat, NEW ttl \in Nat, ttl <= MaxDelay,
           x.status # "Set" => x.left = GracePeriod,
           RecentSince(w, v, ttl)
    PROVE  RecentSince(Append(w, x), v, ttl)
<1> SUFFICES ASSUME NEW y \in 1..Len(Append(w, x)), y > v, Append(w, x)[y].status # "Set"
             PROVE  Append(w, x)[y].left >= GracePeriod - MaxDelay + ttl
  BY DEF RecentSince
<1>1. CASE y = Len(w) + 1
  BY <1>1, AppendWrite, GraceAssumption, BoundsAssumption
<1>2. CASE y # Len(w) + 1
  <2>1. y \in 1..Len(w)
    BY <1>2, AppendWrite
  <2>2. QED
    BY <2>1, AppendWrite DEF RecentSince
<1>3. QED
  BY <1>1, <1>2

\* The last write of the key that was written, and of the others.
LEMMA AppendLatest ==
    ASSUME NEW w \in Seq(Write), NEW x \in Write, NEW k
    PROVE  LatestVersion(Append(w, x), k, Len(w) + 1)
             = IF x.key = k THEN Len(w) + 1 ELSE LatestVersion(w, k, Len(w))
<1> DEFINE u == Append(w, x)
           p == LatestVersion(u, k, Len(u))
           q == LatestVersion(w, k, Len(w))
<1>1. u \in Seq(Write) /\ Len(u) = Len(w) + 1 /\ (\A v \in 1..Len(w) : u[v] = w[v]) /\ u[Len(w) + 1] = x
  BY AppendWrite
<1>2. /\ p \in Nat /\ p <= Len(u)
      /\ p # 0 => p \in 1..Len(u) /\ u[p].key = k
      /\ \A y \in 1..Len(u) : u[y].key = k => y <= p
  BY <1>1, LatestVersionRange
<1>3. /\ q \in Nat /\ q <= Len(w)
      /\ q # 0 => q \in 1..Len(w) /\ w[q].key = k
      /\ \A y \in 1..Len(w) : w[y].key = k => y <= q
  BY LatestVersionRange
<1> HIDE DEF u, p, q
<1>4. CASE x.key = k
  BY <1>1, <1>2, <1>4 DEF p, u
<1>5. CASE x.key # k
  <2>1. q <= p
    BY <1>1, <1>2, <1>3
  <2>2. p <= q
    <3>1. CASE p = 0
      BY <3>1, <1>3
    <3>2. CASE p # 0
      <4>1. p \in 1..Len(w)
        BY <1>1, <1>2, <1>5, <3>2
      <4>2. QED
        BY <1>1, <1>2, <1>3, <3>2, <4>1
    <3>3. QED
      BY <3>1, <3>2
  <2>3. p = q
    BY <1>2, <1>3, <2>1, <2>2
  <2>4. QED
    BY <1>1, <1>5, <2>3 DEF p, q, u
<1>6. QED
  BY <1>4, <1>5

\* The record of a write in the owner's history.
WriteOf(k, v, status) ==
    [key |-> k, value |-> v, status |-> status, left |-> IF status = "Set" THEN 0 ELSE GracePeriod]

\* WriteOf builds a write.
LEMMA WriteOfType ==
    ASSUME NEW k \in Key, NEW v \in Value \cup {NoValue}, NEW status \in Statuses
    PROVE  WriteOf(k, v, status) \in Write
  BY GraceAssumption DEF WriteOf, Write

\* A write keeps the owner in step with the history of its writes.
LEMMA RewrittenOK ==
    ASSUME NEW w \in Seq(Write), NEW b \in Nat, NEW s, WellFormed(b, s), s.max_version < b,
           StateOK(w, s), HoldsLastWrites(w, s),
           NEW k \in Key, NEW v \in Value \cup {NoValue}, NEW status \in Statuses
    PROVE  LET u == Append(w, WriteOf(k, v, status))
               t == Rewritten(s, k, v, status)
           IN  StateOK(u, t) /\ HoldsLastWrites(u, t)
<1> DEFINE x == WriteOf(k, v, status)
           u == Append(w, x)
           t == Rewritten(s, k, v, status)
           e == VersionedValue(v, s.max_version + 1, status)
<1>1. x \in Write
  BY WriteOfType
<1>2. /\ t.max_version = s.max_version + 1 /\ t.last_gc_version = s.last_gc_version
      /\ t.key_values[k] = e
      /\ \A j \in Key \ {k} : t.key_values[j] = s.key_values[j]
  BY RewrittenWellFormed
<1>3. s.max_version = Len(w) /\ s.max_version \in Nat
  BY DEF HoldsLastWrites, WellFormed, NodeStates
<1>4. /\ e.version = Len(w) + 1 /\ e.value = v /\ e.status = status
      /\ e.left = IF status = "Set" THEN 0 ELSE GracePeriod
  BY <1>3 DEF VersionedValue
<1>5. x.key = k /\ x.value = v /\ x.status = status /\ x.left = e.left
  BY <1>4 DEF WriteOf
<1> HIDE DEF x, t, e
<1>6. /\ u \in Seq(Write) /\ Len(u) = Len(w) + 1 /\ u[Len(w) + 1] = x
      /\ \A y \in 1..Len(w) : u[y] = w[y]
  BY <1>1, AppendWrite
<1>7. StateOK(u, s)
  BY <1>1, AppendStateOK
<1>8. \A j \in Key : LatestVersion(u, j, Len(u))
                       = IF j = k THEN Len(w) + 1 ELSE LatestVersion(w, j, Len(w))
  BY <1>1, <1>5, <1>6, AppendLatest, SMTT(30)
<1> HIDE DEF u
<1>9. e.left \in Nat
  BY <1>4, GraceAssumption
<1>10. StateOK(u, t)
  <2>1. t.max_version <= Len(u) /\ CollectedWrite(u, t.last_gc_version)
    BY <1>2, <1>3, <1>6, <1>7 DEF StateOK
  <2>2. Authentic(u, k, t.key_values[k]) /\ u[t.key_values[k].version].left <= t.key_values[k].left
    BY <1>2, <1>3, <1>4, <1>5, <1>6, <1>9 DEF Authentic
  <2>3. \A j \in Key \ {k} : /\ Authentic(u, j, t.key_values[j])
                             /\ Present(t.key_values[j]) =>
                                   u[t.key_values[j].version].left <= t.key_values[j].left
    BY <1>2, <1>7 DEF StateOK
  <2>4. QED
    BY <2>1, <2>2, <2>3 DEF StateOK
<1>11. HoldsLastWrites(u, t)
  <2>1. t.max_version = Len(u)
    BY <1>2, <1>3, <1>6
  <2>2. t.key_values[k].version = LatestVersion(u, k, Len(u))
    BY <1>2, <1>4, <1>8
  <2>3. ASSUME NEW j \in Key \ {k}
        PROVE  LET y == LatestVersion(u, j, Len(u))
               IN  \/ t.key_values[j].version = y
                   \/ ~Present(t.key_values[j]) /\ u[y].status # "Set" /\ y <= t.last_gc_version
    <3> DEFINE y == LatestVersion(w, j, Len(w))
    <3>1. LatestVersion(u, j, Len(u)) = y /\ t.key_values[j] = s.key_values[j]
      BY <1>2, <1>8
    <3>2. y = 0 \/ y \in 1..Len(w)
      BY LatestVersionRange
    <3>3. \/ s.key_values[j].version = y
          \/ ~Present(s.key_values[j]) /\ w[y].status # "Set" /\ y <= s.last_gc_version
      BY DEF HoldsLastWrites
    <3>4. CASE y = 0
      <4>1. s.key_values[j].version = y
        BY <3>3, <3>4 DEF Present
      <4>2. QED
        BY <3>1, <4>1
    <3>5. CASE y \in 1..Len(w)
      BY <1>2, <1>6, <3>1, <3>3, <3>5
    <3>6. QED
      BY <3>2, <3>4, <3>5
  <2>4. QED
    BY <2>1, <2>2, <2>3 DEF HoldsLastWrites
<1>12. QED
  BY <1>10, <1>11 DEF u, x, t

-----------------------------------------------------------------------------
(* Garbage collection and deltas *)

\* Collecting tombstones keeps a replica authentic: their grace period is over for
\* their owner too.
LEMMA GcOK ==
    ASSUME NEW w \in Seq(Write), NEW b \in Nat, NEW s, WellFormed(b, s), StateOK(w, s)
    PROVE  StateOK(w, GcKeysMarkedForDeletion(s))
<1> DEFINE t == GcKeysMarkedForDeletion(s)
<1>1. /\ t.max_version = s.max_version
      /\ \A k \in Key : t.key_values[k] = IF k \in Collectable(s) THEN Vacant ELSE s.key_values[k]
      /\ \/ t.last_gc_version = s.last_gc_version
         \/ \E k \in Collectable(s) : t.last_gc_version = s.key_values[k].version
  BY GcWellFormed
<1> HIDE DEF t
<1>2. \A k \in Key : s.key_values[k].version \in Nat /\ s.key_values[k].left \in Nat
  BY DEF WellFormed, NodeStates, Entry
<1>3. ASSUME NEW k \in Collectable(s)
      PROVE  CollectedWrite(w, s.key_values[k].version)
  <2> DEFINE v == s.key_values[k].version
  <2>1. k \in Key /\ Present(s.key_values[k]) /\ s.key_values[k].status # "Set"
        /\ s.key_values[k].left = 0
    BY DEF Collectable, ScheduledForDeletion
  <2>2. v \in 1..Len(w) /\ w[v].status # "Set" /\ w[v].left <= 0
    BY <1>2, <2>1 DEF StateOK, Authentic, Present
  <2>3. w[v] \in Write
    BY <2>2
  <2>4. QED
    BY <2>2, <2>3 DEF CollectedWrite, Write
<1>4. CollectedWrite(w, t.last_gc_version)
  BY <1>1, <1>3 DEF StateOK
<1>5. \A k \in Key : ~Present(Vacant) /\ Authentic(w, k, Vacant)
  BY VacantType DEF Authentic
<1>6. QED
  BY <1>1, <1>4, <1>5 DEF StateOK, t

\* Collecting tombstones loses nothing but collected deletions.
LEMMA GcHolds ==
    ASSUME NEW w \in Seq(Write), NEW b \in Nat, NEW s, WellFormed(b, s), StateOK(w, s),
           HoldsLastWrites(w, s)
    PROVE  HoldsLastWrites(w, GcKeysMarkedForDeletion(s))
<1> DEFINE t == GcKeysMarkedForDeletion(s)
<1>1. /\ t.max_version = s.max_version
      /\ s.last_gc_version \in Nat /\ t.last_gc_version \in Nat
      /\ s.last_gc_version <= t.last_gc_version
      /\ \A k \in Key : t.key_values[k] = IF k \in Collectable(s) THEN Vacant ELSE s.key_values[k]
      /\ \A k \in Collectable(s) : s.key_values[k].version <= t.last_gc_version
  BY GcWellFormed DEF WellFormed, NodeStates
<1> HIDE DEF t
<1>2. ASSUME NEW k \in Key
      PROVE  LET v == LatestVersion(w, k, Len(w))
             IN  \/ t.key_values[k].version = v
                 \/ ~Present(t.key_values[k]) /\ w[v].status # "Set" /\ v <= t.last_gc_version
  <2> DEFINE v == LatestVersion(w, k, Len(w))
  <2>1. v \in Nat
    BY LatestVersionRange
  <2>2. \/ s.key_values[k].version = v
        \/ ~Present(s.key_values[k]) /\ w[v].status # "Set" /\ v <= s.last_gc_version
    BY DEF HoldsLastWrites
  <2> HIDE DEF v
  <2>3. CASE k \in Collectable(s)
    <3>1. Present(s.key_values[k]) /\ s.key_values[k].status # "Set"
      BY <2>3 DEF Collectable, ScheduledForDeletion
    <3>2. w[v].status # "Set" /\ s.key_values[k].version = v
      BY <2>2, <3>1 DEF StateOK, Authentic
    <3>3. QED
      BY <1>1, <2>3, <3>2, VacantType DEF v
  <2>4. CASE k \notin Collectable(s)
    BY <1>1, <2>1, <2>2, <2>4 DEF v
  <2>5. QED
    BY <2>3, <2>4
<1>3. QED
  BY <1>1, <1>2 DEF HoldsLastWrites, t

\* Applying the new mutations of an authentic delta keeps a replica authentic.
LEMMA ApplyMutationsOK ==
    ASSUME NEW w \in Seq(Write), HistoryOK(w),
           NEW b \in Nat, NEW s, WellFormed(b, s), StateOK(w, s),
           NEW d, WellFormedDelta(b, d), DeltaOK(w, d)
    PROVE  StateOK(w, ApplyMutations(s, d))
<1> DEFINE t == ApplyMutations(s, d)
           new == NewMutations(s, d)
           Stamped(k) == VersionedValue(d.key_values[k].value, d.key_values[k].version,
                                        d.key_values[k].status)
<1>1. /\ t.last_gc_version = s.last_gc_version
      /\ t.max_version = s.max_version \/ \E k \in new : t.max_version = d.key_values[k].version
      /\ \A k \in Key : t.key_values[k] = Stamped(k) \/ t.key_values[k] = s.key_values[k]
  BY ApplyMutationsWellFormed
<1>2. new \subseteq Key /\ \A k \in new : Present(d.key_values[k])
  BY DEF NewMutations, DeltaKeys
<1>3. \A k \in Key : /\ d.key_values[k].version \in Nat
                     /\ d.key_values[k].value \in Value \cup {NoValue}
                     /\ d.key_values[k].status \in Statuses
  BY DEF WellFormedDelta, NodeDeltas, Entry
<1>4. t.max_version <= Len(w)
  BY <1>1, <1>2 DEF StateOK, DeltaOK, Authentic
<1>5. \A k \in Key : /\ Stamped(k).version = d.key_values[k].version
                     /\ Stamped(k).value = d.key_values[k].value
                     /\ Stamped(k).status = d.key_values[k].status
                     /\ Stamped(k).left = IF d.key_values[k].status = "Set" THEN 0 ELSE GracePeriod
  BY DEF VersionedValue
<1> HIDE DEF t, new, Stamped
<1>6. ASSUME NEW k \in Key
      PROVE  /\ Authentic(w, k, Stamped(k))
             /\ Present(Stamped(k)) => w[Stamped(k).version].left <= Stamped(k).left
  <2>1. Authentic(w, k, Stamped(k))
    BY <1>5 DEF DeltaOK, Authentic, Present
  <2>2. ASSUME Present(Stamped(k))
        PROVE  w[Stamped(k).version].left <= Stamped(k).left
    <3> DEFINE v == Stamped(k).version
    <3>1. v \in 1..Len(w) /\ w[v].status = Stamped(k).status
      BY <1>3, <1>5, <2>1, <2>2 DEF Authentic, Present
    <3>2. w[v].left <= IF w[v].status = "Set" THEN 0 ELSE GracePeriod
      BY <3>1 DEF HistoryOK
    <3>3. QED
      BY <1>5, <3>1, <3>2
  <2>3. QED
    BY <2>1, <2>2
<1>7. \A k \in Key : /\ Authentic(w, k, t.key_values[k])
                     /\ Present(t.key_values[k]) =>
                           w[t.key_values[k].version].left <= t.key_values[k].left
  BY <1>1, <1>6 DEF StateOK
<1>8. QED
  BY <1>1, <1>4, <1>7 DEF StateOK, t

\* A replica that starts afresh from an authentic delta is authentic.
LEMMA ResetOK ==
    ASSUME NEW w \in Seq(Write), NEW b \in Nat, NEW d, WellFormedDelta(b, d), DeltaOK(w, d)
    PROVE  StateOK(w, ResetNodeState(d))
<1>1. ResetNodeState(d).max_version \in {0, d.max_version} /\ Len(w) \in Nat
  BY DEF ResetNodeState, StateOf
<1>2. ResetNodeState(d).max_version <= Len(w)
  BY <1>1 DEF DeltaOK
<1>3. QED
  BY <1>2, ResetWellFormed, VacantType DEF StateOK, DeltaOK, Authentic

\* apply_delta keeps a replica authentic on all of its paths.
LEMMA ApplyDeltaOK ==
    ASSUME NEW w \in Seq(Write), HistoryOK(w),
           NEW b \in Nat, NEW s, WellFormed(b, s), StateOK(w, s),
           NEW d, WellFormedDelta(b, d), DeltaOK(w, d)
    PROVE  StateOK(w, ApplyDelta(s, d))
  BY ApplyDeltaCases, ApplyMutationsOK, ResetOK, ResetWellFormed

\* A delta about the receiver itself changes nothing.
LEMMA ApplyOwnDelta ==
    ASSUME NEW w \in Seq(Write), NEW b \in Nat, NEW s, WellFormed(b, s), s.max_version = Len(w),
           NEW d, WellFormedDelta(b, d), DeltaOK(w, d),
           d.last_gc_version = 0 \/ d.last_gc_version < Len(w)
    PROVE  ApplyDelta(s, d) = s
<1>1. s.last_gc_version \in Nat /\ d.last_gc_version \in Nat /\ s \in NodeStates /\ s.max_version \in Nat
  BY DEF WellFormed, WellFormedDelta, NodeStates, NodeDeltas
<1>2. Applicable(s, d)
  BY <1>1 DEF Applicable
<1>3. NewMutations(s, d) = {}
  <2>1. \A k \in DeltaKeys(d) : d.key_values[k].version <= s.max_version
    BY DEF DeltaKeys, DeltaOK, Authentic
  <2>2. \A k \in DeltaKeys(d) : d.key_values[k].version \in Nat
    BY DEF DeltaKeys, WellFormedDelta, NodeDeltas, Entry
  <2>3. QED
    BY <1>1, <2>1, <2>2 DEF NewMutations
<1>4. ApplyMutations(s, d).max_version = s.max_version
  BY <1>3, ApplyMutationsWellFormed
<1>5. ApplyMutations(s, d).key_values = s.key_values
  <2>1. \A k \in Key : ApplyMutations(s, d).key_values[k] = s.key_values[k]
    BY <1>3, ApplyMutationsWellFormed
  <2>2. ApplyMutations(s, d) \in NodeStates
    BY ApplyMutationsWellFormed DEF WellFormed
  <2>3. QED
    BY <1>1, <2>1, <2>2 DEF NodeStates
<1>6. ApplyMutations(s, d).last_gc_version = s.last_gc_version /\ ApplyMutations(s, d) \in NodeStates
  BY ApplyMutationsWellFormed DEF WellFormed
<1>7. ApplyMutations(s, d) = s
  BY <1>1, <1>4, <1>5, <1>6 DEF NodeStates
<1>8. QED
  BY <1>2, <1>7 DEF ApplyDelta

\* A delta made from an authentic replica is authentic.
LEMMA NodeDeltaOK ==
    ASSUME NEW w \in Seq(Write), NEW b \in Nat, NEW s, WellFormed(b, s), StateOK(w, s),
           NEW from \in Nat, NEW room
    PROVE  DeltaOK(w, NodeDelta(s, from, room))
<1> DEFINE d == NodeDelta(s, from, room)
<1>1. /\ d.last_gc_version = s.last_gc_version
      /\ d.max_version = s.max_version \/ d.max_version = 0
      /\ \A k \in Key :
            \/ d.key_values[k] = Vacant
            \/ /\ d.key_values[k].version = s.key_values[k].version
               /\ d.key_values[k].value = s.key_values[k].value
               /\ d.key_values[k].status = s.key_values[k].status
  BY NodeDeltaWellFormed
<1> HIDE DEF d
<1>2. d.max_version <= Len(w) /\ CollectedWrite(w, d.last_gc_version)
  BY <1>1 DEF StateOK
<1>3. \A k \in Key : Authentic(w, k, d.key_values[k])
  BY <1>1, VacantType DEF StateOK, Authentic, Present
<1>4. QED
  BY <1>2, <1>3 DEF DeltaOK, d

-----------------------------------------------------------------------------
(* The safety invariant *)

\* Deltas are made of authentic replicas only.
LEMMA PartialDeltaOK ==
    ASSUME SafetyInv, NEW states,
           \A m \in Node : WellFormed(WriteLimit[m], states[m]) /\ StateOK(history[m], states[m]),
           NEW digest \in Digests, NEW hidden, NEW room,
           NEW delta \in PartialDeltas(states, digest, hidden, room), NEW m \in Node
    PROVE  DeltaOK(history[m], delta[m])
<1>1. history[m] \in Seq(Write) /\ WriteLimit[m] \in Nat
  BY BoundsAssumption DEF SafetyInv, TypeInv, TypeOK
<1>2. FromVersion(states[m], digest[m]) \in Nat
  BY DEF FromVersion, Digests, NodeDigests
<1>3. DeltaOK(history[m], EmptyNodeDelta)
  BY <1>1, VacantType DEF DeltaOK, EmptyNodeDelta, Authentic, CollectedWrite
<1>4. QED
  BY <1>1, <1>2, <1>3, PartialDeltaCases, NodeDeltaOK

\* The reply to a node n that sent its digest has not collected as far as n has
\* written: it does not invite n to reset its own state.
LEMMA ReplyKeepsOwner ==
    ASSUME SafetyInv, MaxDelay < GracePeriod, NEW states,
           \A m \in Node : WellFormed(WriteLimit[m], states[m]) /\ StateOK(history[m], states[m]),
           NEW digest \in Digests, NEW hidden, NEW room,
           NEW delta \in PartialDeltas(states, digest, hidden, room),
           NEW n \in Node, NEW ttl \in Nat, RecentSince(history[n], digest[n].max_version, ttl)
    PROVE  delta[n].last_gc_version = 0 \/ delta[n].last_gc_version < Len(history[n])
<1>1. CASE delta[n] = EmptyNodeDelta
  BY <1>1 DEF EmptyNodeDelta
<1>2. CASE /\ n \in StaleNodes(states, digest, hidden)
           /\ \E r : delta[n] = NodeDelta(states[n], FromVersion(states[n], digest[n]), r)
  <2> DEFINE w == history[n]
             g == states[n].last_gc_version
  <2>1. delta[n].last_gc_version = g
    BY <1>2 DEF NodeDelta
  <2>2. /\ states[n].max_version > digest[n].max_version
        /\ states[n].max_version <= Len(w)
        /\ states[n].max_version \in Nat /\ digest[n].max_version \in Nat
        /\ w \in Seq(Write)
    BY <1>2 DEF StaleNodes, StateOK, WellFormed, NodeStates, Digests, NodeDigests,
                SafetyInv, TypeInv, TypeOK
  <2>3. CollectedWrite(w, g)
    BY DEF StateOK
  <2> HIDE DEF w, g
  <2>4. CASE g # 0
    <3>1. g \in 1..Len(w) /\ w[g].status # "Set" /\ w[g].left = 0
      BY <2>3, <2>4 DEF CollectedWrite
    <3>2. ~(g > digest[n].max_version)
      <4>1. (g > digest[n].max_version) => w[g].left >= GracePeriod - MaxDelay + ttl
        BY <3>1 DEF RecentSince, w
      <4>2. QED
        BY <3>1, <4>1, GraceAssumption, BoundsAssumption
    <3>3. Len(w) \in Nat
      BY <2>2
    <3>4. g < Len(w)
      BY <2>2, <3>1, <3>2, <3>3
    <3>5. QED
      BY <2>1, <3>4 DEF w
  <2>5. QED
    BY <2>1, <2>4
<1>3. QED
  BY <1>1, <1>2, PartialDeltaCases

\* Steps that change at most what one node holds, and send messages.
LEMMA SafetyOneNode ==
    ASSUME SafetyInv, TypeInv', history' = history, NEW n \in Node, NEW states,
           node_states' = [node_states EXCEPT ![n] = states],
           \A m \in Node : StateOK(history[m], states[m]),
           HoldsLastWrites(history[n], states[n]),
           \A m \in network' : m \in network \/ MessageOK(m)
    PROVE  SafetyInv'
<1>1. node_states \in [Node -> [Node -> NodeStates]]
  BY DEF SafetyInv, TypeInv, TypeOK
<1>2. \A x, m \in Node : StateOK(history'[m], node_states'[x][m])
  BY <1>1 DEF SafetyInv
<1>3. OwnStateIntact'
  BY <1>1 DEF SafetyInv, OwnStateIntact
<1>4. \A m \in network' : MessageOK(m)'
  BY DEF SafetyInv, MessageOK
<1>5. QED
  BY <1>2, <1>3, <1>4 DEF SafetyInv

\* A SYN carries the latest max_version of its sender.
LEMMA SynOK ==
    ASSUME SafetyInv, NEW n \in Node, NEW states, NEW p, states[n].max_version = Len(history[n])
    PROVE  MessageOK(SynMessage(n, states, p))
<1> DEFINE m == SynMessage(n, states, p)
<1>1. /\ m.type = "Syn" /\ m.src = n /\ m.ttl = MaxDelay
      /\ m.digest = ComputeDigest(states, scheduled[n])
  BY DEF SynMessage
<1>2. n \notin scheduled[n]
  BY DEF SafetyInv, TypeInv, TypeOK
<1>3. m.digest[n].max_version = Len(history[n])
  BY <1>1, <1>2 DEF ComputeDigest
<1>4. RecentSince(history[n], Len(history[n]), MaxDelay)
  BY DEF RecentSince, SafetyInv, TypeInv, TypeOK
<1> HIDE DEF m
<1>5. QED
  BY <1>1, <1>3, <1>4, BoundsAssumption DEF MessageOK, m

\* The initial state satisfies the safety invariant.
LEMMA SafetyInit == Init => SafetyInv
<1> SUFFICES ASSUME Init PROVE SafetyInv
  OBVIOUS
<1>1. TypeInv
  BY TypeInvInit
<1>2. \A n \in Node : history[n] = <<>> /\ HistoryOK(history[n]) /\ Len(history[n]) = 0
  BY DEF Init, HistoryOK
<1>3. \A n, m \in Node : node_states[n][m] = NewNodeState
  BY DEF Init
<1>4. \A m \in Node : history[m] \in Seq(Write)
  BY <1>1 DEF TypeInv, TypeOK
<1>5. \A n, m \in Node : StateOK(history[m], node_states[n][m])
  BY <1>3, <1>4, NewStateOK
<1>6. \A n \in Node, k \in Key : LatestVersion(history[n], k, Len(history[n])) = 0
  <2> SUFFICES ASSUME NEW n \in Node, NEW k \in Key
               PROVE  LatestVersion(history[n], k, Len(history[n])) = 0
    OBVIOUS
  <2>1. history[n] \in Seq(Write)
    BY <1>1 DEF TypeInv, TypeOK
  <2>2. QED
    BY <1>2, <2>1, LatestVersionRange
<1>7. OwnStateIntact
  <2>1. /\ NewNodeState.max_version = 0 /\ NewNodeState.last_gc_version = 0
        /\ \A k \in Key : NewNodeState.key_values[k] = Vacant
    BY DEF NewNodeState, StateOf
  <2>2. QED
    BY <1>2, <1>3, <1>6, <2>1, VacantType DEF OwnStateIntact, HoldsLastWrites
<1>8. QED
  BY <1>1, <1>2, <1>5, <1>7 DEF SafetyInv, Init

\* The application's writes preserve the safety invariant.
LEMMA SafetyOwnWrite ==
    ASSUME SafetyInv, TypeInv', NEW n \in Node, NEW k \in Key, NEW v,
           \/ v \in Value /\ (SetKey(n, k, v) \/ SetKeyWithTtl(n, k, v))
           \/ DeleteKey(n, k) \/ DeleteKeyAfterTtl(n, k)
    PROVE  SafetyInv'
<1> DEFINE s == node_states[n][n]
           b == WriteLimit[n]
           w == history[n]
<1>1. /\ b \in Nat /\ WellFormed(b, s) /\ s.max_version < b /\ w \in Seq(Write)
      /\ StateOK(w, s) /\ HoldsLastWrites(w, s) /\ HistoryOK(w)
  BY BoundsAssumption DEF SafetyInv, OwnStateIntact, TypeInv, TypeOK, SetKey, SetKeyWithTtl,
                          DeleteKey, DeleteKeyAfterTtl, MayWrite
<1>2. PICK new : /\ OwnWrite(n, k, new)
                 /\ \/ v \in Value /\ (new = Set(s, k, v) \/ new = SetWithTtl(s, k, v))
                    \/ new = Delete(s, k) \/ new = DeleteAfterTtl(s, k)
  BY DEF SetKey, SetKeyWithTtl, DeleteKey, DeleteKeyAfterTtl
<1>3. /\ node_states \in [Node -> [Node -> NodeStates]] /\ history \in [Node -> Seq(Write)]
      /\ node_states' = [node_states EXCEPT ![n][n] = new]
      /\ network' = network
      /\ history' = [history EXCEPT ![n] =
            IF new.max_version = s.max_version THEN @
            ELSE Append(@, [key |-> k, value |-> new.key_values[k].value,
                            status |-> new.key_values[k].status,
                            left |-> new.key_values[k].left])]
  BY <1>2 DEF OwnWrite, SafetyInv, TypeInv, TypeOK
<1> HIDE DEF s, b, w
<1>4. CASE new = s
  <2>1. node_states' = node_states /\ history' = history
    BY <1>3, <1>4 DEF s
  <2>2. QED
    BY <1>3, <2>1 DEF SafetyInv, OwnStateIntact, MessageOK
<1>5. ASSUME NEW x \in Value \cup {NoValue}, NEW status \in Statuses, new = Rewritten(s, k, x, status)
      PROVE  SafetyInv'
  <2> DEFINE y == WriteOf(k, x, status)
             u == Append(w, y)
  <2>1. /\ new.max_version = s.max_version + 1
        /\ new.key_values[k] = VersionedValue(x, s.max_version + 1, status)
    <3>1. /\ Rewritten(s, k, x, status).max_version = s.max_version + 1
          /\ Rewritten(s, k, x, status).key_values[k] = VersionedValue(x, s.max_version + 1, status)
      BY <1>1, RewrittenWellFormed, SMTT(30)
    <3>2. QED
      BY <1>5, <3>1
  <2>2. history' = [history EXCEPT ![n] = u]
    <3>1. s.max_version \in Nat
      BY <1>1 DEF WellFormed, NodeStates
    <3>2. new.max_version # s.max_version
      BY <2>1, <3>1
    <3>3. [key |-> k, value |-> new.key_values[k].value, status |-> new.key_values[k].status,
           left |-> new.key_values[k].left] = y
      BY <2>1 DEF VersionedValue, WriteOf
    <3> HIDE DEF y
    <3>4. QED
      BY <1>3, <3>2, <3>3 DEF w
  <2>3. StateOK(u, new) /\ HoldsLastWrites(u, new)
    BY <1>1, <1>5, RewrittenOK
  <2>4. y \in Write /\ (y.status # "Set" => y.left = GracePeriod)
        /\ y.left = IF y.status = "Set" THEN 0 ELSE GracePeriod
    BY WriteOfType DEF WriteOf
  <2> HIDE DEF y
  <2>5. \A m \in Node : history'[m] = IF m = n THEN u ELSE history[m]
    BY <1>3, <2>2
  <2>6. /\ u \in Seq(Write) /\ Len(u) = Len(w) + 1 /\ u[Len(w) + 1] = y
        /\ \A i \in 1..Len(w) : u[i] = w[i]
    BY <1>1, <2>4, AppendWrite
  <2>7. HistoryOK(u)
    BY <1>1, <2>4, <2>6, GraceAssumption DEF HistoryOK
  <2>8. \A p \in Node : StateOK(u, node_states[p][n])
    BY <1>1, <2>4, AppendStateOK DEF SafetyInv, TypeInv, b, w
  <2>9. \A p, m \in Node : node_states'[p][m] = IF p = n /\ m = n THEN new ELSE node_states[p][m]
    BY <1>3
  <2> HIDE DEF u
  <2>10. \A p, m \in Node : StateOK(history'[m], node_states'[p][m])
    BY <2>3, <2>5, <2>8, <2>9 DEF SafetyInv
  <2>11. OwnStateIntact'
    BY <2>3, <2>5, <2>9 DEF SafetyInv, OwnStateIntact
  <2>12. \A m \in network : MessageOK(m)'
    <3> SUFFICES ASSUME NEW m \in network PROVE MessageOK(m)'
      OBVIOUS
    <3>1. m \in Messages /\ MessageOK(m) /\ DeltaWellFormed(m)
      BY DEF SafetyInv, TypeInv, TypeOK
    <3>2. m.src \in Node /\ m.dst \in Node /\ m.ttl \in Nat /\ m.ttl <= MaxDelay
      BY <3>1, MessageFields DEF MessageOK
    <3>3. ASSUME m.type \in {"Syn", "SynAck"}
          PROVE  RecentSince(history'[m.src], m.digest[m.src].max_version, m.ttl)
      <4>1. m.digest[m.src].max_version \in Nat
        BY <3>1, <3>2, <3>3, MessageFields DEF Digests, NodeDigests
      <4>2. RecentSince(history[m.src], m.digest[m.src].max_version, m.ttl)
        BY <3>1, <3>3 DEF MessageOK
      <4>3. m.src = n => RecentSince(u, m.digest[m.src].max_version, m.ttl)
        BY <1>1, <2>4, <3>2, <4>1, <4>2, AppendRecent DEF w, u
      <4>4. QED
        BY <2>5, <3>2, <4>2, <4>3
    <3>4. ASSUME m.type \in {"SynAck", "Ack"}
          PROVE  /\ \A i \in Node : DeltaOK(history'[i], m.delta[i])
                 /\ \/ m.delta[m.dst].last_gc_version = 0
                    \/ m.delta[m.dst].last_gc_version < Len(history'[m.dst])
      <4>1. /\ \A i \in Node : DeltaOK(history[i], m.delta[i])
            /\ \/ m.delta[m.dst].last_gc_version = 0
               \/ m.delta[m.dst].last_gc_version < Len(history[m.dst])
        BY <3>1, <3>4 DEF MessageOK
      <4>2. WellFormedDelta(b, m.delta[n]) /\ m.delta[m.dst].last_gc_version \in Nat
        BY <3>1, <3>2, <3>4 DEF DeltaWellFormed, WellFormedDelta, NodeDeltas, b
      <4>3. DeltaOK(u, m.delta[n])
        BY <1>1, <2>4, <4>1, <4>2, AppendDeltaOK DEF w, u
      <4>4. Len(history'[m.dst]) >= Len(history[m.dst])
            /\ Len(history'[m.dst]) \in Nat /\ Len(history[m.dst]) \in Nat
        BY <1>3, <2>5, <2>6, <3>2 DEF w
      <4>5. QED
        BY <2>5, <4>1, <4>2, <4>3, <4>4
    <3>5. QED
      BY <3>2, <3>3, <3>4 DEF MessageOK
  <2>13. QED
    BY <1>3, <2>5, <2>7, <2>10, <2>11, <2>12 DEF SafetyInv
<1>6. \/ new = s
      \/ \E x \in Value \cup {NoValue}, status \in Statuses : new = Rewritten(s, k, x, status)
  <2>1. b \in Nat /\ WellFormed(b, s)
    BY <1>1
  <2>2. \/ v \in Value /\ (new = Set(s, k, v) \/ new = SetWithTtl(s, k, v))
        \/ new = Delete(s, k) \/ new = DeleteAfterTtl(s, k)
    BY <1>2
  <2>3. QED
    BY <2>1, <2>2, WritesRewrite
<1>7. QED
  BY <1>4, <1>5, <1>6

\* A gossip round preserves the safety invariant.
LEMMA SafetyGossipMultiple ==
    ASSUME SafetyInv, TypeInv', NEW n \in Node, NEW peers \in SUBSET Node,
           NEW forgotten \in SUBSET scheduled[n], GossipMultiple(n, peers, forgotten)
    PROVE  SafetyInv'
<1> DEFINE collected == [m \in Node |-> GcKeysMarkedForDeletion(node_states[n][m])]
           states == [m \in Node |-> IF m \in forgotten THEN NewNodeState ELSE collected[m]]
<1>1. \A m \in Node : /\ WriteLimit[m] \in Nat /\ WellFormed(WriteLimit[m], node_states[n][m])
                      /\ history[m] \in Seq(Write) /\ StateOK(history[m], node_states[n][m])
  BY BoundsAssumption DEF SafetyInv, TypeInv, TypeOK
<1>2. \A m \in Node : StateOK(history[m], collected[m])
  BY <1>1, GcOK
<1>3. HoldsLastWrites(history[n], collected[n])
  BY <1>1, GcHolds DEF SafetyInv, OwnStateIntact
<1>4. \A m \in Node : StateOK(history[m], NewNodeState)
  BY <1>1, NewStateOK
<1>5. n \notin forgotten
  BY DEF SafetyInv, TypeInv, TypeOK
<1>6. /\ network' = network \cup {SynMessage(n, collected, p) : p \in peers}
      /\ node_states' = [node_states EXCEPT ![n] = states]
      /\ history' = history
  BY DEF GossipMultiple, Send
<1> HIDE DEF collected
<1>7. (\A m \in Node : StateOK(history[m], states[m])) /\ HoldsLastWrites(history[n], states[n])
  BY <1>2, <1>3, <1>4, <1>5
<1>8. \A m \in network' : m \in network \/ MessageOK(m)
  <2>1. collected[n].max_version = Len(history[n])
    BY <1>3 DEF HoldsLastWrites
  <2>2. QED
    BY <1>6, <2>1, SynOK
<1> HIDE DEF states
<1>9. QED
  BY <1>6, <1>7, <1>8, SafetyOneNode

\* So does every step that only sends messages that satisfy it.
LEMMA SafetyUnchanged ==
    ASSUME SafetyInv, TypeInv', UNCHANGED <<node_states, history>>,
           \A m \in network' : m \in network \/ MessageOK(m)
    PROVE  SafetyInv'
<1>1. \A m \in network' : MessageOK(m)'
  BY DEF SafetyInv, MessageOK
<1>2. QED
  BY <1>1 DEF SafetyInv, OwnStateIntact

\* What a node holds after it has applied a delta; its own state is as before.
LEMMA ApplyDeltasOK ==
    ASSUME SafetyInv, NEW m \in network, m.type \in {"SynAck", "Ack"}
    PROVE  LET states == ApplyDeltas(node_states[m.dst], m.delta)
           IN  /\ \A x \in Node : StateOK(history[x], states[x])
               /\ states[m.dst] = node_states[m.dst][m.dst]
<1>1. /\ m \in Messages /\ DeltaWellFormed(m) /\ MessageOK(m)
      /\ m.dst \in Node
  BY MessageFields DEF SafetyInv, TypeInv, TypeOK
<1>2. \A x \in Node : /\ WriteLimit[x] \in Nat
                      /\ WellFormed(WriteLimit[x], node_states[m.dst][x])
                      /\ WellFormedDelta(WriteLimit[x], m.delta[x])
                      /\ history[x] \in Seq(Write) /\ HistoryOK(history[x])
                      /\ StateOK(history[x], node_states[m.dst][x])
                      /\ DeltaOK(history[x], m.delta[x])
  BY <1>1, BoundsAssumption DEF SafetyInv, TypeInv, TypeOK, DeltaWellFormed, MessageOK
<1>3. \A x \in Node : StateOK(history[x], ApplyDelta(node_states[m.dst][x], m.delta[x]))
  BY <1>2, ApplyDeltaOK
<1>4. node_states[m.dst][m.dst].max_version = Len(history[m.dst])
  BY <1>1 DEF SafetyInv, OwnStateIntact, HoldsLastWrites
<1>5. m.delta[m.dst].last_gc_version = 0 \/ m.delta[m.dst].last_gc_version < Len(history[m.dst])
  BY <1>1 DEF MessageOK
<1>6. ApplyDelta(node_states[m.dst][m.dst], m.delta[m.dst]) = node_states[m.dst][m.dst]
  BY <1>1, <1>2, <1>4, <1>5, ApplyOwnDelta
<1>7. QED
  BY <1>1, <1>3, <1>6 DEF ApplyDeltas

\* process_message preserves the safety invariant.
LEMMA SafetyReceive ==
    ASSUME SafetyInv, TypeInv', MaxDelay < GracePeriod,
           NEW m \in network, NEW duplicated \in BOOLEAN, Receive(m, duplicated)
    PROVE  SafetyInv'
<1>1. /\ m \in Messages /\ MessageOK(m)
      /\ m.src \in Node /\ m.dst \in Node /\ m.ttl \in Nat
  BY MessageFields DEF SafetyInv, TypeInv, TypeOK
<1>2. Delivered(m, duplicated) \subseteq network
  BY DEF Delivered
<1>3. MaxDelay \in Nat
  BY BoundsAssumption
<1>4. \A x \in Node : /\ WellFormed(WriteLimit[x], node_states[m.dst][x])
                      /\ StateOK(history[x], node_states[m.dst][x])
  BY <1>1 DEF SafetyInv, TypeInv
<1>5. ASSUME NEW room \in Rooms, HandleSyn(m, duplicated, room)
      PROVE  SafetyInv'
  <2> DEFINE states == node_states[m.dst]
             hidden == scheduled[m.dst]
  <2>1. m.type = "Syn" /\ UNCHANGED <<node_states, history>>
    BY <1>5 DEF HandleSyn
  <2>2. PICK delta \in PartialDeltas(states, m.digest, hidden, room) :
            network' = Delivered(m, duplicated) \cup
                {[type |-> "SynAck", src |-> m.dst, dst |-> m.src, ttl |-> MaxDelay,
                  digest |-> ComputeDigest(states, hidden), delta |-> delta]}
    BY <1>5 DEF HandleSyn, Send
  <2>3. m.digest \in Digests /\ RecentSince(history[m.src], m.digest[m.src].max_version, m.ttl)
    BY <1>1, <2>1, MessageFields DEF MessageOK
  <2>4. \A x \in Node : DeltaOK(history[x], delta[x])
    BY <1>4, <2>3, PartialDeltaOK
  <2>5. delta[m.src].last_gc_version = 0 \/ delta[m.src].last_gc_version < Len(history[m.src])
    BY <1>1, <1>4, <2>3, ReplyKeepsOwner
  <2>6. RecentSince(history[m.dst], ComputeDigest(states, hidden)[m.dst].max_version, MaxDelay)
    <3>1. m.dst \notin hidden /\ states[m.dst].max_version = Len(history[m.dst])
      BY <1>1 DEF SafetyInv, TypeInv, TypeOK, OwnStateIntact, HoldsLastWrites
    <3>2. ComputeDigest(states, hidden)[m.dst].max_version = Len(history[m.dst])
      BY <1>1, <3>1 DEF ComputeDigest
    <3>3. history[m.dst] \in Seq(Write)
      BY <1>1 DEF SafetyInv, TypeInv, TypeOK
    <3>4. QED
      BY <3>2, <3>3 DEF RecentSince
  <2> HIDE DEF states, hidden
  <2>7. \A x \in network' : x \in network \/ MessageOK(x)
    BY <1>1, <1>2, <1>3, <2>2, <2>4, <2>5, <2>6 DEF MessageOK
  <2>8. QED
    BY <2>1, <2>7, SafetyUnchanged
<1>6. ASSUME NEW room \in Rooms, HandleSynAck(m, duplicated, room)
      PROVE  SafetyInv'
  <2> DEFINE states == ApplyDeltas(node_states[m.dst], m.delta)
  <2>1. /\ m.type = "SynAck" /\ history' = history
        /\ node_states' = [node_states EXCEPT ![m.dst] = states]
    BY <1>6 DEF HandleSynAck
  <2>2. PICK delta \in PartialDeltas(states, m.digest, scheduled[m.dst], room) :
            network' = Delivered(m, duplicated) \cup
                {[type |-> "Ack", src |-> m.dst, dst |-> m.src, ttl |-> MaxDelay, delta |-> delta]}
    BY <1>6 DEF HandleSynAck, Send
  <2>3. m.digest \in Digests /\ RecentSince(history[m.src], m.digest[m.src].max_version, m.ttl)
    BY <1>1, <2>1, MessageFields DEF MessageOK
  <2>4. \A x \in Node : WellFormed(WriteLimit[x], states[x]) /\ StateOK(history[x], states[x])
    BY <2>1, ApplyDeltasWellFormed, ApplyDeltasOK DEF SafetyInv
  <2>5. HoldsLastWrites(history[m.dst], states[m.dst])
    BY <1>1, <2>1, ApplyDeltasOK DEF SafetyInv, OwnStateIntact
  <2> HIDE DEF states
  <2>6. \A x \in Node : DeltaOK(history[x], delta[x])
    BY <2>3, <2>4, PartialDeltaOK
  <2>7. delta[m.src].last_gc_version = 0 \/ delta[m.src].last_gc_version < Len(history[m.src])
    BY <1>1, <2>3, <2>4, ReplyKeepsOwner
  <2>8. \A x \in network' : x \in network \/ MessageOK(x)
    BY <1>1, <1>2, <1>3, <2>2, <2>6, <2>7 DEF MessageOK
  <2>9. QED
    BY <1>1, <2>1, <2>4, <2>5, <2>8, SafetyOneNode
<1>7. CASE HandleAck(m, duplicated)
  <2> DEFINE states == ApplyDeltas(node_states[m.dst], m.delta)
  <2>1. /\ m.type = "Ack" /\ history' = history
        /\ node_states' = [node_states EXCEPT ![m.dst] = states]
        /\ network' = Delivered(m, duplicated)
    BY <1>1, <1>7 DEF HandleAck, Send, SafetyInv, TypeInv, TypeOK
  <2>2. \A x \in Node : StateOK(history[x], states[x])
    BY <2>1, ApplyDeltasOK
  <2>3. HoldsLastWrites(history[m.dst], states[m.dst])
    BY <1>1, <2>1, ApplyDeltasOK DEF SafetyInv, OwnStateIntact
  <2> HIDE DEF states
  <2>4. QED
    BY <1>1, <1>2, <2>1, <2>2, <2>3, SafetyOneNode
<1>8. CASE HandleForeignSyn(m, duplicated)
  <2>1. \A x \in network' : x \in network \/ MessageOK(x)
    BY <1>2, <1>3, <1>8 DEF HandleForeignSyn, Send, MessageOK
  <2>2. QED
    BY <1>8, <2>1, SafetyUnchanged DEF HandleForeignSyn
<1>9. CASE HandleBadCluster(m, duplicated)
  BY <1>2, <1>9, SafetyUnchanged DEF HandleBadCluster, Send
<1>10. QED
  BY <1>5, <1>6, <1>7, <1>8, <1>9 DEF Receive

\* The passing of time preserves the safety invariant.
LEMMA SafetyTick ==
    ASSUME SafetyInv, TypeInv', MaxDelay < GracePeriod, Tick
    PROVE  SafetyInv'
<1>1. \A n \in Node : /\ history[n] \in Seq(Write) /\ HistoryOK(history[n])
                      /\ history'[n] = AgeWrites(history[n]) /\ WriteLimit[n] \in Nat
  BY BoundsAssumption DEF Tick, SafetyInv, TypeInv, TypeOK
<1>2. \A n, m \in Node : /\ node_states'[n][m] = Age(node_states[n][m])
                         /\ WellFormed(WriteLimit[m], node_states[n][m])
                         /\ StateOK(history[m], node_states[n][m])
  BY DEF Tick, SafetyInv, TypeInv
<1>3. \A n \in Node : HistoryOK(history'[n])
  BY <1>1, AgeWritesOK
<1>4. \A n, m \in Node : StateOK(history'[m], node_states'[n][m])
  BY <1>1, <1>2, AgeStateOK
<1>5. OwnStateIntact'
  <2>1. \A n \in Node : /\ HoldsLastWrites(history[n], node_states[n][n])
                        /\ CollectedWrite(history[n], node_states[n][n].last_gc_version)
    BY <1>2 DEF SafetyInv, OwnStateIntact, StateOK
  <2>2. \A n \in Node : HoldsLastWrites(history'[n], node_states'[n][n])
    BY <1>1, <1>2, <2>1, AgeHolds
  <2>3. QED
    BY <2>2 DEF OwnStateIntact
<1>6. \A m \in network' : MessageOK(m)'
  <2> SUFFICES ASSUME NEW m \in network' PROVE MessageOK(m)'
    OBVIOUS
  <2>1. PICK d \in network : d.ttl > 0 /\ m = [d EXCEPT !.ttl = @ - 1]
    BY DEF Tick
  <2>2. d \in Messages /\ DeltaWellFormed(d) /\ MessageOK(d)
    BY DEF SafetyInv, TypeInv, TypeOK
  <2>3. /\ m.type = d.type /\ m.src = d.src /\ m.dst = d.dst /\ m.ttl = d.ttl - 1
        /\ d.type \in {"Syn", "SynAck"} => m.digest = d.digest
        /\ d.type \in {"SynAck", "Ack"} => m.delta = d.delta
    BY <2>1, <2>2, OlderMessage
  <2>4. d.src \in Node /\ d.dst \in Node /\ d.ttl \in Nat /\ d.ttl <= MaxDelay /\ MaxDelay \in Nat
    BY <2>2, MessageFields, BoundsAssumption DEF MessageOK
  <2>5. ASSUME d.type \in {"Syn", "SynAck"}
        PROVE  RecentSince(history'[d.src], d.digest[d.src].max_version, d.ttl - 1)
    <3>1. /\ d.digest[d.src].max_version \in Nat
          /\ RecentSince(history[d.src], d.digest[d.src].max_version, d.ttl)
      BY <2>2, <2>4, <2>5, MessageFields DEF Digests, NodeDigests, MessageOK
    <3>2. QED
      BY <1>1, <2>1, <2>4, <3>1, AgeRecent
  <2>6. ASSUME d.type \in {"SynAck", "Ack"}
        PROVE  /\ \A x \in Node : DeltaOK(history'[x], d.delta[x])
               /\ \/ d.delta[d.dst].last_gc_version = 0
                  \/ d.delta[d.dst].last_gc_version < Len(history'[d.dst])
    <3>1. \A x \in Node : /\ WellFormedDelta(WriteLimit[x], d.delta[x])
                          /\ DeltaOK(history[x], d.delta[x])
      BY <2>2, <2>6 DEF DeltaWellFormed, MessageOK
    <3>2. \A x \in Node : DeltaOK(history'[x], d.delta[x])
      BY <1>1, <3>1, AgeDeltaOK
    <3>3. Len(history'[d.dst]) = Len(history[d.dst])
      BY <1>1, <2>4, AgeWritesType
    <3>4. QED
      BY <2>2, <2>6, <3>2, <3>3 DEF MessageOK
  <2>7. m.ttl <= MaxDelay
    BY <2>3, <2>4
  <2>8. QED
    BY <2>3, <2>5, <2>6, <2>7 DEF MessageOK
<1>7. QED
  BY <1>3, <1>4, <1>5, <1>6 DEF SafetyInv

\* The safety invariant is inductive when no datagram outlives the grace period.
LEMMA SafetyNext == ASSUME MaxDelay < GracePeriod PROVE SafetyInv /\ [Next]_vars => SafetyInv'
<1> SUFFICES ASSUME SafetyInv, [Next]_vars PROVE SafetyInv'
  OBVIOUS
<1>0. TypeInv'
  BY TypeInvNext DEF SafetyInv
<1>1. CASE UNCHANGED vars
  BY <1>0, <1>1, SafetyUnchanged DEF vars
<1>2. ASSUME NEW n \in Node, NEW k \in Key, NEW v \in Value, SetKey(n, k, v) \/ SetKeyWithTtl(n, k, v)
      PROVE  SafetyInv'
  BY <1>0, <1>2, SafetyOwnWrite
<1>3. ASSUME NEW n \in Node, NEW k \in Key, DeleteKey(n, k) \/ DeleteKeyAfterTtl(n, k)
      PROVE  SafetyInv'
  BY <1>0, <1>3, SafetyOwnWrite
<1>4. ASSUME NEW n \in Node, NEW peers \in SUBSET Node, NEW forgotten \in SUBSET scheduled[n],
             GossipMultiple(n, peers, forgotten)
      PROVE  SafetyInv'
  BY <1>0, <1>4, SafetyGossipMultiple
<1>5. ASSUME NEW n \in Node, NEW p \in Node, Gossip(n, p)
      PROVE  SafetyInv'
  <2>1. MessageOK(SynMessage(n, node_states[n], p))
    BY SynOK DEF SafetyInv, OwnStateIntact, HoldsLastWrites
  <2>2. QED
    BY <1>0, <1>5, <2>1, SafetyUnchanged DEF Gossip, Send
<1>6. ASSUME NEW m \in network, NEW duplicated \in BOOLEAN, Receive(m, duplicated)
      PROVE  SafetyInv'
  BY <1>0, <1>6, SafetyReceive
<1>7. ASSUME NEW m \in network, Lose(m)
      PROVE  SafetyInv'
  BY <1>0, <1>7, SafetyUnchanged DEF Lose
<1>8. ASSUME NEW n \in Node, NEW m \in Node, ChangeSchedule(n, m)
      PROVE  SafetyInv'
  BY <1>0, <1>8, SafetyUnchanged DEF ChangeSchedule
<1>9. CASE Tick
  BY <1>0, <1>9, SafetyTick
<1>10. QED
  BY <1>1, <1>2, <1>3, <1>4, <1>5, <1>6, <1>7, <1>8, <1>9 DEF Next

\* Every replica and every delta in flight is authentic, and no node's own state is
\* touched by the deltas it receives, when no datagram outlives the grace period of
\* deletions (process_delta, prepare_apply_delta, gc_keys_marked_for_deletion).
THEOREM SafetyInvariant == ASSUME MaxDelay < GracePeriod PROVE Spec => []SafetyInv
  BY SafetyInit, SafetyNext, PTL DEF Spec

\* A node's own state is out of reach of every delta, in spite of the missing
\* guard in process_delta, provided that no datagram is in flight for as long as
\* the grace period of deletions.
THEOREM OwnStateSafe == ASSUME MaxDelay < GracePeriod PROVE Spec => []OwnStateIntact
<1>1. SafetyInv => OwnStateIntact
  BY DEF SafetyInv
<1>2. QED
  BY <1>1, SafetyInvariant, PTL

\* No replica ever holds, or claims to have seen or collected, what its owner
\* has not written, under the same proviso.
THEOREM ReplicasAuthentic == ASSUME MaxDelay < GracePeriod PROVE Spec => []AuthenticReplicas
<1>1. SafetyInv => AuthenticReplicas
  <2> SUFFICES ASSUME SafetyInv, NEW n \in Node, NEW m \in Node
               PROVE  LET s == node_states[n][m]
                      IN  /\ s.max_version <= Len(history[m])
                          /\ s.last_gc_version <= Len(history[m])
                          /\ \A k \in Key : /\ Authentic(history[m], k, s.key_values[k])
                                            /\ s.key_values[k].version <= s.max_version
    BY DEF AuthenticReplicas
  <2>1. /\ StateOK(history[m], node_states[n][m]) /\ WellFormed(WriteLimit[m], node_states[n][m])
        /\ history[m] \in Seq(Write)
    BY DEF SafetyInv, TypeInv, TypeOK
  <2>2. node_states[n][m].last_gc_version <= Len(history[m])
    <3>1. CollectedWrite(history[m], node_states[n][m].last_gc_version) /\ Len(history[m]) \in Nat
      BY <2>1 DEF StateOK
    <3>2. QED
      BY ONLY <3>1 DEF CollectedWrite
  <2>3. QED
    BY <2>1, <2>2 DEF StateOK, WellFormed
<1>2. QED
  BY <1>1, SafetyInvariant, PTL

-----------------------------------------------------------------------------
(***************************************************************************)
(* Nothing above last_gc_version is missed.  The invariant says of the     *)
(* deltas in flight what the property says of the replicas: the keys that  *)
(* were last written in the range of versions a delta spans, above what    *)
(* its sender has collected, are in the delta.  It lasts because a write   *)
(* takes its key out of every such range: the new version is above all     *)
(* that replicas and deltas have seen.                                     *)
(***************************************************************************)

\* Of a key last written above last_gc_version and up to max_version, the state
\* holds the last write.
StateFaithful(w, s) ==
    \A k \in Key :
        LET last == LastWrite(w, k)
        IN  (s.last_gc_version < last /\ last <= s.max_version) => s.key_values[k].version = last

\* Of a key last written in the range of the delta, above what its sender has
\* collected, the delta carries the last write.
DeltaFaithful(w, d) ==
    \A k \in Key :
        LET last == LastWrite(w, k)
        IN  (/\ d.from_version_excluded < last /\ d.last_gc_version < last
             /\ last <= DeltaMaxVersion(d)) => d.key_values[k].version = last

MessageFaithful(m) ==
    m.type \in {"SynAck", "Ack"} => \A x \in Node : DeltaFaithful(history[x], m.delta[x])

\* The inductive invariant.
FaithfulInv ==
    /\ SafetyInv
    /\ \A n, m \in Node : StateFaithful(history[m], node_states[n][m])
    /\ \A m \in network : MessageFaithful(m)

\* LastWrite is the greatest version of its key, or 0.
LEMMA LastWriteRange ==
    ASSUME NEW w \in Seq(Write), NEW k
    PROVE  /\ LastWrite(w, k) \in Nat /\ LastWrite(w, k) <= Len(w)
           /\ \A x \in 1..Len(w) : w[x].key = k => x <= LastWrite(w, k)
  BY LatestVersionRange DEF LastWrite

\* The version a delta brings its receiver to is that of a key-value it carries,
\* and no key-value is above it; without key-values it is the SetMaxVersion.
LEMMA DeltaMaxRange ==
    ASSUME NEW b \in Nat, NEW d, WellFormedDelta(b, d)
    PROVE  /\ DeltaMaxVersion(d) \in Nat
           /\ \A k \in DeltaKeys(d) : d.key_values[k].version <= DeltaMaxVersion(d)
           /\ IF DeltaKeys(d) = {} THEN DeltaMaxVersion(d) = d.max_version
              ELSE \E k \in DeltaKeys(d) : DeltaMaxVersion(d) = d.key_values[k].version
<1> DEFINE V == {d.key_values[k].version : k \in DeltaKeys(d)}
<1>1. /\ d.max_version \in Nat
      /\ \A k \in Key : d.key_values[k].version \in Nat /\ d.key_values[k].version <= b
  BY DEF WellFormedDelta, NodeDeltas, Entry
<1>2. DeltaKeys(d) \subseteq Key
  BY DEF DeltaKeys
<1>3. V \in SUBSET Nat /\ \A x \in V : x <= b
  BY <1>1, <1>2
<1>4. CASE DeltaKeys(d) = {}
  BY <1>1, <1>4 DEF DeltaMaxVersion
<1>5. CASE DeltaKeys(d) # {}
  <2>1. V # {}
    BY <1>5
  <2>2. DeltaMaxVersion(d) = Max(V)
    BY <1>5 DEF DeltaMaxVersion
  <2> HIDE DEF V
  <2>3. Max(V) \in V /\ \A y \in V : y <= Max(V)
    BY <1>3, <2>1, MaxExists
  <2>4. QED
    BY <1>3, <1>5, <2>2, <2>3 DEF V
<1>6. QED
  BY <1>4, <1>5

\* A delta cannot bring its receiver above what the owner has written.
LEMMA DeltaMaxBound ==
    ASSUME NEW w \in Seq(Write), NEW b \in Nat, NEW d, WellFormedDelta(b, d), DeltaOK(w, d)
    PROVE  DeltaMaxVersion(d) \in Nat /\ DeltaMaxVersion(d) <= Len(w)
<1>1. \A k \in DeltaKeys(d) : d.key_values[k].version <= Len(w)
  BY DEF DeltaOK, DeltaKeys, Authentic
<1>2. QED
  BY <1>1, DeltaMaxRange DEF DeltaOK

\* A state that knows of no write has missed none.
LEMMA NewStateFaithful ==
    ASSUME NEW w \in Seq(Write)
    PROVE  StateFaithful(w, NewNodeState)
<1>1. NewNodeState.max_version = 0 /\ NewNodeState.last_gc_version = 0
  BY DEF NewNodeState, StateOf
<1>2. \A k \in Key : LastWrite(w, k) \in Nat
  BY LastWriteRange
<1>3. QED
  BY ONLY <1>1, <1>2 DEF StateFaithful

\* A node's own state misses nothing.
LEMMA OwnStateFaithful ==
    ASSUME NEW w \in Seq(Write), NEW b \in Nat, NEW s, WellFormed(b, s), HoldsLastWrites(w, s)
    PROVE  StateFaithful(w, s)
<1>1. s.last_gc_version \in Nat
  BY DEF WellFormed, NodeStates
<1>2. \A k \in Key : LastWrite(w, k) \in Nat
  BY LastWriteRange
<1>3. \A k \in Key : s.key_values[k].version = LastWrite(w, k) \/ LastWrite(w, k) <= s.last_gc_version
  BY DEF HoldsLastWrites, LastWrite
<1>4. QED
  BY ONLY <1>1, <1>2, <1>3 DEF StateFaithful

\* What a collection takes away lies at or below the new last_gc_version.
LEMMA GcFaithful ==
    ASSUME NEW w \in Seq(Write), NEW b \in Nat, NEW s, WellFormed(b, s), StateFaithful(w, s)
    PROVE  StateFaithful(w, GcKeysMarkedForDeletion(s))
<1> DEFINE t == GcKeysMarkedForDeletion(s)
<1>1. /\ t.max_version = s.max_version
      /\ s.last_gc_version \in Nat /\ t.last_gc_version \in Nat
      /\ s.last_gc_version <= t.last_gc_version
      /\ \A k \in Key : t.key_values[k] = IF k \in Collectable(s) THEN Vacant ELSE s.key_values[k]
      /\ \A k \in Collectable(s) : s.key_values[k].version <= t.last_gc_version
  BY GcWellFormed DEF WellFormed, NodeStates
<1> HIDE DEF t
<1>2. SUFFICES ASSUME NEW k \in Key,
                      t.last_gc_version < LastWrite(w, k), LastWrite(w, k) <= t.max_version
               PROVE  t.key_values[k].version = LastWrite(w, k)
  BY DEF StateFaithful, t
<1>3. LastWrite(w, k) \in Nat
  BY LastWriteRange
<1>4. s.key_values[k].version = LastWrite(w, k)
  BY <1>1, <1>2, <1>3 DEF StateFaithful
<1>5. k \notin Collectable(s)
  BY <1>1, <1>2, <1>3, <1>4
<1>6. QED
  BY <1>1, <1>4, <1>5

\* The key-values of a node delta are a lower part of the stale ones: whatever
\* precedes a key-value that fits, fits.
LEMMA NodeDeltaLowerPart ==
    ASSUME NEW b \in Nat, NEW s, WellFormed(b, s), NEW from \in Nat, NEW room \in Nat,
           NEW j \in Key, NEW k \in Key,
           Present(NodeDelta(s, from, room).key_values[j]),
           s.key_values[k].version > from,
           s.key_values[k].version <= NodeDelta(s, from, room).key_values[j].version
    PROVE  NodeDelta(s, from, room).key_values[k].version = s.key_values[k].version
<1> DEFINE stale == StaleKeys(s, from)
           Upto(i) == {h \in stale : s.key_values[h].version <= s.key_values[i].version}
           d == NodeDelta(s, from, room)
<1>1. \A i \in Key : s.key_values[i] \in Entry /\ s.key_values[i].version \in Nat
  BY DEF WellFormed, NodeStates, Entry
<1>2. \A i \in Key : d.key_values[i] = IF i \in stale /\ Cardinality(Upto(i)) < room
                                       THEN [s.key_values[i] EXCEPT !.left = 0] ELSE Vacant
  BY DEF NodeDelta
<1>3. j \in stale /\ Cardinality(Upto(j)) < room
  BY <1>2, VacantType
<1>4. d.key_values[j].version = s.key_values[j].version
  BY <1>1, <1>2, <1>3 DEF Entry
<1>5. k \in stale
  BY DEF StaleKeys
<1>6. Cardinality(Upto(k)) < room
  <2>1. Upto(k) \subseteq Upto(j)
    <3>1. stale \subseteq Key
      BY DEF StaleKeys
    <3>2. \A h \in stale : s.key_values[h].version <= s.key_values[k].version
                             => s.key_values[h].version <= s.key_values[j].version
      BY <1>1, <1>4, <3>1
    <3>3. QED
      BY <3>2
  <2>2. IsFiniteSet(Upto(j)) /\ IsFiniteSet(Upto(k))
    <3>1. Upto(j) \subseteq Key /\ Upto(k) \subseteq Key
      BY DEF StaleKeys
    <3> HIDE DEF Upto
    <3>2. QED
      BY <3>1, KeyAssumption, FS_Subset
  <2> HIDE DEF Upto
  <2>3. Cardinality(Upto(k)) <= Cardinality(Upto(j))
        /\ Cardinality(Upto(k)) \in Nat /\ Cardinality(Upto(j)) \in Nat
    BY <2>1, <2>2, FS_Subset, FS_CardinalityType
  <2>4. QED
    BY <1>3, <2>3
<1>7. QED
  BY <1>1, <1>2, <1>5, <1>6 DEF Entry

\* A delta made of a replica that misses nothing misses nothing.
LEMMA NodeDeltaFaithful ==
    ASSUME NEW w \in Seq(Write), NEW b \in Nat, NEW s, WellFormed(b, s), StateFaithful(w, s),
           NEW from \in Nat, NEW room \in Nat
    PROVE  DeltaFaithful(w, NodeDelta(s, from, room))
<1> DEFINE d == NodeDelta(s, from, room)
<1>1. /\ WellFormedDelta(b, d)
      /\ d.from_version_excluded = from
      /\ d.last_gc_version = s.last_gc_version
      /\ d.max_version = IF StaleKeys(s, from) = {} /\ room >= 2 THEN s.max_version ELSE 0
      /\ \A i \in Key : \/ d.key_values[i] = Vacant
                        \/ d.key_values[i].version = s.key_values[i].version
  <2>1. /\ WellFormedDelta(b, d)
        /\ \A i \in Key : \/ d.key_values[i] = Vacant
                          \/ d.key_values[i].version = s.key_values[i].version
    BY NodeDeltaWellFormed
  <2>2. /\ d.from_version_excluded = from
        /\ d.last_gc_version = s.last_gc_version
        /\ d.max_version = IF StaleKeys(s, from) = {} /\ room >= 2 THEN s.max_version ELSE 0
    BY DEF NodeDelta
  <2>3. QED
    BY <2>1, <2>2
<1>2. /\ s.max_version \in Nat /\ s.last_gc_version \in Nat
      /\ \A i \in Key : /\ s.key_values[i].version \in Nat
                        /\ s.key_values[i].version <= s.max_version
  BY DEF WellFormed, NodeStates, Entry
<1>3. /\ DeltaMaxVersion(d) \in Nat
      /\ IF DeltaKeys(d) = {} THEN DeltaMaxVersion(d) = d.max_version
         ELSE \E j \in DeltaKeys(d) : DeltaMaxVersion(d) = d.key_values[j].version
  BY <1>1, DeltaMaxRange
<1> SUFFICES ASSUME NEW k \in Key, from < LastWrite(w, k), s.last_gc_version < LastWrite(w, k),
                    LastWrite(w, k) <= DeltaMaxVersion(d)
             PROVE  d.key_values[k].version = LastWrite(w, k)
  BY <1>1 DEF DeltaFaithful
<1>4. LastWrite(w, k) \in Nat
  BY LastWriteRange
<1> HIDE DEF d
<1>5. CASE DeltaKeys(d) = {}
  <2>1. StaleKeys(s, from) = {} /\ DeltaMaxVersion(d) = s.max_version
    BY <1>1, <1>3, <1>4, <1>5
  <2>2. s.key_values[k].version = LastWrite(w, k)
    BY <2>1 DEF StateFaithful
  <2>3. QED
    BY <2>1, <2>2 DEF StaleKeys
<1>6. ASSUME NEW j \in DeltaKeys(d), DeltaMaxVersion(d) = d.key_values[j].version
      PROVE  d.key_values[k].version = LastWrite(w, k)
  <2>1. j \in Key /\ Present(d.key_values[j])
    BY DEF DeltaKeys
  <2>2. d.key_values[j].version <= s.max_version
    BY <1>1, <1>2, <2>1, VacantType
  <2>3. s.key_values[k].version = LastWrite(w, k)
    BY <1>2, <1>3, <1>4, <1>6, <2>2 DEF StateFaithful
  <2>4. QED
    BY <1>6, <2>1, <2>3, NodeDeltaLowerPart DEF d
<1>7. QED
  BY <1>3, <1>5, <1>6

\* Applying a delta that misses nothing to a replica that misses nothing.  A
\* mutation that is skipped as a collected deletion lies below last_gc_version.
LEMMA ApplicableFaithful ==
    ASSUME NEW w \in Seq(Write), NEW b \in Nat, NEW s, WellFormed(b, s), StateFaithful(w, s),
           NEW d, WellFormedDelta(b, d), DeltaOK(w, d), DeltaFaithful(w, d),
           ~FromTheFuture(s, d), Applicable(s, d)
    PROVE  StateFaithful(w, ApplyMutations(s, d))
<1> DEFINE t == ApplyMutations(s, d)
           new == NewMutations(s, d)
<1>1. /\ t.last_gc_version = s.last_gc_version
      /\ t.max_version = s.max_version \/ \E k \in new : t.max_version = d.key_values[k].version
      /\ \A k \in Key :
            t.key_values[k] =
               IF k \in new /\ s.key_values[k].version < d.key_values[k].version
               THEN VersionedValue(d.key_values[k].value, d.key_values[k].version,
                                   d.key_values[k].status)
               ELSE s.key_values[k]
  BY ApplyMutationsWellFormed
<1>2. /\ s.max_version \in Nat /\ s.last_gc_version \in Nat
      /\ d.from_version_excluded \in Nat /\ d.last_gc_version \in Nat
      /\ \A k \in Key : /\ s.key_values[k].version \in Nat
                        /\ s.key_values[k].version <= s.max_version
                        /\ d.key_values[k].version \in Nat
  BY DEF WellFormed, WellFormedDelta, NodeStates, NodeDeltas, Entry
<1>3. \A k \in Key : VersionedValue(d.key_values[k].value, d.key_values[k].version,
                                    d.key_values[k].status).version = d.key_values[k].version
  BY DEF VersionedValue
<1>4. new = {k \in DeltaKeys(d) :
                /\ d.key_values[k].version > s.max_version
                /\ ~(ScheduledForDeletion(d.key_values[k])
                       /\ d.key_values[k].version <= s.last_gc_version)}
  BY DEF NewMutations
<1>5. DeltaKeys(d) = {k \in Key : d.key_values[k].version # 0}
  BY DEF DeltaKeys, Present
<1> HIDE DEF t, new
<1> SUFFICES ASSUME NEW k \in Key, s.last_gc_version < LastWrite(w, k), LastWrite(w, k) <= t.max_version
             PROVE  t.key_values[k].version = LastWrite(w, k)
  BY <1>1 DEF StateFaithful, t
<1> DEFINE last == LastWrite(w, k)
<1>6. last \in Nat /\ \A x \in 1..Len(w) : w[x].key = k => x <= last
  BY LastWriteRange
<1> HIDE DEF last
<1>7. CASE last <= s.max_version
  <2>1. s.key_values[k].version = last
    BY <1>7 DEF StateFaithful, last
  <2>2. ~(k \in new /\ s.key_values[k].version < d.key_values[k].version)
    <3>1. d.key_values[k].version # 0 => /\ d.key_values[k].version \in 1..Len(w)
                                         /\ w[d.key_values[k].version].key = k
      BY <1>2 DEF DeltaOK, Authentic, Present
    <3>2. d.key_values[k].version # 0 => d.key_values[k].version <= last
      BY <1>6, <3>1
    <3>3. QED
      BY <1>2, <1>6, <2>1, <3>2
  <2>3. QED
    BY <1>1, <2>1, <2>2 DEF last
<1>8. CASE last > s.max_version
  <2>1. last <= DeltaMaxVersion(d)
    <3>1. PICK j \in new : t.max_version = d.key_values[j].version
      BY <1>1, <1>2, <1>6, <1>8 DEF last
    <3>2. j \in DeltaKeys(d)
      BY <1>4
    <3>3. t.max_version <= DeltaMaxVersion(d) /\ t.max_version \in Nat /\ DeltaMaxVersion(d) \in Nat
      BY <1>2, <1>5, <3>1, <3>2, DeltaMaxRange
    <3>4. QED
      BY <1>6, <3>3 DEF last
  <2>2. d.from_version_excluded < last
    BY <1>2, <1>6, <1>8 DEF FromTheFuture
  <2>3. d.last_gc_version < last
    BY <1>2, <1>6, <1>8 DEF Applicable, last
  <2>4. d.key_values[k].version = last
    BY <2>1, <2>2, <2>3 DEF DeltaFaithful, last
  <2>5. last > s.last_gc_version
    BY DEF last
  <2>6. k \in new
    BY <1>2, <1>4, <1>5, <1>6, <1>8, <2>4, <2>5
  <2>7. s.key_values[k].version < d.key_values[k].version
    BY <1>2, <1>6, <1>8, <2>4
  <2>8. QED
    BY <1>1, <1>3, <2>4, <2>6, <2>7 DEF last
<1>9. QED
  BY <1>2, <1>6, <1>7, <1>8

\* A replica that starts afresh from a delta that misses nothing: what the delta
\* leaves out had been seen before, or had been collected by its sender.
LEMMA ResetFaithful ==
    ASSUME NEW w \in Seq(Write), NEW b \in Nat, NEW s, WellFormed(b, s),
           NEW d, WellFormedDelta(b, d), DeltaFaithful(w, d),
           ~FromTheFuture(s, d), InvitesReset(s, d)
    PROVE  StateFaithful(w, ApplyMutations(ResetNodeState(d), d))
<1> DEFINE r == ResetNodeState(d)
           t == ApplyMutations(r, d)
           new == NewMutations(r, d)
<1>1. /\ WellFormed(b, r) /\ r.last_gc_version = d.last_gc_version
      /\ \A k \in Key : r.key_values[k].version = 0
      /\ r.max_version = IF DeltaKeys(d) = {} THEN d.max_version ELSE 0
  <2>1. r.max_version = IF DeltaKeys(d) = {} THEN d.max_version ELSE 0
    BY DEF ResetNodeState, StateOf
  <2>2. QED
    BY <2>1, ResetWellFormed, VacantType
<1>2. /\ s.max_version \in Nat /\ s.last_gc_version \in Nat
      /\ d.from_version_excluded \in Nat /\ d.last_gc_version \in Nat /\ d.max_version \in Nat
      /\ \A k \in Key : d.key_values[k].version \in Nat
  BY DEF WellFormed, WellFormedDelta, NodeStates, NodeDeltas, Entry
<1>3. d.from_version_excluded <= d.last_gc_version
  BY <1>2 DEF FromTheFuture, InvitesReset, Applicable
<1>4. \A k \in Key : VersionedValue(d.key_values[k].value, d.key_values[k].version,
                                    d.key_values[k].status).version = d.key_values[k].version
  BY DEF VersionedValue
<1>5. new = {k \in DeltaKeys(d) :
                /\ d.key_values[k].version > r.max_version
                /\ ~(ScheduledForDeletion(d.key_values[k])
                       /\ d.key_values[k].version <= r.last_gc_version)}
  BY DEF NewMutations
<1>6. DeltaKeys(d) = {k \in Key : d.key_values[k].version # 0}
  BY DEF DeltaKeys, Present
<1> HIDE DEF r
<1>7. /\ t.last_gc_version = r.last_gc_version
      /\ t.max_version = r.max_version \/ \E k \in new : t.max_version = d.key_values[k].version
      /\ \A k \in Key :
            t.key_values[k] =
               IF k \in new /\ r.key_values[k].version < d.key_values[k].version
               THEN VersionedValue(d.key_values[k].value, d.key_values[k].version,
                                   d.key_values[k].status)
               ELSE r.key_values[k]
  BY <1>1, ApplyMutationsWellFormed
<1> HIDE DEF t, new
<1> SUFFICES ASSUME NEW k \in Key, d.last_gc_version < LastWrite(w, k), LastWrite(w, k) <= t.max_version
             PROVE  t.key_values[k].version = LastWrite(w, k)
  BY <1>1, <1>7 DEF StateFaithful, t, r
<1> DEFINE last == LastWrite(w, k)
<1>8. last \in Nat
  BY LastWriteRange
<1> HIDE DEF last
<1>9. t.max_version <= DeltaMaxVersion(d) /\ t.max_version \in Nat /\ DeltaMaxVersion(d) \in Nat
  <2>1. DeltaMaxVersion(d) \in Nat
    BY DeltaMaxRange
  <2>2. CASE t.max_version = r.max_version
    BY <1>1, <1>2, <2>1, <2>2, DeltaMaxRange
  <2>3. ASSUME NEW j \in new, t.max_version = d.key_values[j].version
        PROVE  t.max_version <= DeltaMaxVersion(d) /\ t.max_version \in Nat
    BY <1>2, <1>5, <1>6, <2>3, DeltaMaxRange
  <2>4. QED
    BY <1>7, <2>1, <2>2, <2>3
<1>10. d.key_values[k].version = last
  <2>1. /\ d.from_version_excluded < last /\ d.last_gc_version < last
        /\ last <= DeltaMaxVersion(d)
    BY <1>2, <1>3, <1>8, <1>9 DEF last
  <2>2. QED
    BY <2>1 DEF DeltaFaithful, last
<1>11. k \in DeltaKeys(d) /\ last > 0 /\ last > d.last_gc_version
  BY <1>2, <1>6, <1>8, <1>10 DEF last
<1>12. r.max_version = 0
  BY <1>1, <1>11
<1>13. k \in new
  BY <1>1, <1>2, <1>5, <1>8, <1>10, <1>11, <1>12
<1>14. QED
  BY <1>1, <1>4, <1>7, <1>10, <1>11, <1>13 DEF last

\* apply_delta, on all of its paths.
LEMMA ApplyDeltaFaithful ==
    ASSUME NEW w \in Seq(Write), NEW b \in Nat, NEW s, WellFormed(b, s), StateFaithful(w, s),
           NEW d, WellFormedDelta(b, d), DeltaOK(w, d), DeltaFaithful(w, d)
    PROVE  StateFaithful(w, ApplyDelta(s, d))
<1>1. CASE FromTheFuture(s, d)
  BY <1>1 DEF ApplyDelta
<1>2. CASE ~FromTheFuture(s, d) /\ Applicable(s, d)
  BY <1>2, ApplicableFaithful DEF ApplyDelta
<1>3. CASE ~FromTheFuture(s, d) /\ ~Applicable(s, d) /\ InvitesReset(s, d)
  BY <1>3, ResetFaithful DEF ApplyDelta
<1>4. CASE ~FromTheFuture(s, d) /\ ~Applicable(s, d) /\ ~InvitesReset(s, d)
  BY <1>4 DEF ApplyDelta
<1>5. QED
  BY <1>1, <1>2, <1>3, <1>4

\* A new write is out of the range of every replica and of every delta in flight.
LEMMA AppendFaithful ==
    ASSUME NEW w \in Seq(Write), NEW x \in Write, NEW b \in Nat
    PROVE  /\ \A s : WellFormed(b, s) /\ StateOK(w, s) /\ StateFaithful(w, s)
                       => StateFaithful(Append(w, x), s)
           /\ \A d : WellFormedDelta(b, d) /\ DeltaOK(w, d) /\ DeltaFaithful(w, d)
                       => DeltaFaithful(Append(w, x), d)
<1> DEFINE u == Append(w, x)
<1>1. \A k : LastWrite(u, k) = IF x.key = k THEN Len(w) + 1 ELSE LastWrite(w, k)
  BY AppendLatest, AppendWrite DEF LastWrite
<1>2. Len(w) \in Nat
  OBVIOUS
<1> HIDE DEF u
<1>3. ASSUME NEW s, WellFormed(b, s), StateOK(w, s), StateFaithful(w, s)
      PROVE  StateFaithful(u, s)
  <2>1. s.max_version \in Nat /\ s.max_version <= Len(w)
    BY <1>3 DEF WellFormed, NodeStates, StateOK
  <2>2. QED
    BY ONLY <1>1, <1>2, <1>3, <2>1 DEF StateFaithful
<1>4. ASSUME NEW d, WellFormedDelta(b, d), DeltaOK(w, d), DeltaFaithful(w, d)
      PROVE  DeltaFaithful(u, d)
  <2>1. DeltaMaxVersion(d) \in Nat /\ DeltaMaxVersion(d) <= Len(w)
    BY <1>4, DeltaMaxBound
  <2>2. QED
    BY ONLY <1>1, <1>2, <1>4, <2>1 DEF DeltaFaithful
<1>5. QED
  BY <1>3, <1>4 DEF u

\* The passing of time changes neither versions nor last writes.
LEMMA AgeFaithful ==
    ASSUME NEW w \in Seq(Write), NEW b \in Nat
    PROVE  /\ \A s : WellFormed(b, s) /\ StateFaithful(w, s) => StateFaithful(AgeWrites(w), Age(s))
           /\ \A d : DeltaFaithful(w, d) => DeltaFaithful(AgeWrites(w), d)
<1>1. \A k : LastWrite(AgeWrites(w), k) = LastWrite(w, k)
  <2>1. Len(AgeWrites(w)) = Len(w) /\ \A v \in 1..Len(w) : AgeWrites(w)[v].key = w[v].key
    BY AgeWritesType
  <2>2. \A k : {v \in 1..Len(w) : AgeWrites(w)[v].key = k} = {v \in 1..Len(w) : w[v].key = k}
    BY <2>1
  <2>3. QED
    BY <2>1, <2>2 DEF LastWrite, LatestVersion
<1>2. ASSUME NEW s, WellFormed(b, s), StateFaithful(w, s)
      PROVE  StateFaithful(AgeWrites(w), Age(s))
  <2>1. /\ Age(s).max_version = s.max_version /\ Age(s).last_gc_version = s.last_gc_version
        /\ \A k \in Key : Age(s).key_values[k].version = s.key_values[k].version
    BY <1>2, AgeWellFormed
  <2>2. QED
    BY ONLY <1>1, <1>2, <2>1 DEF StateFaithful
<1>3. ASSUME NEW d, DeltaFaithful(w, d)
      PROVE  DeltaFaithful(AgeWrites(w), d)
  BY ONLY <1>1, <1>3 DEF DeltaFaithful
<1>4. QED
  BY <1>2, <1>3

\* A partial delta made of replicas that miss nothing misses nothing.
LEMMA PartialDeltaFaithful ==
    ASSUME SafetyInv, NEW states,
           \A m \in Node : WellFormed(WriteLimit[m], states[m]) /\ StateFaithful(history[m], states[m]),
           NEW digest \in Digests, NEW hidden, NEW room \in Nat,
           NEW delta \in PartialDeltas(states, digest, hidden, room), NEW m \in Node
    PROVE  DeltaFaithful(history[m], delta[m])
<1>1. history[m] \in Seq(Write) /\ WriteLimit[m] \in Nat
  BY BoundsAssumption DEF SafetyInv, TypeInv, TypeOK
<1>2. FromVersion(states[m], digest[m]) \in Nat
  BY DEF FromVersion, Digests, NodeDigests
<1>3. CASE delta[m] = EmptyNodeDelta
  <2>1. DeltaMaxVersion(EmptyNodeDelta) = 0 /\ EmptyNodeDelta.last_gc_version = 0
    BY VacantType DEF EmptyNodeDelta, DeltaMaxVersion, DeltaKeys
  <2>2. \A k \in Key : LastWrite(history[m], k) \in Nat
    BY <1>1, LastWriteRange
  <2>3. QED
    BY ONLY <1>3, <2>1, <2>2 DEF DeltaFaithful
<1>4. ASSUME NEW r \in 1..room, delta[m] = NodeDelta(states[m], FromVersion(states[m], digest[m]), r)
      PROVE  DeltaFaithful(history[m], delta[m])
  <2>1. r \in Nat
    OBVIOUS
  <2>2. QED
    BY <1>1, <1>2, <1>4, <2>1, NodeDeltaFaithful
<1>5. QED
  BY <1>3, <1>4, PartialDeltaCases

\* Steps that change at most what one node holds, and send messages.
LEMMA FaithfulOneNode ==
    ASSUME FaithfulInv, SafetyInv', history' = history, NEW n \in Node, NEW states,
           node_states' = [node_states EXCEPT ![n] = states],
           \A m \in Node : StateFaithful(history[m], states[m]),
           \A m \in network' : m \in network \/ MessageFaithful(m)
    PROVE  FaithfulInv'
<1>1. node_states \in [Node -> [Node -> NodeStates]]
  BY DEF FaithfulInv, SafetyInv, TypeInv, TypeOK
<1>2. \A x, m \in Node : StateFaithful(history'[m], node_states'[x][m])
  BY <1>1 DEF FaithfulInv
<1>3. \A m \in network' : MessageFaithful(m)'
  BY DEF FaithfulInv, MessageFaithful
<1>4. QED
  BY <1>2, <1>3 DEF FaithfulInv

\* Steps that change no state, and send messages.
LEMMA FaithfulUnchanged ==
    ASSUME FaithfulInv, SafetyInv', UNCHANGED <<node_states, history>>,
           \A m \in network' : m \in network \/ MessageFaithful(m)
    PROVE  FaithfulInv'
<1>1. \A m \in network' : MessageFaithful(m)'
  BY DEF FaithfulInv, MessageFaithful
<1>2. QED
  BY <1>1 DEF FaithfulInv

\* The initial state satisfies the invariant.
LEMMA FaithfulInit == Init => FaithfulInv
<1> SUFFICES ASSUME Init PROVE FaithfulInv
  OBVIOUS
<1>1. SafetyInv
  BY SafetyInit
<1>2. \A n, m \in Node : node_states[n][m] = NewNodeState /\ history[m] \in Seq(Write)
  BY <1>1 DEF Init, SafetyInv, TypeInv, TypeOK
<1>3. \A n, m \in Node : StateFaithful(history[m], node_states[n][m])
  BY <1>2, NewStateFaithful
<1>4. QED
  BY <1>1, <1>3 DEF FaithfulInv, Init

\* A write of the application changes nothing, or appends to its history and
\* changes the node's own state.
LEMMA OwnWriteEffect ==
    ASSUME SafetyInv, TypeInv', NEW n \in Node, NEW k \in Key, NEW v,
           \/ v \in Value /\ (SetKey(n, k, v) \/ SetKeyWithTtl(n, k, v))
           \/ DeleteKey(n, k) \/ DeleteKeyAfterTtl(n, k)
    PROVE  /\ network' = network
           /\ \A p, m \in Node : p # n \/ m # n => node_states'[p][m] = node_states[p][m]
           /\ \A m \in Node :
                 \/ history'[m] = history[m]
                 \/ /\ m = n
                    /\ \E x \in Write : /\ history'[m] = Append(history[m], x)
                                        /\ x.status # "Set" => x.left = GracePeriod
<1> DEFINE s == node_states[n][n]
           b == WriteLimit[n]
<1>1. PICK new : /\ OwnWrite(n, k, new)
                 /\ \/ v \in Value /\ (new = Set(s, k, v) \/ new = SetWithTtl(s, k, v))
                    \/ new = Delete(s, k) \/ new = DeleteAfterTtl(s, k)
  BY DEF SetKey, SetKeyWithTtl, DeleteKey, DeleteKeyAfterTtl
<1>2. /\ node_states \in [Node -> [Node -> NodeStates]] /\ history \in [Node -> Seq(Write)]
      /\ node_states' \in [Node -> [Node -> NodeStates]]
      /\ b \in Nat /\ WellFormed(b, s)
  BY BoundsAssumption DEF SafetyInv, TypeInv, TypeOK
<1>3. /\ node_states' = [node_states EXCEPT ![n][n] = new]
      /\ network' = network
  BY <1>1 DEF OwnWrite
<1>4. new \in NodeStates
  <2>1. node_states'[n][n] = new
    BY <1>2, <1>3
  <2>2. QED
    BY <1>2, <2>1
<1>5. new.key_values[k] \in Entry
  BY <1>4 DEF NodeStates
<1> DEFINE x == [key |-> k, value |-> new.key_values[k].value,
                 status |-> new.key_values[k].status, left |-> new.key_values[k].left]
<1>6. x \in Write
  BY <1>5 DEF Entry, Write
<1>7. new = s \/ (x.status # "Set" => x.left = GracePeriod)
  <2> HIDE DEF s, b
  <2>1. \/ v \in Value /\ (new = Set(s, k, v) \/ new = SetWithTtl(s, k, v))
        \/ new = Delete(s, k) \/ new = DeleteAfterTtl(s, k)
    BY <1>1
  <2>2. CASE new = s
    BY <2>2
  <2>3. ASSUME NEW y \in Value \cup {NoValue}, NEW status \in Statuses, new = Rewritten(s, k, y, status)
        PROVE  x.status # "Set" => x.left = GracePeriod
    <3>1. s.key_values \in [Key -> Entry]
      BY <1>2 DEF WellFormed, NodeStates
    <3>2. new.key_values[k] = VersionedValue(y, s.max_version + 1, status)
      BY <2>3, <3>1 DEF Rewritten, StateOf
    <3>3. QED
      BY <3>2 DEF VersionedValue
  <2> HIDE DEF x
  <2>4. \/ new = s
        \/ \E y \in Value \cup {NoValue}, status \in Statuses : new = Rewritten(s, k, y, status)
    <3>1. b \in Nat /\ WellFormed(b, s) /\ k \in Key
      BY <1>2
    <3>2. QED
      BY ONLY <2>1, <3>1, WritesRewrite
  <2>5. QED
    BY <2>2, <2>3, <2>4
<1>8. /\ new = s => history' = history
      /\ history' = history \/ history' = [history EXCEPT ![n] = Append(@, x)]
  BY <1>1, <1>2 DEF OwnWrite
<1> HIDE DEF x, s, b
<1>9. \A m \in Node : \/ history'[m] = history[m]
                      \/ /\ m = n /\ history'[m] = Append(history[m], x)
                         /\ x.status # "Set" => x.left = GracePeriod
  BY <1>2, <1>7, <1>8
<1>10. \A p, m \in Node : p # n \/ m # n => node_states'[p][m] = node_states[p][m]
  BY <1>2, <1>3
<1>11. QED
  BY <1>3, <1>6, <1>9, <1>10

\* The application's writes preserve the invariant.
LEMMA FaithfulOwnWrite ==
    ASSUME FaithfulInv, SafetyInv', NEW n \in Node, NEW k \in Key, NEW v,
           \/ v \in Value /\ (SetKey(n, k, v) \/ SetKeyWithTtl(n, k, v))
           \/ DeleteKey(n, k) \/ DeleteKeyAfterTtl(n, k)
    PROVE  FaithfulInv'
<1>1. /\ network' = network
      /\ \A p, m \in Node : p # n \/ m # n => node_states'[p][m] = node_states[p][m]
      /\ \A m \in Node : \/ history'[m] = history[m]
                         \/ m = n /\ \E x \in Write : history'[m] = Append(history[m], x)
  <2>1. SafetyInv /\ TypeInv'
    BY DEF FaithfulInv, SafetyInv
  <2>2. QED
    BY <2>1, OwnWriteEffect
<1>2. \A p, m \in Node : /\ WriteLimit[m] \in Nat /\ history[m] \in Seq(Write)
                         /\ WellFormed(WriteLimit[m], node_states[p][m])
                         /\ StateOK(history[m], node_states[p][m])
                         /\ StateFaithful(history[m], node_states[p][m])
  BY BoundsAssumption DEF FaithfulInv, SafetyInv, TypeInv, TypeOK
<1>3. ASSUME NEW p \in Node, NEW m \in Node
      PROVE  StateFaithful(history'[m], node_states[p][m])
  <2>1. CASE history'[m] = history[m]
    BY <1>2, <2>1
  <2>2. ASSUME NEW x \in Write, history'[m] = Append(history[m], x)
        PROVE  StateFaithful(history'[m], node_states[p][m])
    <3>1. StateFaithful(Append(history[m], x), node_states[p][m])
      BY <1>2, AppendFaithful
    <3>2. QED
      BY <2>2, <3>1
  <2>3. QED
    BY <1>1, <2>1, <2>2
<1>4. StateFaithful(history'[n], node_states'[n][n])
  <2>1. /\ WriteLimit[n] \in Nat /\ history'[n] \in Seq(Write)
        /\ WellFormed(WriteLimit[n], node_states'[n][n])
        /\ HoldsLastWrites(history'[n], node_states'[n][n])
    BY BoundsAssumption DEF SafetyInv, TypeInv, TypeOK, OwnStateIntact
  <2>2. QED
    BY <2>1, OwnStateFaithful
<1>5. \A p, m \in Node : StateFaithful(history'[m], node_states'[p][m])
  BY <1>1, <1>3, <1>4
<1>6. ASSUME NEW m \in network, m.type \in {"SynAck", "Ack"}, NEW x \in Node
      PROVE  DeltaFaithful(history'[x], m.delta[x])
  <2>1. /\ WellFormedDelta(WriteLimit[x], m.delta[x]) /\ DeltaOK(history[x], m.delta[x])
        /\ DeltaFaithful(history[x], m.delta[x])
    BY <1>6 DEF FaithfulInv, SafetyInv, TypeInv, DeltaWellFormed, MessageOK, MessageFaithful
  <2>2. CASE history'[x] = history[x]
    BY <2>1, <2>2
  <2>3. ASSUME NEW y \in Write, history'[x] = Append(history[x], y)
        PROVE  DeltaFaithful(history'[x], m.delta[x])
    <3>1. DeltaFaithful(Append(history[x], y), m.delta[x])
      BY <1>2, <2>1, AppendFaithful
    <3>2. QED
      BY <2>3, <3>1
  <2>4. QED
    BY <1>1, <2>2, <2>3
<1>7. \A m \in network' : MessageFaithful(m)'
  BY <1>1, <1>6 DEF MessageFaithful
<1>8. QED
  BY <1>5, <1>7 DEF FaithfulInv

\* A gossip round preserves the invariant.
LEMMA FaithfulGossipMultiple ==
    ASSUME FaithfulInv, SafetyInv', NEW n \in Node, NEW peers \in SUBSET Node,
           NEW forgotten \in SUBSET scheduled[n], GossipMultiple(n, peers, forgotten)
    PROVE  FaithfulInv'
<1> DEFINE collected == [m \in Node |-> GcKeysMarkedForDeletion(node_states[n][m])]
           states == [m \in Node |-> IF m \in forgotten THEN NewNodeState ELSE collected[m]]
<1>1. \A m \in Node : /\ WriteLimit[m] \in Nat /\ WellFormed(WriteLimit[m], node_states[n][m])
                      /\ history[m] \in Seq(Write) /\ StateFaithful(history[m], node_states[n][m])
  BY BoundsAssumption DEF FaithfulInv, SafetyInv, TypeInv, TypeOK
<1>2. \A m \in Node : StateFaithful(history[m], collected[m])
  BY <1>1, GcFaithful
<1>3. \A m \in Node : StateFaithful(history[m], NewNodeState)
  BY <1>1, NewStateFaithful
<1>4. /\ network' = network \cup {SynMessage(n, collected, p) : p \in peers}
      /\ node_states' = [node_states EXCEPT ![n] = states]
      /\ history' = history
  BY DEF GossipMultiple, Send
<1> HIDE DEF collected
<1>5. \A m \in Node : StateFaithful(history[m], states[m])
  BY <1>2, <1>3
<1>6. \A m \in network' : m \in network \/ MessageFaithful(m)
  BY <1>4 DEF SynMessage, MessageFaithful
<1> HIDE DEF states
<1>7. QED
  BY <1>4, <1>5, <1>6, FaithfulOneNode

\* What a node holds after it has applied a delta.
LEMMA ApplyDeltasFaithful ==
    ASSUME FaithfulInv, NEW m \in network, m.type \in {"SynAck", "Ack"}
    PROVE  \A x \in Node :
              /\ WellFormed(WriteLimit[x], ApplyDeltas(node_states[m.dst], m.delta)[x])
              /\ StateFaithful(history[x], ApplyDeltas(node_states[m.dst], m.delta)[x])
<1>1. /\ m \in Messages /\ DeltaWellFormed(m) /\ MessageOK(m) /\ MessageFaithful(m)
      /\ m.dst \in Node
  BY MessageFields DEF FaithfulInv, SafetyInv, TypeInv, TypeOK
<1>2. \A x \in Node : /\ WriteLimit[x] \in Nat
                      /\ WellFormed(WriteLimit[x], node_states[m.dst][x])
                      /\ WellFormedDelta(WriteLimit[x], m.delta[x])
                      /\ history[x] \in Seq(Write)
                      /\ StateFaithful(history[x], node_states[m.dst][x])
                      /\ DeltaOK(history[x], m.delta[x])
                      /\ DeltaFaithful(history[x], m.delta[x])
  BY <1>1, BoundsAssumption DEF FaithfulInv, SafetyInv, TypeInv, TypeOK, DeltaWellFormed, MessageOK,
                                MessageFaithful
<1>3. \A x \in Node : StateFaithful(history[x], ApplyDelta(node_states[m.dst][x], m.delta[x]))
  BY <1>2, ApplyDeltaFaithful
<1>4. \A x \in Node : WellFormed(WriteLimit[x], ApplyDelta(node_states[m.dst][x], m.delta[x]))
  BY <1>2, ApplyDeltaWellFormed
<1>5. QED
  BY <1>3, <1>4 DEF ApplyDeltas

\* process_message preserves the invariant.
LEMMA FaithfulReceive ==
    ASSUME FaithfulInv, SafetyInv',
           NEW m \in network, NEW duplicated \in BOOLEAN, Receive(m, duplicated)
    PROVE  FaithfulInv'
<1>1. m \in Messages /\ m.src \in Node /\ m.dst \in Node /\ SafetyInv
  BY MessageFields DEF FaithfulInv, SafetyInv, TypeInv, TypeOK
<1>2. Delivered(m, duplicated) \subseteq network
  BY DEF Delivered
<1>3. \A x \in Node : /\ WellFormed(WriteLimit[x], node_states[m.dst][x])
                      /\ StateFaithful(history[x], node_states[m.dst][x])
  BY <1>1 DEF FaithfulInv, SafetyInv, TypeInv
<1>4. ASSUME NEW room \in Rooms, HandleSyn(m, duplicated, room)
      PROVE  FaithfulInv'
  <2> DEFINE states == node_states[m.dst]
             hidden == scheduled[m.dst]
  <2>1. m.type = "Syn" /\ UNCHANGED <<node_states, history>>
    BY <1>4 DEF HandleSyn
  <2>2. PICK delta \in PartialDeltas(states, m.digest, hidden, room) :
            network' = Delivered(m, duplicated) \cup
                {[type |-> "SynAck", src |-> m.dst, dst |-> m.src, ttl |-> MaxDelay,
                  digest |-> ComputeDigest(states, hidden), delta |-> delta]}
    BY <1>4 DEF HandleSyn, Send
  <2>3. m.digest \in Digests /\ room \in Nat
    BY <1>1, <2>1, MessageFields, BoundsAssumption
  <2>4. \A x \in Node : DeltaFaithful(history[x], delta[x])
    BY <1>1, <1>3, <2>3, PartialDeltaFaithful
  <2> HIDE DEF states, hidden
  <2>5. \A x \in network' : x \in network \/ MessageFaithful(x)
    BY <1>2, <2>2, <2>4 DEF MessageFaithful
  <2>6. QED
    BY <2>1, <2>5, FaithfulUnchanged
<1>5. ASSUME NEW room \in Rooms, HandleSynAck(m, duplicated, room)
      PROVE  FaithfulInv'
  <2> DEFINE states == ApplyDeltas(node_states[m.dst], m.delta)
  <2>1. /\ m.type = "SynAck" /\ history' = history
        /\ node_states' = [node_states EXCEPT ![m.dst] = states]
    BY <1>5 DEF HandleSynAck
  <2>2. PICK delta \in PartialDeltas(states, m.digest, scheduled[m.dst], room) :
            network' = Delivered(m, duplicated) \cup
                {[type |-> "Ack", src |-> m.dst, dst |-> m.src, ttl |-> MaxDelay, delta |-> delta]}
    BY <1>5 DEF HandleSynAck, Send
  <2>3. m.digest \in Digests /\ room \in Nat
    BY <1>1, <2>1, MessageFields, BoundsAssumption
  <2>4. \A x \in Node : WellFormed(WriteLimit[x], states[x]) /\ StateFaithful(history[x], states[x])
    BY <2>1, ApplyDeltasFaithful
  <2> HIDE DEF states
  <2>5. \A x \in Node : DeltaFaithful(history[x], delta[x])
    BY <1>1, <2>3, <2>4, PartialDeltaFaithful
  <2>6. \A x \in network' : x \in network \/ MessageFaithful(x)
    BY <1>2, <2>2, <2>5 DEF MessageFaithful
  <2>7. QED
    BY <1>1, <2>1, <2>4, <2>6, FaithfulOneNode
<1>6. CASE HandleAck(m, duplicated)
  <2> DEFINE states == ApplyDeltas(node_states[m.dst], m.delta)
  <2>1. /\ m.type = "Ack" /\ history' = history
        /\ node_states' = [node_states EXCEPT ![m.dst] = states]
        /\ network' = Delivered(m, duplicated)
    BY <1>1, <1>6 DEF HandleAck, Send, SafetyInv, TypeInv, TypeOK
  <2>2. \A x \in Node : StateFaithful(history[x], states[x])
    BY <2>1, ApplyDeltasFaithful
  <2> HIDE DEF states
  <2>3. QED
    BY <1>1, <1>2, <2>1, <2>2, FaithfulOneNode
<1>7. CASE HandleForeignSyn(m, duplicated)
  <2>1. \A x \in network' : x \in network \/ MessageFaithful(x)
    BY <1>2, <1>7 DEF HandleForeignSyn, Send, MessageFaithful
  <2>2. QED
    BY <1>7, <2>1, FaithfulUnchanged DEF HandleForeignSyn
<1>8. CASE HandleBadCluster(m, duplicated)
  BY <1>2, <1>8, FaithfulUnchanged DEF HandleBadCluster, Send
<1>9. QED
  BY <1>4, <1>5, <1>6, <1>7, <1>8 DEF Receive

\* The passing of time preserves the invariant.
LEMMA FaithfulTick ==
    ASSUME FaithfulInv, SafetyInv', Tick
    PROVE  FaithfulInv'
<1>1. \A n, m \in Node : /\ history[m] \in Seq(Write) /\ WriteLimit[m] \in Nat
                         /\ history'[m] = AgeWrites(history[m])
                         /\ node_states'[n][m] = Age(node_states[n][m])
                         /\ WellFormed(WriteLimit[m], node_states[n][m])
                         /\ StateFaithful(history[m], node_states[n][m])
  BY BoundsAssumption DEF Tick, FaithfulInv, SafetyInv, TypeInv, TypeOK
<1>2. \A n, m \in Node : StateFaithful(history'[m], node_states'[n][m])
  BY <1>1, AgeFaithful
<1>3. \A m \in network' : MessageFaithful(m)'
  <2> SUFFICES ASSUME NEW m \in network' PROVE MessageFaithful(m)'
    OBVIOUS
  <2>1. PICK d \in network : d.ttl > 0 /\ m = [d EXCEPT !.ttl = @ - 1]
    BY DEF Tick
  <2>2. d \in Messages /\ MessageFaithful(d)
    BY DEF FaithfulInv, SafetyInv, TypeInv, TypeOK
  <2>3. m.type = d.type /\ (d.type \in {"SynAck", "Ack"} => m.delta = d.delta)
    BY <2>1, <2>2, OlderMessage
  <2>4. ASSUME d.type \in {"SynAck", "Ack"}, NEW x \in Node
        PROVE  DeltaFaithful(history'[x], d.delta[x])
    <3>1. DeltaFaithful(history[x], d.delta[x])
      BY <2>2, <2>4 DEF MessageFaithful
    <3>2. QED
      BY <1>1, <3>1, AgeFaithful
  <2>5. QED
    BY <2>3, <2>4 DEF MessageFaithful
<1>4. QED
  BY <1>2, <1>3 DEF FaithfulInv

\* The invariant is inductive.
LEMMA FaithfulNext == ASSUME MaxDelay < GracePeriod PROVE FaithfulInv /\ [Next]_vars => FaithfulInv'
<1> SUFFICES ASSUME FaithfulInv, [Next]_vars PROVE FaithfulInv'
  OBVIOUS
<1>0. SafetyInv'
  BY SafetyNext DEF FaithfulInv
<1>1. CASE UNCHANGED vars
  BY <1>0, <1>1, FaithfulUnchanged DEF vars
<1>2. ASSUME NEW n \in Node, NEW k \in Key, NEW v \in Value, SetKey(n, k, v) \/ SetKeyWithTtl(n, k, v)
      PROVE  FaithfulInv'
  BY <1>0, <1>2, FaithfulOwnWrite
<1>3. ASSUME NEW n \in Node, NEW k \in Key, DeleteKey(n, k) \/ DeleteKeyAfterTtl(n, k)
      PROVE  FaithfulInv'
  BY <1>0, <1>3, FaithfulOwnWrite
<1>4. ASSUME NEW n \in Node, NEW peers \in SUBSET Node, NEW forgotten \in SUBSET scheduled[n],
             GossipMultiple(n, peers, forgotten)
      PROVE  FaithfulInv'
  BY <1>0, <1>4, FaithfulGossipMultiple
<1>5. ASSUME NEW n \in Node, NEW p \in Node, Gossip(n, p)
      PROVE  FaithfulInv'
  <2>1. MessageFaithful(SynMessage(n, node_states[n], p))
    BY DEF SynMessage, MessageFaithful
  <2>2. QED
    BY <1>0, <1>5, <2>1, FaithfulUnchanged DEF Gossip, Send
<1>6. ASSUME NEW m \in network, NEW duplicated \in BOOLEAN, Receive(m, duplicated)
      PROVE  FaithfulInv'
  BY <1>0, <1>6, FaithfulReceive
<1>7. ASSUME NEW m \in network, Lose(m)
      PROVE  FaithfulInv'
  BY <1>0, <1>7, FaithfulUnchanged DEF Lose
<1>8. ASSUME NEW n \in Node, NEW m \in Node, ChangeSchedule(n, m)
      PROVE  FaithfulInv'
  BY <1>0, <1>8, FaithfulUnchanged DEF ChangeSchedule
<1>9. CASE Tick
  BY <1>0, <1>9, FaithfulTick
<1>10. QED
  BY <1>1, <1>2, <1>3, <1>4, <1>5, <1>6, <1>7, <1>8, <1>9 DEF Next

\* Whatever is lost, duplicated, reordered or truncated, whoever collects
\* tombstones, forgets a node or starts a replica afresh, in clusters of any size: a
\* replica holds the last write of every key that was last written above its
\* last_gc_version and up to its max_version (compute_partial_delta_respecting_mtu,
\* prepare_apply_delta, apply_delta).
THEOREM ReplicasFaithful == ASSUME MaxDelay < GracePeriod PROVE Spec => []FaithfulAboveCollection
<1>1. FaithfulInv => FaithfulAboveCollection
  BY DEF FaithfulInv, StateFaithful, FaithfulAboveCollection
<1>2. QED
  BY <1>1, FaithfulInit, FaithfulNext, PTL DEF Spec

-----------------------------------------------------------------------------
(***************************************************************************)
(* Deleted keys do not come back between two nodes.  What a node hears of  *)
(* its only peer it hears from the owner itself: when the owner made the   *)
(* delta, every key-value in it was the last write of its key.  What the   *)
(* owner deleted since is still in its grace period, so nobody can have    *)
(* collected it.  (Run "resurrected" shows how a third node breaks this.)  *)
(***************************************************************************)

\* Every outdated entry waits for a write above max_version and last_gc_version.
StateCurrent(w, s) ==
    \A k \in Key :
        LET last == LastWrite(w, k)
        IN  (Present(s.key_values[k]) /\ s.key_values[k].version # last)
                => last > s.max_version /\ last > s.last_gc_version

\* The delta was made by the owner after its first `sent` writes, of which it
\* carries the last ones of their keys; later deletions are younger than it.
CurrentAt(w, d, ttl, sent) ==
    /\ sent <= Len(w)
    /\ DeltaMaxVersion(d) <= sent
    /\ RecentSince(w, sent, ttl)
    /\ \A k \in Key : Present(d.key_values[k]) =>
          \A x \in 1..sent : w[x].key = k => x <= d.key_values[k].version

DeltaCurrent(w, d, ttl) == \E sent \in Nat : CurrentAt(w, d, ttl, sent)

MessageCurrent(m) ==
    /\ m.src # m.dst
    /\ m.type \in {"SynAck", "Ack"} => DeltaCurrent(history[m.src], m.delta[m.src], m.ttl)

\* The inductive invariant.
CurrentInv ==
    /\ FaithfulInv
    /\ \A n, m \in Node : StateCurrent(history[m], node_states[n][m])
    /\ \A m \in network : MessageCurrent(m)

\* A node's own state is up to date.
LEMMA OwnStateCurrent ==
    ASSUME NEW w \in Seq(Write), NEW s, HoldsLastWrites(w, s)
    PROVE  StateCurrent(w, s)
  BY DEF HoldsLastWrites, StateCurrent, LastWrite

\* A state without entries holds nothing outdated.
LEMMA NewStateCurrent == ASSUME NEW w PROVE StateCurrent(w, NewNodeState)
<1>1. \A k \in Key : ~Present(NewNodeState.key_values[k])
  BY VacantType DEF NewNodeState, StateOf
<1>2. QED
  BY ONLY <1>1 DEF StateCurrent

\* A collection raises last_gc_version to max_version at most.
LEMMA GcCurrent ==
    ASSUME NEW w \in Seq(Write), NEW b \in Nat, NEW s, WellFormed(b, s), StateCurrent(w, s)
    PROVE  StateCurrent(w, GcKeysMarkedForDeletion(s))
<1> DEFINE t == GcKeysMarkedForDeletion(s)
<1>1. /\ t.max_version = s.max_version
      /\ \A k \in Key : t.key_values[k] = IF k \in Collectable(s) THEN Vacant ELSE s.key_values[k]
      /\ \/ t.last_gc_version = s.last_gc_version
         \/ \E k \in Collectable(s) : t.last_gc_version = s.key_values[k].version
  BY GcWellFormed
<1>2. /\ s.max_version \in Nat /\ s.last_gc_version \in Nat
      /\ \A k \in Key : s.key_values[k].version \in Nat /\ s.key_values[k].version <= s.max_version
  BY DEF WellFormed, NodeStates, Entry
<1>3. Collectable(s) \subseteq Key
  BY DEF Collectable
<1> HIDE DEF t
<1>4. t.last_gc_version = s.last_gc_version
      \/ (t.last_gc_version \in Nat /\ t.last_gc_version <= s.max_version)
  BY <1>1, <1>2, <1>3
<1>5. \A k \in Key : LastWrite(w, k) \in Nat
  BY LastWriteRange
<1>6. \A k \in Key : Present(t.key_values[k]) => t.key_values[k] = s.key_values[k]
  BY <1>1, VacantType
<1>7. StateCurrent(w, t)
  BY ONLY <1>1, <1>2, <1>4, <1>5, <1>6, StateCurrent(w, s) DEF StateCurrent
<1>8. QED
  BY <1>7 DEF t

\* A delta that the owner makes of its own state is current.
LEMMA OwnDeltaCurrent ==
    ASSUME NEW w \in Seq(Write), NEW b \in Nat, NEW s, WellFormed(b, s), StateOK(w, s),
           HoldsLastWrites(w, s), NEW d, NEW ttl,
           d = EmptyNodeDelta \/ \E from \in Nat, room \in Nat : d = NodeDelta(s, from, room)
    PROVE  DeltaCurrent(w, d, ttl)
<1>1. /\ WellFormedDelta(b, d) /\ DeltaOK(w, d)
      /\ \A k \in Key : d.key_values[k] = Vacant \/ d.key_values[k].version = s.key_values[k].version
  <2>1. CASE d = EmptyNodeDelta
    <3>1. DeltaOK(w, EmptyNodeDelta)
      BY VacantType DEF DeltaOK, EmptyNodeDelta, Authentic, CollectedWrite
    <3>2. \A k \in Key : EmptyNodeDelta.key_values[k] = Vacant
      BY DEF EmptyNodeDelta
    <3>3. QED
      BY <2>1, <3>1, <3>2, EmptyNodeDeltaWellFormed
  <2>2. ASSUME NEW from \in Nat, NEW room \in Nat, d = NodeDelta(s, from, room)
        PROVE  /\ WellFormedDelta(b, d) /\ DeltaOK(w, d)
               /\ \A k \in Key : d.key_values[k] = Vacant
                                 \/ d.key_values[k].version = s.key_values[k].version
    BY <2>2, NodeDeltaOK, NodeDeltaWellFormed
  <2>3. QED
    BY <2>1, <2>2
<1>2. DeltaMaxVersion(d) <= Len(w) /\ Len(w) \in Nat
  BY <1>1, DeltaMaxBound
<1>3. RecentSince(w, Len(w), ttl)
  BY DEF RecentSince
<1>4. ASSUME NEW k \in Key, Present(d.key_values[k]), NEW x \in 1..Len(w), w[x].key = k
      PROVE  x <= d.key_values[k].version
  <2>1. d.key_values[k].version = s.key_values[k].version /\ Present(s.key_values[k])
    BY <1>1, <1>4, VacantType DEF Present
  <2>2. s.key_values[k].version = LastWrite(w, k)
    BY <2>1 DEF HoldsLastWrites, LastWrite
  <2>3. QED
    BY <1>4, <2>1, <2>2, LastWriteRange
<1>5. CurrentAt(w, d, ttl, Len(w))
  BY <1>2, <1>3, <1>4 DEF CurrentAt
<1>6. QED
  BY <1>2, <1>5 DEF DeltaCurrent

\* What a delta in flight carries is the last write, or its key was written again
\* above the delta and above everything that has been collected.
LEMMA CurrentEntry ==
    ASSUME NEW w \in Seq(Write), NEW b \in Nat, NEW d, WellFormedDelta(b, d), DeltaOK(w, d),
           NEW ttl \in Nat, MaxDelay < GracePeriod, DeltaCurrent(w, d, ttl),
           NEW g \in Nat, CollectedWrite(w, g),
           NEW k \in Key, Present(d.key_values[k]), d.key_values[k].version # LastWrite(w, k)
    PROVE  LastWrite(w, k) > DeltaMaxVersion(d) /\ LastWrite(w, k) > g
<1>1. PICK sent \in Nat : CurrentAt(w, d, ttl, sent)
  BY DEF DeltaCurrent
<1>2. /\ LastWrite(w, k) \in Nat /\ LastWrite(w, k) <= Len(w)
      /\ LastWrite(w, k) # 0 => LastWrite(w, k) \in 1..Len(w) /\ w[LastWrite(w, k)].key = k
      /\ \A x \in 1..Len(w) : w[x].key = k => x <= LastWrite(w, k)
  BY LatestVersionRange DEF LastWrite
<1>3. /\ d.key_values[k].version \in 1..Len(w) /\ w[d.key_values[k].version].key = k
  BY DEF DeltaOK, Authentic, Present, WellFormedDelta, NodeDeltas, Entry
<1>4. LastWrite(w, k) > d.key_values[k].version /\ LastWrite(w, k) # 0
  BY <1>2, <1>3
<1>5. LastWrite(w, k) > sent
  <2>1. LastWrite(w, k) \in 1..sent => LastWrite(w, k) <= d.key_values[k].version
    BY <1>1, <1>2, <1>4 DEF CurrentAt
  <2>2. QED
    BY <1>2, <1>3, <1>4, <2>1
<1>6. DeltaMaxVersion(d) \in Nat /\ DeltaMaxVersion(d) <= sent
  BY <1>1, DeltaMaxRange DEF CurrentAt
<1>7. g <= sent
  <2>1. CASE g > sent
    <3>1. g \in 1..Len(w) /\ w[g].status # "Set" /\ w[g].left = 0
      BY <2>1 DEF CollectedWrite
    <3>2. w[g].left >= GracePeriod - MaxDelay + ttl
      BY <1>1, <2>1, <3>1 DEF CurrentAt, RecentSince
    <3>3. QED
      BY <3>1, <3>2, GraceAssumption, BoundsAssumption
  <2>2. QED
    BY <2>1
<1>8. QED
  BY <1>2, <1>5, <1>6, <1>7

\* Applying the mutations of such a delta to a replica, or to a fresh state.
LEMMA ApplyMutationsCurrent ==
    ASSUME NEW w \in Seq(Write), NEW b \in Nat,
           NEW s, WellFormed(b, s), StateCurrent(w, s), CollectedWrite(w, s.last_gc_version),
           NEW d, WellFormedDelta(b, d), DeltaOK(w, d),
           NEW ttl \in Nat, MaxDelay < GracePeriod, DeltaCurrent(w, d, ttl),
           StateFaithful(w, ApplyMutations(s, d))
    PROVE  StateCurrent(w, ApplyMutations(s, d))
<1> DEFINE t == ApplyMutations(s, d)
           new == NewMutations(s, d)
<1>1. /\ t.last_gc_version = s.last_gc_version
      /\ t.max_version = s.max_version \/ \E k \in new : t.max_version = d.key_values[k].version
      /\ \A k \in Key :
            t.key_values[k] =
               IF k \in new /\ s.key_values[k].version < d.key_values[k].version
               THEN VersionedValue(d.key_values[k].value, d.key_values[k].version,
                                   d.key_values[k].status)
               ELSE s.key_values[k]
  BY ApplyMutationsWellFormed
<1>2. /\ s.max_version \in Nat /\ s.last_gc_version \in Nat /\ t.max_version \in Nat
      /\ \A k \in Key : d.key_values[k].version \in Nat
  BY ApplyMutationsWellFormed DEF WellFormed, WellFormedDelta, NodeStates, NodeDeltas, Entry
<1>3. \A k \in Key : VersionedValue(d.key_values[k].value, d.key_values[k].version,
                                    d.key_values[k].status).version = d.key_values[k].version
  BY DEF VersionedValue
<1>4. new \subseteq DeltaKeys(d) /\ \A k \in new : d.key_values[k].version > s.max_version
  BY DEF NewMutations
<1>5. \A k \in DeltaKeys(d) : k \in Key /\ Present(d.key_values[k])
  BY DEF DeltaKeys
<1> HIDE DEF t, new
<1> SUFFICES ASSUME NEW k \in Key, Present(t.key_values[k]), t.key_values[k].version # LastWrite(w, k)
             PROVE  LastWrite(w, k) > t.max_version /\ LastWrite(w, k) > t.last_gc_version
  BY DEF StateCurrent, t
<1>6. LastWrite(w, k) \in Nat
  BY LastWriteRange
<1>7. LastWrite(w, k) > s.last_gc_version
  <2>1. CASE k \in new /\ s.key_values[k].version < d.key_values[k].version
    <3>1. Present(d.key_values[k]) /\ d.key_values[k].version # LastWrite(w, k)
      BY <1>1, <1>3, <1>4, <1>5, <2>1
    <3>2. QED
      BY <1>2, <3>1, CurrentEntry
  <2>2. CASE t.key_values[k] = s.key_values[k]
    BY <2>2 DEF StateCurrent
  <2>3. QED
    BY <1>1, <2>1, <2>2
<1>8. LastWrite(w, k) > t.max_version
  <2>1. (s.last_gc_version < LastWrite(w, k) /\ LastWrite(w, k) <= t.max_version)
            => t.key_values[k].version = LastWrite(w, k)
    BY <1>1 DEF StateFaithful, t
  <2>2. QED
    BY <1>2, <1>6, <1>7, <2>1
<1>9. QED
  BY <1>1, <1>7, <1>8

\* apply_delta, on all of its paths.
LEMMA ApplyDeltaCurrent ==
    ASSUME NEW w \in Seq(Write), NEW b \in Nat,
           NEW s, WellFormed(b, s), StateOK(w, s), StateCurrent(w, s),
           NEW d, WellFormedDelta(b, d), DeltaOK(w, d),
           NEW ttl \in Nat, MaxDelay < GracePeriod, DeltaCurrent(w, d, ttl),
           StateFaithful(w, ApplyDelta(s, d))
    PROVE  StateCurrent(w, ApplyDelta(s, d))
<1>1. CASE ApplyDelta(s, d) = s
  BY <1>1
<1>2. CASE ApplyDelta(s, d) = ApplyMutations(s, d)
  BY <1>2, ApplyMutationsCurrent DEF StateOK
<1>3. CASE ApplyDelta(s, d) = ApplyMutations(ResetNodeState(d), d)
  <2>1. WellFormed(b, ResetNodeState(d)) /\ CollectedWrite(w, ResetNodeState(d).last_gc_version)
    BY ResetWellFormed, ResetOK DEF StateOK
  <2>2. StateCurrent(w, ResetNodeState(d))
    BY ResetWellFormed, VacantType DEF StateCurrent
  <2>3. QED
    BY <1>3, <2>1, <2>2, ApplyMutationsCurrent
<1>4. QED
  BY <1>1, <1>2, <1>3, ApplyDeltaCases

\* A new write outdates entries, but lies above all that has been seen or collected;
\* it is younger than every delta in flight.
LEMMA AppendCurrent ==
    ASSUME NEW w \in Seq(Write), NEW x \in Write, NEW b \in Nat
    PROVE  /\ \A s : WellFormed(b, s) /\ StateOK(w, s) /\ StateCurrent(w, s)
                       => StateCurrent(Append(w, x), s)
           /\ \A d, ttl : (/\ x.status # "Set" => x.left = GracePeriod
                           /\ ttl \in Nat /\ ttl <= MaxDelay /\ DeltaCurrent(w, d, ttl))
                              => DeltaCurrent(Append(w, x), d, ttl)
<1> DEFINE u == Append(w, x)
<1>1. \A k : LastWrite(u, k) = IF x.key = k THEN Len(w) + 1 ELSE LastWrite(w, k)
  BY AppendLatest, AppendWrite DEF LastWrite
<1>2. Len(w) \in Nat /\ Len(u) = Len(w) + 1 /\ \A v \in 1..Len(w) : u[v] = w[v]
  BY AppendWrite
<1>3. ASSUME NEW d, NEW ttl \in Nat, ttl <= MaxDelay, DeltaCurrent(w, d, ttl),
             x.status # "Set" => x.left = GracePeriod
      PROVE  DeltaCurrent(u, d, ttl)
  <2>1. PICK sent \in Nat : CurrentAt(w, d, ttl, sent)
    BY <1>3 DEF DeltaCurrent
  <2>2. RecentSince(u, sent, ttl)
    BY <1>3, <2>1, AppendRecent DEF CurrentAt
  <2> HIDE DEF u
  <2>3. sent <= Len(u) /\ \A v \in 1..sent : u[v] = w[v]
    BY <1>2, <2>1 DEF CurrentAt
  <2>4. CurrentAt(u, d, ttl, sent)
    BY <2>1, <2>2, <2>3 DEF CurrentAt
  <2>5. QED
    BY <2>4 DEF DeltaCurrent
<1> HIDE DEF u
<1>4. ASSUME NEW s, WellFormed(b, s), StateOK(w, s), StateCurrent(w, s)
      PROVE  StateCurrent(u, s)
  <2>1. s.max_version \in Nat /\ s.max_version <= Len(w)
    BY <1>4 DEF WellFormed, NodeStates, StateOK
  <2>2. s.last_gc_version \in Nat /\ s.last_gc_version <= Len(w)
    BY <1>4, <1>2 DEF WellFormed, NodeStates, StateOK, CollectedWrite
  <2>3. QED
    BY ONLY <1>1, <1>2, <1>4, <2>1, <2>2 DEF StateCurrent
<1>5. QED
  BY <1>3, <1>4 DEF u

\* The passing of time outdates nothing.
LEMMA AgeCurrent ==
    ASSUME NEW w \in Seq(Write), NEW b \in Nat, MaxDelay < GracePeriod
    PROVE  /\ \A s : WellFormed(b, s) /\ StateCurrent(w, s) => StateCurrent(AgeWrites(w), Age(s))
           /\ \A d, ttl : ttl \in Nat /\ ttl > 0 /\ ttl <= MaxDelay /\ DeltaCurrent(w, d, ttl)
                            => DeltaCurrent(AgeWrites(w), d, ttl - 1)
<1>1. Len(AgeWrites(w)) = Len(w) /\ \A v \in 1..Len(w) : AgeWrites(w)[v].key = w[v].key
  BY AgeWritesType
<1>2. \A k : LastWrite(AgeWrites(w), k) = LastWrite(w, k)
  <2>1. \A k : {v \in 1..Len(w) : AgeWrites(w)[v].key = k} = {v \in 1..Len(w) : w[v].key = k}
    BY <1>1
  <2>2. QED
    BY <1>1, <2>1 DEF LastWrite, LatestVersion
<1>3. ASSUME NEW s, WellFormed(b, s), StateCurrent(w, s)
      PROVE  StateCurrent(AgeWrites(w), Age(s))
  <2>1. /\ Age(s).max_version = s.max_version /\ Age(s).last_gc_version = s.last_gc_version
        /\ \A k \in Key : Age(s).key_values[k].version = s.key_values[k].version
    BY <1>3, AgeWellFormed
  <2>2. QED
    BY ONLY <1>2, <1>3, <2>1 DEF StateCurrent, Present
<1>4. ASSUME NEW d, NEW ttl \in Nat, ttl > 0, ttl <= MaxDelay, DeltaCurrent(w, d, ttl)
      PROVE  DeltaCurrent(AgeWrites(w), d, ttl - 1)
  <2>1. PICK sent \in Nat : CurrentAt(w, d, ttl, sent)
    BY <1>4 DEF DeltaCurrent
  <2>2. RecentSince(AgeWrites(w), sent, ttl - 1)
    BY <1>4, <2>1, AgeRecent DEF CurrentAt
  <2>3. \A v \in 1..sent : AgeWrites(w)[v].key = w[v].key
    BY <1>1, <2>1 DEF CurrentAt
  <2>4. CurrentAt(AgeWrites(w), d, ttl - 1, sent)
    BY <1>1, <2>1, <2>2, <2>3 DEF CurrentAt
  <2>5. QED
    BY <2>4 DEF DeltaCurrent
<1>5. QED
  BY <1>3, <1>4

\* Steps that change at most what one node holds, and send messages.
LEMMA CurrentOneNode ==
    ASSUME CurrentInv, FaithfulInv', history' = history, NEW n \in Node, NEW states,
           node_states' = [node_states EXCEPT ![n] = states],
           \A m \in Node : StateCurrent(history[m], states[m]),
           \A m \in network' : m \in network \/ MessageCurrent(m)
    PROVE  CurrentInv'
<1>1. node_states \in [Node -> [Node -> NodeStates]]
  BY DEF CurrentInv, FaithfulInv, SafetyInv, TypeInv, TypeOK
<1>2. \A x, m \in Node : StateCurrent(history'[m], node_states'[x][m])
  BY <1>1 DEF CurrentInv
<1>3. \A m \in network' : MessageCurrent(m)'
  BY DEF CurrentInv, MessageCurrent
<1>4. QED
  BY <1>2, <1>3 DEF CurrentInv

\* Steps that change no state, and send messages.
LEMMA CurrentUnchanged ==
    ASSUME CurrentInv, FaithfulInv', UNCHANGED <<node_states, history>>,
           \A m \in network' : m \in network \/ MessageCurrent(m)
    PROVE  CurrentInv'
<1>1. \A m \in network' : MessageCurrent(m)'
  BY DEF CurrentInv, MessageCurrent
<1>2. QED
  BY <1>1 DEF CurrentInv

\* The initial state satisfies the invariant.
LEMMA CurrentInit == Init => CurrentInv
<1> SUFFICES ASSUME Init PROVE CurrentInv
  OBVIOUS
<1>1. \A n, m \in Node : node_states[n][m] = NewNodeState
  BY DEF Init
<1>2. \A n, m \in Node : StateCurrent(history[m], node_states[n][m])
  BY <1>1, NewStateCurrent
<1>3. QED
  BY <1>2, FaithfulInit DEF CurrentInv, Init

\* The application's writes preserve the invariant.
LEMMA CurrentOwnWrite ==
    ASSUME CurrentInv, FaithfulInv', NEW n \in Node, NEW k \in Key, NEW v,
           \/ v \in Value /\ (SetKey(n, k, v) \/ SetKeyWithTtl(n, k, v))
           \/ DeleteKey(n, k) \/ DeleteKeyAfterTtl(n, k)
    PROVE  CurrentInv'
<1>0. SafetyInv /\ SafetyInv' /\ TypeInv'
  BY DEF CurrentInv, FaithfulInv, SafetyInv
<1>1. /\ network' = network
      /\ \A p, m \in Node : p # n \/ m # n => node_states'[p][m] = node_states[p][m]
      /\ \A m \in Node :
            \/ history'[m] = history[m]
            \/ /\ m = n
               /\ \E x \in Write : /\ history'[m] = Append(history[m], x)
                                   /\ x.status # "Set" => x.left = GracePeriod
  BY <1>0, OwnWriteEffect
<1>2. \A p, m \in Node : /\ WriteLimit[m] \in Nat /\ history[m] \in Seq(Write)
                         /\ WellFormed(WriteLimit[m], node_states[p][m])
                         /\ StateOK(history[m], node_states[p][m])
                         /\ StateCurrent(history[m], node_states[p][m])
  BY BoundsAssumption DEF CurrentInv, FaithfulInv, SafetyInv, TypeInv, TypeOK
<1>3. ASSUME NEW p \in Node, NEW m \in Node
      PROVE  StateCurrent(history'[m], node_states[p][m])
  <2>1. CASE history'[m] = history[m]
    BY <1>2, <2>1
  <2>2. ASSUME NEW x \in Write, history'[m] = Append(history[m], x)
        PROVE  StateCurrent(history'[m], node_states[p][m])
    <3>1. StateCurrent(Append(history[m], x), node_states[p][m])
      BY <1>2, AppendCurrent
    <3>2. QED
      BY <2>2, <3>1
  <2>3. QED
    BY <1>1, <2>1, <2>2
<1>4. StateCurrent(history'[n], node_states'[n][n])
  <2>1. history'[n] \in Seq(Write) /\ HoldsLastWrites(history'[n], node_states'[n][n])
    BY <1>0 DEF SafetyInv, TypeInv, TypeOK, OwnStateIntact
  <2>2. QED
    BY <2>1, OwnStateCurrent
<1>5. \A p, m \in Node : StateCurrent(history'[m], node_states'[p][m])
  BY <1>1, <1>3, <1>4
<1>6. ASSUME NEW m \in network, m.type \in {"SynAck", "Ack"}
      PROVE  DeltaCurrent(history'[m.src], m.delta[m.src], m.ttl)
  <2>1. /\ m.src \in Node /\ m.ttl \in Nat /\ m.ttl <= MaxDelay
        /\ DeltaCurrent(history[m.src], m.delta[m.src], m.ttl)
    BY <1>6, MessageFields DEF CurrentInv, FaithfulInv, SafetyInv, TypeInv, TypeOK, MessageOK,
                               MessageCurrent
  <2>2. CASE history'[m.src] = history[m.src]
    BY <2>1, <2>2
  <2>3. ASSUME NEW y \in Write, history'[m.src] = Append(history[m.src], y),
               y.status # "Set" => y.left = GracePeriod
        PROVE  DeltaCurrent(history'[m.src], m.delta[m.src], m.ttl)
    <3>1. DeltaCurrent(Append(history[m.src], y), m.delta[m.src], m.ttl)
      BY <1>2, <2>1, <2>3, AppendCurrent
    <3>2. QED
      BY <2>3, <3>1
  <2>4. QED
    BY <1>1, <2>1, <2>2, <2>3
<1>7. \A m \in network' : MessageCurrent(m)'
  BY <1>1, <1>6 DEF MessageCurrent, CurrentInv
<1>8. QED
  BY <1>5, <1>7 DEF CurrentInv

\* A gossip round preserves the invariant.
LEMMA CurrentGossipMultiple ==
    ASSUME CurrentInv, FaithfulInv', NEW n \in Node, NEW peers \in SUBSET Node,
           NEW forgotten \in SUBSET scheduled[n], GossipMultiple(n, peers, forgotten)
    PROVE  CurrentInv'
<1> DEFINE collected == [m \in Node |-> GcKeysMarkedForDeletion(node_states[n][m])]
           states == [m \in Node |-> IF m \in forgotten THEN NewNodeState ELSE collected[m]]
<1>1. \A m \in Node : /\ WriteLimit[m] \in Nat /\ WellFormed(WriteLimit[m], node_states[n][m])
                      /\ history[m] \in Seq(Write) /\ StateCurrent(history[m], node_states[n][m])
  BY BoundsAssumption DEF CurrentInv, FaithfulInv, SafetyInv, TypeInv, TypeOK
<1>2. \A m \in Node : StateCurrent(history[m], collected[m])
  BY <1>1, GcCurrent
<1>3. /\ network' = network \cup {SynMessage(n, collected, p) : p \in peers} /\ n \notin peers
      /\ node_states' = [node_states EXCEPT ![n] = states]
      /\ history' = history
  BY DEF GossipMultiple, Send
<1> HIDE DEF collected
<1>4. \A m \in Node : StateCurrent(history[m], states[m])
  BY <1>2, NewStateCurrent
<1>5. \A m \in network' : m \in network \/ MessageCurrent(m)
  BY <1>3 DEF SynMessage, MessageCurrent
<1> HIDE DEF states
<1>6. QED
  BY <1>3, <1>4, <1>5, CurrentOneNode

\* What a node says of itself in a reply is current.
LEMMA ReplyCurrent ==
    ASSUME SafetyInv, NEW n \in Node, NEW states, states[n] = node_states[n][n],
           NEW digest \in Digests, NEW hidden, NEW room \in Nat,
           NEW delta \in PartialDeltas(states, digest, hidden, room)
    PROVE  DeltaCurrent(history[n], delta[n], MaxDelay)
<1>1. /\ history[n] \in Seq(Write) /\ WriteLimit[n] \in Nat
      /\ WellFormed(WriteLimit[n], states[n]) /\ StateOK(history[n], states[n])
      /\ HoldsLastWrites(history[n], states[n])
  BY BoundsAssumption DEF SafetyInv, TypeInv, TypeOK, OwnStateIntact
<1>2. FromVersion(states[n], digest[n]) \in Nat
  BY DEF FromVersion, Digests, NodeDigests
<1>3. delta[n] = EmptyNodeDelta \/ \E from \in Nat, r \in Nat : delta[n] = NodeDelta(states[n], from, r)
  <2>1. 1..room \subseteq Nat
    OBVIOUS
  <2>2. \/ delta[n] = EmptyNodeDelta
        \/ \E r \in 1..room : delta[n] = NodeDelta(states[n], FromVersion(states[n], digest[n]), r)
    BY PartialDeltaCases
  <2>3. QED
    BY <1>2, <2>1, <2>2
<1>4. QED
  BY <1>1, <1>3, OwnDeltaCurrent

\* What a node holds after it has applied a delta of its only peer.
LEMMA ApplyDeltasCurrent ==
    ASSUME CurrentInv, MaxDelay < GracePeriod, NEW a, NEW b, Node = {a, b},
           NEW m \in network, m.type \in {"SynAck", "Ack"}
    PROVE  \A x \in Node : StateCurrent(history[x], ApplyDeltas(node_states[m.dst], m.delta)[x])
<1> DEFINE states == ApplyDeltas(node_states[m.dst], m.delta)
<1>1. /\ m \in Messages /\ DeltaWellFormed(m) /\ MessageOK(m) /\ MessageCurrent(m)
      /\ m.dst \in Node /\ m.src \in Node /\ m.ttl \in Nat
      /\ FaithfulInv /\ SafetyInv
  BY MessageFields DEF CurrentInv, FaithfulInv, SafetyInv, TypeInv, TypeOK
<1>2. \A x \in Node : states[x] = ApplyDelta(node_states[m.dst][x], m.delta[x])
  BY DEF ApplyDeltas
<1>3. states[m.dst] = node_states[m.dst][m.dst]
  BY <1>1, ApplyDeltasOK
<1>4. \A x \in Node : StateFaithful(history[x], states[x])
  BY <1>1, ApplyDeltasFaithful
<1> HIDE DEF states
<1>5. ASSUME NEW x \in Node, x = m.dst
      PROVE  StateCurrent(history[x], states[x])
  BY <1>1, <1>3, <1>5 DEF CurrentInv
<1>6. ASSUME NEW x \in Node, x # m.dst
      PROVE  StateCurrent(history[x], states[x])
  <2>1. x = m.src
    BY <1>1, <1>6 DEF MessageCurrent
  <2>2. /\ WriteLimit[x] \in Nat /\ history[x] \in Seq(Write)
        /\ WellFormed(WriteLimit[x], node_states[m.dst][x])
        /\ StateOK(history[x], node_states[m.dst][x])
        /\ StateCurrent(history[x], node_states[m.dst][x])
        /\ WellFormedDelta(WriteLimit[x], m.delta[x])
        /\ DeltaOK(history[x], m.delta[x])
    BY <1>1, BoundsAssumption DEF CurrentInv, SafetyInv, TypeInv, TypeOK, DeltaWellFormed, MessageOK
  <2>3. DeltaCurrent(history[x], m.delta[x], m.ttl)
    BY <1>1, <2>1 DEF MessageCurrent
  <2>4. QED
    BY <1>1, <1>2, <1>4, <2>2, <2>3, ApplyDeltaCurrent
<1>7. QED
  BY <1>5, <1>6 DEF states

\* process_message preserves the invariant.
LEMMA CurrentReceive ==
    ASSUME CurrentInv, FaithfulInv', MaxDelay < GracePeriod, NEW a, NEW b, Node = {a, b},
           NEW m \in network, NEW duplicated \in BOOLEAN, Receive(m, duplicated)
    PROVE  CurrentInv'
<1>1. /\ m \in Messages /\ m.src \in Node /\ m.dst \in Node /\ m.src # m.dst
      /\ FaithfulInv /\ SafetyInv
  BY MessageFields DEF CurrentInv, FaithfulInv, SafetyInv, TypeInv, TypeOK, MessageCurrent
<1>2. Delivered(m, duplicated) \subseteq network
  BY DEF Delivered
<1>3. ASSUME NEW room \in Rooms, HandleSyn(m, duplicated, room)
      PROVE  CurrentInv'
  <2> DEFINE states == node_states[m.dst]
             hidden == scheduled[m.dst]
  <2>1. m.type = "Syn" /\ UNCHANGED <<node_states, history>>
    BY <1>3 DEF HandleSyn
  <2>2. PICK delta \in PartialDeltas(states, m.digest, hidden, room) :
            network' = Delivered(m, duplicated) \cup
                {[type |-> "SynAck", src |-> m.dst, dst |-> m.src, ttl |-> MaxDelay,
                  digest |-> ComputeDigest(states, hidden), delta |-> delta]}
    BY <1>3 DEF HandleSyn, Send
  <2>3. m.digest \in Digests /\ room \in Nat
    BY <1>1, <2>1, MessageFields, BoundsAssumption
  <2>4. DeltaCurrent(history[m.dst], delta[m.dst], MaxDelay)
    BY <1>1, <2>3, ReplyCurrent
  <2> HIDE DEF states, hidden
  <2>5. \A x \in network' : x \in network \/ MessageCurrent(x)
    BY <1>1, <1>2, <2>2, <2>4 DEF MessageCurrent
  <2>6. QED
    BY <2>1, <2>5, CurrentUnchanged
<1>4. ASSUME NEW room \in Rooms, HandleSynAck(m, duplicated, room)
      PROVE  CurrentInv'
  <2> DEFINE states == ApplyDeltas(node_states[m.dst], m.delta)
  <2>1. /\ m.type = "SynAck" /\ history' = history
        /\ node_states' = [node_states EXCEPT ![m.dst] = states]
    BY <1>4 DEF HandleSynAck
  <2>2. PICK delta \in PartialDeltas(states, m.digest, scheduled[m.dst], room) :
            network' = Delivered(m, duplicated) \cup
                {[type |-> "Ack", src |-> m.dst, dst |-> m.src, ttl |-> MaxDelay, delta |-> delta]}
    BY <1>4 DEF HandleSynAck, Send
  <2>3. m.digest \in Digests /\ room \in Nat
    BY <1>1, <2>1, MessageFields, BoundsAssumption
  <2>4. \A x \in Node : StateCurrent(history[x], states[x])
    BY <2>1, ApplyDeltasCurrent
  <2>5. states[m.dst] = node_states[m.dst][m.dst]
    BY <1>1, <2>1, ApplyDeltasOK
  <2> HIDE DEF states
  <2>6. DeltaCurrent(history[m.dst], delta[m.dst], MaxDelay)
    BY <1>1, <2>3, <2>5, ReplyCurrent
  <2>7. \A x \in network' : x \in network \/ MessageCurrent(x)
    BY <1>1, <1>2, <2>2, <2>6 DEF MessageCurrent
  <2>8. QED
    BY <1>1, <2>1, <2>4, <2>7, CurrentOneNode
<1>5. CASE HandleAck(m, duplicated)
  <2> DEFINE states == ApplyDeltas(node_states[m.dst], m.delta)
  <2>1. /\ m.type = "Ack" /\ history' = history
        /\ node_states' = [node_states EXCEPT ![m.dst] = states]
        /\ network' = Delivered(m, duplicated)
    BY <1>1, <1>5 DEF HandleAck, Send, SafetyInv, TypeInv, TypeOK
  <2>2. \A x \in Node : StateCurrent(history[x], states[x])
    BY <2>1, ApplyDeltasCurrent
  <2> HIDE DEF states
  <2>3. QED
    BY <1>1, <1>2, <2>1, <2>2, CurrentOneNode
<1>6. CASE HandleForeignSyn(m, duplicated)
  <2>1. \A x \in network' : x \in network \/ MessageCurrent(x)
    BY <1>1, <1>2, <1>6 DEF HandleForeignSyn, Send, MessageCurrent
  <2>2. QED
    BY <1>6, <2>1, CurrentUnchanged DEF HandleForeignSyn
<1>7. CASE HandleBadCluster(m, duplicated)
  BY <1>2, <1>7, CurrentUnchanged DEF HandleBadCluster, Send
<1>8. QED
  BY <1>3, <1>4, <1>5, <1>6, <1>7 DEF Receive

\* The passing of time preserves the invariant.
LEMMA CurrentTick ==
    ASSUME CurrentInv, FaithfulInv', MaxDelay < GracePeriod, Tick
    PROVE  CurrentInv'
<1>1. \A n, m \in Node : /\ history[m] \in Seq(Write) /\ WriteLimit[m] \in Nat
                         /\ history'[m] = AgeWrites(history[m])
                         /\ node_states'[n][m] = Age(node_states[n][m])
                         /\ WellFormed(WriteLimit[m], node_states[n][m])
                         /\ StateCurrent(history[m], node_states[n][m])
  BY BoundsAssumption DEF Tick, CurrentInv, FaithfulInv, SafetyInv, TypeInv, TypeOK
<1>2. \A n, m \in Node : StateCurrent(history'[m], node_states'[n][m])
  BY <1>1, AgeCurrent
<1>3. \A m \in network' : MessageCurrent(m)'
  <2> SUFFICES ASSUME NEW m \in network' PROVE MessageCurrent(m)'
    OBVIOUS
  <2>1. PICK d \in network : d.ttl > 0 /\ m = [d EXCEPT !.ttl = @ - 1]
    BY DEF Tick
  <2>2. d \in Messages /\ MessageCurrent(d) /\ MessageOK(d)
    BY DEF CurrentInv, FaithfulInv, SafetyInv, TypeInv, TypeOK
  <2>3. /\ m.type = d.type /\ m.src = d.src /\ m.dst = d.dst /\ m.ttl = d.ttl - 1
        /\ d.type \in {"SynAck", "Ack"} => m.delta = d.delta
    BY <2>1, <2>2, OlderMessage
  <2>4. d.src \in Node /\ d.ttl \in Nat /\ d.ttl <= MaxDelay
    BY <2>2, MessageFields DEF MessageOK
  <2>5. ASSUME d.type \in {"SynAck", "Ack"}
        PROVE  DeltaCurrent(history'[d.src], d.delta[d.src], d.ttl - 1)
    <3>1. DeltaCurrent(history[d.src], d.delta[d.src], d.ttl)
      BY <2>2, <2>5 DEF MessageCurrent
    <3>2. QED
      BY <1>1, <2>1, <2>4, <3>1, AgeCurrent
  <2>6. QED
    BY <2>2, <2>3, <2>5 DEF MessageCurrent
<1>4. QED
  BY <1>2, <1>3 DEF CurrentInv

\* The invariant is inductive in a cluster of two.
LEMMA CurrentNext ==
    ASSUME MaxDelay < GracePeriod, NEW a, NEW b, Node = {a, b}
    PROVE  CurrentInv /\ [Next]_vars => CurrentInv'
<1> SUFFICES ASSUME CurrentInv, [Next]_vars PROVE CurrentInv'
  OBVIOUS
<1>0. FaithfulInv'
  BY FaithfulNext DEF CurrentInv
<1>1. CASE UNCHANGED vars
  BY <1>0, <1>1, CurrentUnchanged DEF vars
<1>2. ASSUME NEW n \in Node, NEW k \in Key, NEW v \in Value, SetKey(n, k, v) \/ SetKeyWithTtl(n, k, v)
      PROVE  CurrentInv'
  BY <1>0, <1>2, CurrentOwnWrite
<1>3. ASSUME NEW n \in Node, NEW k \in Key, DeleteKey(n, k) \/ DeleteKeyAfterTtl(n, k)
      PROVE  CurrentInv'
  BY <1>0, <1>3, CurrentOwnWrite
<1>4. ASSUME NEW n \in Node, NEW peers \in SUBSET Node, NEW forgotten \in SUBSET scheduled[n],
             GossipMultiple(n, peers, forgotten)
      PROVE  CurrentInv'
  BY <1>0, <1>4, CurrentGossipMultiple
<1>5. ASSUME NEW n \in Node, NEW p \in Node, Gossip(n, p)
      PROVE  CurrentInv'
  <2>1. MessageCurrent(SynMessage(n, node_states[n], p))
    BY <1>5 DEF Gossip, SynMessage, MessageCurrent
  <2>2. QED
    BY <1>0, <1>5, <2>1, CurrentUnchanged DEF Gossip, Send
<1>6. ASSUME NEW m \in network, NEW duplicated \in BOOLEAN, Receive(m, duplicated)
      PROVE  CurrentInv'
  BY <1>0, <1>6, CurrentReceive
<1>7. ASSUME NEW m \in network, Lose(m)
      PROVE  CurrentInv'
  BY <1>0, <1>7, CurrentUnchanged DEF Lose
<1>8. ASSUME NEW n \in Node, NEW m \in Node, ChangeSchedule(n, m)
      PROVE  CurrentInv'
  BY <1>0, <1>8, CurrentUnchanged DEF ChangeSchedule
<1>9. CASE Tick
  BY <1>0, <1>9, CurrentTick
<1>10. QED
  BY <1>1, <1>2, <1>3, <1>4, <1>5, <1>6, <1>7, <1>8, <1>9 DEF Next

\* Between two nodes no deleted key comes back, whatever they write, collect, forget
\* or lose: an outdated entry of a replica is still to be replaced by a write above
\* max_version that the replica will not skip (prepare_apply_delta).  Two nodes is
\* the most that can be said: with three it is false (run "resurrected").
THEOREM TwoNodesNeverResurrect ==
    ASSUME MaxDelay < GracePeriod, NEW a, NEW b, Node = {a, b}
    PROVE  Spec => []NoResurrectedKey
<1>1. CurrentInv => NoResurrectedKey
  BY DEF CurrentInv, StateCurrent, NoResurrectedKey
<1>2. QED
  BY <1>1, CurrentInit, CurrentNext, PTL DEF Spec

-----------------------------------------------------------------------------
(* Replicas only freshen *)

\* State t is at least as fresh as s.
AtLeastAsFresh(t, s) == ~Fresher(s.last_gc_version, s.max_version, t.last_gc_version, t.max_version)

\* apply_delta never lowers (last_gc_version, max_version).
LEMMA ApplyDeltaFreshens ==
    ASSUME NEW b \in Nat, NEW s, WellFormed(b, s), NEW d, WellFormedDelta(b, d)
    PROVE  AtLeastAsFresh(ApplyDelta(s, d), s)
<1>1. s.max_version \in Nat /\ s.last_gc_version \in Nat /\ d.last_gc_version \in Nat
  BY DEF WellFormed, WellFormedDelta, NodeStates, NodeDeltas
<1>2. CASE ApplyDelta(s, d) = s
  BY <1>1, <1>2 DEF AtLeastAsFresh, Fresher
<1>3. CASE ApplyDelta(s, d) = ApplyMutations(s, d)
  <2>1. /\ ApplyMutations(s, d).last_gc_version = s.last_gc_version
        /\ ApplyMutations(s, d).max_version >= s.max_version
        /\ ApplyMutations(s, d).max_version \in Nat
    BY ApplyMutationsWellFormed DEF WellFormed, NodeStates
  <2>2. QED
    BY <1>1, <1>3, <2>1 DEF AtLeastAsFresh, Fresher
<1>4. CASE InvitesReset(s, d) /\ ApplyDelta(s, d) = ApplyMutations(ResetNodeState(d), d)
  <2>1. ApplyMutations(ResetNodeState(d), d).last_gc_version = d.last_gc_version
    BY ResetWellFormed, ApplyMutationsWellFormed
  <2>2. d.last_gc_version > s.last_gc_version
    BY <1>1, <1>4 DEF InvitesReset, Applicable
  <2>3. QED
    BY <1>1, <1>4, <2>1, <2>2 DEF AtLeastAsFresh, Fresher
<1>5. QED
  BY <1>2, <1>3, <1>4, ApplyDeltaCases

\* What one step may do to a replica.
FreshenStep ==
    \A n, m \in Node :
        \/ AtLeastAsFresh(node_states'[n][m], node_states[n][m])
        \/ m \in scheduled[n] /\ node_states'[n][m] = NewNodeState

\* Neither does a whole SYN-ACK or ACK.
LEMMA FreshenApply ==
    ASSUME TypeInv, NEW m \in network, m.type \in {"SynAck", "Ack"},
           node_states' = [node_states EXCEPT ![m.dst] = ApplyDeltas(node_states[m.dst], m.delta)]
    PROVE  FreshenStep
<1>1. m \in Messages /\ DeltaWellFormed(m) /\ m.dst \in Node
  BY MessageFields DEF TypeInv, TypeOK
<1>2. \A n, x \in Node : /\ WriteLimit[x] \in Nat /\ WellFormed(WriteLimit[x], node_states[n][x])
                         /\ WellFormedDelta(WriteLimit[x], m.delta[x])
                         /\ node_states[n][x].max_version \in Nat
                         /\ node_states[n][x].last_gc_version \in Nat
  BY <1>1, BoundsAssumption DEF TypeInv, DeltaWellFormed, WellFormed, NodeStates
<1>3. \A n, x \in Node : node_states'[n][x] = IF n = m.dst THEN ApplyDelta(node_states[n][x], m.delta[x])
                                              ELSE node_states[n][x]
  BY <1>1 DEF TypeInv, TypeOK, ApplyDeltas
<1>4. \A n, x \in Node : AtLeastAsFresh(node_states[n][x], node_states[n][x])
  BY <1>2 DEF AtLeastAsFresh, Fresher
<1>5. \A n, x \in Node : AtLeastAsFresh(ApplyDelta(node_states[n][x], m.delta[x]), node_states[n][x])
  BY <1>2, ApplyDeltaFreshens
<1>6. QED
  BY <1>3, <1>4, <1>5 DEF FreshenStep

\* Every step freshens the replicas, or forgets one that was scheduled for deletion.
LEMMA FreshenNext == TypeInv /\ [Next]_vars => FreshenStep
<1> SUFFICES ASSUME TypeInv, [Next]_vars PROVE FreshenStep
  OBVIOUS
<1>1. \A n, m \in Node : /\ WriteLimit[m] \in Nat /\ WellFormed(WriteLimit[m], node_states[n][m])
                         /\ node_states[n][m].max_version \in Nat
                         /\ node_states[n][m].last_gc_version \in Nat
  BY BoundsAssumption DEF TypeInv, WellFormed, NodeStates
<1>2. \A n, m \in Node : AtLeastAsFresh(node_states[n][m], node_states[n][m])
  BY <1>1 DEF AtLeastAsFresh, Fresher
<1>3. CASE node_states' = node_states
  BY <1>2, <1>3 DEF FreshenStep
<1>4. ASSUME NEW n \in Node, NEW k \in Key, NEW v,
             \/ v \in Value /\ (SetKey(n, k, v) \/ SetKeyWithTtl(n, k, v))
             \/ DeleteKey(n, k) \/ DeleteKeyAfterTtl(n, k)
      PROVE  FreshenStep
  <2> DEFINE s == node_states[n][n]
             b == WriteLimit[n]
  <2>1. b \in Nat /\ WellFormed(b, s)
    BY <1>1
  <2>2. s.max_version < b
    BY <1>4 DEF SetKey, SetKeyWithTtl, DeleteKey, DeleteKeyAfterTtl, MayWrite
  <2>3. PICK new : /\ node_states' = [node_states EXCEPT ![n][n] = new]
                   /\ \/ v \in Value /\ (new = Set(s, k, v) \/ new = SetWithTtl(s, k, v))
                      \/ new = Delete(s, k) \/ new = DeleteAfterTtl(s, k)
    BY <1>4 DEF SetKey, SetKeyWithTtl, DeleteKey, DeleteKeyAfterTtl, OwnWrite
  <2> HIDE DEF s, b
  <2>4. \/ new = s
        \/ \E x \in Value \cup {NoValue}, status \in Statuses : new = Rewritten(s, k, x, status)
    <3>1. \/ v \in Value /\ (new = Set(s, k, v) \/ new = SetWithTtl(s, k, v))
          \/ new = Delete(s, k) \/ new = DeleteAfterTtl(s, k)
      BY <2>3
    <3>2. QED
      BY <2>1, <3>1, WritesRewrite
  <2>5. new = s \/ (new.last_gc_version = s.last_gc_version /\ new.max_version = s.max_version + 1)
    BY <2>4 DEF Rewritten, StateOf
  <2>6. AtLeastAsFresh(new, s)
    BY <1>1, <2>5 DEF AtLeastAsFresh, Fresher, s
  <2>7. \A p, m \in Node : node_states'[p][m] = IF p = n /\ m = n THEN new ELSE node_states[p][m]
    BY <2>3 DEF TypeInv, TypeOK
  <2>8. QED
    BY <1>2, <2>6, <2>7 DEF FreshenStep, s
<1>5. ASSUME NEW n \in Node, NEW peers \in SUBSET Node, NEW forgotten \in SUBSET scheduled[n],
             GossipMultiple(n, peers, forgotten)
      PROVE  FreshenStep
  <2>1. \A p, m \in Node :
            node_states'[p][m] = IF p # n THEN node_states[p][m]
                                 ELSE IF m \in forgotten THEN NewNodeState
                                 ELSE GcKeysMarkedForDeletion(node_states[n][m])
    BY <1>5 DEF GossipMultiple, TypeInv, TypeOK
  <2>2. \A m \in Node : LET t == GcKeysMarkedForDeletion(node_states[n][m])
                        IN  /\ t.max_version = node_states[n][m].max_version
                            /\ t.last_gc_version >= node_states[n][m].last_gc_version
                            /\ t.last_gc_version \in Nat
    BY <1>1, GcWellFormed DEF WellFormed, NodeStates
  <2>3. \A m \in Node : AtLeastAsFresh(GcKeysMarkedForDeletion(node_states[n][m]), node_states[n][m])
    BY <1>1, <2>2 DEF AtLeastAsFresh, Fresher
  <2>4. QED
    BY <1>2, <2>1, <2>3 DEF FreshenStep
<1>6. ASSUME NEW m \in network, NEW duplicated \in BOOLEAN, Receive(m, duplicated)
      PROVE  FreshenStep
  <2>1. ASSUME NEW room \in Rooms, HandleSyn(m, duplicated, room) PROVE node_states' = node_states
    BY <2>1 DEF HandleSyn
  <2>2. ASSUME NEW room \in Rooms, HandleSynAck(m, duplicated, room) PROVE FreshenStep
    BY <2>2, FreshenApply DEF HandleSynAck
  <2>3. CASE HandleAck(m, duplicated)
    <3>1. m.dst \in Node /\ node_states \in [Node -> [Node -> NodeStates]]
      BY MessageFields DEF TypeInv, TypeOK
    <3>2. QED
      BY <2>3, <3>1, FreshenApply DEF HandleAck
  <2>4. CASE HandleForeignSyn(m, duplicated) \/ HandleBadCluster(m, duplicated)
    BY <1>3, <2>4 DEF HandleForeignSyn, HandleBadCluster
  <2>5. QED
    BY <1>3, <1>6, <2>1, <2>2, <2>3, <2>4 DEF Receive
<1>7. CASE Tick
  <2>1. \A n, m \in Node : node_states'[n][m] = Age(node_states[n][m])
    BY <1>7 DEF Tick
  <2>2. \A n, m \in Node : /\ Age(node_states[n][m]).max_version = node_states[n][m].max_version
                           /\ Age(node_states[n][m]).last_gc_version
                                = node_states[n][m].last_gc_version
    BY <1>1, AgeWellFormed
  <2>3. QED
    BY <1>2, <2>1, <2>2 DEF FreshenStep, AtLeastAsFresh
<1>8. QED
  <2>1. ASSUME NEW n \in Node, NEW k \in Key, NEW v \in Value, SetKey(n, k, v) \/ SetKeyWithTtl(n, k, v)
        PROVE  FreshenStep
    BY <1>4, <2>1
  <2>2. ASSUME NEW n \in Node, NEW k \in Key, DeleteKey(n, k) \/ DeleteKeyAfterTtl(n, k)
        PROVE  FreshenStep
    BY <1>4, <2>2
  <2>3. ASSUME NEW n \in Node, NEW p \in Node, Gossip(n, p) \/ ChangeSchedule(n, p)
        PROVE  node_states' = node_states
    BY <2>3 DEF Gossip, ChangeSchedule
  <2>4. ASSUME NEW m \in network, Lose(m) PROVE node_states' = node_states
    BY <2>4 DEF Lose
  <2>5. UNCHANGED vars => node_states' = node_states
    BY DEF vars
  <2>6. QED
    BY <1>3, <1>5, <1>6, <1>7, <2>1, <2>2, <2>3, <2>4, <2>5 DEF Next

\* A stale, reordered or duplicated delta never takes a replica back: its
\* (last_gc_version, max_version) only grows, until the node is forgotten.  No
\* assumption on delays is needed.
THEOREM ReplicasFreshen == Spec => ReplicasOnlyFreshen
<1>1. Spec => []TypeInv
  BY TypeInvInit, TypeInvNext, PTL DEF Spec
<1>2. FreshenStep =>
        \A n, m \in Node :
            LET old == node_states[n][m]
                new == node_states'[n][m]
            IN  \/ ~Fresher(old.last_gc_version, old.max_version,
                            new.last_gc_version, new.max_version)
                \/ m \in scheduled[n] /\ new = NewNodeState
  BY DEF FreshenStep, AtLeastAsFresh
<1>3. QED
  BY <1>1, <1>2, FreshenNext, PTL DEF Spec, ReplicasOnlyFreshen

-----------------------------------------------------------------------------
(* Clusters stay apart *)

\* SYN-ACK and ACK messages stay within a cluster and are silent about the
\* nodes of other clusters; nodes know nothing of other clusters.
IsolationInv ==
    /\ TypeInv
    /\ ClusterIsolation
    /\ \A m \in network : m.type \in {"SynAck", "Ack"} =>
          /\ Cluster[m.src] = Cluster[m.dst]
          /\ \A x \in Node : Cluster[x] # Cluster[m.src] => m.delta[x] = EmptyNodeDelta

\* Nothing is collected from, told about or learnt of a node that is unknown.
LEMMA UnknownStaysUnknown ==
    /\ GcKeysMarkedForDeletion(NewNodeState) = NewNodeState
    /\ Age(NewNodeState) = NewNodeState
    /\ ApplyDelta(NewNodeState, EmptyNodeDelta) = NewNodeState
<1>1. /\ NewNodeState.max_version = 0 /\ NewNodeState.last_gc_version = 0
      /\ \A k \in Key : NewNodeState.key_values[k] = Vacant
      /\ WellFormed(0, NewNodeState) /\ NewNodeState \in NodeStates
  BY NewNodeStateWellFormed DEF NewNodeState, StateOf, WellFormed
<1>2. ASSUME NEW t \in NodeStates, t.max_version = 0, t.last_gc_version = 0,
             \A k \in Key : t.key_values[k] = Vacant
      PROVE  t = NewNodeState
  <2>1. t.key_values = [k \in Key |-> Vacant]
    BY <1>2 DEF NodeStates
  <2>2. QED
    BY <1>2, <2>1 DEF NodeStates, NewNodeState, StateOf
<1>3. Collectable(NewNodeState) = {}
  BY <1>1, VacantType DEF Collectable
<1>4. GcKeysMarkedForDeletion(NewNodeState) = NewNodeState
  <2> DEFINE t == GcKeysMarkedForDeletion(NewNodeState)
  <2>1. /\ WellFormed(0, t) /\ t.max_version = 0 /\ t.last_gc_version = 0
        /\ \A k \in Key : t.key_values[k] = Vacant
    BY <1>1, <1>3, GcWellFormed
  <2>2. t \in NodeStates
    BY <2>1 DEF WellFormed
  <2> HIDE DEF t
  <2>3. QED
    BY <1>2, <2>1, <2>2 DEF t
<1>5. Age(NewNodeState) = NewNodeState
  <2> DEFINE t == Age(NewNodeState)
  <2>1. /\ WellFormed(0, t) /\ t.max_version = 0 /\ t.last_gc_version = 0
    BY <1>1, AgeWellFormed
  <2>2. \A k \in Key : t.key_values[k] = Vacant
    <3> SUFFICES ASSUME NEW k \in Key PROVE t.key_values[k] = Vacant
      OBVIOUS
    <3>1. /\ t.key_values[k].version = Vacant.version /\ t.key_values[k].value = Vacant.value
          /\ t.key_values[k].status = Vacant.status /\ t.key_values[k].left = Older(Vacant.left)
      BY <1>1, AgeWellFormed
    <3>2. Older(Vacant.left) = Vacant.left
      BY DEF Vacant, Older
    <3>3. t.key_values[k] \in Entry
      BY <2>1 DEF WellFormed, NodeStates
    <3>4. QED
      BY <3>1, <3>2, <3>3, VacantType DEF Entry
  <2>3. t \in NodeStates
    BY <2>1 DEF WellFormed
  <2> HIDE DEF t
  <2>4. QED
    BY <1>2, <2>1, <2>2, <2>3 DEF t
<1>6. ApplyDelta(NewNodeState, EmptyNodeDelta) = NewNodeState
  <2> DEFINE t == ApplyMutations(NewNodeState, EmptyNodeDelta)
  <2>1. WellFormedDelta(0, EmptyNodeDelta) /\ EmptyNodeDelta.last_gc_version = 0
        /\ \A k \in Key : EmptyNodeDelta.key_values[k] = Vacant
    BY EmptyNodeDeltaWellFormed DEF EmptyNodeDelta
  <2>2. NewMutations(NewNodeState, EmptyNodeDelta) = {}
    BY <2>1, VacantType DEF NewMutations, DeltaKeys
  <2>3. /\ WellFormed(0, t) /\ t.max_version = 0 /\ t.last_gc_version = 0
        /\ \A k \in Key : t.key_values[k] = Vacant
    BY <1>1, <2>1, <2>2, ApplyMutationsWellFormed
  <2>4. t \in NodeStates
    BY <2>3 DEF WellFormed
  <2> HIDE DEF t
  <2>5. t = NewNodeState
    BY <1>2, <2>3, <2>4
  <2>6. Applicable(NewNodeState, EmptyNodeDelta)
    BY <1>1, <2>1 DEF Applicable
  <2>7. QED
    BY <2>5, <2>6 DEF ApplyDelta, t
<1>7. QED
  BY <1>4, <1>5, <1>6

\* A node that is unknown to the sender is not in its delta.
LEMMA UnknownNotSent ==
    ASSUME NEW states, NEW digest \in Digests, NEW hidden, NEW room,
           NEW delta \in PartialDeltas(states, digest, hidden, room),
           NEW x \in Node, states[x] = NewNodeState
    PROVE  delta[x] = EmptyNodeDelta
<1>1. digest[x].max_version \in Nat /\ states[x].max_version = 0
  BY DEF Digests, NodeDigests, NewNodeState, StateOf
<1>2. x \notin StaleNodes(states, digest, hidden)
  BY <1>1 DEF StaleNodes
<1>3. QED
  BY <1>2, PartialDeltaCases

\* process_message preserves the isolation of clusters.
LEMMA IsolationReceive ==
    ASSUME IsolationInv, TypeInv', NEW m \in network, NEW duplicated \in BOOLEAN,
           Receive(m, duplicated)
    PROVE  IsolationInv'
<1> DEFINE Sealed(d) ==
        d.type \in {"SynAck", "Ack"} =>
            /\ Cluster[d.src] = Cluster[d.dst]
            /\ \A x \in Node : Cluster[x] # Cluster[d.src] => d.delta[x] = EmptyNodeDelta
<1>1. m \in Messages /\ m.src \in Node /\ m.dst \in Node /\ Sealed(m)
  BY MessageFields DEF IsolationInv, TypeInv, TypeOK
<1>2. Delivered(m, duplicated) \subseteq network
  BY DEF Delivered
<1>3. \A d \in network : Sealed(d)
  BY DEF IsolationInv
<1>4. \A x \in Node : Cluster[x] # Cluster[m.dst] => node_states[m.dst][x] = NewNodeState
  BY <1>1 DEF IsolationInv, ClusterIsolation
<1> HIDE DEF Sealed
<1>5. ASSUME m.type \in {"SynAck", "Ack"},
             node_states' = [node_states EXCEPT ![m.dst] = ApplyDeltas(node_states[m.dst], m.delta)]
      PROVE  ClusterIsolation'
  <2>1. \A x \in Node : Cluster[x] # Cluster[m.dst] =>
            ApplyDelta(node_states[m.dst][x], m.delta[x]) = NewNodeState
    BY <1>1, <1>4, <1>5, UnknownStaysUnknown DEF Sealed
  <2>2. \A n, x \in Node : node_states'[n][x] =
            IF n = m.dst THEN ApplyDelta(node_states[n][x], m.delta[x]) ELSE node_states[n][x]
    BY <1>1, <1>5 DEF IsolationInv, TypeInv, TypeOK, ApplyDeltas
  <2>3. QED
    BY <2>1, <2>2 DEF IsolationInv, ClusterIsolation
<1>6. ASSUME NEW room \in Rooms, HandleSyn(m, duplicated, room)
      PROVE  IsolationInv'
  <2> DEFINE states == node_states[m.dst]
             hidden == scheduled[m.dst]
  <2>1. m.type = "Syn" /\ node_states' = node_states /\ Cluster[m.src] = Cluster[m.dst]
    BY <1>6 DEF HandleSyn
  <2>2. PICK delta \in PartialDeltas(states, m.digest, hidden, room) :
            network' = Delivered(m, duplicated) \cup
                {[type |-> "SynAck", src |-> m.dst, dst |-> m.src, ttl |-> MaxDelay,
                  digest |-> ComputeDigest(states, hidden), delta |-> delta]}
    BY <1>6 DEF HandleSyn, Send
  <2>3. m.digest \in Digests
    BY <1>1, <2>1, MessageFields
  <2>4. \A x \in Node : Cluster[x] # Cluster[m.dst] => delta[x] = EmptyNodeDelta
    BY <1>4, <2>3, UnknownNotSent
  <2> HIDE DEF states, hidden
  <2>5. \A d \in network' : Sealed(d)
    BY <1>2, <1>3, <2>1, <2>2, <2>4 DEF Sealed
  <2>6. QED
    BY <2>1, <2>5 DEF IsolationInv, ClusterIsolation, Sealed
<1>7. ASSUME NEW room \in Rooms, HandleSynAck(m, duplicated, room)
      PROVE  IsolationInv'
  <2> DEFINE states == ApplyDeltas(node_states[m.dst], m.delta)
  <2>1. m.type = "SynAck" /\ node_states' = [node_states EXCEPT ![m.dst] = states]
    BY <1>7 DEF HandleSynAck
  <2>2. PICK delta \in PartialDeltas(states, m.digest, scheduled[m.dst], room) :
            network' = Delivered(m, duplicated) \cup
                {[type |-> "Ack", src |-> m.dst, dst |-> m.src, ttl |-> MaxDelay, delta |-> delta]}
    BY <1>7 DEF HandleSynAck, Send
  <2>3. m.digest \in Digests
    BY <1>1, <2>1, MessageFields
  <2>4. Cluster[m.src] = Cluster[m.dst]
    BY <1>1, <2>1 DEF Sealed
  <2>5. \A x \in Node : Cluster[x] # Cluster[m.dst] => states[x] = NewNodeState
    BY <1>1, <1>4, <2>1, UnknownStaysUnknown DEF Sealed, ApplyDeltas
  <2>6. ClusterIsolation'
    BY <1>5, <2>1
  <2> HIDE DEF states
  <2>7. \A x \in Node : Cluster[x] # Cluster[m.dst] => delta[x] = EmptyNodeDelta
    BY <2>3, <2>5, UnknownNotSent
  <2>8. \A d \in network' : Sealed(d)
    BY <1>2, <1>3, <2>2, <2>4, <2>7 DEF Sealed
  <2>9. QED
    BY <2>6, <2>8 DEF IsolationInv, Sealed
<1>8. CASE HandleAck(m, duplicated)
  <2>1. /\ m.type = "Ack" /\ network' = Delivered(m, duplicated)
        /\ node_states' = [node_states EXCEPT ![m.dst] = ApplyDeltas(node_states[m.dst], m.delta)]
    BY <1>1, <1>8 DEF HandleAck, Send, IsolationInv, TypeInv, TypeOK
  <2>2. ClusterIsolation'
    BY <1>5, <2>1
  <2>3. QED
    BY <1>2, <1>3, <2>1, <2>2 DEF IsolationInv, Sealed
<1>9. CASE HandleForeignSyn(m, duplicated)
  <2>1. \A d \in network' : Sealed(d)
    BY <1>2, <1>3, <1>9 DEF HandleForeignSyn, Send, Sealed
  <2>2. QED
    BY <1>9, <2>1 DEF HandleForeignSyn, IsolationInv, ClusterIsolation, Sealed
<1>10. CASE HandleBadCluster(m, duplicated)
  BY <1>2, <1>3, <1>10 DEF HandleBadCluster, Send, IsolationInv, ClusterIsolation, Sealed
<1>11. QED
  BY <1>6, <1>7, <1>8, <1>9, <1>10 DEF Receive

\* The isolation of clusters is inductive.
LEMMA IsolationNext == IsolationInv /\ [Next]_vars => IsolationInv'
<1> SUFFICES ASSUME IsolationInv, [Next]_vars PROVE IsolationInv'
  OBVIOUS
<1>0. TypeInv /\ TypeInv' /\ node_states \in [Node -> [Node -> NodeStates]]
  BY TypeInvNext DEF IsolationInv, TypeInv, TypeOK
<1>1. CASE UNCHANGED vars
  BY <1>0, <1>1 DEF vars, IsolationInv, ClusterIsolation
<1>2. ASSUME NEW n \in Node, NEW k \in Key, NEW new, OwnWrite(n, k, new)
      PROVE  IsolationInv'
  BY <1>0, <1>2 DEF OwnWrite, IsolationInv, ClusterIsolation
<1>3. ASSUME NEW n \in Node, NEW peers \in SUBSET Node, NEW forgotten \in SUBSET scheduled[n],
             GossipMultiple(n, peers, forgotten)
      PROVE  IsolationInv'
  <2>1. \A p, m \in Node :
            node_states'[p][m] = IF p # n THEN node_states[p][m]
                                 ELSE IF m \in forgotten THEN NewNodeState
                                 ELSE GcKeysMarkedForDeletion(node_states[n][m])
    BY <1>0, <1>3 DEF GossipMultiple
  <2>2. ClusterIsolation'
    BY <2>1, UnknownStaysUnknown DEF IsolationInv, ClusterIsolation
  <2>3. \A m \in network' : m \in network \/ m.type = "Syn"
    <3> DEFINE collected == [m \in Node |-> GcKeysMarkedForDeletion(node_states[n][m])]
    <3>1. network' = network \cup {SynMessage(n, collected, p) : p \in peers}
      BY <1>3 DEF GossipMultiple, Send
    <3> HIDE DEF collected
    <3>2. \A p \in peers : SynMessage(n, collected, p).type = "Syn"
      BY DEF SynMessage
    <3>3. QED
      BY <3>1, <3>2
  <2>4. QED
    BY <1>0, <2>2, <2>3 DEF IsolationInv
<1>4. ASSUME NEW n \in Node, NEW p \in Node, Gossip(n, p)
      PROVE  IsolationInv'
  <2>1. \A m \in network' : m \in network \/ m.type = "Syn"
    BY <1>4 DEF Gossip, Send, SynMessage
  <2>2. QED
    BY <1>0, <1>4, <2>1 DEF Gossip, IsolationInv, ClusterIsolation
<1>5. ASSUME NEW m \in network, NEW duplicated \in BOOLEAN, Receive(m, duplicated)
      PROVE  IsolationInv'
  BY <1>0, <1>5, IsolationReceive
<1>6. ASSUME NEW m \in network, Lose(m)
      PROVE  IsolationInv'
  BY <1>0, <1>6 DEF Lose, IsolationInv, ClusterIsolation
<1>7. ASSUME NEW n \in Node, NEW m \in Node, ChangeSchedule(n, m)
      PROVE  IsolationInv'
  BY <1>0, <1>7 DEF ChangeSchedule, IsolationInv, ClusterIsolation
<1>8. CASE Tick
  <2>1. ClusterIsolation'
    BY <1>8, UnknownStaysUnknown DEF Tick, IsolationInv, ClusterIsolation
  <2>2. \A m \in network' : m.type \in {"SynAck", "Ack"} =>
          /\ Cluster[m.src] = Cluster[m.dst]
          /\ \A x \in Node : Cluster[x] # Cluster[m.src] => m.delta[x] = EmptyNodeDelta
    <3> SUFFICES ASSUME NEW m \in network', m.type \in {"SynAck", "Ack"}
                 PROVE  /\ Cluster[m.src] = Cluster[m.dst]
                        /\ \A x \in Node : Cluster[x] # Cluster[m.src] => m.delta[x] = EmptyNodeDelta
      OBVIOUS
    <3>1. PICK d \in network : d.ttl > 0 /\ m = [d EXCEPT !.ttl = @ - 1]
      BY <1>8 DEF Tick
    <3>2. d \in Messages
      BY <1>0 DEF TypeInv, TypeOK
    <3>3. m.type = d.type /\ m.src = d.src /\ m.dst = d.dst /\ m.delta = d.delta
      BY <3>1, <3>2, OlderMessage
    <3>4. QED
      BY <3>3 DEF IsolationInv
  <2>3. QED
    BY <1>0, <2>1, <2>2 DEF IsolationInv
<1>9. QED
  <2>1. ASSUME NEW n \in Node, NEW k \in Key, NEW v,
               \/ SetKey(n, k, v) \/ SetKeyWithTtl(n, k, v)
               \/ DeleteKey(n, k) \/ DeleteKeyAfterTtl(n, k)
        PROVE  IsolationInv'
    BY <1>2, <2>1 DEF SetKey, SetKeyWithTtl, DeleteKey, DeleteKeyAfterTtl
  <2>2. QED
    BY <1>1, <1>3, <1>4, <1>5, <1>6, <1>7, <1>8, <2>1 DEF Next

\* No node learns anything of a node of another cluster, although the cluster_id
\* is checked in SYN messages only.
THEOREM ClustersIsolated == Spec => []ClusterIsolation
<1>1. Init => IsolationInv
  BY TypeInvInit DEF Init, IsolationInv, ClusterIsolation
<1>2. IsolationInv => ClusterIsolation
  BY DEF IsolationInv
<1>3. QED
  BY <1>1, <1>2, IsolationNext, PTL DEF Spec
=============================================================================
