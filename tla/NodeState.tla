------------------------------ MODULE NodeState ------------------------------
(***************************************************************************)
(* The value semantics of chitchat's NodeState (chitchat/src/state.rs):    *)
(* the key-values one node publishes, as its owner or one of its replicas  *)
(* holds them, and the operations on them.  Everything here is a pure      *)
(* operator; Chitchat.tla turns the operators into actions.                *)
(*                                                                         *)
(* Abstractions.  Keys and values are opaque.  A key that is absent from   *)
(* the BTreeMap is an entry of version 0: the source reserves version 0    *)
(* ("There is no such thing as a KV for version 0").  A state that has     *)
(* never been created and a state fresh from NodeState::new are the same   *)
(* value: neither is ever offered to a peer, and both are answered as the  *)
(* digest (0, 0).  The heartbeat field is modelled in Membership.tla.      *)
(* The Instant of a Deleted or DeleteAfterTtl entry becomes the number of  *)
(* clock ticks left until now >= instant + grace period; it stays at 0     *)
(* from there on, so that time needs no bound.                             *)
(***************************************************************************)
EXTENDS Integers, FiniteSets, FiniteSetsExt

CONSTANTS
    Key,            \* keys a node may publish
    Value,          \* values a node may publish
    NoValue,        \* the empty string that `delete` leaves behind
    GracePeriod     \* marked_for_deletion_grace_period, in clock ticks

ASSUME GraceAssumption == GracePeriod \in Nat \ {0}
ASSUME KeyAssumption == IsFiniteSet(Key)
ASSUME NoValueAssumption == NoValue \notin Value

Statuses == {"Set", "Deleted", "DeleteAfterTtl"}

Entry == [value: Value \cup {NoValue}, version: Nat, status: Statuses, left: Nat]

NodeStates == [key_values: [Key -> Entry], max_version: Nat, last_gc_version: Nat]

\* A key that the map does not hold.
Vacant == [value |-> NoValue, version |-> 0, status |-> "Set", left |-> 0]

StateOf(key_values, max_version, last_gc_version) ==
    [key_values |-> key_values, max_version |-> max_version, last_gc_version |-> last_gc_version]

NewNodeState == StateOf([k \in Key |-> Vacant], 0, 0)

Present(e) == e.version # 0

ScheduledForDeletion(e) == e.status # "Set"

\* What a reader of the state sees: tombstones are hidden, entries waiting
\* for their TTL are not.
Visible(e) == Present(e) /\ e.status # "Deleted"

Get(s, k) == IF Visible(s.key_values[k]) THEN s.key_values[k].value ELSE NoValue

\* A versioned value whose status is stamped with the current instant: the
\* whole grace period is ahead of an entry that waits for deletion.
VersionedValue(value, version, status) ==
    [value |-> value, version |-> version, status |-> status,
     left |-> IF status = "Set" THEN 0 ELSE GracePeriod]

\* One tick of the clock, for an entry and for all the entries of a state.
Older(n) == IF n = 0 THEN 0 ELSE n - 1

Age(s) ==
    [s EXCEPT !.key_values = [k \in Key |->
        [s.key_values[k] EXCEPT !.left = Older(s.key_values[k].left)]]]

-----------------------------------------------------------------------------
(* The owner's operations *)

\* Versions only grow: an update that is not newer than the entry is ignored.
SetVersionedValue(s, k, e) ==
    StateOf([s.key_values EXCEPT ![k] = IF @.version >= e.version THEN @ ELSE e],
            Max({e.version, s.max_version}),
            s.last_gc_version)

Set(s, k, v) ==
    LET old == s.key_values[k]
    IN  IF Present(old) /\ old.value = v /\ old.status = "Set"
        THEN s
        ELSE SetVersionedValue(s, k, VersionedValue(v, s.max_version + 1, "Set"))

SetWithTtl(s, k, v) ==
    LET old == s.key_values[k]
    IN  IF Present(old) /\ old.value = v /\ old.status = "DeleteAfterTtl"
        THEN s
        ELSE SetVersionedValue(s, k, VersionedValue(v, s.max_version + 1, "DeleteAfterTtl"))

\* Faulty variant: the tombstone reuses the version of the value it replaces.
DeleteUnderOldVersion(s, k) ==
    IF ~Present(s.key_values[k])
    THEN s
    ELSE [s EXCEPT !.key_values[k] =
              VersionedValue(NoValue, s.key_values[k].version, "Deleted")]

\* The entry is rewritten in place under a new version, even when it is a
\* tombstone already; an absent key is left alone.
Delete(s, k) ==
    IF ~Present(s.key_values[k])
    THEN s
    ELSE StateOf([s.key_values EXCEPT ![k] =
                      VersionedValue(NoValue, s.max_version + 1, "Deleted")],
                 s.max_version + 1,
                 s.last_gc_version)

DeleteAfterTtl(s, k) ==
    IF ~Present(s.key_values[k])
    THEN s
    ELSE StateOf([s.key_values EXCEPT ![k] =
                      VersionedValue(@.value, s.max_version + 1, "DeleteAfterTtl")],
                 s.max_version + 1,
                 s.last_gc_version)

-----------------------------------------------------------------------------
(* Garbage collection of tombstones and expired entries *)

Collectable(s) ==
    {k \in Key : /\ Present(s.key_values[k])
                 /\ ScheduledForDeletion(s.key_values[k])
                 /\ s.key_values[k].left = 0}

\* Faulty variant: the highest version that was collected is not recorded.
GcWithoutVersion(s) ==
    [s EXCEPT !.key_values =
        [k \in Key |-> IF k \in Collectable(s) THEN Vacant ELSE s.key_values[k]]]

GcKeysMarkedForDeletion(s) ==
    LET gone == Collectable(s)
    IN  StateOf([k \in Key |-> IF k \in gone THEN Vacant ELSE s.key_values[k]],
                s.max_version,
                Max({s.last_gc_version} \cup {s.key_values[k].version : k \in gone}))

-----------------------------------------------------------------------------
(* Deltas *)

\* delta.key_values holds at most one mutation per key, in increasing order
\* of their versions: a function from keys, where Vacant stands for a key the
\* delta does not carry.  Instants do not travel: "left" is 0 in a delta.
\* max_version is the SetMaxVersion operation, 0 when the delta has none.
NodeDeltas == [from_version_excluded: Nat, last_gc_version: Nat,
               key_values: [Key -> Entry], max_version: Nat]

\* A node the delta does not mention: applying this changes nothing.
EmptyNodeDelta ==
    [from_version_excluded |-> 0, last_gc_version |-> 0,
     key_values |-> [k \in Key |-> Vacant], max_version |-> 0]

DeltaKeys(d) == {k \in Key : Present(d.key_values[k])}

\* The version the delta brings its receiver to; 0 when the datagram was full
\* before the first key-value (or SetMaxVersion) of this node.
DeltaMaxVersion(d) ==
    IF DeltaKeys(d) # {} THEN Max({d.key_values[k].version : k \in DeltaKeys(d)})
                         ELSE d.max_version

StaleKeys(s, floor) == {k \in Key : s.key_values[k].version > floor}

\* Faulty variant: the key-values are sent in no particular order of versions.
UnsortedNodeDelta(s, from, room) ==
    LET stale == StaleKeys(s, from)
        Fits(k) == Cardinality({j \in stale : s.key_values[j].version
                                                >= s.key_values[k].version}) < room
    IN  [from_version_excluded |-> from,
         last_gc_version |-> s.last_gc_version,
         key_values |-> [k \in Key |-> IF k \in stale /\ Fits(k)
                                       THEN [s.key_values[k] EXCEPT !.left = 0]
                                       ELSE Vacant],
         max_version |-> IF stale = {} /\ room >= 2 THEN s.max_version ELSE 0]

\* The part of s above version `from` that fits in `room` operations: one for
\* the node, then the key-values by increasing version, or one SetMaxVersion
\* when there is no key-value to send.
NodeDelta(s, from, room) ==
    LET stale == StaleKeys(s, from)
        Fits(k) == Cardinality({j \in stale : s.key_values[j].version
                                                <= s.key_values[k].version}) < room
    IN  [from_version_excluded |-> from,
         last_gc_version |-> s.last_gc_version,
         key_values |-> [k \in Key |-> IF k \in stale /\ Fits(k)
                                       THEN [s.key_values[k] EXCEPT !.left = 0]
                                       ELSE Vacant],
         max_version |-> IF stale = {} /\ room >= 2 THEN s.max_version ELSE 0]

\* The delta starts above what we hold.
FromTheFuture(s, d) == d.from_version_excluded > s.max_version

\* Faulty variant: the receiver trusts every delta to be complete.
AlwaysApplicable(s, d) == TRUE

\* No tombstone collected by the sender can be missing here: we are past all
\* of them, or we have collected as far as the sender has.
Applicable(s, d) ==
    \/ s.max_version > d.last_gc_version
    \/ s.last_gc_version >= d.last_gc_version

\* (last_gc_version, version) pairs, compared lexicographically.
Fresher(gc1, v1, gc2, v2) == gc1 > gc2 \/ (gc1 = gc2 /\ v1 > v2)

\* An inapplicable delta is an invitation to start afresh, taken up only when
\* it leads to a fresher state.
InvitesReset(s, d) ==
    /\ ~Applicable(s, d)
    /\ DeltaMaxVersion(d) # 0
    /\ Fresher(d.last_gc_version, DeltaMaxVersion(d), s.last_gc_version, s.max_version)

\* Faulty variant: the new state forgets how far its sender has collected.
ResetWithoutGcVersion(d) ==
    [NewNodeState EXCEPT !.max_version = IF DeltaKeys(d) = {} THEN d.max_version ELSE 0]

ResetNodeState(d) ==
    StateOf([k \in Key |-> Vacant],
            IF DeltaKeys(d) = {} THEN d.max_version ELSE 0,
            d.last_gc_version)

\* Mutations we know, and deletions at or below our last_gc_version, are
\* skipped; what is left is stamped with the receiver's clock.
NewMutations(s, d) ==
    {k \in DeltaKeys(d) :
        LET e == d.key_values[k]
        IN  /\ e.version > s.max_version
            /\ ~(ScheduledForDeletion(e) /\ e.version <= s.last_gc_version)}

ApplyMutations(s, d) ==
    LET new == NewMutations(s, d)
        Stamped(e) == VersionedValue(e.value, e.version, e.status)
    IN  StateOf([k \in Key |-> IF k \in new /\ s.key_values[k].version < d.key_values[k].version
                               THEN Stamped(d.key_values[k]) ELSE s.key_values[k]],
                Max({s.max_version} \cup {d.key_values[k].version : k \in new}),
                s.last_gc_version)

\* NodeState::apply_delta with prepare_apply_delta.  A SetMaxVersion operation
\* has an effect on the reset path only.
ApplyDelta(s, d) ==
    IF FromTheFuture(s, d) THEN s
    ELSE IF Applicable(s, d) THEN ApplyMutations(s, d)
    ELSE IF InvitesReset(s, d) THEN ApplyMutations(ResetNodeState(d), d)
    ELSE s
=============================================================================
