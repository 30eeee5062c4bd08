------------------------------ MODULE Licenses ------------------------------
(***************************************************************************)
(* What the igniter does on top of chitchat: every node of the future      *)
(* network publishes the licenses that were delegated to it, and every     *)
(* igniter tells from the states it has replicated which nodes are in      *)
(* order (the index route), what to export and which licenses were         *)
(* delegated anew (getRevokedLicenses and the watcher).                    *)
(*                                                                         *)
(* An igniter process is an instance: each start takes a fresh ChitchatId, *)
(* so that a node that restarts has several states in the cluster under    *)
(* one pubkey until the old ones are collected.  An instance writes its    *)
(* key-values once, before it starts to gossip, and never deletes them; a  *)
(* replica is therefore a prefix of them (FaithfulAboveCollection in       *)
(* Chitchat.tla), and its length is all that is kept of the replica.       *)
(*                                                                         *)
(* Abstractions.  A signature is valid when it was given: the delegation   *)
(* by the owner of the license, the confirmation by the provider.  The bls *)
(* key goes with the node, the owner and its proof with the license.  The  *)
(* proxies of an instance passed check_proxy_socket_addresses before it    *)
(* started, so that the same check on the index route always succeeds.     *)
(***************************************************************************)
EXTENDS Integers, Sequences, FiniteSets, FiniteSetsExt

CONSTANTS
    Node,               \* the pubkeys of the nodes
    License,            \* license ids
    Owner,              \* Owner[l] is the license_owner_pubkey of license l
    Provider,           \* provider_pubkeys
    Confirmed,          \* the delegations that providers confirm: <<license, provider, node>>
    Instance,           \* the ChitchatIds, numbered in their order
    MaxTimestamp,       \* bound on the timestamps of delegations
    MaxAllowedLicenses, \* MAX_ALLOWED_LICENSES
    Queried,            \* the nodes whose index route is in use
    Prefixes,           \* how many key-values of an instance deltas may have brought
    None                \* no instance, no request

ASSUME NodeAssumption == IsFiniteSet(Node) /\ Queried \subseteq Node
ASSUME LicenseAssumption ==
    /\ IsFiniteSet(License)
    /\ Confirmed \subseteq License \X Provider \X Node
    /\ MaxTimestamp \in Nat /\ MaxAllowedLicenses \in Nat

\* The key-values in the order, and so with the versions, of to_gossip.
KeyOrder == <<"pubkey", "bls_pubkey", "proxies", "version", "signatures", "licenses">>

ASSUME InstanceAssumption ==
    /\ IsFiniteSet(Instance) /\ Instance \subseteq Nat /\ None \notin Instance
    /\ Prefixes \subseteq 0..Len(KeyOrder) /\ {0, Len(KeyOrder)} \subseteq Prefixes

VARIABLES
    delegations,    \* every delegation that owners of licenses have signed
    published,      \* published[i]: what instance i published, None before its start
    running,        \* running[n]: the instance that node n runs, or None
    seen,           \* seen[n][i]: how many key-values of i node n holds
    verified,       \* verified[n]: what the index request in progress has verified
    warned          \* warned[n]: licenses that the watcher of n has reported

vars == <<delegations, published, running, seen, verified, warned>>

Signatures == [license_id: License, provider_pubkey: Provider, timestamp: 1..MaxTimestamp]

Publications == [pubkey: Node, signatures: SUBSET Signatures]

ASSUME NoneAssumption == None \notin Publications

\* Every variable has the shape of what it stands for; a node runs an instance
\* of its own, one that has been started, and holds all of its key-values.
TypeOK ==
    /\ delegations \subseteq Signatures
    /\ published \in [Instance -> Publications \cup {None}]
    /\ running \in [Node -> Instance \cup {None}]
    /\ seen \in [Node -> [Instance -> Prefixes]]
    /\ verified \in [Node -> (SUBSET Instance) \cup {None}]
    /\ warned \in [Node -> SUBSET License]
    /\ \A n \in Node : running[n] # None =>
          /\ published[running[n]] # None
          /\ published[running[n]].pubkey = n
          /\ seen[n][running[n]] = Len(KeyOrder)

Init ==
    /\ delegations = {}
    /\ published = [i \in Instance |-> None]
    /\ running = [n \in Node |-> None]
    /\ seen = [n \in Node |-> [i \in Instance |-> 0]]
    /\ verified = [n \in Node |-> None]
    /\ warned = [n \in Node |-> {}]

-----------------------------------------------------------------------------
(* Signatures and licenses *)

\* LicenceSignature::check_signatures for a node: the owner has delegated the
\* license to the provider, who has confirmed it for this node.
CheckSignatures(s, n) ==
    /\ s \in delegations
    /\ <<s.license_id, s.provider_pubkey, n>> \in Confirmed

\* VerifiedSignatures::create returns the signatures, and not an error.
Creatable(signatures, n) ==
    /\ Cardinality(signatures) <= MaxAllowedLicenses
    /\ signatures # {}
    /\ \A s \in signatures : CheckSignatures(s, n)
    /\ \A s, t \in signatures : s.license_id = t.license_id => s = t

\* How many licenses of each owner there are.
DeriveLicences(signatures) ==
    [o \in {Owner[l] : l \in License} |->
        Cardinality({s \in signatures : Owner[s.license_id] = o})]

\* The key is among the key-values of i that n holds.
Has(n, i, key) == \E v \in 1..seen[n][i] : KeyOrder[v] = key

\* VerifiedNodeStateNoLicenses::from_gossip accepts n's replica of i.
FromGossip(n, i) ==
    /\ \A key \in {"pubkey", "bls_pubkey", "signatures", "version"} : Has(n, i, key)
    /\ Creatable(published[i].signatures, published[i].pubkey)

\* extract_verified_state_without_licences on n's snapshot.
VerifiedStates(n) == {i \in Instance : FromGossip(n, i)}

\* The RevokedLicense of a signature that instance i has published.
RevokedLicense(i, s) ==
    [license_id |-> s.license_id, provider_pubkey |-> published[i].pubkey, timestamp |-> s.timestamp]

\* Faulty variant: the timestamps are compared among the states of one node.
RevokedWithinNode(states) ==
    UNION {{RevokedLicense(i, s) : s \in {t \in published[i].signatures :
        \E k \in states : /\ published[k].pubkey = published[i].pubkey
                          /\ \E u \in published[k].signatures :
                                u.license_id = t.license_id /\ u.timestamp > t.timestamp}} : i \in states}

\* Faulty variant: the first timestamp that is met stands for the latest one.
RevokedUnlessFirst(states) ==
    UNION {{RevokedLicense(i, s) : s \in {t \in published[i].signatures :
        \E k \in states : /\ k < i
                          /\ \E u \in published[k].signatures :
                                u.license_id = t.license_id /\ u.timestamp # t.timestamp}} : i \in states}

\* remove_with_outdated_timestamps: the licenses of which some state has a
\* delegation with a later timestamp.  What is left of the states is thrown
\* away by from_state.
RevokedLicenses(states) ==
    UNION {{RevokedLicense(i, s) : s \in {t \in published[i].signatures :
        \E k \in states : \E u \in published[k].signatures :
            u.license_id = t.license_id /\ u.timestamp > t.timestamp}} : i \in states}

-----------------------------------------------------------------------------
(* License owners and node operators *)

\* The owner of a license delegates it, again maybe; timestamps follow a clock.
Delegate(l, p, time) ==
    /\ \A d \in delegations : d.license_id = l => d.timestamp <= time
    /\ delegations' = delegations \cup {[license_id |-> l, provider_pubkey |-> p,
                                         timestamp |-> time]}
    /\ UNCHANGED <<published, running, seen, verified, warned>>

\* Faulty variant: the id of an earlier instance may be taken again.
StartUnderAnyId(n, i, signatures) ==
    /\ running[n] = None
    /\ Creatable(signatures, n)
    /\ published' = [published EXCEPT ![i] = [pubkey |-> n, signatures |-> signatures]]
    /\ running' = [running EXCEPT ![n] = i]
    /\ seen' = [seen EXCEPT ![n][i] = Len(KeyOrder)]
    /\ UNCHANGED <<delegations, verified, warned>>

\* The igniter starts with the signatures of its configuration file, under a
\* new ChitchatId whose place in the order is random; with signatures that do
\* not verify it exits.
Start(n, i, signatures) ==
    /\ running[n] = None
    /\ published[i] = None
    /\ Creatable(signatures, n)
    /\ published' = [published EXCEPT ![i] = [pubkey |-> n, signatures |-> signatures]]
    /\ running' = [running EXCEPT ![n] = i]
    /\ seen' = [seen EXCEPT ![n][i] = Len(KeyOrder)]
    /\ UNCHANGED <<delegations, verified, warned>>

\* The process ends, with everything it has replicated.
Stop(n) ==
    /\ running[n] # None
    /\ running' = [running EXCEPT ![n] = None]
    /\ seen' = [seen EXCEPT ![n] = [i \in Instance |-> 0]]
    /\ verified' = [verified EXCEPT ![n] = None]
    /\ warned' = [warned EXCEPT ![n] = {}]
    /\ UNCHANGED <<delegations, published>>

-----------------------------------------------------------------------------
(* Chitchat: see Chitchat.tla and Membership.tla *)

\* A delta from m brings n's replica of i to `length` key-values.
Replicate(n, m, i, length) ==
    /\ running[n] # None /\ running[m] # None
    /\ seen[n][i] < length /\ length <= seen[m][i]
    /\ seen' = [seen EXCEPT ![n][i] = length]
    /\ UNCHANGED <<delegations, published, running, verified, warned>>

\* The failure detector of n forgets an instance that has stopped.  One that is
\* cut off for as long and comes back is, to n, an instance not yet replicated.
Forget(n, i) ==
    /\ seen[n][i] # 0
    /\ \A m \in Node : running[m] # i
    /\ seen' = [seen EXCEPT ![n][i] = 0]
    /\ UNCHANGED <<delegations, published, running, verified, warned>>

-----------------------------------------------------------------------------
(* The REST routes and the watcher *)

\* index, under its first lock: the states to compare with.
IndexVerify(n) ==
    /\ n \in Queried
    /\ running[n] # None /\ verified[n] = None
    /\ verified' = [verified EXCEPT ![n] = VerifiedStates(n)]
    /\ UNCHANGED <<delegations, published, running, seen, warned>>

\* Faulty variant: a state without the key is let through.
ValidateIfPresent(n, i, licenses) ==
    Has(n, i, "licenses") => DeriveLicences(published[i].signatures) = licenses

\* validate_licenses: the published licenses are there and equal the given ones.
ValidateLicenses(n, i, licenses) ==
    /\ Has(n, i, "licenses")
    /\ DeriveLicences(published[i].signatures) = licenses

\* The states of the snapshot that index retains: each is compared with the
\* first verified state of the same pubkey.
Retained(n) ==
    {i \in VerifiedStates(n) :
        LET same == {j \in verified[n] : published[j].pubkey = published[i].pubkey}
        IN  /\ same # {}
            /\ ValidateLicenses(n, i, DeriveLicences(published[Min(same)].signatures))}

\* index, under its second lock: it answers with the states in Retained(n).
IndexRespond(n) ==
    /\ verified[n] # None
    /\ verified' = [verified EXCEPT ![n] = None]
    /\ UNCHANGED <<delegations, published, running, seen, warned>>

\* getRevokedLicenses, for the pubkey of a node.
GetRevokedLicenses(n, pubkey) ==
    {r \in RevokedLicenses(VerifiedStates(n)) : r.provider_pubkey = pubkey}

\* One iteration of revoked_license_watcher::run.
Watch(n) ==
    /\ running[n] # None
    /\ warned' = [warned EXCEPT ![n] = @ \cup {r.license_id : r \in GetRevokedLicenses(n, n)}]
    /\ UNCHANGED <<delegations, published, running, seen, verified>>

Next ==
    \/ \E l \in License, p \in Provider, time \in 1..MaxTimestamp : Delegate(l, p, time)
    \/ \E n \in Node, i \in Instance, signatures \in SUBSET delegations : Start(n, i, signatures)
    \/ \E n, m \in Node, i \in Instance, length \in Prefixes : Replicate(n, m, i, length)
    \/ \E n \in Node, i \in Instance : Forget(n, i)
    \/ \E n \in Node : Stop(n) \/ IndexVerify(n) \/ IndexRespond(n) \/ Watch(n)

Spec == Init /\ [][Next]_vars

\* Chitchat brings every replica up to date, and the watcher wakes up for ever.
Fairness ==
    \A n \in Node :
        /\ \A i \in Instance : WF_vars(\E m \in Node : Replicate(n, m, i, Len(KeyOrder)))
        /\ WF_vars(Watch(n))

FairSpec == Spec /\ Fairness

-----------------------------------------------------------------------------
(* Properties *)

\* Instance i publishes license l under an older delegation than j does.
Outdated(i, j, l) ==
    \E s \in published[i].signatures, t \in published[j].signatures :
        /\ s.license_id = l /\ t.license_id = l
        /\ s.timestamp < t.timestamp

Started == {i \in Instance : published[i] # None}

\* The index route never shows a node that is still being replicated: although
\* it looks at the states twice, with gossip in between, every state it answers
\* with is complete, and was published by a node whose licenses are verified.
IndexSound ==
    \A n \in Node : verified[n] # None =>
        \A i \in Retained(n) :
            /\ seen[n][i] = Len(KeyOrder)
            /\ \A s \in published[i].signatures : CheckSignatures(s, published[i].pubkey)

\* The watcher warns of a license only if the node did publish it and another
\* instance has published a later delegation of it: neither missing nor partial
\* replicas nor the order in which instances are met make a license look revoked.
WarnedOnlyIfOutdated ==
    \A n \in Node : \A l \in warned[n] :
        \E i, j \in Started : published[i].pubkey = n /\ Outdated(i, j, l)

\* Node n runs with a license that another running node has by a later delegation.
Superseded(n, l) ==
    /\ running[n] # None
    /\ \E m \in Node : running[m] # None /\ Outdated(running[n], running[m], l)

\* A node that runs on with a license that was delegated to another running node
\* is warned of it sooner or later.
RevocationWarned ==
    \A n \in Node, l \in License :
        Superseded(n, l) ~> (l \in warned[n] \/ ~Superseded(n, l))

\* index drops only the states that fail one of the four checks its comment
\* lists: a state that was complete at both looks, with valid signatures that
\* match its licenses, is part of the answer.
IndexComplete ==
    \A n \in Node : verified[n] # None =>
        \A i \in verified[n] : seen[n][i] = Len(KeyOrder) => i \in Retained(n)

\* The licenses that getRevokedLicenses returns "have been re-delegated to
\* another node": another node has published a later delegation.
RevokedIsRedelegated ==
    \A n, m \in Node : \A r \in GetRevokedLicenses(n, m) :
        \E j \in Started :
            /\ published[j].pubkey # m
            /\ \E t \in published[j].signatures :
                  t.license_id = r.license_id /\ t.timestamp > r.timestamp
=============================================================================
