---------------------------- MODULE PeerSelection ----------------------------
(***************************************************************************)
(* Whom a chitchat node gossips with (server.rs: select_nodes_for_gossip   *)
(* and its helpers, dns_refresh_loop), and whether that keeps the cluster  *)
(* in one piece.  Nodes start out knowing only their seeds; the network    *)
(* may be cut in two for long enough that each side declares the other     *)
(* dead and forgets it, and is whole again some time later.                *)
(*                                                                         *)
(* A handshake is abstracted to what it does to the two nodes' views: each *)
(* sees the heartbeats the other has heard of advance (Membership.tla has  *)
(* the details).  Random choices are choices among everything that has a   *)
(* probability above zero.                                                 *)
(***************************************************************************)
EXTENDS Integers, FiniteSets

CONSTANTS
    Member,         \* the nodes of the cluster, by their gossip_advertise_addr
    Seed,           \* the addresses that config.seed_nodes stands for
    DnsHosted,      \* DnsHosted[n]: seeds that n is given by a host name
    Cuts,           \* the sides of the partitions that may happen
    MaxCuts         \* bound on the number of partitions

ASSUME MemberAssumption == IsFiniteSet(Member) /\ Seed \subseteq Member
ASSUME DnsAssumption == DnsHosted \in [Member -> SUBSET Seed]
ASSUME CutsAssumption == Cuts \subseteq SUBSET Member /\ MaxCuts \in Nat

GOSSIP_COUNT == 3

\* The None of an Option.
Nobody == {}
Somebody(p) == {p}

VARIABLES
    alive_view,     \* alive_view[n]: the other nodes n holds to be alive
    dead_view,      \* dead_view[n]: the nodes n holds to be dead, and remembers
    seed_addrs,     \* seed_addrs[n]: the resolved seeds of n
    cut,            \* one side of the current partition, {} if there is none
    cuts            \* how many partitions there have been

peerVars == <<alive_view, dead_view, seed_addrs, cut, cuts>>

PeerTypeOK ==
    /\ alive_view \in [Member -> SUBSET Member]
    /\ dead_view \in [Member -> SUBSET Member]
    /\ seed_addrs \in [Member -> SUBSET Seed]
    /\ \A n \in Member : n \notin alive_view[n] /\ n \notin dead_view[n]
    /\ cut \in SUBSET Member
    /\ cuts \in 0..MaxCuts

StaticSeeds(n) == Seed \ DnsHosted[n]

PeerInit ==
    /\ alive_view = [n \in Member |-> {}]
    /\ dead_view = [n \in Member |-> {}]
    /\ seed_addrs = [n \in Member |-> StaticSeeds(n)]
    /\ cut = {}
    /\ cuts = 0

-----------------------------------------------------------------------------
(* Selection *)

\* choose_multiple: as many as asked for, or all there are.
ChooseMultiple(candidates, count) ==
    {chosen \in SUBSET candidates :
        Cardinality(chosen) = IF Cardinality(candidates) < count THEN Cardinality(candidates)
                                                                 ELSE count}

\* The candidates for the GOSSIP_COUNT nodes of a round.
Candidates(peers, live) == IF live = {} THEN peers ELSE live

\* Faulty variant: seeds are considered only if none was chosen anyway.
SeedConsideredIfNoneChosen(chosen, live, seeds) == chosen \cap seeds = {}

\* A seed is considered if none has been chosen, or if there are more seeds
\* than live nodes.
SeedConsidered(chosen, live, seeds) ==
    \/ chosen \cap seeds = {}
    \/ Cardinality(live) < Cardinality(seeds)

\* select_dead_node_to_gossip_with: with probability dead / (live + 1).
DeadChoices(live, dead) ==
    {Somebody(p) : p \in dead}
    \cup (IF Cardinality(dead) > Cardinality(live) THEN {} ELSE {Nobody})

\* select_seed_node_to_gossip_with: with probability seeds / (live + dead).
SeedChoices(chosen, live, dead, seeds) ==
    IF ~SeedConsidered(chosen, live, seeds) \/ seeds = {}
    THEN {Nobody}
    ELSE {Somebody(p) : p \in seeds}
         \cup (IF live = {} \/ Cardinality(seeds) >= Cardinality(live) + Cardinality(dead)
               THEN {} ELSE {Nobody})

\* select_nodes_for_gossip: the sets of nodes one round may contact.
SelectNodesForGossip(peers, live, dead, seeds) ==
    UNION {{chosen \cup d \cup s : d \in DeadChoices(live, dead),
                                   s \in SeedChoices(chosen, live, dead, seeds)}
              : chosen \in ChooseMultiple(Candidates(peers, live), GOSSIP_COUNT)}

Selections(n) ==
    SelectNodesForGossip(alive_view[n] \cup dead_view[n], alive_view[n], dead_view[n],
                         seed_addrs[n] \ {n})

-----------------------------------------------------------------------------
(* Steps *)

Reachable(n, p) == n \in cut <=> p \in cut

\* The nodes whose heartbeats p's side of a handshake can show to advance.
HeardFrom(p) == {m \in alive_view[p] \cup {p} : Reachable(p, m)}

\* What node m learns when n shakes hands with the nodes it has met.
Learnt(m, n, met) ==
    IF m = n THEN (UNION {HeardFrom(p) : p \in met}) \ {n}
    ELSE IF m \in met THEN HeardFrom(n) \ {m}
    ELSE {}

\* gossip_multiple: a handshake of n with each of the contacted nodes that it
\* can reach.
GossipRound(n) ==
    \E contacted \in Selections(n) :
        LET met == {p \in contacted : Reachable(n, p)}
        IN  /\ alive_view' = [m \in Member |-> alive_view[m] \cup Learnt(m, n, met)]
            /\ dead_view' = [m \in Member |-> dead_view[m] \ Learnt(m, n, met)]
            /\ UNCHANGED <<seed_addrs, cut, cuts>>

\* A node whose heartbeats cannot be heard is declared dead; after the grace
\* period it is forgotten.
DeclareDead(n, m) ==
    /\ m \in alive_view[n]
    /\ ~Reachable(n, m)
    /\ alive_view' = [alive_view EXCEPT ![n] = @ \ {m}]
    /\ dead_view' = [dead_view EXCEPT ![n] = @ \cup {m}]
    /\ UNCHANGED <<seed_addrs, cut, cuts>>

ForgetDead(n, m) ==
    /\ m \in dead_view[n]
    /\ dead_view' = [dead_view EXCEPT ![n] = @ \ {m}]
    /\ UNCHANGED <<alive_view, seed_addrs, cut, cuts>>

\* dns_refresh_loop: the seeds are rebuilt from the fixed addresses and those
\* host names that happen to resolve; the first resolution is such a step, too.
DnsRefresh(n, resolved) ==
    /\ seed_addrs' = [seed_addrs EXCEPT ![n] = StaticSeeds(n) \cup resolved]
    /\ UNCHANGED <<alive_view, dead_view, cut, cuts>>

Complete == \A n \in Member : alive_view[n] = Member \ {n}

\* The network is cut once the cluster has formed, and mended again.
CutNetwork(side) ==
    /\ Complete
    /\ cut = {}
    /\ cuts < MaxCuts
    /\ cut' = side
    /\ cuts' = cuts + 1
    /\ UNCHANGED <<alive_view, dead_view, seed_addrs>>

MendNetwork ==
    /\ cut # {}
    /\ cut' = {}
    /\ UNCHANGED <<alive_view, dead_view, seed_addrs, cuts>>

PeerNext ==
    \/ \E n \in Member : GossipRound(n)
    \/ \E n, m \in Member : DeclareDead(n, m) \/ ForgetDead(n, m)
    \/ \E n \in Member, resolved \in SUBSET Seed :
          resolved \subseteq DnsHosted[n] /\ DnsRefresh(n, resolved)
    \/ \E side \in Cuts : CutNetwork(side)
    \/ MendNetwork

PeerSpec == PeerInit /\ [][PeerNext]_peerVars

-----------------------------------------------------------------------------
(* Properties *)

\* The two sides have forgotten each other: everyone sees exactly its own side.
SplitAlong(side) ==
    \A n \in Member :
        /\ dead_view[n] = {}
        /\ alive_view[n] = (IF n \in side THEN side ELSE Member \ side) \ {n}

MayContactAcross(side) ==
    \E n \in Member : \E contacted \in Selections(n) :
        \E p \in contacted : ~(p \in side <=> n \in side)

\* A cluster that has fallen into two parts which have forgotten each other is
\* not stuck there: in one of them some node may select a seed of the other
\* part ("It prevents network partition caused by the number of seeds",
\* select_nodes_for_gossip).  With a GOSSIP_COUNT of 4 this is false.
SplitsAreBridged ==
    (Seed # {} /\ \A n \in Member : seed_addrs[n] = Seed) =>
        \A side \in SUBSET Member :
            (side # {} /\ side # Member /\ SplitAlong(side)) => MayContactAcross(side)
=============================================================================
