----------------------------- MODULE PartsProofs -----------------------------
(***************************************************************************)
(* Proofs about components that do not share state in the model.           *)
(*                                                                         *)
(* PeerSelection, for every cluster and every set of seeds: two halves of  *)
(* a cluster that have forgotten each other do not stay apart for want of  *)
(* a node that may select a seed of the other half.  GossipSocket, for any *)
(* number of messages and connections and any capacity of the queues: the  *)
(* socket implements a lossy channel (LossyChannel.tla).  The MsQuic       *)
(* listener and the block server.  And the composition MCParts: it gives   *)
(* each of its components the behaviours of its own specification.  (The   *)
(* proofs about Wire are in a module of their own.)                        *)
(***************************************************************************)
EXTENDS MCParts, FiniteSetTheorems, SequenceTheorems, TLAPS

-----------------------------------------------------------------------------
(* PeerSelection: types *)

\* A selection is made up of the chosen nodes, a dead one and a seed, the last
\* two if the dice say so.
LEMMA SelectionParts ==
    ASSUME NEW peers, NEW live, NEW dead, NEW seeds, NEW contacted
    PROVE  contacted \in SelectNodesForGossip(peers, live, dead, seeds) <=>
               \E chosen \in ChooseMultiple(Candidates(peers, live), GOSSIP_COUNT) :
               \E d \in DeadChoices(live, dead), s \in SeedChoices(chosen, live, dead, seeds) :
                  contacted = chosen \cup d \cup s
<1> DEFINE C == ChooseMultiple(Candidates(peers, live), GOSSIP_COUNT)
           D == DeadChoices(live, dead)
           S(chosen) == SeedChoices(chosen, live, dead, seeds)
           U(chosen) == {chosen \cup d \cup s : d \in D, s \in S(chosen)}
<1>1. contacted \in SelectNodesForGossip(peers, live, dead, seeds)
         <=> contacted \in UNION {U(chosen) : chosen \in C}
  BY DEF SelectNodesForGossip
<1> HIDE DEF C, D, S
<1>3. ASSUME NEW chosen \in C
      PROVE  contacted \in U(chosen) <=> \E d \in D, s \in S(chosen) : contacted = chosen \cup d \cup s
  OBVIOUS
<1> HIDE DEF U
<1>2. contacted \in UNION {U(chosen) : chosen \in C} <=> \E chosen \in C : contacted \in U(chosen)
  OBVIOUS
<1>4. contacted \in SelectNodesForGossip(peers, live, dead, seeds) <=>
          \E chosen \in C : \E d \in D, s \in S(chosen) : contacted = chosen \cup d \cup s
  BY <1>1, <1>2, <1>3
<1> QED
  BY <1>4 DEF C, D, S

\* A round contacts members of the cluster only.
LEMMA SelectsMembers ==
    ASSUME PeerTypeOK, NEW n \in Member, NEW contacted \in Selections(n)
    PROVE  contacted \subseteq Member
<1> DEFINE live == alive_view[n]
           dead == dead_view[n]
           seeds == seed_addrs[n] \ {n}
<1>1. live \subseteq Member /\ dead \subseteq Member /\ seeds \subseteq Member
  BY MemberAssumption DEF PeerTypeOK
<1> HIDE DEF live, dead, seeds
<1>2. PICK chosen \in ChooseMultiple(Candidates(live \cup dead, live), GOSSIP_COUNT) :
         \E d \in DeadChoices(live, dead), s \in SeedChoices(chosen, live, dead, seeds) :
            contacted = chosen \cup d \cup s
  <2>1. contacted \in SelectNodesForGossip(live \cup dead, live, dead, seeds)
    BY DEF Selections, live, dead, seeds
  <2> QED
    BY <2>1, SelectionParts
<1>3. PICK d \in DeadChoices(live, dead), s \in SeedChoices(chosen, live, dead, seeds) :
         contacted = chosen \cup d \cup s
  BY <1>2
<1>4. chosen \subseteq Member
  BY <1>1, <1>2 DEF ChooseMultiple, Candidates
<1>5. d \subseteq Member
  BY <1>1, <1>3 DEF DeadChoices, Somebody, Nobody
<1>6. s \subseteq Member
  BY <1>1, <1>3 DEF SeedChoices, Somebody, Nobody
<1> QED
  BY <1>3, <1>4, <1>5, <1>6

\* Every view holds members other than the node itself, whatever it hears.
THEOREM PeerTypesCorrect == PeerSpec => []PeerTypeOK
<1> USE MemberAssumption, DnsAssumption, CutsAssumption
<1>1. PeerInit => PeerTypeOK
  BY DEF PeerInit, PeerTypeOK, StaticSeeds
<1>2. PeerTypeOK /\ [PeerNext]_peerVars => PeerTypeOK'
  <2> SUFFICES ASSUME PeerTypeOK, [PeerNext]_peerVars
               PROVE  PeerTypeOK'
    OBVIOUS
  <2>1. ASSUME NEW n \in Member, GossipRound(n) PROVE PeerTypeOK'
    <3>1. PICK contacted \in Selections(n) :
             LET met == {p \in contacted : Reachable(n, p)}
             IN  /\ alive_view' = [m \in Member |-> alive_view[m] \cup Learnt(m, n, met)]
                 /\ dead_view' = [m \in Member |-> dead_view[m] \ Learnt(m, n, met)]
                 /\ UNCHANGED <<seed_addrs, cut, cuts>>
      BY <2>1 DEF GossipRound
    <3> DEFINE met == {p \in contacted : Reachable(n, p)}
    <3>2. met \subseteq Member
      BY <3>1, SelectsMembers
    <3>3. \A p \in Member : HeardFrom(p) \subseteq Member
      BY DEF HeardFrom, PeerTypeOK
    <3> HIDE DEF met
    <3>4. \A m \in Member : Learnt(m, n, met) \subseteq Member \ {m}
      <4> TAKE m \in Member
      <4>1. UNION {HeardFrom(p) : p \in met} \subseteq Member
        BY <3>2, <3>3
      <4>2. CASE m = n
        <5> DEFINE heard == UNION {HeardFrom(p) : p \in met}
        <5>1. Learnt(m, n, met) = heard \ {m}
          BY <4>2 DEF Learnt
        <5>2. heard \subseteq Member
          BY <4>1
        <5> HIDE DEF heard
        <5> QED
          BY <5>1, <5>2
      <4>3. CASE m # n
        BY <3>3, <4>3 DEF Learnt
      <4> QED
        BY <4>2, <4>3
    <3> QED
      BY <3>1, <3>4 DEF PeerTypeOK, met
  <2>2. ASSUME NEW n \in Member, NEW m \in Member, DeclareDead(n, m) PROVE PeerTypeOK'
    BY <2>2 DEF DeclareDead, PeerTypeOK
  <2>3. ASSUME NEW n \in Member, NEW m \in Member, ForgetDead(n, m) PROVE PeerTypeOK'
    BY <2>3 DEF ForgetDead, PeerTypeOK
  <2>4. ASSUME NEW n \in Member, NEW resolved \in SUBSET Seed, DnsRefresh(n, resolved)
        PROVE  PeerTypeOK'
    BY <2>4 DEF DnsRefresh, PeerTypeOK, StaticSeeds
  <2>5. ASSUME NEW side \in Cuts, CutNetwork(side) PROVE PeerTypeOK'
    BY <2>5 DEF CutNetwork, PeerTypeOK
  <2>6. CASE MendNetwork
    BY <2>6 DEF MendNetwork, PeerTypeOK
  <2>7. CASE UNCHANGED peerVars
    BY <2>7 DEF peerVars, PeerTypeOK
  <2> QED
    BY <2>1, <2>2, <2>3, <2>4, <2>5, <2>6, <2>7 DEF PeerNext
<1> QED
  BY <1>1, <1>2, PTL DEF PeerSpec

-----------------------------------------------------------------------------
(* PeerSelection: choose_multiple *)

\* A subset that is not the whole set can grow by one element.
LEMMA GrowSubset ==
    ASSUME NEW X, IsFiniteSet(X), NEW j \in Nat, j < Cardinality(X),
           NEW T \in SUBSET X, Cardinality(T) = j
    PROVE  \E U \in SUBSET X : Cardinality(U) = j + 1
<1>1. IsFiniteSet(T)
  BY FS_Subset
<1>2. PICK y \in X : y \notin T
  <2>1. T # X
    OBVIOUS
  <2> QED
    BY <2>1
<1>3. Cardinality(T \cup {y}) = j + 1
  BY <1>1, <1>2, FS_AddElement
<1> QED
  BY <1>2, <1>3

\* choose_multiple finds as many as GOSSIP_COUNT asks for, if there are so many.
LEMMA SmallSubset ==
    ASSUME NEW X, IsFiniteSet(X), NEW k \in 0..3, k <= Cardinality(X)
    PROVE  \E T \in SUBSET X : Cardinality(T) = k
<1>0. Cardinality(X) \in Nat
  BY FS_CardinalityType
<1>1. \E T \in SUBSET X : Cardinality(T) = 0
  <2>1. {} \in SUBSET X /\ Cardinality({}) = 0
    BY FS_EmptySet
  <2> QED
    BY <2>1
<1>2. 0 < k => \E T \in SUBSET X : Cardinality(T) = 1
  <2>1. 0 < k => 0 < Cardinality(X) /\ 0 + 1 = 1 /\ 0 \in Nat
    BY <1>0
  <2> QED
    BY <1>1, <2>1, GrowSubset
<1>3. 1 < k => \E T \in SUBSET X : Cardinality(T) = 2
  <2>1. 1 < k => 0 < k /\ 1 < Cardinality(X) /\ 1 + 1 = 2 /\ 1 \in Nat
    BY <1>0
  <2> QED
    BY <1>2, <2>1, GrowSubset
<1>4. 2 < k => \E T \in SUBSET X : Cardinality(T) = 3
  <2>1. 2 < k => 1 < k /\ 2 < Cardinality(X) /\ 2 + 1 = 3 /\ 2 \in Nat
    BY <1>0
  <2> QED
    BY <1>3, <2>1, GrowSubset
<1>5. k = 0 \/ k = 1 \/ k = 2 \/ k = 3
  OBVIOUS
<1> QED
  BY <1>1, <1>2, <1>3, <1>4, <1>5

-----------------------------------------------------------------------------
(* PeerSelection: bridging a split *)

\* How many nodes a round chooses of a side with so many other members.
Chosen(others) == IF others < GOSSIP_COUNT THEN others ELSE GOSSIP_COUNT

\* A node that sees its own side P only may contact any seed p outside, if it
\* can choose its nodes without hitting on a seed, or knows more seeds than
\* nodes (select_seed_node_to_gossip_with).
LEMMA ContactsSeed ==
    ASSUME NEW P \in SUBSET Member, NEW n \in P, NEW p \in Seed, p # n,
           alive_view[n] = P \ {n}, dead_view[n] = {}, seed_addrs[n] = Seed,
           NEW T \in SUBSET (P \ {n}), Cardinality(T) = Chosen(Cardinality(P \ {n})),
           \/ T \cap Seed = {}
           \/ Cardinality(P \ {n}) < Cardinality(Seed \ {n})
    PROVE  \E contacted \in Selections(n) : p \in contacted
<1> DEFINE live == P \ {n}
           seeds == Seed \ {n}
<1>1. IsFiniteSet(live) /\ Cardinality(live) \in Nat
  BY MemberAssumption, FS_Subset, FS_CardinalityType
<1>2. T \in ChooseMultiple(Candidates(live \cup {}, live), GOSSIP_COUNT)
  BY DEF ChooseMultiple, Candidates, Chosen
<1>3. {} \in DeadChoices(live, {})
  <2>1. ~(Cardinality({}) > Cardinality(live))
    BY <1>1, FS_EmptySet
  <2> QED
    BY <2>1 DEF DeadChoices, Nobody
<1>4. {p} \in SeedChoices(T, live, {}, seeds)
  <2>1. SeedConsidered(T, live, seeds)
    BY DEF SeedConsidered
  <2>2. p \in seeds
    OBVIOUS
  <2> QED
    BY <2>1, <2>2 DEF SeedChoices, Somebody
<1>5. T \cup {} \cup {p} \in SelectNodesForGossip(live \cup {}, live, {}, seeds)
  BY <1>2, <1>3, <1>4, SelectionParts, Zenon
<1>6. Selections(n) = SelectNodesForGossip(live \cup {}, live, {}, seeds)
  BY DEF Selections
<1> QED
  BY <1>5, <1>6

\* A side without seeds reaches any seed of the other one.
LEMMA SeedlessSide ==
    ASSUME NEW P \in SUBSET Member, NEW n \in P, P \cap Seed = {}, NEW p \in Seed,
           alive_view[n] = P \ {n}, dead_view[n] = {}, seed_addrs[n] = Seed
    PROVE  \E contacted \in Selections(n) : p \in contacted
<1>1. IsFiniteSet(P \ {n}) /\ Cardinality(P \ {n}) \in Nat
  BY MemberAssumption, FS_Subset, FS_CardinalityType
<1>2. Chosen(Cardinality(P \ {n})) \in 0..3 /\ Chosen(Cardinality(P \ {n})) <= Cardinality(P \ {n})
  BY <1>1 DEF Chosen, GOSSIP_COUNT
<1>3. PICK T \in SUBSET (P \ {n}) : Cardinality(T) = Chosen(Cardinality(P \ {n}))
  BY <1>1, <1>2, SmallSubset
<1>4. T \cap Seed = {} /\ p # n
  OBVIOUS
<1>5. T \cap Seed = {} \/ Cardinality(P \ {n}) < Cardinality(Seed \ {n})
  BY <1>4
<1> QED
  BY <1>3, <1>4, <1>5, ContactsSeed

\* A side none of whose nodes may contact a seed of the other: it has more nodes
\* than there are seeds, but at most two that are no seeds, so the other side has
\* a single seed, and this one at least two.
LEMMA StuckSide ==
    ASSUME NEW P \in SUBSET Member, NEW p \in Seed \ P, P \cap Seed # {},
           \A n \in P : /\ alive_view[n] = P \ {n} /\ dead_view[n] = {} /\ seed_addrs[n] = Seed
                        /\ ~\E contacted \in Selections(n) : p \in contacted
    PROVE  Cardinality(Seed \ P) = 1 /\ Cardinality(P \cap Seed) >= 2
<1> DEFINE a == Cardinality(P)
           u == Cardinality(P \ Seed)
           s == Cardinality(P \cap Seed)
           r == Cardinality(Seed \ P)
<1>1. IsFiniteSet(P) /\ IsFiniteSet(Seed) /\ a \in Nat
  BY MemberAssumption, FS_Subset, FS_CardinalityType
<1>2. /\ IsFiniteSet(P \ Seed) /\ IsFiniteSet(P \cap Seed) /\ IsFiniteSet(Seed \ P)
      /\ u \in Nat /\ s \in Nat /\ r \in Nat
  BY <1>1, FS_Difference, FS_Intersection, FS_CardinalityType
<1>3. a = u + s
  <2>1. u = a - s
    BY <1>1, FS_Difference
  <2> HIDE DEF a, u, s
  <2> QED
    BY <1>1, <1>2, <2>1
<1>4. Cardinality(Seed) = s + r
  <2>1. Seed \cap P = P \cap Seed /\ Cardinality(Seed) \in Nat
    BY <1>1, FS_CardinalityType
  <2>2. Cardinality(Seed \ P) = Cardinality(Seed) - Cardinality(Seed \cap P)
    BY <1>1, FS_Difference
  <2>3. r = Cardinality(Seed) - s
    BY <2>1, <2>2
  <2> HIDE DEF s, r
  <2> QED
    BY <1>2, <2>1, <2>3
<1>5. s >= 1 /\ r >= 1
  BY <1>2, FS_EmptySet
<1>6. ASSUME NEW n \in P, NEW free \in Nat, NEW seeds \in Nat,
             free = Cardinality((P \ {n}) \ Seed), seeds = Cardinality(Seed \ {n})
      PROVE  a - 1 >= seeds /\ free < Chosen(a - 1)
  <2>1. IsFiniteSet(P \ {n}) /\ Cardinality(P \ {n}) = a - 1 /\ a - 1 \in Nat
    <3>1. IsFiniteSet(P \ {n}) /\ Cardinality(P \ {n}) = a - 1
      BY <1>1, FS_RemoveElement
    <3>2. Cardinality(P \ {n}) \in Nat
      BY <3>1, FS_CardinalityType
    <3> QED
      BY <3>1, <3>2
  <2>2. Chosen(a - 1) \in 0..3 /\ Chosen(a - 1) <= a - 1
    <3> DEFINE o == a - 1
    <3>1. o \in Nat
      BY <2>1
    <3> HIDE DEF o
    <3>2. Chosen(o) \in 0..3 /\ Chosen(o) <= o
      BY <3>1 DEF Chosen, GOSSIP_COUNT
    <3> QED
      BY <3>2 DEF o
  <2>3. ASSUME a - 1 < seeds PROVE FALSE
    <3>1. PICK T \in SUBSET (P \ {n}) : Cardinality(T) = Chosen(a - 1)
      BY <2>1, <2>2, SmallSubset
    <3>2. Cardinality(P \ {n}) < Cardinality(Seed \ {n})
      BY <1>6, <2>1, <2>3
    <3> QED
      BY <2>1, <3>1, <3>2, ContactsSeed
  <2>4. ASSUME free >= Chosen(a - 1) PROVE FALSE
    <3>1. IsFiniteSet((P \ {n}) \ Seed)
      BY <2>1, FS_Difference
    <3>2. PICK T \in SUBSET ((P \ {n}) \ Seed) : Cardinality(T) = Chosen(a - 1)
      BY <1>6, <2>2, <2>4, <3>1, SmallSubset
    <3>3. /\ T \in SUBSET (P \ {n}) /\ T \cap Seed = {} /\ p # n
          /\ Cardinality(T) = Chosen(Cardinality(P \ {n}))
          /\ alive_view[n] = P \ {n} /\ dead_view[n] = {} /\ seed_addrs[n] = Seed
      BY <2>1, <3>2
    <3>4. T \cap Seed = {} \/ Cardinality(P \ {n}) < Cardinality(Seed \ {n})
      BY <3>3
    <3> QED
      BY <3>3, <3>4, ContactsSeed
  <2> QED
    BY <1>6, <2>1, <2>2, <2>3, <2>4
<1>7. /\ a - 1 >= s + r - 1
      /\ u < Chosen(a - 1)
  <2>1. PICK n \in P : n \in Seed
    OBVIOUS
  <2>2. (P \ {n}) \ Seed = P \ Seed
    BY <2>1
  <2>3. Cardinality(Seed \ {n}) = s + r - 1
    <3>1. Cardinality(Seed \ {n}) = Cardinality(Seed) - 1
      BY <1>1, <2>1, FS_RemoveElement
    <3> HIDE DEF s, r
    <3> QED
      BY <1>2, <1>4, <3>1
  <2> QED
    BY <1>2, <1>5, <1>6, <2>2, <2>3
<1>8. a - 1 >= s + r
  <2>1. u >= 1
    BY <1>2, <1>3, <1>5, <1>7
  <2>2. PICK n \in P : n \notin Seed
    BY <1>2, <2>1, FS_EmptySet
  <2>3. Seed \ {n} = Seed
    BY <2>2
  <2>4. (P \ {n}) \ Seed = (P \ Seed) \ {n} /\ n \in P \ Seed
    BY <2>2
  <2>5. Cardinality((P \ {n}) \ Seed) = u - 1
    <3>1. Cardinality((P \ Seed) \ {n}) = u - 1
      BY <1>2, <2>4, FS_RemoveElement
    <3> QED
      BY <2>4, <3>1
  <2> QED
    BY <1>2, <1>4, <1>6, <2>1, <2>3, <2>5
<1> HIDE DEF a, u, s, r
<1>9. r = 1 /\ s >= 2
  BY <1>1, <1>2, <1>3, <1>5, <1>7, <1>8 DEF Chosen, GOSSIP_COUNT
<1> QED
  BY <1>9 DEF r, s

\* No state is a split that nothing bridges, for any number of members and seeds:
\* GOSSIP_COUNT = 3 is small enough (select_nodes_for_gossip).
LEMMA Bridged == SplitsAreBridged
<1> SUFFICES ASSUME Seed # {}, \A n \in Member : seed_addrs[n] = Seed,
                    NEW side \in SUBSET Member, side # {}, side # Member, SplitAlong(side)
             PROVE  MayContactAcross(side)
  BY DEF SplitsAreBridged
<1> DEFINE other == Member \ side
<1>1. /\ other \in SUBSET Member /\ other # {} /\ Seed \subseteq Member
      /\ \A n \in side : alive_view[n] = side \ {n} /\ dead_view[n] = {}
      /\ \A n \in other : alive_view[n] = other \ {n} /\ dead_view[n] = {}
  BY MemberAssumption DEF SplitAlong
<1>2. ASSUME NEW n \in side, NEW p \in other, \E contacted \in Selections(n) : p \in contacted
      PROVE  MayContactAcross(side)
  BY <1>2 DEF MayContactAcross
<1>3. ASSUME NEW n \in other, NEW p \in side, \E contacted \in Selections(n) : p \in contacted
      PROVE  MayContactAcross(side)
  BY <1>3 DEF MayContactAcross
<1>4. CASE side \cap Seed = {}
  <2>1. PICK n \in side, p \in Seed : p \in other
    BY <1>1, <1>4
  <2> QED
    BY <1>1, <1>2, <1>4, <2>1, SeedlessSide
<1>5. CASE other \cap Seed = {}
  <2>1. PICK n \in other, p \in Seed : p \in side
    BY <1>1, <1>5
  <2> QED
    BY <1>1, <1>3, <1>5, <2>1, SeedlessSide
<1>6. CASE side \cap Seed # {} /\ other \cap Seed # {}
  <2> SUFFICES ASSUME ~MayContactAcross(side) PROVE FALSE
    OBVIOUS
  <2>1. PICK p \in Seed, q \in Seed : p \in other /\ q \in side
    BY <1>6
  <2>2. Cardinality(Seed \ side) = 1 /\ Cardinality(side \cap Seed) >= 2
    <3>1. p \in Seed \ side /\ side \cap Seed # {}
      BY <1>6, <2>1
    <3>2. \A n \in side : /\ alive_view[n] = side \ {n} /\ dead_view[n] = {} /\ seed_addrs[n] = Seed
                          /\ ~\E contacted \in Selections(n) : p \in contacted
      BY <1>1, <1>2, <2>1
    <3> QED
      BY <3>1, <3>2, StuckSide, Zenon
  <2>3. Cardinality(Seed \ other) = 1
    BY <1>1, <1>3, <1>6, <2>1, StuckSide
  <2>4. Seed \ other = side \cap Seed
    BY <1>1
  <2> QED
    BY <2>2, <2>3, <2>4
<1> QED
  BY <1>4, <1>5, <1>6

\* A cluster of any size that has fallen apart can come together again, with any
\* number of seeds distributed over its halves in any way.
THEOREM EverySplitIsBridged == PeerSpec => []SplitsAreBridged
BY Bridged, PTL

-----------------------------------------------------------------------------
(* GossipSocket: the inductive invariant *)

\* Whatever is nearer to recv was sent earlier.
Ordered(P) == \A j, k \in 1..6 : j < k => \A x \in P[j], y \in P[k] : x < y

Increasing(s) == \A i, j \in DOMAIN s : i < j => s[i] < s[j]

InboxIncreasing(s) ==
    \A i, j \in DOMAIN s : i < j /\ s[i].link = s[j].link => s[i].message < s[j].message

\* Messages are in the order of the send calls, in each queue and from one place
\* to the next.
TransitSound ==
    /\ \A c \in Link : Ordered(Places(c)) /\ Increasing(wire[c])
    /\ Increasing(outgoing.queue)
    /\ InboxIncreasing(inbox)

\* Only what was sent is on its way.
SentSound ==
    /\ sent \in Nat
    /\ \A c \in Link : \A m \in InTransit(c) : m <= sent
    /\ \A i \in DOMAIN outgoing.queue : outgoing.queue[i] <= sent
    /\ outgoing.task = "writing" => outgoing.sending \in 1..sent

SocketInv == SocketTypeOK /\ TransitSound /\ SentSound

-----------------------------------------------------------------------------
(* GossipSocket: places *)

\* All messages of a connection.
All(P) == UNION {P[k] : k \in 1..6}

\* Losing messages leaves the others in order.
LEMMA Losing ==
    ASSUME NEW P, NEW Q, \A k \in 1..6 : Q[k] \subseteq P[k], Ordered(P)
    PROVE  Ordered(Q) /\ All(Q) \subseteq All(P)
<1>1. Ordered(Q)
  BY DEF Ordered
<1>2. All(Q) \subseteq All(P)
  BY DEF All
<1> QED
  BY <1>1, <1>2

\* The oldest message of a place may go on to the next one.
LEMMA GoingOn ==
    ASSUME NEW P, NEW Q, Ordered(P), NEW k \in 2..6, NEW x \in P[k],
           Q[k - 1] \subseteq P[k - 1] \cup {x},
           \A y \in Q[k] : y \in P[k] /\ x < y,
           \A j \in 1..6 \ {k - 1, k} : Q[j] \subseteq P[j]
    PROVE  Ordered(Q) /\ All(Q) \subseteq All(P)
<1>1. ASSUME NEW i \in 1..6, NEW j \in 1..6, i < j, NEW y \in Q[i], NEW z \in Q[j] PROVE y < z
  <2>1. CASE y \in P[i] /\ z \in P[j]
    BY <1>1, <2>1 DEF Ordered
  <2>2. CASE i = k - 1 /\ y = x
    <3>1. CASE j = k
      BY <1>1, <2>2, <3>1
    <3>2. CASE j # k
      <4>1. k < j /\ j \in 1..6 \ {k - 1, k}
        BY <1>1, <2>2, <3>2
      <4>2. z \in P[j]
        BY <1>1, <4>1
      <4> QED
        BY <2>2, <4>1, <4>2 DEF Ordered
    <3> QED
      BY <3>1, <3>2
  <2>3. CASE j = k - 1 /\ z = x
    <3>1. i < k /\ i \in 1..6 \ {k - 1, k}
      BY <1>1, <2>3
    <3>2. y \in P[i]
      BY <1>1, <3>1
    <3> QED
      BY <2>3, <3>1, <3>2 DEF Ordered
  <2>4. (y \in P[i] \/ (i = k - 1 /\ y = x)) /\ (z \in P[j] \/ (j = k - 1 /\ z = x))
    <3>1. \A l \in 1..6 : l = k - 1 \/ l = k \/ l \in 1..6 \ {k - 1, k}
      OBVIOUS
    <3> QED
      BY <1>1, <3>1
  <2> QED
    BY <1>1, <2>1, <2>2, <2>3, <2>4
<1>2. ASSUME NEW i \in 1..6, NEW y \in Q[i] PROVE \E j \in 1..6 : y \in P[j]
  <2>1. i = k - 1 \/ i = k \/ i \in 1..6 \ {k - 1, k}
    OBVIOUS
  <2>2. k \in 1..6 /\ k - 1 \in 1..6
    OBVIOUS
  <2> QED
    BY <1>2, <2>1, <2>2
<1> QED
  BY <1>1, <1>2 DEF Ordered, All

-----------------------------------------------------------------------------
(* GossipSocket: queues *)

\* The head of a queue in order is older than the rest, which is in order.
LEMMA HeadIsOldest ==
    ASSUME NEW S, NEW s \in Seq(S), s # <<>>
    PROVE  /\ Head(s) \in S /\ 1 \in DOMAIN s /\ s[1] = Head(s)
           /\ Tail(s) \in Seq(S)
           /\ \A i \in DOMAIN Tail(s) : i \in Nat /\ i + 1 \in DOMAIN s /\ Tail(s)[i] = s[i + 1] /\ i + 1 > 1
OBVIOUS

\* What is in the queue t was in s, in the same order, or is x and last.
AddsNewest(s, x, t) ==
    /\ Len(s) <= CHANNEL_CAPACITY => Len(t) <= CHANNEL_CAPACITY
    /\ \A i \in DOMAIN t : t[i] = x \/ \E j \in DOMAIN s : t[i] = s[j]
    /\ \A i, k \in DOMAIN t : i < k =>
          \E j \in DOMAIN s : /\ t[i] = s[j]
                              /\ t[k] = x \/ \E l \in DOMAIN s : j < l /\ t[k] = s[l]

\* force_send adds the newest, and may lose the oldest.
LEMMA ForceSendKeeps ==
    ASSUME NEW S, NEW s \in Seq(S), NEW x \in S
    PROVE  ForceSend(s, x) \in Seq(S) /\ AddsNewest(s, x, ForceSend(s, x))
<1> DEFINE t == ForceSend(s, x)
<1> SUFFICES t \in Seq(S) /\ AddsNewest(s, x, t)
  OBVIOUS
<1> USE SocketAssumption DEF SocketAssumption, AddsNewest
<1>1. CASE Len(s) < CHANNEL_CAPACITY
  <2>1. t = Append(s, x)
    BY <1>1 DEF ForceSend
  <2> HIDE DEF t
  <2>2. /\ t \in Seq(S) /\ Len(t) = Len(s) + 1 /\ t[Len(s) + 1] = x
        /\ \A i \in 1..Len(s) : t[i] = s[i]
        /\ DOMAIN t = 1..(Len(s) + 1) /\ DOMAIN s = 1..Len(s) /\ Len(s) \in Nat
    BY ONLY <2>1, s \in Seq(S), x \in S
  <2> QED
    BY <1>1, <2>2
<1>2. CASE ~(Len(s) < CHANNEL_CAPACITY)
  <2> DEFINE u == Tail(s)
  <2>1. t = Append(u, x)
    BY <1>2 DEF ForceSend
  <2> HIDE DEF t
  <2>2. Len(s) >= 1 /\ s # <<>> /\ Len(s) \in Nat /\ DOMAIN s = 1..Len(s)
    BY <1>2
  <2>3. u \in Seq(S) /\ Len(u) = Len(s) - 1 /\ \A i \in 1..Len(s)-1 : u[i] = s[i + 1]
    BY <2>2
  <2> HIDE DEF u
  <2>4. /\ t \in Seq(S) /\ Len(t) = Len(u) + 1 /\ t[Len(u) + 1] = x
        /\ \A i \in 1..Len(u) : t[i] = u[i]
        /\ DOMAIN t = 1..(Len(u) + 1)
    BY ONLY <2>1, <2>3, x \in S
  <2>5. DOMAIN t = 1..Len(s) /\ t[Len(s)] = x /\ \A i \in 1..Len(s)-1 : t[i] = s[i + 1]
    BY <2>2, <2>3, <2>4
  <2>6. ASSUME NEW i \in DOMAIN t, NEW k \in DOMAIN t, i < k
        PROVE  \E j \in DOMAIN s : /\ t[i] = s[j]
                                   /\ t[k] = x \/ \E l \in DOMAIN s : j < l /\ t[k] = s[l]
    <3>1. t[i] = s[i + 1] /\ i + 1 \in DOMAIN s
      BY <2>2, <2>5, <2>6
    <3>2. CASE k = Len(s)
      BY <2>5, <3>1, <3>2
    <3>3. CASE k # Len(s)
      <4>1. t[k] = s[k + 1] /\ k + 1 \in DOMAIN s /\ i + 1 < k + 1
        BY <2>2, <2>5, <2>6, <3>3
      <4> QED
        BY <3>1, <4>1
    <3> QED
      BY <3>2, <3>3
  <2>7. ASSUME NEW i \in DOMAIN t PROVE t[i] = x \/ \E j \in DOMAIN s : t[i] = s[j]
    <3>1. i = Len(s) \/ (i \in 1..Len(s)-1 /\ i + 1 \in DOMAIN s)
      BY <2>2, <2>5
    <3> QED
      BY <2>5, <3>1
  <2>8. t \in Seq(S) /\ (Len(s) <= CHANNEL_CAPACITY => Len(t) <= CHANNEL_CAPACITY)
    BY <2>2, <2>3, <2>4
  <2> QED
    BY <2>6, <2>7, <2>8
<1> HIDE DEF t
<1> QED
  BY <1>1, <1>2

-----------------------------------------------------------------------------
(* GossipSocket: every step preserves the invariant *)

TaskState == {"none", "waiting", "writing", "finishing", "closed", "finished"}

\* The sender's entry after a change of its task, queue and message.
LEMMA EntryTyped ==
    ASSUME outgoing \in [link: 0..MaxLinks, queue: Seq(Message), sending: 0..MaxMessages, task: TaskState],
           NEW q \in Seq(Message), NEW s \in 0..MaxMessages, NEW t \in TaskState,
           NEW u, u = [outgoing EXCEPT !.task = t, !.queue = q, !.sending = s]
    PROVE  /\ u \in [link: 0..MaxLinks, queue: Seq(Message), sending: 0..MaxMessages, task: TaskState]
           /\ u.link = outgoing.link /\ u.queue = q /\ u.sending = s /\ u.task = t
<1> HIDE DEF TaskState
<1> DEFINE v == [outgoing EXCEPT !.task = t, !.queue = q]
<1>1. /\ v \in [link: 0..MaxLinks, queue: Seq(Message), sending: 0..MaxMessages, task: TaskState]
      /\ v.link = outgoing.link /\ v.queue = q /\ v.task = t
  OBVIOUS
<1>2. u = [v EXCEPT !.sending = s]
  OBVIOUS
<1> HIDE DEF v
<1> QED
  BY <1>1, <1>2

\* What a step that neither sends nor returns a message does to the channel.
Quiet ==
    /\ \A c \in Link : InTransit(c)' \subseteq InTransit(c)
    /\ UNCHANGED <<sent, delivered>>

\* The parts of the invariant about messages on their way, where only some are lost.
LEMMA MessagesLost ==
    ASSUME SocketInv,
           \A c \in Link : \A k \in 1..6 : Places(c)'[k] \subseteq Places(c)[k]
    PROVE  \A c \in Link : Ordered(Places(c))' /\ InTransit(c)' \subseteq InTransit(c)
<1> TAKE c \in Link
<1>1. Ordered(Places(c)) /\ \A k \in 1..6 : Places(c)'[k] \subseteq Places(c)[k]
  BY DEF SocketInv, TransitSound
<1>2. Ordered(Places(c)') /\ All(Places(c)') \subseteq All(Places(c))
  BY <1>1, Losing
<1> QED
  BY <1>2 DEF InTransit, All, Ordered

\* The places by their names, now and in the next state.
LEMMA PlacesAre ==
    ASSUME NEW c
    PROVE  /\ Places(c)[1] = Held(c) /\ Places(c)[2] = Waiting(c) /\ Places(c)[3] = Read(c)
           /\ Places(c)[4] = OnWire(c) /\ Places(c)[5] = Writing(c) /\ Places(c)[6] = Queued(c)
           /\ Places(c)'[1] = Held(c)' /\ Places(c)'[2] = Waiting(c)' /\ Places(c)'[3] = Read(c)'
           /\ Places(c)'[4] = OnWire(c)' /\ Places(c)'[5] = Writing(c)' /\ Places(c)'[6] = Queued(c)'
BY DEF Places

\* A place whose variables do not change, does not.
LEMMA PlacesUnchanged ==
    ASSUME NEW c
    PROVE  /\ UNCHANGED receiver => Held(c)' = Held(c)
           /\ UNCHANGED inbox => Waiting(c)' = Waiting(c)
           /\ UNCHANGED reading => Read(c)' = Read(c)
           /\ UNCHANGED wire => OnWire(c)' = OnWire(c)
           /\ UNCHANGED outgoing => Writing(c)' = Writing(c) /\ Queued(c)' = Queued(c)
BY DEF Held, Waiting, Read, OnWire, Writing, Queued

\* A step that does no more than lose messages and change the state of tasks.
LEMMA LossyStep ==
    ASSUME SocketInv, SocketTypeOK',
           \A d \in Link : wire'[d] = wire[d] \/ wire'[d] = <<>>,
           \A d \in Link : reading'[d] = reading[d] \/ reading'[d] = 0,
           inbox' = inbox \/ inbox' = <<>>,
           receiver'.holding = receiver.holding,
           outgoing'.link = outgoing.link,
           outgoing'.queue = outgoing.queue \/ outgoing'.queue = <<>>,
           outgoing'.task = "writing" => UNCHANGED outgoing,
           UNCHANGED <<sent, delivered>>
    PROVE  SocketInv' /\ Quiet
<1>1. ASSUME NEW d \in Link PROVE \A k \in 1..6 : Places(d)'[k] \subseteq Places(d)[k]
  <2>1. Held(d)' = Held(d)
    BY DEF Held
  <2>2. Waiting(d)' \subseteq Waiting(d)
    BY DEF Waiting
  <2>3. Read(d)' \subseteq Read(d)
    BY SocketAssumption DEF Read, Message, SocketAssumption
  <2>4. OnWire(d)' \subseteq OnWire(d)
    BY DEF OnWire
  <2>5. Writing(d)' \subseteq Writing(d)
    BY DEF Writing
  <2>6. Queued(d)' \subseteq Queued(d)
    BY DEF Queued
  <2> QED
    BY <2>1, <2>2, <2>3, <2>4, <2>5, <2>6, PlacesAre
<1>2. \A d \in Link : Increasing(wire'[d])
  BY DEF SocketInv, TransitSound, Increasing
<1>3. \A d \in Link : Ordered(Places(d))' /\ InTransit(d)' \subseteq InTransit(d)
  BY <1>1, MessagesLost
<1>4. Increasing(outgoing'.queue) /\ InboxIncreasing(inbox')
  BY DEF SocketInv, TransitSound, Increasing, InboxIncreasing
<1>5. TransitSound'
  BY <1>2, <1>3, <1>4 DEF TransitSound, Increasing, InboxIncreasing
<1>6. SentSound'
  <2>1. \A i \in DOMAIN outgoing'.queue : outgoing'.queue[i] <= sent
    BY DEF SocketInv, SentSound
  <2> QED
    BY <1>3, <2>1 DEF SocketInv, SentSound
<1> QED
  BY <1>3, <1>5, <1>6 DEF SocketInv, Quiet

\* The steps of the tasks and of the network that only lose messages, or none.
LEMMA LossySteps ==
    ASSUME SocketInv,
           \/ FinishMessage \/ SendFails \/ TaskFinishes \/ CreateListener \/ StopListening
           \/ RecvFails \/ DropSocket
           \/ \E c \in Link : LoseConnection(c) \/ AcceptConnection(c) \/ ReadFails(c)
    PROVE  SocketInv' /\ Quiet
<1> USE SocketAssumption DEF SocketAssumption
<1>0. SocketTypeOK
  BY DEF SocketInv
<1>1. CASE FinishMessage
  <2> DEFINE q == outgoing.queue
             s == 0
             t == "waiting"
  <2>1. SocketTypeOK'
    <3>1. outgoing' = [outgoing EXCEPT !.task = t, !.queue = q, !.sending = s]
      BY <1>0, <1>1 DEF FinishMessage, SocketTypeOK
    <3>2. q \in Seq(Message) /\ s \in 0..MaxMessages /\ t \in TaskState
      BY <1>0 DEF TaskState, SocketTypeOK
    <3>3. outgoing \in [link: 0..MaxLinks, queue: Seq(Message), sending: 0..MaxMessages, task: TaskState]
      BY <1>0 DEF SocketTypeOK, TaskState
    <3> HIDE DEF q, s, t
    <3>4. outgoing' \in [link: 0..MaxLinks, queue: Seq(Message), sending: 0..MaxMessages, task: TaskState]
      BY <3>1, <3>2, <3>3, EntryTyped
    <3> QED
      BY <1>0, <1>1, <3>4 DEF SocketTypeOK, TaskState, FinishMessage
  <2> QED
    BY <1>0, <1>1, <2>1, LossyStep DEF FinishMessage, SocketTypeOK
<1>2. CASE SendFails
  <2> DEFINE q == <<>>
             s == 0
             t == "closed"
  <2>1. outgoing' = [outgoing EXCEPT !.task = t, !.queue = q, !.sending = s]
    BY <1>2 DEF SendFails
  <2>2. q \in Seq(Message) /\ s \in 0..MaxMessages /\ t \in TaskState
    BY DEF TaskState
  <2>3. outgoing \in [link: 0..MaxLinks, queue: Seq(Message), sending: 0..MaxMessages, task: TaskState]
    BY <1>0 DEF SocketTypeOK, TaskState
  <2> HIDE DEF q, s, t
  <2>4. /\ outgoing' \in [link: 0..MaxLinks, queue: Seq(Message), sending: 0..MaxMessages, task: TaskState]
        /\ outgoing'.link = outgoing.link /\ outgoing'.queue = q /\ outgoing'.task = t
    BY <2>1, <2>2, <2>3, EntryTyped
  <2>5. UNCHANGED <<link, wire, reading, listening, inbox, receiver, sent, delivered>>
    BY <1>2 DEF SendFails
  <2>6. SocketTypeOK'
    BY <1>0, <2>4, <2>5 DEF SocketTypeOK, TaskState
  <2> QED
    BY <2>4, <2>5, <2>6, LossyStep DEF q, t
<1>3. CASE TaskFinishes
  <2>1. SocketTypeOK'
    BY <1>0, <1>3 DEF SocketTypeOK, TaskFinishes
  <2> QED
    BY <1>0, <1>3, <2>1, LossyStep DEF TaskFinishes, SocketTypeOK
<1>4. CASE CreateListener
  <2>1. SocketTypeOK'
    BY <1>0, <1>4 DEF SocketTypeOK, CreateListener
  <2> QED
    BY <1>4, <2>1, LossyStep DEF CreateListener
<1>5. CASE StopListening
  <2>1. SocketTypeOK' /\ \A d \in Link : wire'[d] = wire[d] \/ wire'[d] = <<>>
    BY <1>0, <1>5 DEF SocketTypeOK, StopListening
  <2> QED
    BY <1>5, <2>1, LossyStep DEF StopListening
<1>6. CASE RecvFails
  <2>1. SocketTypeOK' /\ receiver'.holding = receiver.holding
    BY <1>0, <1>6 DEF SocketTypeOK, RecvFails
  <2> QED
    BY <1>6, <2>1, LossyStep DEF RecvFails
<1>7. CASE DropSocket
  <2>1. SocketTypeOK' /\ receiver'.holding = receiver.holding
    BY <1>0, <1>7 DEF SocketTypeOK, DropSocket
  <2> QED
    BY <1>7, <2>1, LossyStep DEF DropSocket
<1>8. ASSUME NEW c \in Link, LoseConnection(c) PROVE SocketInv' /\ Quiet
  <2>1. SocketTypeOK' /\ \A d \in Link : wire'[d] = wire[d] \/ wire'[d] = <<>>
    BY <1>0, <1>8 DEF SocketTypeOK, LoseConnection, Lost
  <2> QED
    BY <1>8, <2>1, LossyStep DEF LoseConnection
<1>9. ASSUME NEW c \in Link, AcceptConnection(c) PROVE SocketInv' /\ Quiet
  <2>1. SocketTypeOK'
    BY <1>0, <1>9 DEF SocketTypeOK, AcceptConnection
  <2> QED
    BY <1>9, <2>1, LossyStep DEF AcceptConnection
<1>10. ASSUME NEW c \in Link, ReadFails(c) PROVE SocketInv' /\ Quiet
  <2>1. SocketTypeOK' /\ \A d \in Link : reading'[d] = reading[d] \/ reading'[d] = 0
    BY <1>0, <1>10 DEF SocketTypeOK, ReadFails
  <2> QED
    BY <1>10, <2>1, LossyStep DEF ReadFails
<1> QED
  BY <1>1, <1>2, <1>3, <1>4, <1>5, <1>6, <1>7, <1>8, <1>9, <1>10

\* The messages on their way when the oldest of a place goes on to the next.
LEMMA MessageGoesOn ==
    ASSUME SocketInv, NEW c, NEW k \in 2..6, NEW x \in Places(c)[k],
           Places(c)'[k - 1] \subseteq Places(c)[k - 1] \cup {x},
           \A y \in Places(c)'[k] : y \in Places(c)[k] /\ x < y,
           \A j \in 1..6 \ {k - 1, k} : Places(c)'[j] \subseteq Places(c)[j],
           \A d \in Link \ {c} : \A j \in 1..6 : Places(d)'[j] \subseteq Places(d)[j]
    PROVE  \A d \in Link : Ordered(Places(d))' /\ InTransit(d)' \subseteq InTransit(d)
<1> TAKE d \in Link
<1>1. Ordered(Places(d))
  BY DEF SocketInv, TransitSound
<1>2. CASE d = c
  <2>1. Ordered(Places(c)') /\ All(Places(c)') \subseteq All(Places(c))
    BY <1>1, <1>2, GoingOn
  <2> QED
    BY <1>2, <2>1 DEF InTransit, All, Ordered
<1>3. CASE d # c
  <2>1. \A j \in 1..6 : Places(d)'[j] \subseteq Places(d)[j]
    BY <1>3
  <2>2. Ordered(Places(d)') /\ All(Places(d)') \subseteq All(Places(d))
    BY <1>1, <2>1, Losing
  <2> QED
    BY <2>2 DEF InTransit, All, Ordered
<1> QED
  BY <1>2, <1>3

\* The handler takes a message from the connection.
LEMMA AcceptMessageSound ==
    ASSUME SocketInv, NEW c \in Link, AcceptMessage(c)
    PROVE  SocketInv' /\ Quiet
<1> DEFINE x == Head(wire[c])
<1>0. SocketTypeOK /\ wire[c] \in Seq(Message) /\ wire[c] # <<>> /\ Increasing(wire[c])
  BY DEF SocketInv, SocketTypeOK, TransitSound, AcceptMessage
<1>1. /\ x \in Message /\ 1 \in DOMAIN wire[c] /\ wire[c][1] = x
      /\ Tail(wire[c]) \in Seq(Message)
      /\ \A i \in DOMAIN Tail(wire[c]) :
            i \in Nat /\ i + 1 \in DOMAIN wire[c] /\ Tail(wire[c])[i] = wire[c][i + 1] /\ i + 1 > 1
  BY <1>0, HeadIsOldest
<1>2. UNCHANGED <<outgoing, link, listening, inbox, receiver, sent, delivered>>
  BY DEF AcceptMessage
<1>3. /\ reading' = [reading EXCEPT ![c] = x]
      /\ wire' = [wire EXCEPT ![c] = Tail(wire[c])]
      /\ reading[c] = 0
  BY DEF AcceptMessage
<1>4. /\ wire' \in [Link -> Seq(Message)] /\ wire'[c] = Tail(wire[c])
      /\ \A d \in Link \ {c} : wire'[d] = wire[d]
  BY <1>0, <1>1, <1>3 DEF SocketTypeOK
<1> HIDE DEF x
<1>5. /\ reading' \in [Link -> 0..MaxMessages] /\ reading'[c] = x
      /\ \A d \in Link \ {c} : reading'[d] = reading[d]
  BY <1>0, <1>1, <1>3, SocketAssumption DEF SocketTypeOK, Message, SocketAssumption
<1>6. SocketTypeOK'
  BY <1>0, <1>2, <1>4, <1>5 DEF SocketTypeOK
<1>7. x \in OnWire(c)
  BY <1>1 DEF OnWire
<1>8. \A y \in OnWire(c)' : y \in OnWire(c) /\ x < y
  <2> SUFFICES ASSUME NEW y \in OnWire(c)' PROVE y \in OnWire(c) /\ x < y
    OBVIOUS
  <2>1. PICK i \in DOMAIN wire'[c] : wire'[c][i] = y
    BY DEF OnWire
  <2>2. y \in Message
    BY DEF OnWire
  <2>3. i + 1 \in DOMAIN wire[c] /\ y = wire[c][i + 1] /\ 1 < i + 1
    BY <1>1, <1>4, <2>1
  <2> QED
    BY <1>0, <1>1, <2>2, <2>3 DEF OnWire, Increasing
<1>9. Read(c)' \subseteq Read(c) \cup {x}
  BY <1>5 DEF Read
<1>10. ASSUME NEW d \in Link \ {c} PROVE OnWire(d)' \subseteq OnWire(d) /\ Read(d)' \subseteq Read(d)
  BY <1>4, <1>5 DEF OnWire, Read
<1>11. \A d \in Link : Ordered(Places(d))' /\ InTransit(d)' \subseteq InTransit(d)
  <2> DEFINE k == 4
  <2>1. k \in 2..6 /\ k - 1 = 3 /\ 1..6 \ {k - 1, k} = {1, 2, 5, 6}
    OBVIOUS
  <2>2. x \in Places(c)[k] /\ \A y \in Places(c)'[k] : y \in Places(c)[k] /\ x < y
    BY <1>7, <1>8, PlacesAre
  <2> HIDE DEF k
  <2>3. Places(c)'[k - 1] \subseteq Places(c)[k - 1] \cup {x}
    BY <1>9, <2>1, PlacesAre
  <2>4. \A j \in {1, 2, 5, 6} : Places(c)'[j] \subseteq Places(c)[j]
    BY <1>2, PlacesAre, PlacesUnchanged
  <2>5. \A d \in Link \ {c} : \A j \in 1..6 : Places(d)'[j] \subseteq Places(d)[j]
    BY <1>2, <1>10, PlacesAre, PlacesUnchanged
  <2> QED
    BY <2>1, <2>2, <2>3, <2>4, <2>5, MessageGoesOn
<1>12. \A d \in Link : Increasing(wire'[d])
  <2>1. Increasing(Tail(wire[c]))
    BY <1>0, <1>1 DEF Increasing
  <2> QED
    BY <1>4, <2>1 DEF SocketInv, TransitSound
<1>13. TransitSound'
  BY <1>2, <1>11, <1>12 DEF SocketInv, TransitSound, Increasing, InboxIncreasing
<1>14. SentSound'
  BY <1>2, <1>11 DEF SocketInv, SentSound
<1> QED
  BY <1>2, <1>6, <1>11, <1>13, <1>14 DEF SocketInv, Quiet

\* The handler puts a message into the queue of recv, or finds the socket gone.
LEMMA EnqueueMessageSound ==
    ASSUME SocketInv, NEW c \in Link, EnqueueMessage(c)
    PROVE  SocketInv' /\ Quiet
<1> DEFINE x == reading[c]
           e == [link |-> c, message |-> x]
<1>0. SocketTypeOK /\ InboxIncreasing(inbox) /\ Ordered(Places(c))
  BY DEF SocketInv, TransitSound
<1>1. UNCHANGED <<outgoing, listening, receiver, sent, delivered>> /\ reading' = [reading EXCEPT ![c] = 0]
  BY DEF EnqueueMessage
<1>2. x \in Message /\ e \in Envelope
  BY <1>0, SocketAssumption DEF EnqueueMessage, SocketTypeOK, Message, Envelope, SocketAssumption
<1>3. reading' \in [Link -> 0..MaxMessages] /\ reading'[c] = 0 /\ \A d \in Link \ {c} : reading'[d] = reading[d]
  BY <1>0, <1>1, SocketAssumption DEF SocketTypeOK, SocketAssumption
<1>4. CASE receiver.socket = "dropped"
  <2>1. UNCHANGED inbox /\ Lost(c)
    BY <1>4 DEF EnqueueMessage
  <2>2. /\ wire' \in [Link -> Seq(Message)] /\ \A d \in Link : wire'[d] = wire[d] \/ wire'[d] = <<>>
        /\ link' \in [Link -> {"unused", "offered", "up", "down"}]
    BY <1>0, <2>1 DEF SocketTypeOK, Lost
  <2>3. SocketTypeOK'
    BY <1>0, <1>1, <1>3, <2>1, <2>2 DEF SocketTypeOK
  <2> QED
    BY <1>0, <1>1, <1>3, <2>1, <2>2, <2>3, LossyStep DEF SocketTypeOK
<1>5. CASE receiver.socket = "open"
  <2>1. inbox' = ForceSend(inbox, e) /\ UNCHANGED <<link, wire>>
    BY <1>5 DEF EnqueueMessage
  <2>2. inbox \in Seq(Envelope) /\ Len(inbox) <= CHANNEL_CAPACITY
    BY <1>0 DEF SocketTypeOK
  <2> HIDE DEF e
  <2>3. /\ inbox' \in Seq(Envelope) /\ Len(inbox') <= CHANNEL_CAPACITY
        /\ \A i \in DOMAIN inbox' : inbox'[i] = e \/ \E j \in DOMAIN inbox : inbox'[i] = inbox[j]
        /\ \A i, k \in DOMAIN inbox' : i < k =>
              \E j \in DOMAIN inbox : /\ inbox'[i] = inbox[j]
                                      /\ inbox'[k] = e \/ \E l \in DOMAIN inbox : j < l /\ inbox'[k] = inbox[l]
    <3>1. inbox' \in Seq(Envelope) /\ AddsNewest(inbox, e, inbox')
      BY <1>2, <2>1, <2>2, ForceSendKeeps
    <3> QED
      BY <2>2, <3>1 DEF AddsNewest
  <2>4. SocketTypeOK'
    BY <1>0, <1>1, <1>3, <2>1, <2>3 DEF SocketTypeOK
  <2>5. e.link = c /\ e.message = x
    BY DEF e
  <2> HIDE DEF x
  <2>6. Waiting(c)' \subseteq Waiting(c) \cup {x}
    <3> SUFFICES ASSUME NEW y \in Waiting(c)', y # x PROVE y \in Waiting(c)
      OBVIOUS
    <3>1. PICK i \in DOMAIN inbox' : inbox'[i].link = c /\ inbox'[i].message = y
      BY DEF Waiting
    <3>2. inbox'[i] # e
      BY <2>5, <3>1
    <3>3. y \in Message
      BY DEF Waiting
    <3> QED
      BY <2>3, <3>1, <3>2, <3>3 DEF Waiting
  <2>7. ASSUME NEW d \in Link \ {c} PROVE Waiting(d)' \subseteq Waiting(d)
    <3> SUFFICES ASSUME NEW y \in Waiting(d)' PROVE y \in Waiting(d)
      OBVIOUS
    <3>1. PICK i \in DOMAIN inbox' : inbox'[i].link = d /\ inbox'[i].message = y
      BY DEF Waiting
    <3>2. inbox'[i] # e
      BY <2>5, <3>1
    <3>3. y \in Message
      BY DEF Waiting
    <3> QED
      BY <2>3, <3>1, <3>2, <3>3 DEF Waiting
  <2>8. x \in Read(c) /\ Read(c)' = {} /\ \A d \in Link \ {c} : Read(d)' = Read(d)
    BY <1>2, <1>3, SocketAssumption DEF Read, x, Message, SocketAssumption
  <2>9. \A d \in Link : Ordered(Places(d))' /\ InTransit(d)' \subseteq InTransit(d)
    <3> DEFINE k == 3
    <3>1. k \in 2..6 /\ k - 1 = 2 /\ 1..6 \ {k - 1, k} = {1, 4, 5, 6}
      OBVIOUS
    <3>2. x \in Places(c)[k] /\ \A y \in Places(c)'[k] : y \in Places(c)[k] /\ x < y
      BY <2>8, PlacesAre
    <3> HIDE DEF k
    <3>3. Places(c)'[k - 1] \subseteq Places(c)[k - 1] \cup {x}
      BY <2>6, <3>1, PlacesAre
    <3>4. \A j \in {1, 4, 5, 6} : Places(c)'[j] \subseteq Places(c)[j]
      BY <1>1, <2>1, PlacesAre, PlacesUnchanged
    <3>5. \A d \in Link \ {c} : \A j \in 1..6 : Places(d)'[j] \subseteq Places(d)[j]
      BY <1>1, <2>1, <2>7, <2>8, PlacesAre, PlacesUnchanged
    <3> QED
      BY <3>1, <3>2, <3>3, <3>4, <3>5, MessageGoesOn
  <2>10. InboxIncreasing(inbox')
    <3>1. ASSUME NEW j \in DOMAIN inbox, inbox[j].link = c PROVE inbox[j].message < x
      <4>1. inbox[j] \in Envelope
        BY <2>2
      <4>2. inbox[j].message \in Message /\ inbox[j] = [link |-> c, message |-> inbox[j].message]
        BY <3>1, <4>1 DEF Envelope
      <4>3. inbox[j].message \in Places(c)[2] /\ x \in Places(c)[3]
        BY <2>8, <4>2, PlacesAre DEF Waiting
      <4> QED
        BY <1>0, <4>3 DEF Ordered
    <3> SUFFICES ASSUME NEW i \in DOMAIN inbox', NEW k \in DOMAIN inbox', i < k,
                        inbox'[i].link = inbox'[k].link
                 PROVE  inbox'[i].message < inbox'[k].message
      BY DEF InboxIncreasing
    <3>2. PICK j \in DOMAIN inbox : /\ inbox'[i] = inbox[j]
                                    /\ inbox'[k] = e \/ \E l \in DOMAIN inbox : j < l /\ inbox'[k] = inbox[l]
      BY <2>3
    <3>3. CASE inbox'[k] = e
      BY <2>5, <3>1, <3>2, <3>3
    <3>4. CASE \E l \in DOMAIN inbox : j < l /\ inbox'[k] = inbox[l]
      BY <1>0, <3>2, <3>4 DEF InboxIncreasing
    <3> QED
      BY <3>2, <3>3, <3>4
  <2>11. TransitSound'
    BY <1>1, <2>1, <2>9, <2>10 DEF SocketInv, TransitSound, Increasing, InboxIncreasing
  <2>12. SentSound'
    BY <1>1, <2>9 DEF SocketInv, SentSound
  <2> QED
    BY <1>1, <2>4, <2>9, <2>11, <2>12 DEF SocketInv, Quiet
<1> QED
  BY <1>4, <1>5 DEF EnqueueMessage

\* recv takes a message from its queue.
LEMMA PopMessageSound ==
    ASSUME SocketInv, PopMessage
    PROVE  SocketInv' /\ Quiet
<1> DEFINE e == Head(inbox)
<1>0. SocketTypeOK /\ InboxIncreasing(inbox) /\ inbox \in Seq(Envelope) /\ inbox # <<>>
  BY DEF SocketInv, TransitSound, SocketTypeOK, PopMessage
<1>1. UNCHANGED <<outgoing, link, wire, reading, listening, sent, delivered>> /\ inbox' = Tail(inbox)
  BY DEF PopMessage
<1>2. receiver' = [receiver EXCEPT !.holding = e] /\ receiver.holding = NoEnvelope
  BY DEF PopMessage
<1>3. /\ e \in Envelope /\ 1 \in DOMAIN inbox /\ inbox[1] = e /\ inbox' \in Seq(Envelope)
      /\ \A i \in DOMAIN inbox' :
            i \in Nat /\ i + 1 \in DOMAIN inbox /\ inbox'[i] = inbox[i + 1] /\ i + 1 > 1
  BY <1>0, <1>1, HeadIsOldest
<1>4. Len(inbox') <= CHANNEL_CAPACITY
  <2>1. Len(inbox') = Len(inbox) - 1 /\ Len(inbox) \in Nat
    BY <1>0, <1>1
  <2> QED
    BY <1>0, <2>1, SocketAssumption DEF SocketTypeOK, SocketAssumption
<1> HIDE DEF e
<1>5. PICK c \in Link, x \in Message : e = [link |-> c, message |-> x]
  BY <1>3 DEF Envelope
<1>6. receiver' \in [socket: {"open", "dropped"}, holding: Envelope \cup {NoEnvelope}] /\ receiver'.holding = e
  BY <1>0, <1>2, <1>3 DEF SocketTypeOK
<1>7. SocketTypeOK'
  BY <1>0, <1>1, <1>3, <1>4, <1>6 DEF SocketTypeOK
<1>8. Held(c)' \subseteq {x} /\ \A d \in Link \ {c} : Held(d)' = {}
  BY <1>5, <1>6 DEF Held
<1>9. x \in Waiting(c)
  BY <1>3, <1>5 DEF Waiting
<1>10. ASSUME NEW d \in Link, NEW y \in Waiting(d)' PROVE y \in Waiting(d) /\ (d = c => x < y)
  <2>1. PICK i \in DOMAIN inbox' : inbox'[i].link = d /\ inbox'[i].message = y
    BY <1>10 DEF Waiting
  <2>2. y \in Message
    BY <1>10 DEF Waiting
  <2>3. i + 1 \in DOMAIN inbox /\ inbox[i + 1].link = d /\ inbox[i + 1].message = y /\ 1 < i + 1
    BY <1>3, <2>1
  <2>4. y \in Waiting(d)
    BY <2>2, <2>3 DEF Waiting
  <2>5. ASSUME d = c PROVE x < y
    <3>1. inbox[1].link = inbox[i + 1].link /\ inbox[1].message = x /\ inbox[i + 1].message = y
      BY <1>3, <1>5, <2>3, <2>5
    <3> QED
      BY <1>0, <1>3, <2>3, <3>1 DEF InboxIncreasing
  <2> QED
    BY <2>4, <2>5
<1>11. \A d \in Link : Ordered(Places(d))' /\ InTransit(d)' \subseteq InTransit(d)
  <2> DEFINE k == 2
  <2>1. k \in 2..6 /\ k - 1 = 1 /\ 1..6 \ {k - 1, k} = {3, 4, 5, 6}
    OBVIOUS
  <2>2. x \in Places(c)[k] /\ \A y \in Places(c)'[k] : y \in Places(c)[k] /\ x < y
    BY <1>5, <1>9, <1>10, PlacesAre
  <2> HIDE DEF k
  <2>3. Places(c)'[k - 1] \subseteq Places(c)[k - 1] \cup {x}
    BY <1>8, <2>1, PlacesAre
  <2>4. \A j \in {3, 4, 5, 6} : Places(c)'[j] \subseteq Places(c)[j]
    BY <1>1, PlacesAre, PlacesUnchanged
  <2>5. \A d \in Link \ {c} : \A j \in 1..6 : Places(d)'[j] \subseteq Places(d)[j]
    BY <1>1, <1>8, <1>10, PlacesAre, PlacesUnchanged
  <2> QED
    BY <2>1, <2>2, <2>3, <2>4, <2>5, MessageGoesOn
<1>12. InboxIncreasing(inbox')
  <2> SUFFICES ASSUME NEW i \in DOMAIN inbox', NEW j \in DOMAIN inbox', i < j,
                      inbox'[i].link = inbox'[j].link
               PROVE  inbox'[i].message < inbox'[j].message
    BY DEF InboxIncreasing
  <2>1. /\ i + 1 \in DOMAIN inbox /\ inbox'[i] = inbox[i + 1] /\ i \in Nat
        /\ j + 1 \in DOMAIN inbox /\ inbox'[j] = inbox[j + 1] /\ j \in Nat
    BY <1>3
  <2>2. i + 1 < j + 1
    BY <2>1
  <2> QED
    BY <1>0, <2>1, <2>2 DEF InboxIncreasing
<1>13. TransitSound'
  BY <1>1, <1>11, <1>12 DEF SocketInv, TransitSound, Increasing, InboxIncreasing
<1>14. SentSound'
  BY <1>1, <1>11 DEF SocketInv, SentSound
<1> QED
  BY <1>1, <1>7, <1>11, <1>13, <1>14 DEF SocketInv, Quiet

\* The sending task takes a message from its queue.
LEMMA TakeMessageSound ==
    ASSUME SocketInv, TakeMessage
    PROVE  SocketInv' /\ Quiet
<1> PICK c : c = outgoing.link
  OBVIOUS
<1> DEFINE x == Head(outgoing.queue)
           q == Tail(outgoing.queue)
           t == "writing"
<1>0. SocketTypeOK /\ Increasing(outgoing.queue) /\ outgoing.queue \in Seq(Message) /\ outgoing.queue # <<>>
  BY DEF SocketInv, TransitSound, SocketTypeOK, TakeMessage
<1>1. UNCHANGED <<link, wire, reading, listening, inbox, receiver, sent, delivered>>
  BY DEF TakeMessage
<1>2. outgoing' = [outgoing EXCEPT !.task = t, !.queue = q, !.sending = x] /\ outgoing.task = "waiting"
  BY DEF TakeMessage
<1>3. /\ x \in Message /\ 1 \in DOMAIN outgoing.queue /\ outgoing.queue[1] = x /\ q \in Seq(Message)
      /\ \A i \in DOMAIN q :
            i \in Nat /\ i + 1 \in DOMAIN outgoing.queue /\ q[i] = outgoing.queue[i + 1] /\ i + 1 > 1
  BY <1>0, HeadIsOldest
<1>4. t \in TaskState /\ x \in 0..MaxMessages
  BY <1>3, SocketAssumption DEF TaskState, Message, SocketAssumption
<1> HIDE DEF x, q, t
<1>5. /\ outgoing' \in [link: 0..MaxLinks, queue: Seq(Message), sending: 0..MaxMessages, task: TaskState]
      /\ outgoing'.link = c /\ outgoing'.queue = q /\ outgoing'.sending = x /\ outgoing'.task = t
  BY <1>0, <1>2, <1>3, <1>4, EntryTyped DEF SocketTypeOK, TaskState
<1>6. SocketTypeOK'
  BY <1>0, <1>1, <1>5 DEF SocketTypeOK, TaskState
<1>7. x \in Queued(c) /\ Writing(c)' \subseteq {x}
  BY <1>3, <1>5 DEF Queued, Writing
<1>8. \A y \in Queued(c)' : y \in Queued(c) /\ x < y
  <2> SUFFICES ASSUME NEW y \in Queued(c)' PROVE y \in Queued(c) /\ x < y
    OBVIOUS
  <2>1. PICK i \in DOMAIN q : q[i] = y
    BY <1>5 DEF Queued
  <2>2. y \in Message
    BY DEF Queued
  <2>3. i + 1 \in DOMAIN outgoing.queue /\ y = outgoing.queue[i + 1] /\ 1 < i + 1
    BY <1>3, <2>1
  <2> QED
    BY <1>0, <1>3, <2>2, <2>3 DEF Queued, Increasing
<1>9. ASSUME NEW d \in Link \ {c} PROVE Queued(d)' = {} /\ Writing(d)' = {}
  BY <1>5 DEF Queued, Writing
<1>10. \A d \in Link : Ordered(Places(d))' /\ InTransit(d)' \subseteq InTransit(d)
  <2> DEFINE k == 6
  <2>1. k \in 2..6 /\ k - 1 = 5 /\ 1..6 \ {k - 1, k} = {1, 2, 3, 4}
    OBVIOUS
  <2>2. x \in Places(c)[k] /\ \A y \in Places(c)'[k] : y \in Places(c)[k] /\ x < y
    BY <1>7, <1>8, PlacesAre
  <2> HIDE DEF k
  <2>3. Places(c)'[k - 1] \subseteq Places(c)[k - 1] \cup {x}
    BY <1>7, <2>1, PlacesAre
  <2>4. \A j \in {1, 2, 3, 4} : Places(c)'[j] \subseteq Places(c)[j]
    BY <1>1, PlacesAre, PlacesUnchanged
  <2>5. \A d \in Link \ {c} : \A j \in 1..6 : Places(d)'[j] \subseteq Places(d)[j]
    BY <1>1, <1>9, PlacesAre, PlacesUnchanged
  <2> QED
    BY <2>1, <2>2, <2>3, <2>4, <2>5, MessageGoesOn
<1>11. Increasing(q)
  BY <1>0, <1>3 DEF Increasing
<1>12. TransitSound'
  BY <1>1, <1>5, <1>10, <1>11 DEF SocketInv, TransitSound, Increasing, InboxIncreasing
<1>13. SentSound'
  <2>1. x \in 1..sent
    BY <1>3 DEF SocketInv, SentSound, Message
  <2>2. \A i \in DOMAIN q : q[i] <= sent
    BY <1>3 DEF SocketInv, SentSound
  <2> QED
    BY <1>1, <1>5, <1>10, <2>1, <2>2 DEF SocketInv, SentSound
<1> QED
  BY <1>1, <1>6, <1>10, <1>12, <1>13 DEF SocketInv, Quiet

\* The sending task writes its message to the connection.
LEMMA WriteMessageSound ==
    ASSUME SocketInv, WriteMessage
    PROVE  SocketInv' /\ Quiet
<1> PICK c : c = outgoing.link
  OBVIOUS
<1> PICK x : x = outgoing.sending
  OBVIOUS
<1>0. SocketTypeOK
  BY DEF SocketInv
<1>1. UNCHANGED <<link, reading, listening, inbox, receiver, sent, delivered>>
  BY DEF WriteMessage
<1>2. /\ outgoing' = [outgoing EXCEPT !.task = "finishing"] /\ outgoing.task = "writing"
      /\ wire' = IF link[c] = "down" THEN wire ELSE [wire EXCEPT ![c] = Append(@, x)]
  BY DEF WriteMessage
<1>3. x \in Message
  BY <1>0, <1>2 DEF SocketInv, SentSound, SocketTypeOK, Message
<1>4. /\ outgoing' \in [link: 0..MaxLinks, queue: Seq(Message), sending: 0..MaxMessages, task: TaskState]
      /\ outgoing'.link = c /\ outgoing'.queue = outgoing.queue /\ outgoing'.task = "finishing"
  BY <1>0, <1>2 DEF SocketTypeOK, TaskState
<1>5. CASE c \notin Link \/ link[c] = "down"
  <2>1. UNCHANGED wire
    BY <1>0, <1>2, <1>5 DEF SocketTypeOK
  <2>2. SocketTypeOK'
    BY <1>0, <1>1, <1>4, <2>1 DEF SocketTypeOK, TaskState
  <2> QED
    BY <1>1, <1>4, <2>1, <2>2, LossyStep
<1>6. CASE c \in Link /\ link[c] # "down"
  <2>1. wire[c] \in Seq(Message) /\ Increasing(wire[c]) /\ Ordered(Places(c))
    BY <1>0, <1>6 DEF SocketTypeOK, SocketInv, TransitSound
  <2>2. wire'[c] = Append(wire[c], x) /\ \A d \in Link \ {c} : wire'[d] = wire[d]
    BY <1>0, <1>2, <1>6 DEF SocketTypeOK
  <2>3. /\ wire'[c] \in Seq(Message) /\ DOMAIN wire'[c] = 1..(Len(wire[c]) + 1) /\ Len(wire[c]) \in Nat
        /\ DOMAIN wire[c] = 1..Len(wire[c])
        /\ wire'[c][Len(wire[c]) + 1] = x /\ \A i \in 1..Len(wire[c]) : wire'[c][i] = wire[c][i]
    BY ONLY <1>3, <2>1, <2>2
  <2>4. wire' \in [Link -> Seq(Message)]
    BY <1>0, <1>2, <1>6, <2>2, <2>3 DEF SocketTypeOK
  <2>5. SocketTypeOK'
    BY <1>0, <1>1, <1>4, <2>4 DEF SocketTypeOK, TaskState
  <2>6. x \in Writing(c) /\ \A d : Writing(d)' = {}
    BY <1>2, <1>3, <1>4 DEF Writing
  <2>7. OnWire(c)' \subseteq OnWire(c) \cup {x}
    <3> SUFFICES ASSUME NEW y \in OnWire(c)', y # x PROVE y \in OnWire(c)
      OBVIOUS
    <3>1. PICK i \in DOMAIN wire'[c] : wire'[c][i] = y
      BY DEF OnWire
    <3>2. i \in DOMAIN wire[c] /\ wire[c][i] = y
      BY <2>3, <3>1, SMTT(30)
    <3>3. y \in Message
      BY DEF OnWire
    <3> QED
      BY <3>2, <3>3 DEF OnWire
  <2>8. \A d \in Link \ {c} : OnWire(d)' = OnWire(d)
    BY <2>2 DEF OnWire
  <2>9. \A d : Queued(d)' = Queued(d)
    BY <1>4 DEF Queued
  <2>10. \A d \in Link : Ordered(Places(d))' /\ InTransit(d)' \subseteq InTransit(d)
    <3> DEFINE k == 5
    <3>1. k \in 2..6 /\ k - 1 = 4 /\ 1..6 \ {k - 1, k} = {1, 2, 3, 6}
      OBVIOUS
    <3>2. x \in Places(c)[k] /\ \A y \in Places(c)'[k] : y \in Places(c)[k] /\ x < y
      BY <2>6, PlacesAre
    <3> HIDE DEF k
    <3>3. Places(c)'[k - 1] \subseteq Places(c)[k - 1] \cup {x}
      BY <2>7, <3>1, PlacesAre
    <3>4. \A j \in {1, 2, 3, 6} : Places(c)'[j] \subseteq Places(c)[j]
      BY <1>1, <2>9, PlacesAre, PlacesUnchanged
    <3>5. \A d \in Link \ {c} : \A j \in 1..6 : Places(d)'[j] \subseteq Places(d)[j]
      BY <1>1, <2>6, <2>8, <2>9, PlacesAre, PlacesUnchanged
    <3> QED
      BY <3>1, <3>2, <3>3, <3>4, <3>5, MessageGoesOn
  <2>11. \A d \in Link : Increasing(wire'[d])
    <3>1. \A i \in DOMAIN wire[c] : wire[c][i] < x
      <4> TAKE i \in DOMAIN wire[c]
      <4>1. wire[c][i] \in Places(c)[4] /\ x \in Places(c)[5]
        BY <2>1, <2>6, PlacesAre DEF OnWire
      <4> QED
        BY <2>1, <4>1 DEF Ordered
    <3>2. ASSUME NEW i \in DOMAIN wire'[c], NEW j \in DOMAIN wire'[c], i < j
          PROVE  wire'[c][i] < wire'[c][j]
      <4>1. i \in DOMAIN wire[c] /\ wire'[c][i] = wire[c][i]
        BY <2>3, <3>2
      <4>2. CASE j = Len(wire[c]) + 1
        BY <2>3, <3>1, <4>1, <4>2
      <4>3. CASE j # Len(wire[c]) + 1
        <5>1. j \in DOMAIN wire[c] /\ wire'[c][j] = wire[c][j]
          BY <2>3, <4>3
        <5> QED
          BY <2>1, <3>2, <4>1, <5>1 DEF Increasing
      <4> QED
        BY <4>2, <4>3
    <3>3. Increasing(wire'[c])
      BY <3>2 DEF Increasing
    <3> QED
      BY <2>2, <3>3 DEF SocketInv, TransitSound
  <2>12. TransitSound'
    BY <1>1, <1>4, <2>10, <2>11 DEF SocketInv, TransitSound, Increasing, InboxIncreasing
  <2>13. SentSound'
    BY <1>1, <1>4, <2>10 DEF SocketInv, SentSound
  <2> QED
    BY <1>1, <2>5, <2>10, <2>12, <2>13 DEF SocketInv, Quiet
<1> QED
  BY <1>5, <1>6

-----------------------------------------------------------------------------
(* GossipSocket: send and recv *)

\* What a call of send does to the channel.
Sends ==
    /\ sent' = sent + 1 /\ UNCHANGED delivered
    /\ \/ \A d \in Link : InTransit(d)' \subseteq InTransit(d)
       \/ \E c \in Link : /\ InTransit(c)' \subseteq InTransit(c) \cup {sent + 1}
                          /\ \A d \in Link \ {c} : InTransit(d)' \subseteq InTransit(d)

\* Only messages are on their way.
LEMMA MessagesInTransit ==
    ASSUME NEW c PROVE InTransit(c) \subseteq Message /\ InTransit(c)' \subseteq Message
<1>1. /\ Held(c) \subseteq Message /\ Waiting(c) \subseteq Message /\ Read(c) \subseteq Message
      /\ OnWire(c) \subseteq Message /\ Writing(c) \subseteq Message /\ Queued(c) \subseteq Message
  BY DEF Held, Waiting, Read, OnWire, Writing, Queued
<1>2. /\ Held(c)' \subseteq Message /\ Waiting(c)' \subseteq Message /\ Read(c)' \subseteq Message
      /\ OnWire(c)' \subseteq Message /\ Writing(c)' \subseteq Message /\ Queued(c)' \subseteq Message
  BY DEF Held, Waiting, Read, OnWire, Writing, Queued
<1>3. \A k \in 1..6 : Places(c)[k] \subseteq Message /\ Places(c)'[k] \subseteq Message
  BY <1>1, <1>2, PlacesAre
<1> QED
  BY <1>3 DEF InTransit

\* With one more message sent, nothing on its way is newer than the last.
LEMMA SentOneMore ==
    ASSUME SocketTypeOK', sent \in Nat, sent' = sent + 1,
           \A d \in Link : \A m \in InTransit(d)' : m <= sent \/ m = sent + 1,
           \A i \in DOMAIN outgoing'.queue : outgoing'.queue[i] <= sent \/ outgoing'.queue[i] = sent + 1,
           outgoing'.task = "writing" => outgoing'.sending \in 1..sent
    PROVE  SentSound'
<1> USE SocketAssumption DEF SocketAssumption
<1>1. ASSUME NEW d \in Link, NEW m \in InTransit(d)' PROVE m <= sent + 1
  <2>1. m \in Message
    BY <1>1, MessagesInTransit
  <2>2. m \in Nat
    BY <2>1 DEF Message
  <2> QED
    BY <1>1, <2>2
<1>2. ASSUME NEW i \in DOMAIN outgoing'.queue PROVE outgoing'.queue[i] <= sent + 1
  <2>1. outgoing'.queue \in Seq(Message)
    BY DEF SocketTypeOK
  <2>2. outgoing'.queue[i] \in Message
    BY <2>1
  <2>3. outgoing'.queue[i] \in Nat
    BY <2>2 DEF Message
  <2> QED
    BY <2>3
<1>3. outgoing'.task = "writing" => outgoing'.sending \in 1..(sent + 1)
  OBVIOUS
<1> QED
  BY <1>1, <1>2, <1>3 DEF SentSound

\* A message that is newer than all others arrives behind them.
LEMMA MessageArrives ==
    ASSUME SocketInv, NEW c, NEW x \in Nat, x > sent,
           Queued(c)' \subseteq Queued(c) \cup {x},
           \A d \in Link \ {c} : Queued(d)' \subseteq Queued(d),
           \A d \in Link : Writing(d)' \subseteq Writing(d),
           UNCHANGED <<wire, reading, inbox, receiver>>
    PROVE  /\ \A d \in Link : Ordered(Places(d))'
           /\ \A d \in Link \ {c} : InTransit(d)' \subseteq InTransit(d)
           /\ c \in Link => InTransit(c)' \subseteq InTransit(c) \cup {x}
<1>1. ASSUME NEW d \in Link \ {c} PROVE Ordered(Places(d))' /\ InTransit(d)' \subseteq InTransit(d)
  <2>1. Ordered(Places(d))
    BY DEF SocketInv, TransitSound
  <2>2. \A k \in 1..6 : Places(d)'[k] \subseteq Places(d)[k]
    BY PlacesAre, PlacesUnchanged
  <2>3. Ordered(Places(d)') /\ All(Places(d)') \subseteq All(Places(d))
    BY <2>1, <2>2, Losing
  <2> QED
    BY <2>3 DEF InTransit, All, Ordered
<1>2. ASSUME c \in Link PROVE Ordered(Places(c))' /\ InTransit(c)' \subseteq InTransit(c) \cup {x}
  <2>1. Ordered(Places(c)) /\ sent \in Nat
    BY <1>2 DEF SocketInv, TransitSound, SentSound
  <2>2. \A k \in 1..5 : Places(c)'[k] \subseteq Places(c)[k]
    BY <1>2, PlacesAre, PlacesUnchanged
  <2>3. Places(c)'[6] \subseteq Places(c)[6] \cup {x}
    BY PlacesAre
  <2>4. ASSUME NEW k \in 1..6, NEW y \in Places(c)[k] PROVE y <= sent /\ y \in Nat
    <3>1. y \in InTransit(c)
      BY <2>4 DEF InTransit
    <3>2. y \in Message
      BY <3>1, MessagesInTransit
    <3> QED
      BY <1>2, <3>1, <3>2, SocketAssumption DEF SocketInv, SentSound, Message, SocketAssumption
  <2>5. ASSUME NEW j \in 1..6, NEW k \in 1..6, j < k, NEW y \in Places(c)'[j], NEW z \in Places(c)'[k]
        PROVE  y < z
    <3>1. j \in 1..5 /\ y \in Places(c)[j]
      BY <2>2, <2>5
    <3>2. CASE z \in Places(c)[k]
      BY <2>1, <2>5, <3>1, <3>2 DEF Ordered
    <3>3. CASE z = x
      BY <2>1, <2>4, <3>1, <3>3
    <3>4. k = 6 \/ k \in 1..5
      OBVIOUS
    <3> QED
      BY <2>2, <2>3, <2>5, <3>2, <3>3, <3>4
  <2>6. \A k \in 1..6 : Places(c)'[k] \subseteq All(Places(c)) \cup {x}
    <3> TAKE k \in 1..6
    <3>1. k = 6 \/ k \in 1..5
      OBVIOUS
    <3> QED
      BY <2>2, <2>3, <3>1 DEF All
  <2> QED
    BY <2>5, <2>6 DEF Ordered, InTransit, All
<1>3. \A d \in Link : Ordered(Places(d))'
  <2> TAKE d \in Link
  <2>1. CASE d = c
    BY <1>2, <2>1
  <2>2. CASE d # c
    BY <1>1, <2>2
  <2> QED
    BY <2>1, <2>2
<1> QED
  BY <1>1, <1>2, <1>3

\* A message is sent on the connection of the entry, unless its channel is closed.
LEMMA SendOnExistingSound ==
    ASSUME SocketInv, SendOnExisting
    PROVE  SocketInv' /\ Sends
<1> DEFINE x == sent + 1
<1> PICK c : c = outgoing.link
  OBVIOUS
<1>0. SocketTypeOK /\ sent \in Nat /\ x \in Message /\ x \in Nat /\ x > sent
  BY SocketAssumption DEF SocketInv, SentSound, SendOnExisting, Message, SocketAssumption
<1>1. UNCHANGED <<link, wire, reading, listening, inbox, receiver, delivered>> /\ sent' = x
  BY DEF SendOnExisting
<1>2. CASE outgoing.task = "closed"
  <2>1. UNCHANGED outgoing
    BY <1>2 DEF SendOnExisting
  <2>2. SocketTypeOK'
    BY <1>0, <1>1, <2>1 DEF SocketTypeOK
  <2>3. \A d \in Link : \A k \in 1..6 : Places(d)'[k] \subseteq Places(d)[k]
    BY <1>1, <2>1, PlacesAre, PlacesUnchanged
  <2>4. \A d \in Link : Ordered(Places(d))' /\ InTransit(d)' \subseteq InTransit(d)
    BY <2>3, MessagesLost
  <2>5. TransitSound'
    BY <1>1, <2>1, <2>4 DEF SocketInv, TransitSound, Increasing, InboxIncreasing
  <2>6. SentSound'
    BY <1>0, <1>1, <2>1, <2>2, <2>4, SentOneMore DEF SocketInv, SentSound
  <2> QED
    BY <1>1, <2>2, <2>4, <2>5, <2>6 DEF SocketInv, Sends
<1>3. CASE outgoing.task # "closed"
  <2>1. outgoing' = [outgoing EXCEPT !.queue = ForceSend(outgoing.queue, x)]
    BY <1>3 DEF SendOnExisting
  <2> HIDE DEF x
  <2>2. outgoing.queue \in Seq(Message)
    BY <1>0 DEF SocketTypeOK
  <2> DEFINE q == ForceSend(outgoing.queue, x)
  <2>3. q \in Seq(Message) /\ AddsNewest(outgoing.queue, x, q)
    BY <1>0, <2>2, ForceSendKeeps
  <2> HIDE DEF q
  <2>4. /\ outgoing' \in [link: 0..MaxLinks, queue: Seq(Message), sending: 0..MaxMessages, task: TaskState]
        /\ outgoing'.link = c /\ outgoing'.queue = q
        /\ outgoing'.task = outgoing.task /\ outgoing'.sending = outgoing.sending
    BY <1>0, <2>1, <2>3 DEF SocketTypeOK, TaskState, q
  <2>5. SocketTypeOK'
    BY <1>0, <1>1, <2>4 DEF SocketTypeOK, TaskState
  <2>6. \A d : Writing(d)' = Writing(d)
    BY <2>4 DEF Writing
  <2>7. Queued(c)' \subseteq Queued(c) \cup {x}
    BY <2>3, <2>4 DEF Queued, AddsNewest
  <2>8. \A d \in Link \ {c} : Queued(d)' \subseteq Queued(d)
    BY <2>4 DEF Queued
  <2>9. /\ \A d \in Link : Ordered(Places(d))'
        /\ \A d \in Link \ {c} : InTransit(d)' \subseteq InTransit(d)
        /\ c \in Link => InTransit(c)' \subseteq InTransit(c) \cup {x}
    BY <1>0, <1>1, <2>6, <2>7, <2>8, MessageArrives
  <2>10. Increasing(q)
    <3>1. \A j \in DOMAIN outgoing.queue : outgoing.queue[j] < x
      BY <1>0, <2>2, SocketAssumption DEF SocketInv, SentSound, x, Message, SocketAssumption
    <3> QED
      BY <2>3, <3>1 DEF SocketInv, TransitSound, Increasing, AddsNewest
  <2>11. TransitSound'
    BY <1>1, <2>4, <2>9, <2>10 DEF SocketInv, TransitSound, Increasing, InboxIncreasing
  <2>12. SentSound'
    <3>1. \A d \in Link : \A m \in InTransit(d)' : m <= sent \/ m = x
      BY <2>9 DEF SocketInv, SentSound
    <3>2. \A i \in DOMAIN q : q[i] <= sent \/ q[i] = x
      BY <2>3 DEF SocketInv, SentSound, AddsNewest
    <3> QED
      BY <1>0, <1>1, <2>4, <2>5, <3>1, <3>2, SentOneMore DEF SocketInv, SentSound, x
  <2> QED
    BY <1>1, <2>5, <2>9, <2>11, <2>12 DEF SocketInv, Sends, x
<1> QED
  BY <1>2, <1>3

\* A message is sent on a new connection; what was left of the old one is lost.
LEMMA SendOnNewSound ==
    ASSUME SocketInv, NEW c \in Link, SendOnNew(c)
    PROVE  SocketInv' /\ Sends
<1> DEFINE x == sent + 1
<1>0. SocketTypeOK /\ sent \in Nat /\ x \in Message /\ x \in Nat /\ x > sent
  BY SocketAssumption DEF SocketInv, SentSound, SendOnNew, Message, SocketAssumption
<1>1. UNCHANGED <<wire, reading, listening, inbox, receiver, delivered>> /\ sent' = x
  BY DEF SendOnNew
<1>2. outgoing' = [link |-> c, queue |-> <<x>>, sending |-> 0, task |-> "waiting"]
  BY DEF SendOnNew
<1>3. link' \in [Link -> {"unused", "offered", "up", "down"}]
  BY <1>0 DEF SendOnNew, SocketTypeOK
<1> HIDE DEF x
<1>4. <<x>> \in Seq(Message) /\ DOMAIN <<x>> = {1} /\ <<x>>[1] = x
  BY <1>0
<1>5. /\ outgoing' \in [link: 0..MaxLinks, queue: Seq(Message), sending: 0..MaxMessages, task: TaskState]
      /\ outgoing'.link = c /\ outgoing'.queue = <<x>> /\ outgoing'.task = "waiting"
  BY <1>2, <1>4, SocketAssumption DEF TaskState, Link, SocketAssumption
<1>6. SocketTypeOK'
  BY <1>0, <1>1, <1>3, <1>5 DEF SocketTypeOK, TaskState
<1>7. \A d : Writing(d)' = {}
  BY <1>5 DEF Writing
<1>8. Queued(c)' \subseteq Queued(c) \cup {x} /\ \A d \in Link \ {c} : Queued(d)' \subseteq Queued(d)
  BY <1>4, <1>5 DEF Queued
<1>9. /\ \A d \in Link : Ordered(Places(d))'
      /\ \A d \in Link \ {c} : InTransit(d)' \subseteq InTransit(d)
      /\ InTransit(c)' \subseteq InTransit(c) \cup {x}
  BY <1>0, <1>1, <1>7, <1>8, MessageArrives
<1>10. TransitSound'
  BY <1>1, <1>4, <1>5, <1>9 DEF SocketInv, TransitSound, Increasing, InboxIncreasing
<1>11. SentSound'
  <2>1. \A d \in Link : \A m \in InTransit(d)' : m <= sent \/ m = x
    BY <1>9 DEF SocketInv, SentSound
  <2> QED
    BY <1>0, <1>1, <1>4, <1>5, <1>6, <2>1, SentOneMore DEF x
<1> QED
  BY <1>1, <1>6, <1>9, <1>10, <1>11 DEF SocketInv, Sends, x

\* A message is lost when no connection can be opened.
LEMMA SendWithoutConnectionSound ==
    ASSUME SocketInv, SendWithoutConnection
    PROVE  SocketInv' /\ Sends
<1>1. /\ UNCHANGED <<outgoing, link, wire, reading, listening, inbox, receiver, delivered>>
      /\ sent' = sent + 1
  BY DEF SendWithoutConnection
<1>2. SocketTypeOK'
  BY <1>1 DEF SocketInv, SocketTypeOK
<1>3. \A d \in Link : \A k \in 1..6 : Places(d)'[k] \subseteq Places(d)[k]
  BY <1>1, PlacesAre, PlacesUnchanged
<1>4. \A d \in Link : Ordered(Places(d))' /\ InTransit(d)' \subseteq InTransit(d)
  BY <1>3, MessagesLost
<1>5. TransitSound'
  BY <1>1, <1>4 DEF SocketInv, TransitSound, Increasing, InboxIncreasing
<1>6. SentSound'
  BY <1>1, <1>2, <1>4, SentOneMore DEF SocketInv, SentSound
<1> QED
  BY <1>1, <1>2, <1>4, <1>5, <1>6 DEF SocketInv, Sends

\* What a message that recv returns does to the channel.
Receives ==
    \E c \in Link : \E m \in InTransit(c) :
        /\ delivered' = Append(delivered, [link |-> c, message |-> m])
        /\ \A x \in InTransit(c)' : x \in InTransit(c) /\ x > m
        /\ \A d \in Link \ {c} : InTransit(d)' \subseteq InTransit(d)
        /\ UNCHANGED sent

\* recv returns the message in hand, older than all others of its connection,
\* or drops it when it is too old.
LEMMA ReturnMessageSound ==
    ASSUME SocketInv, NEW expired \in BOOLEAN, ReturnMessage(expired)
    PROVE  SocketInv' /\ (Quiet \/ Receives)
<1>0. SocketTypeOK
  BY DEF SocketInv
<1>1. UNCHANGED <<outgoing, link, wire, reading, listening, inbox, sent>>
  BY DEF ReturnMessage
<1>2. /\ receiver' \in [socket: {"open", "dropped"}, holding: Envelope \cup {NoEnvelope}]
      /\ receiver'.holding = NoEnvelope /\ receiver.holding \in Envelope
  BY <1>0 DEF ReturnMessage, SocketTypeOK
<1>3. PICK c \in Link, m \in Message : receiver.holding = [link |-> c, message |-> m]
  BY <1>2 DEF Envelope
<1>4. SocketTypeOK'
  BY <1>0, <1>1, <1>2 DEF SocketTypeOK
<1>5. \A d : Held(d)' = {}
  <2>1. NoEnvelope.message \notin Message
    BY SocketAssumption DEF NoEnvelope, Message, SocketAssumption
  <2> QED
    BY <1>2, <2>1 DEF Held
<1>6. \A d \in Link : \A k \in 1..6 : Places(d)'[k] \subseteq Places(d)[k]
  BY <1>1, <1>5, PlacesAre, PlacesUnchanged
<1>7. \A d \in Link : Ordered(Places(d))' /\ InTransit(d)' \subseteq InTransit(d)
  BY <1>6, MessagesLost
<1>8. TransitSound'
  BY <1>1, <1>7 DEF SocketInv, TransitSound, Increasing, InboxIncreasing
<1>9. SentSound'
  BY <1>1, <1>7 DEF SocketInv, SentSound
<1>10. CASE UNCHANGED delivered
  BY <1>1, <1>4, <1>7, <1>8, <1>9, <1>10 DEF SocketInv, Quiet
<1>11. CASE delivered' = Append(delivered, receiver.holding)
  <2>1. m \in Places(c)[1] /\ Places(c)'[1] = {}
    <3>1. receiver.holding.link = c /\ receiver.holding.message = m
      BY <1>3
    <3>2. m \in Held(c) /\ Held(c)' = {}
      BY <1>5, <3>1 DEF Held
    <3> QED
      BY <3>2, PlacesAre
  <2>2. m \in InTransit(c)
    BY <2>1 DEF InTransit
  <2>3. ASSUME NEW x \in InTransit(c)' PROVE x \in InTransit(c) /\ x > m
    <3>1. PICK k \in 1..6 : x \in Places(c)'[k]
      BY <2>3 DEF InTransit
    <3>2. k \in 1..6 /\ 1 < k /\ x \in Places(c)[k]
      BY <1>6, <2>1, <3>1
    <3>3. m < x
      BY <2>1, <3>2 DEF SocketInv, TransitSound, Ordered
    <3>4. x \in Message
      BY <2>3, MessagesInTransit
    <3> QED
      BY <1>7, <2>3, <3>3, <3>4, SocketAssumption DEF Message, SocketAssumption
  <2>4. Receives
    BY <1>1, <1>3, <1>7, <1>11, <2>2, <2>3 DEF Receives
  <2> QED
    BY <1>4, <1>8, <1>9, <2>4 DEF SocketInv
<1> QED
  BY <1>10, <1>11 DEF ReturnMessage

-----------------------------------------------------------------------------
(* GossipSocket: the theorems *)

\* Every step keeps the invariant, and is one of the four kinds.
LEMMA SocketStep ==
    ASSUME SocketInv, SocketNext
    PROVE  SocketInv' /\ (Quiet \/ Sends \/ Receives)
<1>1. CASE SendOnExisting \/ SendWithoutConnection
  BY <1>1, SendOnExistingSound, SendWithoutConnectionSound
<1>2. CASE TakeMessage \/ WriteMessage \/ PopMessage
  BY <1>2, TakeMessageSound, WriteMessageSound, PopMessageSound
<1>3. CASE FinishMessage \/ SendFails \/ TaskFinishes \/ CreateListener \/ StopListening
           \/ RecvFails \/ DropSocket
  BY <1>3, LossySteps
<1>4. ASSUME NEW expired \in BOOLEAN, ReturnMessage(expired)
      PROVE  SocketInv' /\ (Quiet \/ Sends \/ Receives)
  BY <1>4, ReturnMessageSound
<1>5. ASSUME NEW c \in Link, SendOnNew(c) \/ LoseConnection(c) \/ AcceptConnection(c)
                             \/ HandlerStep(c) \/ ReadFails(c)
      PROVE  SocketInv' /\ (Quiet \/ Sends \/ Receives)
  <2>1. CASE SendOnNew(c)
    BY <2>1, SendOnNewSound
  <2>2. CASE LoseConnection(c) \/ AcceptConnection(c) \/ ReadFails(c)
    BY <2>2, LossySteps
  <2>3. CASE AcceptMessage(c)
    BY <2>3, AcceptMessageSound
  <2>4. CASE EnqueueMessage(c)
    BY <2>4, EnqueueMessageSound
  <2> QED
    BY <1>5, <2>1, <2>2, <2>3, <2>4 DEF HandlerStep
<1> QED
  BY <1>1, <1>2, <1>3, <1>4, <1>5 DEF SocketNext, SenderStep, RecvStep

\* At first nothing is on its way.
LEMMA SocketStart ==
    ASSUME SocketInit
    PROVE  SocketInv /\ \A c \in Link : InTransit(c) = {}
<1> USE SocketAssumption DEF SocketAssumption
<1>1. SocketTypeOK
  BY DEF SocketInit, SocketTypeOK
<1>2. ASSUME NEW c \in Link PROVE \A k \in 1..6 : Places(c)[k] = {}
  <2>1. Held(c) = {}
    BY DEF SocketInit, Held, NoEnvelope, Message
  <2>2. Waiting(c) = {} /\ Read(c) = {} /\ OnWire(c) = {}
    BY DEF SocketInit, Waiting, Read, OnWire, Message
  <2>3. Writing(c) = {} /\ Queued(c) = {}
    BY DEF SocketInit, Writing, Queued
  <2> QED
    BY <2>1, <2>2, <2>3, PlacesAre
<1>3. \A c \in Link : InTransit(c) = {}
  BY <1>2 DEF InTransit
<1>4. TransitSound
  BY <1>2 DEF TransitSound, Ordered, Increasing, InboxIncreasing, SocketInit
<1>5. SentSound
  BY <1>3 DEF SentSound, SocketInit
<1> QED
  BY <1>1, <1>3, <1>4, <1>5 DEF SocketInv

\* Messages stay in the order of the send calls, from one place to the next.
THEOREM SocketInvariant == SocketSpec => []SocketInv
<1>1. SocketInit => SocketInv
  BY SocketStart
<1>2. SocketInv /\ [SocketNext]_socketVars => SocketInv'
  <2> SUFFICES ASSUME SocketInv, [SocketNext]_socketVars PROVE SocketInv'
    OBVIOUS
  <2>1. CASE SocketNext
    BY <2>1, SocketStep
  <2>2. CASE UNCHANGED socketVars
    <3>1. SocketTypeOK'
      BY <2>2 DEF SocketInv, SocketTypeOK, socketVars
    <3>2. \A d \in Link : \A k \in 1..6 : Places(d)'[k] \subseteq Places(d)[k]
      BY <2>2, PlacesAre, PlacesUnchanged DEF socketVars
    <3>3. \A d \in Link : Ordered(Places(d))' /\ InTransit(d)' \subseteq InTransit(d)
      BY <3>2, MessagesLost
    <3>4. TransitSound' /\ SentSound'
      BY <2>2, <3>3 DEF SocketInv, TransitSound, SentSound, Increasing, InboxIncreasing, socketVars
    <3> QED
      BY <3>1, <3>4 DEF SocketInv
  <2> QED
    BY <2>1, <2>2
<1> QED
  BY <1>1, <1>2, PTL DEF SocketSpec

\* The socket implements the lossy channel: whatever the capacity of the queues
\* and however connections, tasks and the receiver fail, no message is received
\* twice, none is made up, and those of a connection come in the order of send.
THEOREM SocketIsLossyChannel == SocketSpec => ImplementsLossyChannel
<1>1. SocketInit => Channel!ChannelInit
  BY SocketStart DEF Channel!ChannelInit, SocketInit
<1>2. SocketInv /\ [SocketNext]_socketVars => [Channel!ChannelNext]_(Channel!channelVars)
  <2> SUFFICES ASSUME SocketInv, [SocketNext]_socketVars
               PROVE  Channel!ChannelNext \/ UNCHANGED Channel!channelVars
    OBVIOUS
  <2>1. CASE SocketNext
    <3>1. CASE Quiet
      BY <3>1 DEF Quiet, Channel!ChannelNext, Channel!Lose, Channel!MayLose
    <3>2. CASE Sends
      BY <3>2 DEF Sends, Channel!ChannelNext, Channel!Send, Channel!MayLose
    <3>3. CASE Receives
      BY <3>3 DEF Receives, Channel!ChannelNext, Channel!ReceiveFrom, Channel!MayLose
    <3> QED
      BY <2>1, <3>1, <3>2, <3>3, SocketStep
  <2>2. CASE UNCHANGED socketVars
    <3>1. \A c \in Link : Places(c)' = Places(c)
      BY <2>2 DEF socketVars, Places, Held, Waiting, Read, OnWire, Writing, Queued
    <3>2. \A c \in Link : InTransit(c)' = InTransit(c)
      BY <3>1 DEF InTransit
    <3> QED
      BY <2>2, <3>2 DEF socketVars, Channel!channelVars
  <2> QED
    BY <2>1, <2>2
<1> QED
  BY <1>1, <1>2, SocketInvariant, PTL DEF SocketSpec, ImplementsLossyChannel, Channel!ChannelSpec

-----------------------------------------------------------------------------
(* QuicListener *)

\* Nobody sleeps in accept on a queue with something in it, whoever stops the
\* listener sleeps only while it is being shut down, and the queue holds what
\* has arrived and was not handed out.
QuicListenerInv ==
    /\ QuicListenerTypeOK
    /\ accepted \in Seq(1..MaxConnections)
    /\ arrived \in Seq(1..MaxConnections)
    /\ AcceptorsAwake
    /\ ConnectionsConserved

\* A queue loses its head to the sequence of what was handed out.
LEMMA HandOutHead ==
    ASSUME NEW S, NEW a \in Seq(S), NEW q \in Seq(S), q # <<>>
    PROVE  Append(a, Head(q)) \o Tail(q) = a \o q
OBVIOUS

\* What is appended to a queue is appended to the whole.
LEMMA QueueLast ==
    ASSUME NEW S, NEW a \in Seq(S), NEW q \in Seq(S), NEW c \in S
    PROVE  a \o Append(q, c) = Append(a \o q, c)
OBVIOUS

\* The invariant of the listener holds in every reachable state.
THEOREM QuicListenerInvariant == QuicListenerSpec => []QuicListenerInv
<1> USE ListenerAssumption
<1>1. QuicListenerInit => QuicListenerInv
  BY DEF QuicListenerInit, QuicListenerInv, QuicListenerTypeOK, AcceptorsAwake, ConnectionsConserved
<1>2. QuicListenerInv /\ [QuicListenerNext]_quicListenerVars => QuicListenerInv'
  <2> SUFFICES ASSUME QuicListenerInv, [QuicListenerNext]_quicListenerVars
               PROVE  QuicListenerInv'
    OBVIOUS
  <2> USE DEF QuicListenerInv, QuicListenerTypeOK, AcceptorsAwake, ConnectionsConserved
  <2>1. CASE StartListener
    BY <2>1 DEF StartListener
  <2>2. ASSUME NEW t \in Acceptor, CallAccept(t) PROVE QuicListenerInv'
    BY <2>2 DEF CallAccept
  <2>3. ASSUME NEW t \in Acceptor, PollAccept(t) PROVE QuicListenerInv'
    <3>1. CASE new_connections # <<>>
      <4>1. /\ accepting' \in [Acceptor -> {"idle", "polling", "waiting", "failed"}]
            /\ \A u \in Acceptor : accepting'[u] = "waiting" => accepting[u] = "waiting"
            /\ new_connections' = Tail(new_connections)
            /\ accepted' = Append(accepted, Head(new_connections))
            /\ UNCHANGED <<listener, stopping, arrived>>
        BY <2>3, <3>1 DEF PollAccept
      <4>2. new_connections' \in Seq(1..MaxConnections) /\ accepted' \in Seq(1..MaxConnections)
        BY <3>1, <4>1, SMTT(30)
      <4>3. ConnectionsConserved'
        <5>1. Append(accepted, Head(new_connections)) \o Tail(new_connections)
                = accepted \o new_connections
          BY <3>1, HandOutHead, Zenon
        <5> QED
          BY <4>1, <5>1, Zenon
      <4> QED
        BY <3>1, <4>1, <4>2, <4>3
    <3>2. CASE new_connections = <<>>
      BY <2>3, <3>2 DEF PollAccept
    <3> QED
      BY <3>1, <3>2
  <2>4. CASE CallStop
    BY <2>4 DEF CallStop
  <2>5. CASE PollStop
    BY <2>5 DEF PollStop
  <2>6. CASE StopCalled
    BY <2>6 DEF StopCalled
  <2>7. ASSUME NEW c \in 1..MaxConnections, HandleNewConnection(c) PROVE QuicListenerInv'
    <3>1. /\ arrived' = Append(arrived, c) /\ new_connections' = Append(new_connections, c)
          /\ accepting' = WakeAcceptors /\ UNCHANGED <<listener, stopping, accepted>>
      BY <2>7 DEF HandleNewConnection
    <3>2. ConnectionsConserved'
      <4>1. accepted \o Append(new_connections, c) = Append(accepted \o new_connections, c)
        <5>1. accepted \in Seq(1..MaxConnections) /\ new_connections \in Seq(1..MaxConnections)
          OBVIOUS
        <5> QED
          BY ONLY <5>1, c \in 1..MaxConnections, QueueLast
      <4> QED
        BY <3>1, <4>1, Zenon
    <3>3. /\ accepting' \in [Acceptor -> {"idle", "polling", "waiting", "failed"}]
          /\ \A u \in Acceptor : accepting'[u] # "waiting"
      BY <3>1 DEF WakeAcceptors
    <3> QED
      BY <3>1, <3>2, <3>3
  <2>8. CASE HandleStopComplete
    <3>1. /\ accepting' \in [Acceptor -> {"idle", "polling", "waiting", "failed"}]
          /\ \A u \in Acceptor : accepting'[u] # "waiting"
      BY <2>8 DEF HandleStopComplete, WakeAcceptors
    <3> QED
      BY <2>8, <3>1 DEF HandleStopComplete
  <2>9. CASE UNCHANGED quicListenerVars
    BY <2>9 DEF quicListenerVars
  <2> QED
    BY <2>1, <2>2, <2>3, <2>4, <2>5, <2>6, <2>7, <2>8, <2>9 DEF QuicListenerNext
<1> QED
  BY <1>1, <1>2, PTL DEF QuicListenerSpec

\* No accept call sleeps while there is a connection for it, or on a listener
\* that has stopped (handle_event_new_connection, handle_event_stop_complete).
THEOREM AcceptorsStayAwake == QuicListenerSpec => []AcceptorsAwake
<1>1. QuicListenerInv => AcceptorsAwake
  BY DEF QuicListenerInv
<1> QED
  BY <1>1, QuicListenerInvariant, PTL

\* Every connection is handed out once, in order, over any number of starts and
\* stops of the listener (poll_accept).
THEOREM NoConnectionIsLost == QuicListenerSpec => []ConnectionsConserved
<1>1. QuicListenerInv => ConnectionsConserved
  BY DEF QuicListenerInv
<1> QED
  BY <1>1, QuicListenerInvariant, PTL

-----------------------------------------------------------------------------
(* LiteServer *)

\* A client that waits for the acceptor is in its queue once, and was sent
\* nothing yet; a session that was sent something is one block behind what it
\* receives next, or two while it holds a block that is not sent yet.
WaitingSound ==
    /\ \A i \in 1..Len(session_recv) : task[session_recv[i]] = "requested"
    /\ \A i, j \in 1..Len(session_recv) : session_recv[i] = session_recv[j] => i = j

SessionSound(c) ==
    /\ task[c] \in {"away", "requested", "accepting"} => last_sent[c] = 0
    /\ last_sent[c] # 0 /\ task[c] = "streaming" => last_sent[c] = next_block[c] - 1
    /\ last_sent[c] # 0 /\ task[c] = "sending" => last_sent[c] = next_block[c] - 2
    /\ task[c] = "sending" => next_block[c] > 1

LiteInv ==
    /\ LiteTypeOK
    /\ last_sent \in [Client -> Nat]
    /\ acceptor.at = "handing" => acceptor.client \in Client
    /\ WaitingSound
    /\ \A c \in Client : SessionSound(c)

\* Nothing but a new, distinct client joins the queue of the acceptor.
LEMMA RequestQueued ==
    ASSUME LiteInv, NEW c \in Client, AcceptRequest(c)
    PROVE  WaitingSound'
<1>1. /\ session_recv \in Seq(Client) /\ task[c] = "away"
      /\ task \in [Subscriber -> {"away", "requested", "accepting", "streaming", "sending", "failed"}]
      /\ task' = [task EXCEPT ![c] = "requested"]
      /\ c \in Subscriber
  BY LiteAssumption DEF AcceptRequest, LiteInv, LiteTypeOK, Subscriber, Client
<1>2. \A i \in 1..Len(session_recv) :
         task[session_recv[i]] = "requested" /\ session_recv[i] \in Subscriber /\ session_recv[i] # c
  BY <1>1 DEF LiteInv, WaitingSound, Subscriber
<1>3. CASE session_recv' = session_recv
  BY <1>1, <1>2, <1>3 DEF LiteInv, WaitingSound
<1>4. CASE session_recv' = Append(session_recv, c)
  <2>1. /\ Len(session_recv') = Len(session_recv) + 1 /\ Len(session_recv) \in Nat
        /\ \A i \in 1..Len(session_recv) : session_recv'[i] = session_recv[i]
        /\ session_recv'[Len(session_recv) + 1] = c
    BY <1>1, <1>4
  <2>2. \A i \in 1..Len(session_recv') : i \in 1..Len(session_recv) \/ i = Len(session_recv) + 1
    BY <2>1
  <2>3. \A i \in 1..Len(session_recv') : task'[session_recv'[i]] = "requested"
    BY <1>1, <1>2, <2>1, <2>2
  <2>4. \A i, j \in 1..Len(session_recv') : session_recv'[i] = session_recv'[j] => i = j
    BY <1>2, <2>1, <2>2 DEF LiteInv, WaitingSound
  <2> QED
    BY <2>3, <2>4 DEF WaitingSound
<1> QED
  BY <1>3, <1>4 DEF AcceptRequest

\* The client at the head of the queue leaves it for good.
LEMMA RequestTaken ==
    ASSUME LiteInv, SpawnSession
    PROVE  /\ Head(session_recv) \in Client /\ task[Head(session_recv)] = "requested"
           /\ session_recv' \in Seq(Client)
           /\ WaitingSound'
<1>1. /\ session_recv \in Seq(Client) /\ session_recv # <<>> /\ session_recv' = Tail(session_recv)
      /\ task' = [task EXCEPT ![Head(session_recv)] = "accepting"]
      /\ task \in [Subscriber -> {"away", "requested", "accepting", "streaming", "sending", "failed"}]
  BY DEF SpawnSession, LiteInv, LiteTypeOK
<1>2. /\ Head(session_recv) = session_recv[1] /\ session_recv' \in Seq(Client)
      /\ 1 \in 1..Len(session_recv)
      /\ Len(session_recv') = Len(session_recv) - 1 /\ Len(session_recv) \in Nat
      /\ \A i \in 1..Len(session_recv') :
            session_recv'[i] = session_recv[i + 1] /\ i + 1 \in 1..Len(session_recv)
  BY <1>1
<1>3. \A i \in 1..Len(session_recv') :
         /\ task[session_recv'[i]] = "requested"
         /\ session_recv'[i] \in Subscriber
         /\ session_recv'[i] # Head(session_recv)
  <2>1. /\ \A i \in 1..Len(session_recv) : task[session_recv[i]] = "requested"
        /\ \A i, j \in 1..Len(session_recv) : session_recv[i] = session_recv[j] => i = j
    BY DEF LiteInv, WaitingSound
  <2>2. \A i \in 1..Len(session_recv) : session_recv[i] \in Subscriber
    BY ONLY <1>1 DEF Subscriber
  <2> TAKE i \in 1..Len(session_recv')
  <2>3. i + 1 # 1 /\ i + 1 \in 1..Len(session_recv) /\ session_recv'[i] = session_recv[i + 1]
    BY ONLY <1>2, i \in 1..Len(session_recv')
  <2>4. session_recv[i + 1] # session_recv[1]
    BY ONLY <1>2, <2>1, <2>3
  <2> QED
    BY ONLY <1>2, <2>1, <2>2, <2>3, <2>4
<1>4. \A i \in 1..Len(session_recv') : task'[session_recv'[i]] = "requested"
  BY <1>1, <1>3
<1>5. \A i, j \in 1..Len(session_recv') : session_recv'[i] = session_recv'[j] => i = j
  <2> TAKE i, j \in 1..Len(session_recv')
  <2>1. session_recv'[i] = session_recv'[j] => i + 1 = j + 1
    <3>1. i + 1 \in 1..Len(session_recv) /\ j + 1 \in 1..Len(session_recv)
      BY <1>2
    <3>2. \A k, l \in 1..Len(session_recv) : session_recv[k] = session_recv[l] => k = l
      BY DEF LiteInv, WaitingSound
    <3>3. session_recv'[i] = session_recv[i + 1] /\ session_recv'[j] = session_recv[j + 1]
      BY <1>2
    <3> QED
      BY <3>1, <3>2, <3>3, Zenon
  <2> QED
    BY <1>2, <2>1
<1> QED
  BY <1>1, <1>2, <1>4, <1>5 DEF LiteInv, WaitingSound

\* The queue of the acceptor when none of its clients changes its state.
LEMMA WaitingKept ==
    ASSUME LiteInv, UNCHANGED session_recv \/ session_recv' = <<>>,
           \A c \in Client : task[c] = "requested" => task'[c] = "requested"
    PROVE  WaitingSound'
<1>1. session_recv \in Seq(Client)
  BY DEF LiteInv, LiteTypeOK
<1>2. \A i \in 1..Len(session_recv) : session_recv[i] \in Client
  BY <1>1
<1> QED
  BY <1>2 DEF LiteInv, WaitingSound

\* The types are kept by every step of the server.
LEMMA LiteTypesKept ==
    ASSUME LiteInv, [LiteNext]_liteVars
    PROVE  LiteTypeOK' /\ last_sent' \in [Client -> Nat]
           /\ (acceptor'.at = "handing" => acceptor'.client \in Client)
<1> USE LiteAssumption DEF LiteInv, LiteTypeOK
<1>0. /\ Client \subseteq Nat /\ Client \subseteq Subscriber /\ Logger \in Subscriber
      /\ NoClient \notin Client
  BY DEF Client, Subscriber, NoClient, Logger
<1>1. CASE ServerFails
  BY <1>1 DEF ServerFails
<1>2. CASE SpawnSession
  <2>1. Head(session_recv) \in Client /\ session_recv' \in Seq(Client)
    BY <1>2, RequestTaken
  <2>2. acceptor' = [at |-> "handing", client |-> Head(session_recv)] /\ held' \in BOOLEAN
    BY <1>2 DEF SpawnSession
  <2>3. /\ task' \in [Subscriber -> {"away", "requested", "accepting", "streaming", "sending", "failed"}]
        /\ UNCHANGED <<running, joins, pool, next_block, feed, last_sent>>
    BY <1>2 DEF SpawnSession
  <2>4. /\ acceptor' \in [at: {"receiving", "handing", "ended"}, client: Client \cup {NoClient}]
        /\ acceptor'.client \in Client
    BY <2>1, <2>2
  <2> QED
    BY <2>1, <2>2, <2>3, <2>4
<1>3. CASE AcceptorDisconnected
  BY <1>3 DEF AcceptorDisconnected
<1>4. CASE HandOver
  <2>1. CASE running["sessions"]
    <3>1. /\ joins' = Append(joins, acceptor.client) /\ Len(joins) < JoinCapacity
          /\ acceptor' = [at |-> "receiving", client |-> NoClient]
          /\ held' \in BOOLEAN
          /\ UNCHANGED <<session_recv, running, pool, task, next_block, feed, last_sent>>
      BY <1>4, <2>1 DEF HandOver
    <3>2. joins' \in Seq(Client) /\ Len(joins') <= JoinCapacity
      BY <1>4, <3>1 DEF HandOver
    <3> QED
      BY <3>1, <3>2
  <2>2. CASE ~running["sessions"]
    <3>1. /\ acceptor' = [acceptor EXCEPT !.at = "ended"] /\ session_recv' = <<>>
          /\ UNCHANGED <<joins, held, running, pool, task, next_block, feed, last_sent>>
      BY <1>4, <2>2 DEF HandOver
    <3>2. /\ acceptor' \in [at: {"receiving", "handing", "ended"}, client: Client \cup {NoClient}]
          /\ acceptor'.at = "ended"
      BY <3>1
    <3> QED
      BY <3>1, <3>2
  <2> QED
    BY <2>1, <2>2
<1>5. ASSUME NEW c \in Client, AcceptRequest(c)
      PROVE  LiteTypeOK' /\ last_sent' \in [Client -> Nat]
             /\ (acceptor'.at = "handing" => acceptor'.client \in Client)
  <2>1. running' \in [{"server", "sessions", "multiplexor", "start"} -> BOOLEAN]
    BY <1>5 DEF AcceptRequest
  <2>2. session_recv' \in Seq(Client)
    <3>1. session_recv' = Append(session_recv, c) \/ session_recv' = session_recv
      BY <1>5 DEF AcceptRequest
    <3>2. session_recv \in Seq(Client)
      OBVIOUS
    <3> QED
      BY ONLY <3>1, <3>2, c \in Client
  <2>3. task' \in [Subscriber -> {"away", "requested", "accepting", "streaming", "sending", "failed"}]
    BY <1>5 DEF AcceptRequest
  <2> QED
    BY <1>5, <2>1, <2>2, <2>3 DEF AcceptRequest
<1>6. ASSUME NEW c \in Client, SendBlock(c)
      PROVE  LiteTypeOK' /\ last_sent' \in [Client -> Nat]
             /\ (acceptor'.at = "handing" => acceptor'.client \in Client)
  <2>1. next_block[c] - 1 \in Nat
    BY <1>0
  <2> QED
    BY <1>0, <1>6, <2>1, SMTT(30) DEF SendBlock
<1>7. ASSUME NEW s \in Subscriber, Subscribe(s)
      PROVE  LiteTypeOK' /\ last_sent' \in [Client -> Nat]
             /\ (acceptor'.at = "handing" => acceptor'.client \in Client)
  <2>1. feed + 1 \in 1..(MaxBlocks + 1)
    OBVIOUS
  <2>2. /\ next_block' = [next_block EXCEPT ![s] = feed + 1] \/ UNCHANGED next_block
        /\ UNCHANGED <<running, session_recv, acceptor, joins, pool, held, feed, last_sent>>
    BY <1>7 DEF Subscribe
  <2>4. next_block' \in [Subscriber -> 1..(MaxBlocks + 1)]
    BY <2>1, <2>2
  <2>3. task' \in [Subscriber -> {"away", "requested", "accepting", "streaming", "sending", "failed"}]
    BY <1>7 DEF Subscribe
  <2> QED
    BY <2>2, <2>3, <2>4
<1>8. ASSUME NEW s \in Subscriber, Receive(s)
      PROVE  LiteTypeOK' /\ last_sent' \in [Client -> Nat]
             /\ (acceptor'.at = "handing" => acceptor'.client \in Client)
  <2>1. next_block[s] + 1 \in 1..(MaxBlocks + 1)
    BY <1>8 DEF Receive
  <2> QED
    BY <1>8, <2>1, ZenonT(60) DEF Receive
<1>9. CASE Multiplex
  <2>1. running' \in [{"server", "sessions", "multiplexor", "start"} -> BOOLEAN]
    BY <1>9 DEF Multiplex
  <2>2. feed' \in 0..MaxBlocks
    BY <1>9 DEF Multiplex
  <2> QED
    BY <1>9, <2>1, <2>2 DEF Multiplex
<1>10. CASE PoolReceives
  <2>1. /\ joins # <<>> /\ joins' = Tail(joins) /\ pool' = pool \cup {Head(joins)}
        /\ UNCHANGED <<running, session_recv, acceptor, held, task, next_block, feed, last_sent>>
    BY <1>10 DEF PoolReceives
  <2>2. joins' \in Seq(Client) /\ Len(joins') <= JoinCapacity /\ Head(joins) \in Client
    BY <2>1
  <2> QED
    BY <1>0, <2>1, <2>2
<1>11. CASE PoolFails
  BY <1>11 DEF PoolFails
<1>12. CASE StartReturns
  BY <1>12 DEF StartReturns
<1>13. CASE UNCHANGED liteVars
  BY <1>13 DEF liteVars
<1> QED
  BY <1>1, <1>2, <1>3, <1>4, <1>5, <1>6, <1>7, <1>8, <1>9, <1>10, <1>11, <1>12, <1>13
     DEF LiteNext

\* Every step keeps the queue of the acceptor and the sessions sound.
LEMMA LiteSessionsKept ==
    ASSUME LiteInv, [LiteNext]_liteVars
    PROVE  WaitingSound' /\ \A c \in Client : SessionSound(c)'
<1> USE LiteAssumption
<1>0. /\ task \in [Subscriber -> {"away", "requested", "accepting", "streaming", "sending", "failed"}]
      /\ next_block \in [Subscriber -> Nat] /\ Client \subseteq Subscriber
      /\ last_sent \in [Client -> Nat] /\ feed \in Nat
      /\ \A c \in Client : SessionSound(c)
      /\ \A s \in Subscriber : next_block[s] > 0
  BY DEF LiteInv, LiteTypeOK, Subscriber
<1>1. CASE /\ UNCHANGED <<task, next_block, last_sent>>
           /\ UNCHANGED session_recv \/ session_recv' = <<>>
  <2>1. WaitingSound'
    BY <1>1, WaitingKept
  <2> QED
    BY <1>0, <1>1, <2>1 DEF SessionSound
<1>2. CASE SpawnSession
  <2>1. /\ Head(session_recv) \in Client /\ task[Head(session_recv)] = "requested" /\ WaitingSound'
    BY <1>2, RequestTaken
  <2>2. /\ task' = [task EXCEPT ![Head(session_recv)] = "accepting"]
        /\ UNCHANGED <<next_block, last_sent>>
    BY <1>2 DEF SpawnSession
  <2> QED
    BY <1>0, <2>1, <2>2 DEF SessionSound
<1>5. ASSUME NEW c \in Client, AcceptRequest(c)
      PROVE  WaitingSound' /\ \A d \in Client : SessionSound(d)'
  <2>1. task[c] = "away" /\ task' = [task EXCEPT ![c] = "requested"]
        /\ UNCHANGED <<next_block, last_sent>>
    BY <1>5 DEF AcceptRequest, Client
  <2> QED
    BY <1>0, <1>5, <2>1, RequestQueued DEF SessionSound
<1>6. ASSUME NEW c \in Client, SendBlock(c)
      PROVE  WaitingSound' /\ \A d \in Client : SessionSound(d)'
  <2>1. /\ task[c] = "sending" /\ UNCHANGED <<session_recv, next_block>>
        /\ \/ /\ task' = [task EXCEPT ![c] = "streaming"]
              /\ last_sent' = [last_sent EXCEPT ![c] = next_block[c] - 1]
           \/ task' = [task EXCEPT ![c] = "failed"] /\ UNCHANGED last_sent
    BY <1>6 DEF SendBlock
  <2>2. WaitingSound'
    BY <1>0, <2>1, WaitingKept
  <2>3. \A d \in Client : SessionSound(d)'
    BY <1>0, <2>1 DEF SessionSound
  <2> QED
    BY <2>2, <2>3
<1>7. ASSUME NEW s \in Subscriber, Subscribe(s)
      PROVE  WaitingSound' /\ \A d \in Client : SessionSound(d)'
  <2>1. /\ task[s] = "accepting" /\ UNCHANGED <<session_recv, last_sent>>
        /\ \/ /\ task' = [task EXCEPT ![s] = "streaming"]
              /\ next_block' = [next_block EXCEPT ![s] = feed + 1]
           \/ task' = [task EXCEPT ![s] = "failed"] /\ UNCHANGED next_block
    BY <1>7 DEF Subscribe
  <2>2. WaitingSound'
    BY <1>0, <2>1, WaitingKept
  <2>3. \A d \in Client : SessionSound(d)'
    BY <1>0, <2>1 DEF SessionSound
  <2> QED
    BY <2>2, <2>3
<1>8. ASSUME NEW s \in Subscriber, Receive(s)
      PROVE  WaitingSound' /\ \A d \in Client : SessionSound(d)'
  <2>1. /\ task[s] = "streaming" /\ UNCHANGED <<session_recv, last_sent>>
        /\ \/ task' = [task EXCEPT ![s] = "failed"] /\ UNCHANGED next_block
           \/ /\ task' = [task EXCEPT ![s] = IF s = Logger THEN "streaming" ELSE "sending"]
              /\ next_block' = [next_block EXCEPT ![s] = next_block[s] + 1]
    BY <1>8 DEF Receive
  <2>2. WaitingSound'
    BY <1>0, <2>1, WaitingKept
  <2>3. Logger \notin Client
    BY DEF Logger, Client
  <2>4. \A d \in Client : SessionSound(d)'
    BY <1>0, <2>1, <2>3 DEF SessionSound
  <2> QED
    BY <2>2, <2>4
<1> QED
  BY <1>1, <1>2, <1>5, <1>6, <1>7, <1>8
     DEF LiteNext, ServerFails, AcceptorDisconnected, HandOver, Multiplex, PoolReceives, PoolFails,
         StartReturns, liteVars

\* The invariant of the block server holds in every reachable state.
THEOREM LiteInvariant == LiteSpec => []LiteInv
<1>1. LiteInit => LiteInv
  <2> SUFFICES ASSUME LiteInit PROVE LiteInv
    OBVIOUS
  <2> USE LiteAssumption
  <2>1. LiteTypeOK
    <3>1. acceptor \in [at: {"receiving", "handing", "ended"}, client: Client \cup {NoClient}]
      BY DEF LiteInit
    <3>5. feed \in 0..MaxBlocks /\ Len(joins) <= JoinCapacity
      BY DEF LiteInit
    <3>6. session_recv \in Seq(Client) /\ joins \in Seq(Client)
      BY DEF LiteInit
    <3>7. held \in BOOLEAN
      BY DEF LiteInit
    <3>2. next_block \in [Subscriber -> 1..(MaxBlocks + 1)] /\ pool \subseteq Subscriber
      BY DEF LiteInit, Subscriber
    <3>3. task \in [Subscriber -> {"away", "requested", "accepting", "streaming", "sending", "failed"}]
      BY DEF LiteInit
    <3>4. running \in [{"server", "sessions", "multiplexor", "start"} -> BOOLEAN]
      BY DEF LiteInit
    <3> QED
      BY <3>1, <3>2, <3>3, <3>4, <3>5, <3>6, <3>7 DEF LiteTypeOK
  <2>2. WaitingSound /\ acceptor.at # "handing" /\ last_sent \in [Client -> Nat]
    BY DEF LiteInit, WaitingSound
  <2>3. \A c \in Client : SessionSound(c)
    BY DEF LiteInit, SessionSound, Client, Subscriber, Logger
  <2> QED
    BY <2>1, <2>2, <2>3 DEF LiteInv
<1>2. LiteInv /\ [LiteNext]_liteVars => LiteInv'
  BY LiteTypesKept, LiteSessionsKept DEF LiteInv
<1> QED
  BY <1>1, <1>2, PTL DEF LiteSpec

\* A client is sent consecutive blocks, whatever the sizes of the channels and
\* wherever its session lags (the session task of sessions_handler).
THEOREM FeedsAreContiguous == LiteSpec => ContiguousFeed
<1> DEFINE NextBlock(c) == last_sent'[c] # last_sent[c] /\ last_sent[c] # 0
                               => last_sent'[c] = last_sent[c] + 1
<1>1. LiteInv /\ [LiteNext]_liteVars => \A c \in Client : NextBlock(c)
  <2> SUFFICES ASSUME LiteInv, [LiteNext]_liteVars, NEW c \in Client,
                      last_sent'[c] # last_sent[c], last_sent[c] # 0
               PROVE  last_sent'[c] = last_sent[c] + 1
    OBVIOUS
  <2>1. last_sent' # last_sent
    OBVIOUS
  <2>2. PICK d \in Client : SendBlock(d)
    BY <2>1 DEF LiteNext, ServerFails, SpawnSession, AcceptorDisconnected, HandOver, AcceptRequest,
                Subscribe, Receive, Multiplex, PoolReceives, PoolFails, StartReturns, liteVars
  <2>3. task[d] = "sending" /\ last_sent' = [last_sent EXCEPT ![d] = next_block[d] - 1]
    BY <2>1, <2>2 DEF SendBlock
  <2>4. d = c /\ last_sent'[c] = next_block[c] - 1
    BY <2>3 DEF LiteInv
  <2>5. last_sent[c] = next_block[c] - 2 /\ next_block[c] \in Nat
    BY <2>3, <2>4 DEF LiteInv, SessionSound, LiteTypeOK, Subscriber
  <2> QED
    BY <2>4, <2>5
<1> QED
  BY <1>1, LiteInvariant, PTL DEF LiteSpec, ContiguousFeed

-----------------------------------------------------------------------------
(* The composition *)

\* Side by side, every component behaves as it does by itself.
THEOREM PartsKeepTheirSpecs ==
    Spec => WireSpec /\ PeerSpec /\ ListenerSpec /\ QuicListenerSpec /\ SocketSpec /\ LiteSpec
<1>1. Init => WireInit /\ PeerInit /\ ListenerInit /\ QuicListenerInit /\ SocketInit /\ LiteInit
  BY DEF Init
<1>2. [Next]_vars => [WireNext]_wireVars
  BY DEF Next, Idle, vars
<1>3. [Next]_vars => [PeerNext]_peerVars
  BY DEF Next, Idle, vars
<1>4. [Next]_vars => [ListenerNext]_listenerVars
  BY DEF Next, Idle, vars
<1>5. [Next]_vars => [QuicListenerNext]_quicListenerVars
  BY DEF Next, Idle, vars
<1>6. [Next]_vars => [SocketNext]_socketVars
  BY DEF Next, Idle, vars
<1>7. [Next]_vars => [LiteNext]_liteVars
  BY DEF Next, Idle, vars
<1> QED
  BY <1>1, <1>2, <1>3, <1>4, <1>5, <1>6, <1>7, PTL
     DEF Spec, WireSpec, PeerSpec, ListenerSpec, QuicListenerSpec, SocketSpec, LiteSpec

\* The variables of the parts keep their types.
THEOREM TypesAreKept == Spec => []TypesOK
<1>1. PeerTypeOK /\ QuicListenerInv /\ SocketInv /\ LiteInv => TypesOK
  BY DEF TypesOK, QuicListenerInv, SocketInv, LiteInv
<1> QED
  BY <1>1, PartsKeepTheirSpecs, PeerTypesCorrect, QuicListenerInvariant, SocketInvariant,
     LiteInvariant, PTL
=============================================================================
