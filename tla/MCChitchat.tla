----------------------------- MODULE MCChitchat -----------------------------
(* Small instances of Chitchat for TLC. *)
EXTENDS Chitchat, TLC

CONSTANTS n1, n2, n3, k1, k2

\* The keys are interchangeable; the nodes are not (only n1 writes).
KeySymmetry == Permutations({k1, k2})

\* Only the first node writes; all nodes are of one cluster.
OneCluster == [n \in Node |-> "main"]
TwoClusters == [n \in Node |-> IF n = n3 THEN "other" ELSE "main"]
TwoWrites == [n \in Node |-> IF n = n1 THEN 2 ELSE 0]
ThreeWrites == [n \in Node |-> IF n = n1 THEN 3 ELSE 0]
FourWrites == [n \in Node |-> IF n = n1 THEN 4 ELSE 0]
OneWriteEach == [n \in Node |-> 1]

\* Two datagrams are in flight up to the third write, one from the fourth on;
\* one write has a TTL, the fourth has none.
FewInFlight ==
    LET w == history[n1]
    IN  /\ Cardinality({i \in DOMAIN w : w[i].status = "DeleteAfterTtl"}) <= 1
        /\ Len(w) > 3 => Cardinality(network) <= 1 /\ w[4].status # "DeleteAfterTtl"
=============================================================================
