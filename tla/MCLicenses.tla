----------------------------- MODULE MCLicenses -----------------------------
(* Small instances of Licenses for TLC. *)
EXTENDS Licenses, TLC

CONSTANTS a, b, l1, l2, p1

\* All licenses are of one owner; the provider confirms everything.
OneOwner == [l \in License |-> "owner"]
Everything == License \X Provider \X Node

NodeSymmetry == Permutations(Node)
=============================================================================
