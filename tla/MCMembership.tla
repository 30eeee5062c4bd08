---------------------------- MODULE MCMembership ----------------------------
(* Small instances of Membership for TLC. *)
EXTENDS Membership, TLC

CONSTANTS o1, o2, o3

ObserverSymmetry == Permutations({o1, o2, o3} \cap Observer)

\* SYN, SYN-ACK and ACK messages, with what they may say of the subject.
Digests == [digest: {TRUE}, delta: {"none"}]
AllContents ==
    Digests \cup [digest: {TRUE}, delta: {"update", "reset"}]
            \cup [digest: {FALSE}, delta: {"update", "reset"}]
=============================================================================
