------------------------------- MODULE Merkle --------------------------------
(***************************************************************************)
(* The Merkle tree over the entry hashes of the log, and its inclusion     *)
(* proofs.  The three kinds of node hash are domain-separated by a prefix  *)
(* byte, modelled by distinct constructors; each is injective.             *)
(*                                                                         *)
(* The while loops that halve a level become functions of the level number *)
(* k; a level of one node is left alone, so that Len(leaves) rounds are    *)
(* always enough.                                                          *)
(***************************************************************************)
EXTENDS Naturals, Sequences

LeafNode(leaf) == <<"leaf", leaf>>

InternalNode(left, right) == <<"node", left, right>>

EmptyRoot == <<"empty">>

\* Mutation: the right half of a pair is not hashed in.
NextLevelLeftOnly(level) ==
    IF Len(level) <= 1 THEN level
    ELSE [i \in 1 .. (Len(level) + 1) \div 2 |->
             InternalNode(level[2 * i - 1], level[2 * i - 1])]

\* One round of the loop: nodes are paired, the last one with itself if it is alone.
NextLevel(level) ==
    IF Len(level) <= 1 THEN level
    ELSE [i \in 1 .. (Len(level) + 1) \div 2 |->
             InternalNode(level[2 * i - 1],
                          IF 2 * i <= Len(level) THEN level[2 * i] ELSE level[2 * i - 1])]

Levels(leaves) ==
    LET level[k \in 0 .. Len(leaves)] ==
            IF k = 0 THEN [i \in DOMAIN leaves |-> LeafNode(leaves[i])]
            ELSE NextLevel(level[k - 1])
    IN  level

\* The number of rounds until one node is left.
Depth(leaves) ==
    CHOOSE k \in 0 .. Len(leaves) :
        /\ Len(Levels(leaves)[k]) = 1
        /\ \A j \in 0 .. k - 1 : Len(Levels(leaves)[j]) > 1

root_hash(leaves) ==
    IF leaves = <<>> THEN EmptyRoot ELSE Levels(leaves)[Len(leaves)][1]

\* The sibling of the node at position idx (from 0) of a level.
Sibling(level, idx) ==
    IF idx % 2 = 0
    THEN IF idx + 1 < Len(level) THEN level[idx + 2] ELSE level[idx + 1]
    ELSE level[idx]

\* The loops' idx: the position (from 0) in each level of what stands above a leaf.
Position(index, rounds) ==
    LET idx[k \in 0 .. rounds] == IF k = 0 THEN index ELSE idx[k - 1] \div 2
    IN  idx

inclusion_proof(leaves, index) ==
    [ leaf_hash |-> leaves[index + 1],
      index     |-> index,
      path      |-> [k \in 1 .. Depth(leaves) |->
                        Sibling(Levels(leaves)[k - 1], Position(index, Depth(leaves))[k - 1])] ]

\* Mutation: the order of a pair is not taken from the index.
ClimbUnordered(proof, k, below, sibling) == InternalNode(below, sibling)

\* What round k of verify_inclusion computes from the node below and the sibling.
Climb(proof, k, below, sibling) ==
    IF Position(proof.index, Len(proof.path))[k - 1] % 2 = 0
    THEN InternalNode(below, sibling)
    ELSE InternalNode(sibling, below)

\* The loop's current, after each round.
Climbed(proof) ==
    LET current[k \in 0 .. Len(proof.path)] ==
            IF k = 0 THEN LeafNode(proof.leaf_hash)
            ELSE Climb(proof, k, current[k - 1], proof.path[k])
    IN  current

verify_inclusion(proof, root) == Climbed(proof)[Len(proof.path)] = root
==============================================================================
