------------------------------ MODULE MerkleLog ------------------------------
(***************************************************************************)
(* The log as the Merkle tree sees it: a sequence of entry hashes that     *)
(* append extends.  The same payload may be appended again, so the same    *)
(* hash may occur more than once.                                          *)
(***************************************************************************)
EXTENDS Merkle

CONSTANTS
    Leaf,           \* entry hashes
    MaxLeaves       \* bound on the length of the log

ASSUME MerkleLogAssumption == MaxLeaves \in Nat

VARIABLE leaves

TreeInit == leaves = <<>>

append(h) ==
    /\ Len(leaves) < MaxLeaves
    /\ leaves' = Append(leaves, h)

TreeNext == \E h \in Leaf : append(h)

TreeSpec == TreeInit /\ [][TreeNext]_leaves

-----------------------------------------------------------------------------
\* Every entry of the log has an inclusion proof that verifies against the root,
\* whatever the length (odd levels at any height included).
ProofsComplete ==
    \A i \in DOMAIN leaves :
        verify_inclusion(inclusion_proof(leaves, i - 1), root_hash(leaves))

\* A path of the tree proves nothing but the leaf at its index: with another leaf
\* or at another index of the log it verifies only if that leaf stands there.
ProofsSound ==
    \A i, j \in DOMAIN leaves, h \in Leaf :
        verify_inclusion([leaf_hash |-> h, index |-> j - 1,
                          path |-> inclusion_proof(leaves, i - 1).path],
                         root_hash(leaves)) => leaves[j] = h

\* A proof verifies for what is in the log, and for nothing else.
ProofsExact == ProofsComplete /\ ProofsSound

\* For a given entry_count the root determines the whole history.
RootBindsHistory ==
    \A other \in [DOMAIN leaves -> Leaf] :
        root_hash(other) = root_hash(leaves) => other = leaves
==============================================================================
