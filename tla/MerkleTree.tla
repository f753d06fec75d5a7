----------------------------- MODULE MerkleTree -----------------------------
(***************************************************************************)
(* The life of one MerkleTree value (merkle.go): leaves are added one by   *)
(* one, and Root and provePath may be asked after any of them.  leaves is  *)
(* the history of the arguments of Add, which the code does not keep.      *)
(***************************************************************************)
EXTENDS Merkle

CONSTANTS Leaves,      \* the digests that may be added
          MaxLeaves    \* bound on the leaves of one tree

ASSUME MaxLeavesAssumption == MaxLeaves \in Nat

VARIABLES tree, leaves

vars == <<tree, leaves>>

Init == tree = EmptyTree /\ leaves = <<>>

AddLeaf(leaf) == /\ Len(leaves) < MaxLeaves
                 /\ tree' = Add(tree, leaf)
                 /\ leaves' = Append(leaves, leaf)

Next == \E leaf \in Leaves : AddLeaf(leaf)

Spec == Init /\ [][Next]_vars

-----------------------------------------------------------------------------
(***************************************************************************)
(* The reference tree (spec/RECONCILIATION.md #11, merkle.go:22-30): split *)
(* the leaves at the largest power of two below their number.              *)
(***************************************************************************)
\* 2^d
Pow2(d) == FoldLeft(LAMBDA p, i : 2 * p, 1, [i \in 1..d |-> i])

SplitPoint(n) == CHOOSE k \in 1..(n - 1) :
                   /\ \E d \in 0..n : k = Pow2(d)
                   /\ 2 * k >= n

\* root[n][i] is that of the n leaves from position i on.
SplitRoot(s) ==
  LET root[n \in 1..Len(s)] ==
        [i \in 1..(Len(s) - n + 1) |->
           IF n = 1 THEN s[i]
           ELSE LET k == SplitPoint(n)
                IN  nodeDigest(root[k][i], root[n - k][i + k])]
  IN  IF s = <<>> THEN EmptyRoot ELSE root[Len(s)][1]

\* The incremental stack of Add, finalised by Root, computes the root of the
\* recursively split tree for every number of leaves, powers of two or not:
\* the promotion of a lone trailing subtree adds no hash (merkle.go:36-67).
RootIsSplitRoot == Root(tree) = SplitRoot(leaves)

\* provePath (proof.go:80-124) replays the promotions exactly: the path it
\* returns for a leaf leads from that leaf to the root of the tree.  It has at
\* most ceil(log2 n) steps: the depth that makes maxProofSteps (proof.go:131)
\* unreachable for a real tree.
ShortFor(n, path) == \E d \in 0..n : /\ Pow2(d) >= n
                                     /\ (d = 0 \/ Pow2(d - 1) < n)
                                     /\ Len(path) <= d

PathsReachRoot ==
  \A i \in DOMAIN leaves :
    /\ FoldPath(leaves[i], provePath(leaves, i)) = Root(tree)
    /\ ShortFor(Len(leaves), provePath(leaves, i))

\* A root commits to the whole sequence of leaves: dropping, repeating or
\* reordering leaves gives another root, which promoting a lone subtree keeps
\* true where duplicating it would not.
RootBindsLeaves ==
  \A other \in BoundedSeq(Leaves, MaxLeaves) :
     Root(TreeOf(other)) = Root(tree) => other = leaves
=============================================================================
