------------------------------- MODULE Merkle -------------------------------
(***************************************************************************)
(* hash.go and merkle.go: the digests and the incremental Merkle tree that *)
(* the Writer, Verify, Lookup and Snapshot all rely on, and the inclusion  *)
(* path of proof.go that replays it.                                       *)
(*                                                                         *)
(* A blake2b-224 digest is the term it was computed from: two digests are  *)
(* equal exactly when the bytes hashed are, so the hash is collision free, *)
(* and no digest is a byte string known beforehand.  Neither the shape of  *)
(* the tree, which the stack alone decides, nor the concatenation of what  *)
(* is hashed is idealised.                                                 *)
(***************************************************************************)
EXTENDS Integers, Sequences, SequencesExt

\* The parts of a node are digests, whose length is fixed.
NamespaceLeafDigest(root) == <<"leaf", "root", root>>
nodeDigest(left, right)   == <<"node", left, right>>
EmptyRoot                 == <<"empty">>

-----------------------------------------------------------------------------
\* The tree is a stack of [depth, hash] subtrees, deepest first.

EmptyTree == <<>>

Merge(a, b) == [depth |-> a.depth + 1, hash |-> nodeDigest(a.hash, b.hash)]

\* MerkleTree.Add: push the leaf at depth 0, then merge the two topmost
\* subtrees for as long as their depths are equal.
Add(tree, leaf) ==
  LET carry(a, top) == IF Len(top) = 1 /\ top[1].depth = a.depth
                         THEN <<Merge(a, top[1])>>
                         ELSE <<a>> \o top
  IN  FoldRight(carry, tree, <<[depth |-> 0, hash |-> leaf]>>)

\* Variants with a slip, to show that the properties notice it: finalising
\* from the deep end, and promoting a lone subtree by pairing it with itself.
RootFromDeepEnd(tree) ==
  IF tree = EmptyTree THEN EmptyRoot
  ELSE FoldLeft(Merge, Head(tree), Tail(tree)).hash

RootDuplicating(tree) ==
  LET lifted(b, depth) == [depth |-> depth,
                           hash  |-> FoldLeft(LAMBDA h, i : nodeDigest(h, h), b.hash,
                                              [i \in 1..(depth - b.depth) |-> i])]
  IN  IF tree = EmptyTree THEN EmptyRoot
      ELSE FoldRight(LAMBDA a, b : Merge(a, lifted(b, a.depth)),
                     Front(tree), Last(tree)).hash

\* MerkleTree.Root: promote the shallower trailing subtree into its left
\* neighbour until one is left.  The tree itself is not changed.
Root(tree) ==
  IF tree = EmptyTree
    THEN EmptyRoot
    ELSE FoldRight(Merge, Front(tree), Last(tree)).hash

TreeOf(leaves) == FoldLeft(Add, EmptyTree, leaves)

-----------------------------------------------------------------------------
(***************************************************************************)
(* proof.go.  A path step is [sibling, left]: left holds when the sibling  *)
(* is the left child.                                                      *)
(***************************************************************************)

\* fold: replay a path from a starting hash.
FoldPath(h, path) ==
  LET up(acc, s) == IF s.left THEN nodeDigest(s.sibling, acc)
                              ELSE nodeDigest(acc, s.sibling)
  IN  FoldLeft(up, h, path)

\* VerifyProof from the leaf on: the path to the namespace's root, then the one
\* from that root's leaf to the global root.
maxProofSteps == 1024

VerifyLeaf(root, leaf, proof) ==
  IF Len(proof.nsPath) > maxProofSteps \/ Len(proof.globalPath) > maxProofSteps
    THEN "ErrInvalidProof"
  ELSE IF FoldPath(NamespaceLeafDigest(FoldPath(leaf, proof.nsPath)), proof.globalPath) # root
    THEN "ErrProofMismatch"
  ELSE "nil"

\* provePath's stack entries also say whether they contain the target leaf;
\* merging one that does records its sibling.  The state of the replay is
\* [stack, path].
\* StepSwapped, a slip: the sides are mixed up.
StepSwapped(a, b) == IF a.contains THEN <<[sibling |-> b.hash, left |-> TRUE]>>
                     ELSE IF b.contains THEN <<[sibling |-> a.hash, left |-> FALSE]>>
                     ELSE <<>>

Step(a, b) == IF a.contains THEN <<[sibling |-> b.hash, left |-> FALSE]>>
              ELSE IF b.contains THEN <<[sibling |-> a.hash, left |-> TRUE]>>
              ELSE <<>>

Tagged(a, b) == [depth    |-> a.depth + 1,
                 hash     |-> nodeDigest(a.hash, b.hash),
                 contains |-> a.contains \/ b.contains]

ReplayAdd(st, sub) ==
  LET carry(a, acc) ==
        IF Len(acc.stack) = 1 /\ acc.stack[1].depth = a.depth
          THEN [stack |-> <<Tagged(a, acc.stack[1])>>,
                path  |-> acc.path \o Step(a, acc.stack[1])]
          ELSE [acc EXCEPT !.stack = <<a>> \o @]
  IN  FoldRight(carry, st.stack, [stack |-> <<sub>>, path |-> st.path])

ReplayRoot(st) ==
  LET promote(a, acc) == [top  |-> Tagged(a, acc.top),
                          path |-> acc.path \o Step(a, acc.top)]
  IN  FoldRight(promote, Front(st.stack),
                [top |-> Last(st.stack), path |-> st.path])

\* provePath(leaves, index), with index in 1..Len(leaves) rather than from 0.
provePath(leaves, index) ==
  LET subs   == [i \in DOMAIN leaves |-> [depth |-> 0, hash |-> leaves[i], contains |-> i = index]]
      replay == FoldLeft(ReplayAdd, [stack |-> <<>>, path |-> <<>>], subs)
  IN  IF leaves = <<>> THEN <<>> ELSE ReplayRoot(replay).path
=============================================================================
