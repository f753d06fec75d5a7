------------------------------- MODULE Lookup -------------------------------
(***************************************************************************)
(* lookup.go and the verifying half of proof.go: queries over a stream.    *)
(* A query answers [err, value], a proving one also [proof].               *)
(***************************************************************************)
EXTENDS Verify

NoValue == -1
NoProof == [nsPath |-> <<>>, globalPath |-> <<>>]

NotFound == [err |-> "ErrNotFound", value |-> NoValue]

\* sort.Search: bisection for the least index in 0..(n - 1) where the predicate
\* holds, that is in the set yes, and n if it finds none.  It is exact when the
\* predicate is monotonic, and does not check that.
sortSearch(n, yes) ==
  LET bisect[i \in 0..n, j \in 0..n] ==
        LET h == (i + j) \div 2
        IN  IF i >= j THEN i
            ELSE IF h \in yes THEN bisect[i, h] ELSE bisect[h + 1, j]
  IN  bisect[0, n]

FindInChunk(c, key) ==
  LET j == 1 + sortSearch(Len(c.entries), {i - 1 : i \in {k \in DOMAIN c.entries : c.entries[k].key >= key}})
  IN  IF j <= Len(c.entries) /\ c.entries[j].key = key
        THEN [err |-> "nil", value |-> c.entries[j].value]
        ELSE NotFound

PassedKeyReversed(c, ns, key) ==                \* a slip: < for >
  c.ns = ns /\ c.entries # <<>> /\ c.entries[Len(c.entries)].key < key

PassedKey(c, ns, key) ==
  c.ns = ns /\ c.entries # <<>> /\ c.entries[Len(c.entries)].key > key

\* Lookup: the first chunk that decides the answer ends the scan, so an error
\* behind it in the stream goes unseen.
Decides(c, ns, key) == \/ c.ns > ns
                       \/ c.ns = ns /\ FindInChunk(c, key).err = "nil"
                       \/ PassedKey(c, ns, key)

LookupRead(read, ns, key) ==
  LET decides == {i \in DOMAIN read.chunks : Decides(read.chunks[i], ns, key)}
      first   == read.chunks[CHOOSE i \in decides : \A j \in decides : i <= j]
  IN  IF decides # {} THEN IF first.ns = ns THEN FindInChunk(first, key) ELSE NotFound
      ELSE IF read.err = "EOF" THEN NotFound
      ELSE [err |-> read.err, value |-> NoValue]

Lookup(file, ns, key) == LookupRead(ReadAll(file), ns, key)

-----------------------------------------------------------------------------
VerifyProof(root, ns, key, value, proof) ==
  VerifyLeaf(root, EntryDigest(ns, key, value), proof)

LeavesOf(chunks) ==
  FoldLeft(LAMBDA s, c : s \o [i \in DOMAIN c.entries |->
                                 EntryDigest(c.ns, c.entries[i].key, c.entries[i].value)],
           <<>>, chunks)

\* The root of every run of chunks with one name, in file order (finish).
NamespaceRoots(chunks) ==
  LET opens(i) == i = 1 \/ chunks[i - 1].ns # chunks[i].ns
      run(i)   == {j \in DOMAIN chunks : i <= j /\ \A k \in (i + 1)..j : ~opens(k)}
      root(i)  == Root(TreeOf(LeavesOf(SubSeq(chunks, i, i + Cardinality(run(i)) - 1))))
      starts   == SelectSeq([i \in DOMAIN chunks |-> i], opens)
  IN  [r \in DOMAIN starts |-> [name |-> chunks[starts[r]].ns, root |-> root(starts[r])]]

\* The two paths to an entry: among its namespace's leaves, and from the
\* namespace's root among all roots (the last one under its name).
ProofOf(ns, leaves, index, roots) ==
  [nsPath     |-> provePath(leaves, index),
   globalPath |-> provePath([i \in DOMAIN roots |-> NamespaceLeafDigest(roots[i].root)],
                            CHOOSE i \in DOMAIN roots :
                              /\ roots[i].name = ns
                              /\ \A j \in (i + 1)..Len(roots) : roots[j].name # ns)]

\* LookupProof: one pass to the end, then the two paths.
LookupProofIn(chunks, ns, key) ==
  LET own     == SelectSeq(chunks, LAMBDA c : c.ns = ns)
      entries == EntriesOf(own)
      at      == {i \in DOMAIN entries : entries[i].key = key}
      index   == CHOOSE i \in at : \A j \in at : i <= j
  IN  IF at = {} THEN [err |-> "ErrNotFound", value |-> NoValue, proof |-> NoProof]
      ELSE [err   |-> "nil",
            value |-> entries[index].value,
            proof |-> ProofOf(ns, LeavesOf(own), index, NamespaceRoots(chunks))]

LookupProofRead(read, ns, key) ==
  IF read.err # "EOF" THEN [err |-> read.err, value |-> NoValue, proof |-> NoProof]
  ELSE LookupProofIn(read.chunks, ns, key)

LookupProof(file, ns, key) == LookupProofRead(ReadAll(file), ns, key)
=============================================================================
