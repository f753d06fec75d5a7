----------------------------- MODULE ProofFile -----------------------------
(***************************************************************************)
(* The way of a proof file (cmd/scls/proof.go): an entry of a namespace is *)
(* proved, the envelope is kept and sent, by people who may damage or      *)
(* rewrite it, and `scls proof verify` reads it.  The tree of MerkleTree   *)
(* is that of the namespace's entries; it grows until the proof is made.   *)
(***************************************************************************)
EXTENDS MerkleTree, ProofForm, FiniteSets

CONSTANTS Namespace,        \* the name, as cells
          EntryOf,          \* the [key, value] behind every digest of Leaves
          Elsewhere,        \* digests of entries of other namespaces
          Neighbours,       \* the leaves of the namespaces [before, after] this one
          MaxProved,        \* bound on the leaves of a tree that is proved
          MaxAlterations    \* bound on the changes to a proof file

ASSUME EntriesAssumption ==
  /\ Namespace \in Seq(ByteCells) /\ validUtf8(Namespace)
  /\ \A leaf \in Leaves : /\ EntryOf[leaf].key \in Seq(ByteCells)
                          /\ EntryOf[leaf].value \in Seq(ByteCells)
ASSUME LeavesAssumption ==
  \A leaf \in Leaves :
    leaf = EntryDigestOf(Namespace, EntryOf[leaf].key, EntryOf[leaf].value)
ASSUME NeighboursAssumption ==
  /\ \A leaf \in Elsewhere : leaf = <<"leaf", leaf[2]>>
  /\ \A n \in Neighbours : n.before \in Seq(Seq(Elsewhere)) /\ n.after \in Seq(Seq(Elsewhere))

\* As far as proof.go counts: the cap of maxProofSteps on a path is far above
\* any legitimate depth, so that nothing has more than 2^maxProofSteps parts.
Countable(n) == \E d \in 0..maxProofSteps : n <= Pow2(d)

ASSUME CountsAssumption ==
  /\ MaxProved \in Nat /\ Countable(MaxProved)
  /\ \A n \in Neighbours : Countable(Len(n.before) + 1 + Len(n.after))

VARIABLES raw,          \* the proof file
          parts,        \* the leaves of every namespace of the file that was proved
          alterations

NoFile == Binary(<<>>)

pvars == <<tree, leaves, raw, parts, alterations>>

\* The root in the manifest of a file whose namespaces have these leaves.
GlobalLeaves(ps) == [i \in DOMAIN ps |-> NamespaceLeafDigest(Root(TreeOf(ps[i])))]
GlobalRoot(ps)   == Root(TreeOf(GlobalLeaves(ps)))

ProofInit == Init /\ raw = NoFile /\ parts = <<>> /\ alterations = 0

Grow == /\ raw = NoFile
        /\ Next
        /\ UNCHANGED <<raw, parts, alterations>>

\* `scls proof generate`: Prove finds the entry, its path among the entries and
\* the path of its namespace's root among all of them.
ProofOfEntry(index, n) ==
  [nsPath     |-> provePath(leaves, index),
   globalPath |-> provePath(GlobalLeaves(n.before \o <<leaves>> \o n.after),
                            Len(n.before) + 1)]

Generate(index, n, format) ==
  LET e == EntryOf[leaves[index]]
  IN  /\ raw = NoFile
      /\ Len(leaves) <= MaxProved
      /\ \A i \in 1..(index - 1) : leaves[i] # leaves[index]
      /\ parts' = n.before \o <<leaves>> \o n.after
      /\ raw' = marshalEnvelope(Envelope(proofEnvelopeVersion, Namespace, e.key, e.value,
                                         <<GlobalRoot(parts')>>,
                                         MarshalBinary(ProofOfEntry(index, n))), format)
      /\ UNCHANGED <<tree, leaves, alterations>>

-----------------------------------------------------------------------------
Alter(changed) == /\ alterations < MaxAlterations
                  /\ changed # raw
                  /\ raw' = changed
                  /\ alterations' = alterations + 1
                  /\ UNCHANGED <<tree, leaves, parts>>

IsBinary == raw.form = "binary" /\ raw.cells # <<>>
IsJson   == raw.form = "json"

\* Damage to the binary form.  What a digest can be replaced by is another one
\* of the same proof or tree; the last cell stands for every byte that comes
\* behind.
DigestsAtHand == {leaves[i] : i \in DOMAIN leaves} \cup {Root(tree), GlobalRoot(parts)}

Damaged(cell) == IF IsDigest(cell) THEN DigestsAtHand
                 ELSE {Num(0), Num(1), Num(2), Num(200)}

DamageCell == /\ IsBinary
              /\ \E i \in DOMAIN raw.cells : \E cell \in Damaged(raw.cells[i]) :
                   Alter(Binary([raw.cells EXCEPT ![i] = cell]))

CutShort   == IsBinary /\ \E n \in 1..(Len(raw.cells) - 1) : Alter(Binary(SubSeq(raw.cells, 1, n)))
AddBehind  == IsBinary /\ Alter(Binary(Append(raw.cells, Num(10))))

\* A rewritten envelope: the bytes of the entry divided otherwise among name,
\* key and value, or the root replaced by the one that the rest leads to.
Readable == unmarshalEnvelope(raw).err = "nil"
Contents == unmarshalEnvelope(raw).env

Divided(e) ==
  LET bytes == e.namespace \o e.key \o e.value
      into(a, b) == [e EXCEPT !.namespace = SubSeq(bytes, 1, a),
                              !.key       = SubSeq(bytes, a + 1, b),
                              !.value     = SubSeq(bytes, b + 1, Len(bytes))]
  IN  UNION {{into(a, b) : b \in a..Len(bytes)} : a \in 0..Len(bytes)}

LeadsTo(e) ==
  LET p == UnmarshalProofBinary(e.proof).proof
  IN  FoldPath(NamespaceLeafDigest(
                 FoldPath(EntryDigestOf(e.namespace, e.key, e.value), p.nsPath)),
               p.globalPath)

Rewritten(e) == Divided(e) \cup {[e EXCEPT !.root = <<LeadsTo(e)>>]}

Rewrite == /\ raw # NoFile /\ Readable /\ FieldsDecode(Contents) /\ Decodes(Contents.proof)
           /\ \E e \in Rewritten(Contents) : Alter(marshalEnvelope(e, raw.form))

\* Damage to the JSON form: a field lost, or given once more with other text.
LoseField == /\ IsJson
             /\ \E i \in DOMAIN raw.fields : Alter(Json(RemoveAt(raw.fields, i)))

Texts(name) == CASE name = "version" -> {2}
                 [] name = "root"    -> {<<d>> : d \in DigestsAtHand} \cup {<<Num(1)>>}
                 [] name = "proof"   -> {<<Bad>>, <<Num(1), Num(0), Num(0)>>}
                 [] OTHER            -> {<<>>, <<Num(2)>>} \cup
                                        (IF name = "namespace" THEN {} ELSE {<<Bad>>})

GiveField == /\ IsJson
             /\ \E name \in DOMAIN NoEnvelope : \E text \in Texts(name) :
                  Alter(Json(Append(raw.fields, [name |-> name, is |-> text])))

Sent == DamageCell \/ CutShort \/ AddBehind \/ Rewrite \/ LoseField \/ GiveField

ProofNext == \/ Grow
             \/ \E index \in DOMAIN leaves, n \in Neighbours, format \in {"json", "binary"} :
                  Generate(index, n, format)
             \/ Sent

ProofSpec == ProofInit /\ [][ProofNext]_pvars

-----------------------------------------------------------------------------
\* Until a proof is made of it the tree grows, and its root commits to every
\* leaf and their order (merkle.go:22-30).
CommitsToLeaves == raw = NoFile => RootBindsLeaves

\* A proof that reaches its reader as it was generated is accepted, in either
\* form, with the root pinned or not (proof.go:133-188,
\* cmd/scls/proof.go:93-148).
ProofArrives ==
  raw # NoFile /\ alterations = 0 =>
    \A pin \in {NoPin, <<GlobalRoot(parts)>>} : ProofVerify(raw, pin) = "nil"

\* Whatever was done to the file, what `proof verify` accepts under the root of
\* the file that was proved has, in a row, the bytes of one of that file's
\* entries (cmd/scls/proof.go:119-122,137): the root in the envelope proves
\* nothing.
PinnedProofBinds ==
  ProofVerify(raw, <<GlobalRoot(parts)>>) = "nil" =>
    \E i \in DOMAIN parts : \E j \in DOMAIN parts[i] :
      parts[i][j] = EntryDigestOf(Contents.namespace, Contents.key, Contents.value)

\* A binary envelope and a binary proof that are accepted are the ones that
\* marshalling gives: no second form, and nothing behind (proof.go:161-166,
\* cmd/scls/proof.go:271).
AcceptedFormIsTheOnlyOne ==
  IsBinary /\ Readable =>
    /\ marshalEnvelopeBinary(Contents) = raw.cells
    /\ LET p == UnmarshalProofBinary(Contents.proof)
       IN  p.err = "nil" => MarshalBinary(p.proof) = Contents.proof
=============================================================================
