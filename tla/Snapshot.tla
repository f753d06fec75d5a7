------------------------------ MODULE Snapshot ------------------------------
(***************************************************************************)
(* snapshot.go: Open indexes a seekable file without decoding its chunks;  *)
(* Get and Prove read the chunks the index points at.  A Snapshot does not *)
(* change after Open, so Get and Prove are operators on it.                *)
(***************************************************************************)
EXTENDS Lookup

CONSTANT EmptyHashKey   \* the key whose bytes start the digest of no entries
ASSUME EmptyHashKeyAssumption == EmptyHashKey \in Nat

HashSize == 28

\* parseChunkHeader takes the bytes behind the first size prefix as the first
\* key, without looking whether the chunk has an entry.  In a chunk without
\* entries those bytes are the footer: the count stands for the size prefix
\* and the chunk hash for the key, if it is long enough.
FirstKey(c) == IF c.entries # <<>> THEN c.entries[1].key ELSE EmptyHashKey
HeaderParses(c) == c.entries # <<>> \/ c.keyLen <= HashSize

\* The walk from behind the HDR up to the trailing MANIFEST.
WalkErr(rec) ==
  IF IsChunk(rec) /\ ~HeaderParses(rec) THEN "ErrTruncatedRecord"
  ELSE IF rec = Torn THEN "ErrTruncatedRecord"
  ELSE IF rec = Delta \/ IsManifest(rec) THEN "ErrUnexpectedRecord"
  ELSE "nil"

\* Namespaces whose chunks are not contiguous in the index.
Scattered(chunks) ==
  \E i, j, k \in DOMAIN chunks :
     i < j /\ j < k /\ chunks[i].ns = chunks[k].ns /\ chunks[j].ns # chunks[i].ns

OpenSnapshot(file) ==
  LET n     == Len(file)
      body  == SubSeq(file, 2, n - 1)
      bad   == {i \in DOMAIN body : WalkErr(body[i]) # "nil"}
      first == CHOOSE i \in bad : \A j \in bad : i <= j
      err   == IF n < 2 THEN "ErrMissingManifest"
               ELSE IF file[1] # Hdr THEN "ErrMissingHeader"
               ELSE IF ~IsManifest(file[n]) \/ ~file[n].ok THEN "ErrMissingManifest"
               ELSE IF bad # {} THEN WalkErr(body[first])
               ELSE IF Scattered(ChunksOf(body)) THEN "ErrNamespaceOrder"
               ELSE "nil"
  IN  IF err = "nil" THEN [err |-> err, manifest |-> file[n], chunks |-> ChunksOf(body)]
                     ELSE [err |-> err, manifest |-> NoManifest, chunks |-> <<>>]

\* The chunks of nsRange(ns), decoded by chunkAt when they are needed.
ChunksIn(s, ns) == SelectSeq(s.chunks, LAMBDA c : c.ns = ns)

\* Get: the last chunk whose indexed key is not above key, then a search in it.
Get(s, ns, key) ==
  LET chunks == ChunksIn(s, ns)
      rel    == sortSearch(Len(chunks), {i - 1 : i \in {k \in DOMAIN chunks : FirstKey(chunks[k]) > key}})
  IN  IF rel = 0 THEN NotFound
      ELSE IF ~chunks[rel].ok THEN [err |-> "ErrTruncatedChunk", value |-> NoValue]
      ELSE FindInChunk(chunks[rel], key)

\* globalLeaves: the manifest's digests in namespace order.  A name listed
\* twice keeps both places and the digest listed last.
GlobalLeavesAsListed(m) ==                      \* a slip: the names are not sorted
  [i \in DOMAIN m.namespaces |->
     [name |-> m.namespaces[i].name, leaf |-> NamespaceLeafDigest(m.namespaces[i].digest)]]

GlobalLeaves(m) ==
  LET names     == SortSeq([i \in DOMAIN m.namespaces |-> m.namespaces[i].name], <)
      listed(n) == {i \in DOMAIN m.namespaces : m.namespaces[i].name = n}
      digest(n) == m.namespaces[CHOOSE i \in listed(n) : \A j \in listed(n) : j <= i].digest
  IN  [i \in DOMAIN names |-> [name |-> names[i], leaf |-> NamespaceLeafDigest(digest(names[i]))]]

\* namespaceDigest: the first digest listed under the name.
ListedDigest(m, ns) ==
  LET at == {i \in DOMAIN m.namespaces : m.namespaces[i].name = ns}
  IN  IF at = {} THEN NoDigest ELSE m.namespaces[CHOOSE i \in at : \A j \in at : i <= j].digest

\* Prove's two comparisons with the manifest: the path from the leaf leads to
\* the digest listed, and the path from that digest to the root.
RootsAgreeGlobally(m, ns, leaf, nsPath, globalPath) ==   \* a slip: only the second
  FoldPath(NamespaceLeafDigest(ListedDigest(m, ns)), globalPath) = m.rootHash

RootsAgree(m, ns, leaf, nsPath, globalPath) ==
  /\ FoldPath(leaf, nsPath) = ListedDigest(m, ns)
  /\ FoldPath(NamespaceLeafDigest(ListedDigest(m, ns)), globalPath) = m.rootHash

\* Prove: every chunk of the namespace is read, and the rebuilt roots are
\* compared with the manifest before the proof is handed out.
Prove(s, ns, key) ==
  LET no(err) == [err |-> err, value |-> NoValue, proof |-> NoProof]
      chunks  == ChunksIn(s, ns)
      entries == EntriesOf(chunks)
      at      == {i \in DOMAIN entries : entries[i].key = key}
      idx     == CHOOSE i \in at : \A j \in at : i <= j
      value   == entries[idx].value
      nsPath  == provePath(LeavesOf(chunks), idx)
      global  == GlobalLeaves(s.manifest)
      leaves  == [i \in DOMAIN global |-> global[i].leaf]
      named   == {i \in DOMAIN global : global[i].name = ns}
      gi      == CHOOSE i \in named : \A j \in named : j <= i
      gPath   == provePath(leaves, gi)
  IN  IF chunks = <<>> THEN no("ErrNotFound")
      ELSE IF \E i \in DOMAIN chunks : ~chunks[i].ok THEN no("ErrTruncatedChunk")
      ELSE IF at = {} THEN no("ErrNotFound")
      ELSE IF \/ named = {}
              \/ ~RootsAgree(s.manifest, ns, EntryDigest(ns, key, value), nsPath, gPath)
             THEN no("ErrInvalidManifest")
      ELSE [err |-> "nil", value |-> value,
            proof |-> [nsPath |-> nsPath, globalPath |-> gPath]]
=============================================================================
