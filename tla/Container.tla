----------------------------- MODULE Container -----------------------------
(***************************************************************************)
(* The records of an SCLS container (wire.go, header.go, chunk.go,         *)
(* manifest.go, entry.go) at the grain the other modules need.  A file is  *)
(* a sequence of records:                                                  *)
(*                                                                         *)
(*   Hdr, then CHUNK and MANIFEST records, reserved records (BLOOM, INDEX, *)
(*   DIR, META and unknown types, which readers skip) and DELTA.           *)
(*                                                                         *)
(* Torn is a record of which only a part reached the medium.  A record     *)
(* whose frame is intact but whose payload does not decode has ok = FALSE. *)
(*                                                                         *)
(* Namespaces, keys and values are naturals with the bytes they stand for; *)
(* the order of namespaces and keys is that of their bytes.                *)
(***************************************************************************)
EXTENDS Merkle, Bytes

CONSTANTS Namespaces,       \* non-empty, valid UTF-8 namespace names
          Keys,             \* entry keys
          Values,           \* entry values (canonical CBOR, written verbatim)
          NamespaceBytes,   \* [Namespaces -> Seq(Nat)]
          KeyBytes,         \* [Keys -> Seq(Nat)]
          ValueBytes        \* [Values -> Seq(Nat)]

ASSUME NamespacesAssumption == Namespaces \subseteq Nat \ {0}
ASSUME KeysAssumption       == Keys \subseteq Nat
ASSUME BytesAssumption      == /\ NamespaceBytes \in [Namespaces -> Seq(Nat)]
                               /\ KeyBytes \in [Keys -> Seq(Nat)]
                               /\ ValueBytes \in [Values -> Seq(Nat)]
ASSUME OrderAssumption ==
  /\ \A a, b \in Keys : a < b <=> BytesBefore(KeyBytes[a], KeyBytes[b])
  /\ \A a, b \in Namespaces :
       a < b <=> BytesBefore(NamespaceBytes[a], NamespaceBytes[b])

KeyLength   == [key \in Keys |-> Len(KeyBytes[key])]
ValueLength == [value \in Values |-> Len(ValueBytes[value])]

Entries == [key : Keys, value : Values]

-----------------------------------------------------------------------------
Hdr       == [type |-> "HDR"]
Torn      == [type |-> "TORN"]
Reserved  == [type |-> "RESERVED"]
Delta     == [type |-> "DELTA"]

\* EntryDigest hashes the bare concatenation: nothing in it marks where the
\* namespace ends and the key, or the key and the value.
EntryBytes(ns, key, value)  == NamespaceBytes[ns] \o KeyBytes[key] \o ValueBytes[value]
EntryDigestOfKey(ns, key, value) ==             \* a slip: the value is forgotten
  <<"leaf", NamespaceBytes[ns] \o KeyBytes[key]>>
EntryDigest(ns, key, value) == <<"leaf", EntryBytes(ns, key, value)>>

\* Chunk.ComputeHash: the digest of the concatenated entry digests.
ComputeHash(ns, entries) ==
  <<"chunk", [i \in DOMAIN entries |-> EntryDigest(ns, entries[i].key, entries[i].value)]>>

\* encodeChunk: the footer carries the hash of the entries it encodes.
Chunk(seq, ns, keyLen, entries) ==
  [type |-> "CHUNK", ok |-> TRUE, seq |-> seq, ns |-> ns, keyLen |-> keyLen,
   entries |-> entries, hash |-> ComputeHash(ns, entries)]

NamespaceInfo(name, entriesCount, chunksCount, digest) ==
  [name |-> name, entriesCount |-> entriesCount,
   chunksCount |-> chunksCount, digest |-> digest]

Manifest(totalEntries, totalChunks, rootHash, namespaces) ==
  [type |-> "MANIFEST", ok |-> TRUE, totalEntries |-> totalEntries,
   totalChunks |-> totalChunks, rootHash |-> rootHash, namespaces |-> namespaces]

IsChunk(rec)    == rec.type = "CHUNK"
IsManifest(rec) == rec.type = "MANIFEST"

\* Serialized size of an entry: u32 size prefix, key, value (encodeEntry).
EntrySize(e) == 4 + KeyLength[e.key] + ValueLength[e.value]

EntriesSize(entries) == FoldLeft(LAMBDA n, e : n + EntrySize(e), 0, entries)

\* encodeChunk: seqno, format, name and key length with their prefixes, the
\* entries, and the footer of count and hash.
ChunkPayloadSize(ns, entries) ==
  8 + 1 + 4 + Len(NamespaceBytes[ns]) + 4 + EntriesSize(entries) + 4 + 28

\* The global root: the tree over the namespace digests, in the given order.
GlobalRoot(infos) ==
  Root(TreeOf([i \in DOMAIN infos |-> NamespaceLeafDigest(infos[i].digest)]))

-----------------------------------------------------------------------------
\* What a file holds: its CHUNK records, and their entries with their names.
ChunksOf(file) == SelectSeq(file, IsChunk)

Located(ns, entries) ==
  [i \in DOMAIN entries |-> [ns |-> ns, key |-> entries[i].key, value |-> entries[i].value]]

EntriesOf(file) ==
  FoldLeft(LAMBDA log, rec : IF IsChunk(rec) THEN log \o Located(rec.ns, rec.entries)
                             ELSE log,
           <<>>, file)

\* What is hashed of each entry of a log.
HashedBytes(log) ==
  [i \in DOMAIN log |-> EntryBytes(log[i].ns, log[i].key, log[i].value)]

\* The order of entries in a container: by namespace, then by key.
Before(a, b) == a.ns < b.ns \/ (a.ns = b.ns /\ a.key < b.key)
=============================================================================
