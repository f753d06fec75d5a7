---------------------------- MODULE WriterProofs ----------------------------
(***************************************************************************)
(* Theorems of Writer, for every value of its constants.  First the order: *)
(* pending entries, chunks and log lie behind the Writer's position.  Then *)
(* the accounts: what the sink and the counters say is what AddEntry took  *)
(* in, no entry is lost or repeated, the manifest counts and digests what  *)
(* was written, a manifest seals, a chunk too large to write ends the      *)
(* stream, and the Writer implements OrderedLog.                           *)
(***************************************************************************)
EXTENDS Writer, SeqLemmas, FiniteSetTheorems

\* A key and a value have a length each.
LEMMA Lengths == /\ KeyLength \in [Keys -> Nat]
                 /\ ValueLength \in [Values -> Nat]
<1>1. \A q \in Seq(Nat) : Len(q) \in Nat
  BY LenProperties
<1> QED
  BY <1>1, BytesAssumption DEF KeyLength, ValueLength

-----------------------------------------------------------------------------
(***************************************************************************)
(* The inductive invariant.  It is one of a Writer s rather than of the    *)
(* variable sw, because a call passes through several Writers: AddEntry    *)
(* may flush, finish a namespace, start another and flush again.           *)
(***************************************************************************)
Fields == {"w", "faults", "maxChunkEntries", "maxChunkBytes", "summary",
           "chunkSeq", "totalEntries", "totalChunks", "curNamespace", "nsStarted",
           "lastKey", "keyLen", "pending", "pendingBytes", "nsTree", "nsEntries",
           "nsChunks", "namespaces", "closed"}

RecordTypes == {"HDR", "TORN", "CHUNK", "MANIFEST"}

SinkTyped(s) ==
  /\ IsSeq(s.w)
  /\ \A i \in DOMAIN s.w : /\ s.w[i].type \in RecordTypes
                           /\ IsChunk(s.w[i]) => IsChunkRecord(s.w[i])

FieldsTyped(s) ==
  /\ DOMAIN s = Fields
  /\ s.faults \in Nat /\ s.chunkSeq \in Nat /\ s.totalEntries \in Nat
  /\ s.totalChunks \in Nat /\ s.keyLen \in Nat /\ s.pendingBytes \in Nat
  /\ s.nsEntries \in Nat /\ s.nsChunks \in Nat
  /\ s.nsStarted \in BOOLEAN /\ s.closed \in BOOLEAN
  /\ s.nsStarted => s.curNamespace \in Namespaces /\ s.lastKey \in Keys
  /\ s.pending \in Seq(Entries)

\* The pending entries ascend up to lastKey and have the namespace's key length.
PendingInv(s) ==
  /\ s.pending # <<>> => s.nsStarted
  /\ \A i \in DOMAIN s.pending : /\ KeyLength[s.pending[i].key] = s.keyLen
                                 /\ s.pending[i].key <= s.lastKey
  /\ \A i, j \in DOMAIN s.pending : i < j => s.pending[i].key < s.pending[j].key

\* A chunk of the file is behind everything the Writer may still write.
Behind(s, c) ==
  /\ s.nsStarted
  /\ \/ c.ns < s.curNamespace
     \/ /\ c.ns = s.curNamespace
        /\ c.seq < s.chunkSeq
        /\ \A i \in DOMAIN c.entries : c.entries[i].key <= s.lastKey
        /\ \A i \in DOMAIN c.entries, j \in DOMAIN s.pending :
             c.entries[i].key < s.pending[j].key

ChunksInv(s) ==
  \A i \in DOMAIN s.w : IsChunk(s.w[i]) =>
     /\ ChunkSound(s.w[i])
     /\ Behind(s, s.w[i])
     /\ \A j \in DOMAIN s.w : i < j /\ IsChunk(s.w[j]) => ChunksOrdered(s.w[i], s.w[j])

Good(s) == SinkTyped(s) /\ FieldsTyped(s) /\ PendingInv(s) /\ ChunksInv(s)

\* Two Writers at the same position: they differ at most in the sink and in
\* what the position does not depend on.
SamePosition(s, t) ==
  /\ t.chunkSeq = s.chunkSeq /\ t.totalEntries = s.totalEntries
  /\ t.totalChunks = s.totalChunks /\ t.keyLen = s.keyLen
  /\ t.pendingBytes = s.pendingBytes /\ t.nsEntries = s.nsEntries
  /\ t.nsChunks = s.nsChunks /\ t.nsStarted = s.nsStarted
  /\ t.curNamespace = s.curNamespace /\ t.lastKey = s.lastKey
  /\ t.pending = s.pending

-----------------------------------------------------------------------------
\* The position and the sink are all Good depends on.
LEMMA GoodFrame ==
  ASSUME NEW s, NEW t, Good(s), SamePosition(s, t), t.w = s.w,
         DOMAIN t = Fields, t.faults \in Nat, t.closed \in BOOLEAN
  PROVE  Good(t)
<1>1. SinkTyped(t)
  BY DEF Good, SinkTyped
<1>2. FieldsTyped(t)
  BY DEF Good, FieldsTyped, SamePosition
<1>3. PendingInv(t)
  BY DEF Good, PendingInv, SamePosition
<1>4. ChunksInv(t)
  BY DEF Good, ChunksInv, Behind, SamePosition
<1> QED
  BY <1>1, <1>2, <1>3, <1>4 DEF Good

\* A record that is no chunk may follow any file.
LEMMA GoodOther ==
  ASSUME NEW s, NEW t, NEW rec, Good(s), SamePosition(s, t), t.w = s.w \o <<rec>>,
         rec.type \in {"TORN", "MANIFEST"},
         DOMAIN t = Fields, t.faults \in Nat, t.closed \in BOOLEAN
  PROVE  Good(t)
<1>1. /\ IsSeq(t.w) /\ Len(s.w) \in Nat /\ DOMAIN s.w = 1..Len(s.w)
      /\ DOMAIN t.w = 1..(Len(s.w) + 1)
      /\ \A i \in 1..Len(s.w) : t.w[i] = s.w[i]
      /\ t.w[Len(s.w) + 1] = rec
  BY Extension DEF Good, SinkTyped
<1>2. \A i \in DOMAIN t.w : IsChunk(t.w[i]) => i \in DOMAIN s.w /\ t.w[i] = s.w[i]
  BY <1>1 DEF IsChunk
<1>3. SinkTyped(t)
  BY <1>1, <1>2 DEF Good, SinkTyped, RecordTypes
<1>4. FieldsTyped(t)
  BY DEF Good, FieldsTyped, SamePosition
<1>5. PendingInv(t)
  BY DEF Good, PendingInv, SamePosition
<1>6. ChunksInv(t)
  BY <1>2 DEF Good, ChunksInv, Behind, SamePosition
<1> QED
  BY <1>3, <1>4, <1>5, <1>6 DEF Good

\* flushChunk keeps the invariant and the position, whatever the sink does;
\* it empties the pending entries exactly when it returns no error.
LEMMA FlushGood ==
  ASSUME NEW s, NEW o \in Outcomes, Good(s)
  PROVE  LET t == flushChunk(s, o)
         IN  /\ Good(t)
             /\ FlushErr(s, o) = "nil" => t.pending = <<>>
             /\ t.nsStarted = s.nsStarted /\ t.curNamespace = s.curNamespace
             /\ t.lastKey = s.lastKey /\ t.keyLen = s.keyLen
             /\ t.closed = s.closed
<1> DEFINE t == flushChunk(s, o)
           c == PendingChunk(s)
<1>0. DOMAIN s = Fields
  BY DEF Good, FieldsTyped
<1>1. CASE ~Writable(s)
  <2>1. t = s
    BY <1>1 DEF flushChunk
  <2>2. FlushErr(s, o) = "nil" => s.pending = <<>>
    BY <1>1 DEF FlushErr, Writable
  <2> QED
    BY <2>1, <2>2
<1>2. CASE Writable(s) /\ o = "failed"
  <2>1. t = [s EXCEPT !.w = @ \o <<>>, !.faults = @ + 1]
    BY <1>2 DEF flushChunk, writeRecord
  <2>2. s.w \o <<>> = s.w
    BY ConcatEmptySeq DEF Good, SinkTyped, IsSeq
  <2>3. /\ DOMAIN t = Fields /\ SamePosition(s, t) /\ t.closed = s.closed
        /\ t.w = s.w \o <<>> /\ t.faults = s.faults + 1
    BY <1>0, <2>1 DEF Fields, SamePosition
  <2>4. t.faults \in Nat /\ t.closed \in BOOLEAN
    BY <2>3 DEF Good, FieldsTyped
  <2>5. Good(t)
    BY <2>2, <2>3, <2>4, GoodFrame
  <2>6. FlushErr(s, o) # "nil"
    BY <1>2 DEF FlushErr, Writable
  <2> QED
    BY <2>3, <2>5, <2>6 DEF SamePosition
<1>3. CASE Writable(s) /\ o = "torn"
  <2>1. t = [s EXCEPT !.w = @ \o <<Torn>>, !.faults = @ + 1]
    BY <1>3 DEF flushChunk, writeRecord
  <2>2. /\ DOMAIN t = Fields /\ SamePosition(s, t) /\ t.closed = s.closed
        /\ t.w = s.w \o <<Torn>> /\ t.faults = s.faults + 1
    BY <1>0, <2>1 DEF Fields, SamePosition
  <2>3. t.faults \in Nat /\ t.closed \in BOOLEAN
    BY <2>2 DEF Good, FieldsTyped
  <2>4. Torn.type = "TORN"
    BY DEF Torn
  <2>5. Good(t)
    BY <2>2, <2>3, <2>4, GoodOther
  <2>6. FlushErr(s, o) # "nil"
    BY <1>3 DEF FlushErr, Writable
  <2> QED
    BY <2>2, <2>5, <2>6 DEF SamePosition
<1>4. CASE Writable(s) /\ o = "ok"
  <2>1. t = [[s EXCEPT !.w = @ \o <<c>>, !.faults = @] EXCEPT
               !.chunkSeq = @ + 1, !.totalChunks = @ + 1, !.nsChunks = @ + 1,
               !.pending = <<>>, !.pendingBytes = 0]
    BY <1>4 DEF flushChunk, writeRecord
  <2>2. /\ DOMAIN t = Fields
        /\ t.w = s.w \o <<c>> /\ t.faults = s.faults
        /\ t.chunkSeq = s.chunkSeq + 1 /\ t.totalChunks = s.totalChunks + 1
        /\ t.nsChunks = s.nsChunks + 1 /\ t.pending = <<>> /\ t.pendingBytes = 0
        /\ t.totalEntries = s.totalEntries /\ t.nsEntries = s.nsEntries
        /\ t.nsStarted = s.nsStarted /\ t.curNamespace = s.curNamespace
        /\ t.lastKey = s.lastKey /\ t.keyLen = s.keyLen /\ t.closed = s.closed
    BY <1>0, <2>1 DEF Fields
  <2>3. /\ IsSeq(t.w) /\ Len(s.w) \in Nat /\ DOMAIN s.w = 1..Len(s.w)
        /\ DOMAIN t.w = 1..(Len(s.w) + 1)
        /\ \A i \in 1..Len(s.w) : t.w[i] = s.w[i]
        /\ t.w[Len(s.w) + 1] = c
    BY <2>2, Extension DEF Good, SinkTyped
  <2>4. s.pending # <<>> /\ s.nsStarted
    BY <1>4 DEF Writable, Good, PendingInv
  <2>5. /\ c.type = "CHUNK" /\ c.ok = TRUE /\ c.seq = s.chunkSeq /\ c.ns = s.curNamespace
        /\ c.keyLen = s.keyLen /\ c.entries = s.pending
        /\ c.hash = ComputeHash(s.curNamespace, s.pending)
    BY DEF PendingChunk, Chunk
  <2>6. IsChunkRecord(c)
    BY <2>4, <2>5 DEF IsChunkRecord, Good, FieldsTyped
  <2>7. SinkTyped(t)
    BY <2>3, <2>5, <2>6 DEF Good, SinkTyped, RecordTypes
  <2>8. FieldsTyped(t)
    <3>1. t.pending \in Seq(Entries)
      BY <2>2, EmptySeq
    <3>2. /\ t.chunkSeq \in Nat /\ t.totalChunks \in Nat /\ t.nsChunks \in Nat
          /\ t.pendingBytes \in Nat
      <4>1. s.chunkSeq \in Nat /\ s.totalChunks \in Nat /\ s.nsChunks \in Nat
        BY DEF Good, FieldsTyped
      <4>2. /\ t.chunkSeq = s.chunkSeq + 1 /\ t.totalChunks = s.totalChunks + 1
            /\ t.nsChunks = s.nsChunks + 1 /\ t.pendingBytes = 0
        BY <2>2
      <4> HIDE DEF t
      <4> QED
        BY <4>1, <4>2
    <3> HIDE DEF t
    <3> QED
      BY <2>2, <3>1, <3>2, Zenon DEF Good, FieldsTyped
  <2>9. PendingInv(t)
    BY <2>2 DEF PendingInv
  <2>10. ChunkSound(c)
    BY <2>4, <2>5 DEF ChunkSound, Good, PendingInv
  <2>11. Behind(t, c)
    BY <2>2, <2>4, <2>5 DEF Behind, Good, PendingInv, FieldsTyped
  <2>12. ASSUME NEW i \in DOMAIN s.w, IsChunk(s.w[i])
         PROVE  Behind(t, s.w[i]) /\ ChunksOrdered(s.w[i], c)
    <3>1. Behind(s, s.w[i])
      BY <2>12 DEF Good, ChunksInv
    <3>4. s.w[i].seq \in Nat
      <4>1. IsChunkRecord(s.w[i])
        BY <2>12 DEF Good, SinkTyped
      <4> QED
        BY <4>1 DEF IsChunkRecord
    <3>5. s.chunkSeq \in Nat
      BY DEF Good, FieldsTyped
    <3>2. Behind(t, s.w[i])
      <4> HIDE DEF t
      <4> QED
        BY <2>2, <3>1, <3>4, <3>5 DEF Behind
    <3>3. ChunksOrdered(s.w[i], c)
      BY <2>5, <3>1 DEF Behind, ChunksOrdered
    <3> QED
      BY <3>2, <3>3
  <2>13. ChunksInv(t)
    <3> SUFFICES ASSUME NEW i \in DOMAIN t.w, IsChunk(t.w[i])
                 PROVE  /\ ChunkSound(t.w[i])
                        /\ Behind(t, t.w[i])
                        /\ \A j \in DOMAIN t.w : i < j /\ IsChunk(t.w[j]) =>
                             ChunksOrdered(t.w[i], t.w[j])
      BY DEF ChunksInv
    <3>1. CASE i = Len(s.w) + 1
      BY <2>3, <2>10, <2>11, <3>1
    <3>2. CASE i \in DOMAIN s.w
      <4>1. ChunkSound(t.w[i]) /\ Behind(t, t.w[i])
        BY <2>3, <2>12, <3>2 DEF Good, ChunksInv
      <4>2. ASSUME NEW j \in DOMAIN t.w, i < j, IsChunk(t.w[j])
            PROVE  ChunksOrdered(t.w[i], t.w[j])
        <5>1. CASE j \in DOMAIN s.w
          BY <2>3, <3>2, <4>2, <5>1 DEF Good, ChunksInv
        <5>2. CASE j = Len(s.w) + 1
          BY <2>3, <2>12, <3>2, <5>2
        <5> QED
          BY <2>3, <5>1, <5>2
      <4> QED
        BY <4>1, <4>2
    <3> QED
      BY <2>3, <3>1, <3>2
  <2> QED
    BY <2>2, <2>7, <2>8, <2>9, <2>13 DEF Good
<1> QED
  BY <1>1, <1>2, <1>3, <1>4 DEF Outcomes

\* finishNamespace, once its flush succeeded, leaves nothing pending and the
\* position where it was.
LEMMA FinishGood ==
  ASSUME NEW s, NEW o \in Outcomes, Good(s), FlushErr(s, o) = "nil"
  PROVE  LET t == finishNamespace(s, o)
         IN  /\ Good(t)
             /\ t.pending = <<>>
             /\ t.nsStarted = s.nsStarted /\ t.curNamespace = s.curNamespace
             /\ t.lastKey = s.lastKey /\ t.keyLen = s.keyLen /\ t.closed = s.closed
<1> DEFINE f == flushChunk(s, o)
           t == finishNamespace(s, o)
<1>1. /\ Good(f) /\ f.pending = <<>> /\ f.closed = s.closed
      /\ f.nsStarted = s.nsStarted /\ f.curNamespace = s.curNamespace
      /\ f.lastKey = s.lastKey /\ f.keyLen = s.keyLen
  BY FlushGood
<1>2. DOMAIN f = Fields /\ f.faults \in Nat /\ f.closed \in BOOLEAN
  BY <1>1 DEF Good, FieldsTyped
<1>3. PICK info : t = [f EXCEPT !.namespaces = Append(@, info)]
  BY DEF finishNamespace
<1> HIDE DEF f, t
<1>4. /\ DOMAIN t = Fields /\ SamePosition(f, t) /\ t.w = f.w
      /\ t.faults = f.faults /\ t.closed = f.closed
  BY <1>2, <1>3 DEF Fields, SamePosition
<1>5. Good(t)
  BY <1>1, <1>2, <1>4, GoodFrame
<1>6. /\ t.pending = <<>> /\ t.nsStarted = s.nsStarted /\ t.curNamespace = s.curNamespace
      /\ t.lastKey = s.lastKey /\ t.keyLen = s.keyLen
  BY <1>1, <1>4 DEF SamePosition
<1> QED
  BY <1>1, <1>4, <1>5, <1>6 DEF t

-----------------------------------------------------------------------------
\* A pending key is a number, so that it can be compared.
LEMMA EntryKeys ==
  ASSUME NEW q \in Seq(Entries), NEW i \in DOMAIN q
  PROVE  q[i] \in Entries /\ q[i].key \in Keys /\ q[i].key \in Nat
<1>1. DOMAIN q = 1..Len(q)
  BY LenProperties
<1>2. q[i] \in Entries
  BY <1>1, ElementOfSeq
<1>3. q[i].key \in Keys
  BY <1>2 DEF Entries
<1> QED
  BY <1>2, <1>3, KeysAssumption

\* The entry takes its place behind everything written or pending.
LEMMA TakeGood ==
  ASSUME NEW s, NEW key \in Keys, NEW value \in Values,
         Good(s), s.nsStarted, s.lastKey < key, KeyLength[key] = s.keyLen
  PROVE  LET t == takeEntry(s, key, value)
         IN  /\ Good(t)
             /\ t.nsStarted = s.nsStarted /\ t.curNamespace = s.curNamespace
             /\ t.lastKey = key /\ t.keyLen = s.keyLen /\ t.closed = s.closed
<1> DEFINE t == takeEntry(s, key, value)
           e == [key |-> key, value |-> value]
           n == Len(s.pending)
<1>1. DOMAIN s = Fields
  BY DEF Good, FieldsTyped
<1>2. /\ DOMAIN t = Fields /\ t.w = s.w /\ t.faults = s.faults
      /\ t.pending = Append(s.pending, e) /\ t.lastKey = key
      /\ t.pendingBytes = s.pendingBytes + EntrySize(e)
      /\ t.nsEntries = s.nsEntries + 1 /\ t.totalEntries = s.totalEntries + 1
      /\ t.chunkSeq = s.chunkSeq /\ t.totalChunks = s.totalChunks
      /\ t.nsChunks = s.nsChunks /\ t.keyLen = s.keyLen
      /\ t.nsStarted = s.nsStarted /\ t.curNamespace = s.curNamespace
      /\ t.closed = s.closed
  BY <1>1 DEF takeEntry, Fields
<1>3. EntrySize(e) \in Nat
  BY Lengths DEF EntrySize
<1>4. e \in Entries /\ e.key = key
  BY DEF Entries
<1>5. s.pending \in Seq(Entries)
  BY DEF Good, FieldsTyped
<1>6. /\ n \in Nat /\ DOMAIN s.pending = 1..n
      /\ t.pending \in Seq(Entries) /\ DOMAIN t.pending = 1..(n + 1)
      /\ \A i \in 1..n : t.pending[i] = s.pending[i]
      /\ t.pending[n + 1] = e
  <2> HIDE DEF e
  <2> QED
    BY <1>2, <1>4, <1>5
<1> HIDE DEF t, e
<1>7. SinkTyped(t)
  BY <1>2 DEF Good, SinkTyped
<1>8. FieldsTyped(t)
  <2>1. /\ s.faults \in Nat /\ s.chunkSeq \in Nat /\ s.totalEntries \in Nat
        /\ s.totalChunks \in Nat /\ s.keyLen \in Nat /\ s.pendingBytes \in Nat
        /\ s.nsEntries \in Nat /\ s.nsChunks \in Nat
    BY DEF Good, FieldsTyped
  <2>2. s.nsEntries + 1 \in Nat /\ s.totalEntries + 1 \in Nat
        /\ s.pendingBytes + EntrySize(e) \in Nat
    BY <1>3, <2>1
  <2>3. /\ s.nsStarted \in BOOLEAN /\ s.closed \in BOOLEAN
        /\ s.curNamespace \in Namespaces
    BY DEF Good, FieldsTyped
  <2> QED
    BY <1>2, <1>6, <2>1, <2>2, <2>3, Zenon DEF FieldsTyped
<1>9. \A i \in DOMAIN s.pending :
        /\ s.pending[i].key \in Nat /\ s.pending[i].key < key
        /\ KeyLength[s.pending[i].key] = s.keyLen
  <2>1. s.lastKey \in Nat /\ key \in Nat
    BY KeysAssumption DEF Good, FieldsTyped
  <2>2. \A i \in DOMAIN s.pending : s.pending[i].key \in Nat
    BY <1>5, EntryKeys
  <2>3. \A i \in DOMAIN s.pending : /\ s.pending[i].key <= s.lastKey
                                  /\ KeyLength[s.pending[i].key] = s.keyLen
    BY DEF Good, PendingInv
  <2> QED
    BY <2>1, <2>2, <2>3
<1>10. PendingInv(t)
  <2>1. \A i \in DOMAIN t.pending : /\ KeyLength[t.pending[i].key] = t.keyLen
                                  /\ t.pending[i].key <= t.lastKey
    BY <1>2, <1>4, <1>6, <1>9, KeysAssumption
  <2>2. \A i, j \in DOMAIN s.pending : i < j => s.pending[i].key < s.pending[j].key
    BY DEF Good, PendingInv
  <2>3. \A i, j \in DOMAIN t.pending : i < j => t.pending[i].key < t.pending[j].key
    <3> TAKE i, j \in DOMAIN t.pending
    <3> HAVE i < j
    <3>1. i \in 1..n /\ t.pending[i] = s.pending[i]
      BY <1>6
    <3>2. CASE j \in 1..n
      BY <1>6, <2>2, <3>1, <3>2
    <3>3. CASE j = n + 1
      BY <1>4, <1>6, <1>9, <3>1, <3>3
    <3> QED
      BY <1>6, <3>2, <3>3
  <2> QED
    BY <1>2, <2>1, <2>3 DEF PendingInv
<1>11. ASSUME NEW i \in DOMAIN s.w, IsChunk(s.w[i])
       PROVE  Behind(t, s.w[i])
  <2> DEFINE c == s.w[i]
  <2>1. IsChunkRecord(c) /\ Behind(s, c)
    BY <1>11 DEF Good, SinkTyped, ChunksInv
  <2>2. \A k \in DOMAIN c.entries : c.entries[k].key \in Nat
    <3>1. c.entries \in Seq(Entries)
      BY <2>1 DEF IsChunkRecord
    <3> QED
      BY <3>1, EntryKeys
  <2>3. s.lastKey \in Nat /\ key \in Nat
    BY KeysAssumption DEF Good, FieldsTyped
  <2>4. CASE c.ns < s.curNamespace
    BY <1>2, <2>4 DEF Behind
  <2>5. CASE ~(c.ns < s.curNamespace)
    <3>1. /\ c.ns = s.curNamespace /\ c.seq < s.chunkSeq
          /\ \A k \in DOMAIN c.entries : c.entries[k].key <= s.lastKey
          /\ \A k \in DOMAIN c.entries, j \in DOMAIN s.pending :
               c.entries[k].key < s.pending[j].key
      BY <2>1, <2>5 DEF Behind
    <3>2. \A k \in DOMAIN c.entries : c.entries[k].key < key
      BY <2>2, <2>3, <3>1
    <3>3. \A k \in DOMAIN c.entries, j \in DOMAIN t.pending :
               c.entries[k].key < t.pending[j].key
      BY <1>4, <1>6, <3>1, <3>2
    <3>4. \A k \in DOMAIN c.entries : c.entries[k].key <= t.lastKey
      BY <1>2, <2>2, <2>3, <3>2
    <3> QED
      BY <1>2, <3>1, <3>3, <3>4 DEF Behind
  <2> QED
    BY <2>4, <2>5
<1>12. ChunksInv(t)
  BY <1>2, <1>11 DEF Good, ChunksInv
<1> QED
  BY <1>2, <1>7, <1>8, <1>10, <1>12 DEF Good, t

\* The Writer whose last entry has the given position.
AtEntry(t, ns, key) == /\ Good(t)
                       /\ t.nsStarted = TRUE /\ t.curNamespace = ns
                       /\ t.lastKey = key /\ t.keyLen = KeyLength[key]

\* The first entry of a namespace above the current one.
LEMMA TakeFirstGood ==
  ASSUME NEW s, NEW ns \in Namespaces, NEW key \in Keys, NEW value \in Values,
         Good(s), s.pending = <<>>, ~s.nsStarted \/ s.curNamespace < ns,
         NEW t, t = takeEntry(startNamespace(s, ns, KeyLength[key]), key, value)
  PROVE  AtEntry(t, ns, key)
<1> DEFINE b == startNamespace(s, ns, KeyLength[key])
           u == takeEntry(b, key, value)
           e == [key |-> key, value |-> value]
<1>0. t = u
  OBVIOUS
<1>1. DOMAIN s = Fields
  BY DEF Good, FieldsTyped
<1>2. /\ DOMAIN b = Fields /\ b.w = s.w /\ b.faults = s.faults
      /\ b.pending = <<>> /\ b.pendingBytes = s.pendingBytes
      /\ b.nsEntries = 0 /\ b.nsChunks = 0 /\ b.chunkSeq = 0
      /\ b.totalEntries = s.totalEntries /\ b.totalChunks = s.totalChunks
      /\ b.keyLen = KeyLength[key] /\ b.nsStarted = TRUE /\ b.curNamespace = ns
      /\ b.closed = s.closed
  BY <1>1 DEF startNamespace, Fields
<1> HIDE DEF b
<1>3. /\ DOMAIN t = Fields /\ t.w = s.w /\ t.faults = s.faults
      /\ t.pending = Append(<<>>, e) /\ t.lastKey = key
      /\ t.pendingBytes = s.pendingBytes + EntrySize(e)
      /\ t.nsEntries = 0 + 1 /\ t.totalEntries = s.totalEntries + 1
      /\ t.chunkSeq = 0 /\ t.totalChunks = s.totalChunks
      /\ t.nsChunks = 0 /\ t.keyLen = KeyLength[key]
      /\ t.nsStarted = TRUE /\ t.curNamespace = ns /\ t.closed = s.closed
  <2>1. /\ DOMAIN u = Fields /\ u.w = s.w /\ u.faults = s.faults
        /\ u.pending = Append(<<>>, e) /\ u.lastKey = key
        /\ u.pendingBytes = s.pendingBytes + EntrySize(e)
        /\ u.nsEntries = 0 + 1 /\ u.totalEntries = s.totalEntries + 1
        /\ u.chunkSeq = 0 /\ u.totalChunks = s.totalChunks
        /\ u.nsChunks = 0 /\ u.keyLen = KeyLength[key]
        /\ u.nsStarted = TRUE /\ u.curNamespace = ns /\ u.closed = s.closed
    BY <1>2 DEF takeEntry, Fields
  <2> HIDE DEF u
  <2> QED
    BY <1>0, <2>1
<1>4. EntrySize(e) \in Nat /\ KeyLength[key] \in Nat
  BY Lengths DEF EntrySize
<1>5. e \in Entries /\ e.key = key
  BY DEF Entries
<1> HIDE DEF e
<1>6. t.pending \in Seq(Entries) /\ DOMAIN t.pending = {1} /\ t.pending[1] = e
  <2>1. <<>> \in Seq(Entries) /\ Len(<<>>) = 0
    BY EmptySeq
  <2> QED
    BY <1>3, <1>5, <2>1
<1>7. SinkTyped(t)
  BY <1>3 DEF Good, SinkTyped
<1>8. FieldsTyped(t)
  <2>1. /\ s.faults \in Nat /\ s.totalEntries \in Nat
        /\ s.totalChunks \in Nat /\ s.pendingBytes \in Nat
    BY DEF Good, FieldsTyped
  <2>2. s.totalEntries + 1 \in Nat /\ s.pendingBytes + EntrySize(e) \in Nat
        /\ 0 + 1 \in Nat /\ 0 \in Nat
    BY <1>4, <2>1
  <2>3. s.closed \in BOOLEAN /\ TRUE \in BOOLEAN
    BY DEF Good, FieldsTyped
  <2> QED
    BY <1>3, <1>4, <1>6, <2>1, <2>2, <2>3, Zenon DEF FieldsTyped
<1>9. PendingInv(t)
  BY <1>3, <1>5, <1>6, KeysAssumption DEF PendingInv
<1>10. ASSUME NEW i \in DOMAIN s.w, IsChunk(s.w[i])
       PROVE  Behind(t, s.w[i])
  <2>1. IsChunkRecord(s.w[i]) /\ Behind(s, s.w[i])
    BY <1>10 DEF Good, SinkTyped, ChunksInv
  <2>2. s.w[i].ns \in Nat /\ ns \in Nat
    BY <2>1, NamespacesAssumption DEF IsChunkRecord
  <2>3. s.curNamespace \in Nat /\ s.curNamespace < ns
    BY <2>1, NamespacesAssumption DEF Behind, Good, FieldsTyped
  <2>4. s.w[i].ns < ns
    BY <2>1, <2>2, <2>3 DEF Behind
  <2> QED
    BY <1>3, <2>4 DEF Behind
<1>11. ChunksInv(t)
  BY <1>3, <1>10 DEF Good, ChunksInv
<1> QED
  BY <1>3, <1>7, <1>8, <1>9, <1>11 DEF AtEntry, Good

-----------------------------------------------------------------------------
(***************************************************************************)
(* The entries taken in are behind the Writer's position too.              *)
(***************************************************************************)
LogInv(s, log) ==
  /\ log \in Seq(LogEntries)
  /\ ~s.nsStarted => log = <<>>
  /\ \A i \in DOMAIN log :
       \/ log[i].ns < s.curNamespace
       \/ /\ log[i].ns = s.curNamespace
          /\ log[i].key <= s.lastKey
          /\ KeyLength[log[i].key] = s.keyLen
  /\ \A i, j \in DOMAIN log : i < j =>
       /\ Before(log[i], log[j])
       /\ log[i].ns = log[j].ns => KeyLength[log[i].key] = KeyLength[log[j].key]

IInv == Good(sw) /\ LogInv(sw, accepted) /\ err \in Errors

\* The log depends on the position only.
LEMMA LogFrame ==
  ASSUME NEW s, NEW t, NEW log, LogInv(s, log),
         t.nsStarted = s.nsStarted, t.curNamespace = s.curNamespace,
         t.lastKey = s.lastKey, t.keyLen = s.keyLen
  PROVE  LogInv(t, log)
  BY DEF LogInv

\* It may be extended by an entry above the position, which becomes the new one.
LEMMA LogExtend ==
  ASSUME NEW s, NEW t, NEW log, LogInv(s, log), Good(s),
         NEW e \in LogEntries,
         \/ ~s.nsStarted
         \/ s.curNamespace < e.ns
         \/ /\ s.curNamespace = e.ns /\ s.lastKey < e.key
            /\ KeyLength[e.key] = s.keyLen,
         t.nsStarted = TRUE, t.curNamespace = e.ns,
         t.lastKey = e.key, t.keyLen = KeyLength[e.key]
  PROVE  LogInv(t, Append(log, e))
<1> DEFINE new == Append(log, e)
           n == Len(log)
<1>1. log \in Seq(LogEntries)
  BY DEF LogInv
<1>2. /\ n \in Nat /\ DOMAIN log = 1..n /\ new \in Seq(LogEntries)
      /\ DOMAIN new = 1..(n + 1) /\ new[n + 1] = e
      /\ \A i \in 1..n : new[i] = log[i] /\ new[i] \in LogEntries
  BY <1>1
<1>3. ASSUME NEW x \in LogEntries
      PROVE  x.ns \in Nat /\ x.key \in Nat
  BY NamespacesAssumption, KeysAssumption DEF LogEntries
<1> HIDE DEF new, n
<1>4. ASSUME NEW i \in 1..n
      PROVE  /\ Before(log[i], e)
             /\ log[i].ns = e.ns => KeyLength[log[i].key] = KeyLength[e.key]
             /\ log[i].ns = e.ns => log[i].key <= e.key
             /\ log[i].ns <= e.ns
  <2>1. log[i] \in LogEntries
    BY <1>2, <1>4
  <2>2. s.nsStarted
    BY <1>2, <1>4 DEF LogInv
  <2>3. s.curNamespace \in Nat /\ s.lastKey \in Nat
    BY <2>2, NamespacesAssumption, KeysAssumption DEF Good, FieldsTyped
  <2>4. \/ log[i].ns < s.curNamespace
        \/ /\ log[i].ns = s.curNamespace
           /\ log[i].key <= s.lastKey
           /\ KeyLength[log[i].key] = s.keyLen
    BY <1>2, <1>4 DEF LogInv
  <2>5. log[i].ns \in Nat /\ log[i].key \in Nat /\ e.ns \in Nat /\ e.key \in Nat
    BY <1>3, <2>1
  <2>6. CASE s.curNamespace < e.ns
    BY <2>3, <2>4, <2>5, <2>6 DEF Before
  <2>7. CASE /\ s.curNamespace = e.ns /\ s.lastKey < e.key
             /\ KeyLength[e.key] = s.keyLen
    BY <2>3, <2>4, <2>5, <2>7 DEF Before
  <2> QED
    BY <2>2, <2>6, <2>7
<1>5. \A i \in DOMAIN new :
        \/ new[i].ns < t.curNamespace
        \/ /\ new[i].ns = t.curNamespace
           /\ new[i].key <= t.lastKey
           /\ KeyLength[new[i].key] = t.keyLen
  <2> TAKE i \in DOMAIN new
  <2>1. CASE i = n + 1
    BY <1>2, <1>3, <2>1
  <2>2. CASE i \in 1..n
    <3>1. new[i].ns \in Nat /\ e.ns \in Nat /\ new[i] = log[i]
      BY <1>2, <1>3, <2>2
    <3> QED
      BY <1>4, <2>2, <3>1
  <2> QED
    BY <1>2, <2>1, <2>2
<1>6. \A i, j \in DOMAIN new : i < j =>
        /\ Before(new[i], new[j])
        /\ new[i].ns = new[j].ns => KeyLength[new[i].key] = KeyLength[new[j].key]
  <2> TAKE i, j \in DOMAIN new
  <2> HAVE i < j
  <2>1. i \in 1..n /\ new[i] = log[i]
    BY <1>2
  <2>2. CASE j \in 1..n
    BY <1>2, <2>1, <2>2 DEF LogInv
  <2>3. CASE j = n + 1
    BY <1>2, <1>4, <2>1, <2>3
  <2> QED
    BY <1>2, <2>2, <2>3
<1>7. new \in Seq(LogEntries)
  BY <1>2
<1> QED
  BY <1>5, <1>6, <1>7 DEF LogInv, new
-----------------------------------------------------------------------------
\* Every error a call returns is one of Errors.
LEMMA RejectErrTyped ==
  ASSUME NEW ns, NEW key
  PROVE  RejectErr(ns, key) \in Errors
BY DEF RejectErr, Errors

\* The same for the errors of a flush.
LEMMA FlushErrTyped ==
  ASSUME NEW s, NEW o
  PROVE  FlushErr(s, o) \in Errors
BY DEF FlushErr, Errors

\* A call that is not rejected and stays in the namespace is above the position.
LEMMA NotRejected ==
  ASSUME NEW ns \in Namespaces \cup BadNamespaces, NEW key \in Keys, IInv,
         RejectErr(ns, key) = "nil"
  PROVE  /\ ns \in Namespaces
         /\ sw.closed = FALSE
         /\ ChangesNamespace(ns) => sw.curNamespace < ns
         /\ sw.nsStarted /\ ns = sw.curNamespace =>
              sw.lastKey < key /\ KeyLength[key] = sw.keyLen
<1>1. /\ ~sw.closed /\ ns \notin BadNamespaces
      /\ sw.nsStarted => ~(ns < sw.curNamespace)
      /\ sw.nsStarted /\ ~(ns < sw.curNamespace) /\ ~(ns > sw.curNamespace) =>
           ~(key <= sw.lastKey) /\ KeyLength[key] = sw.keyLen
  BY DEF RejectErr
<1>2. ns \in Namespaces /\ ns \in Nat /\ key \in Nat
  BY <1>1, NamespacesAssumption, KeysAssumption
<1>3. sw.nsStarted => sw.curNamespace \in Nat /\ sw.lastKey \in Nat
  BY NamespacesAssumption, KeysAssumption DEF IInv, Good, FieldsTyped
<1>4. sw.closed = FALSE
  <2>1. sw.closed \in BOOLEAN
    BY DEF IInv, Good, FieldsTyped
  <2> QED
    BY <1>1, <2>1
<1>5. ChangesNamespace(ns) => sw.curNamespace < ns
  BY <1>1, <1>2, <1>3 DEF ChangesNamespace
<1>6. sw.nsStarted /\ ns = sw.curNamespace =>
        sw.lastKey < key /\ KeyLength[key] = sw.keyLen
  BY <1>1, <1>2, <1>3
<1> QED
  BY <1>2, <1>4, <1>5, <1>6

\* NewWriter establishes the invariant.
LEMMA InitGood == Init => IInv
<1> SUFFICES ASSUME Init PROVE IInv
  OBVIOUS
<1>1. /\ DOMAIN sw = Fields /\ sw.w = <<Hdr>> /\ sw.faults = 0 /\ sw.chunkSeq = 0
      /\ sw.totalEntries = 0 /\ sw.totalChunks = 0 /\ sw.keyLen = 0
      /\ sw.pendingBytes = 0 /\ sw.nsEntries = 0 /\ sw.nsChunks = 0
      /\ sw.nsStarted = FALSE /\ sw.closed = FALSE /\ sw.pending = <<>>
  BY DEF Init, Fields
<1>2. IsSeq(sw.w) /\ DOMAIN sw.w = {1} /\ sw.w[1] = Hdr
  <2>1. <<Hdr>> \in Seq({Hdr}) /\ DOMAIN <<Hdr>> = {1} /\ <<Hdr>>[1] = Hdr
    OBVIOUS
  <2>2. {<<Hdr>>[i] : i \in DOMAIN <<Hdr>>} = {Hdr}
    BY <2>1
  <2> QED
    BY <1>1, <2>1, <2>2 DEF IsSeq
<1>3. SinkTyped(sw) /\ ChunksInv(sw)
  BY <1>2 DEF SinkTyped, ChunksInv, IsChunk, Hdr, RecordTypes
<1>4. FieldsTyped(sw)
  <2>1. <<>> \in Seq(Entries)
    BY EmptySeq
  <2>2. 0 \in Nat
    OBVIOUS
  <2> QED
    BY <1>1, <2>1, <2>2, Zenon DEF FieldsTyped
<1>5. PendingInv(sw)
  BY <1>1 DEF PendingInv
<1>6. LogInv(sw, accepted)
  <2>1. accepted = <<>>
    BY DEF Init
  <2>2. <<>> \in Seq(LogEntries) /\ DOMAIN <<>> = {}
    BY EmptySeq
  <2> QED
    BY <1>1, <2>1, <2>2 DEF LogInv
<1>7. err \in Errors
  BY DEF Init, Errors
<1> QED
  BY <1>3, <1>4, <1>5, <1>6, <1>7 DEF IInv, Good

\* A namespace change whose flush fails keeps it.
LEMMA AddBlockedGood ==
  ASSUME NEW ns, NEW key, NEW o \in Outcomes, IInv, AddBlocked(ns, key, o)
  PROVE  IInv'
<1>1. sw' = flushChunk(sw, o) /\ err' = FlushErr(sw, o) /\ accepted' = accepted
  BY DEF AddBlocked
<1>2. /\ Good(sw') /\ sw'.nsStarted = sw.nsStarted /\ sw'.curNamespace = sw.curNamespace
      /\ sw'.lastKey = sw.lastKey /\ sw'.keyLen = sw.keyLen
  BY <1>1, FlushGood DEF IInv
<1>3. LogInv(sw', accepted)
  BY <1>2, LogFrame DEF IInv
<1> QED
  BY <1>1, <1>2, <1>3, FlushErrTyped DEF IInv

\* The Writer that AddEntry adds the entry to: the namespace is changed first.
EntryWriter(ns, key, o) ==
  IF ~sw.nsStarted THEN startNamespace(sw, ns, KeyLength[key])
  ELSE IF ns = sw.curNamespace THEN sw
  ELSE startNamespace(finishNamespace(sw, o), ns, KeyLength[key])

\* The Writer with the entry taken is good, in whichever of three ways it came.
LEMMA EntryTakenGood ==
  ASSUME NEW ns \in Namespaces \cup BadNamespaces, NEW key \in Keys, NEW value \in Values,
         NEW o1 \in Outcomes, IInv, RejectErr(ns, key) = "nil",
         ChangesNamespace(ns) => FlushErr(sw, o1) = "nil"
  PROVE  AtEntry(takeEntry(EntryWriter(ns, key, o1), key, value), ns, key)
<1> DEFINE opened == EntryWriter(ns, key, o1)
           taken == takeEntry(opened, key, value)
<1> SUFFICES AtEntry(taken, ns, key)
  OBVIOUS
<1>1. /\ ns \in Namespaces
      /\ ChangesNamespace(ns) => sw.curNamespace < ns
      /\ sw.nsStarted /\ ns = sw.curNamespace =>
           sw.lastKey < key /\ KeyLength[key] = sw.keyLen
  BY NotRejected
<1>3. CASE ~sw.nsStarted
  <2>1. sw.pending = <<>>
    BY <1>3 DEF IInv, Good, PendingInv
  <2>2. taken = takeEntry(startNamespace(sw, ns, KeyLength[key]), key, value)
    BY <1>3 DEF EntryWriter
  <2>3. Good(sw)
    BY DEF IInv
  <2> HIDE DEF taken
  <2> QED
    BY <1>1, <1>3, <2>1, <2>2, <2>3, TakeFirstGood
<1>4. CASE sw.nsStarted /\ ns = sw.curNamespace
  <2>1. taken = takeEntry(sw, key, value)
    BY <1>4 DEF EntryWriter
  <2>2. sw.nsStarted = TRUE
    BY <1>4 DEF IInv, Good, FieldsTyped
  <2> HIDE DEF taken
  <2> QED
    BY <1>1, <1>4, <2>1, <2>2, TakeGood DEF IInv, AtEntry
<1>5. CASE ChangesNamespace(ns)
  <2> DEFINE f == finishNamespace(sw, o1)
  <2>1. taken = takeEntry(startNamespace(f, ns, KeyLength[key]), key, value)
    BY <1>5 DEF ChangesNamespace, EntryWriter
  <2>2. /\ Good(f) /\ f.pending = <<>> /\ f.curNamespace = sw.curNamespace
    BY <1>5, FinishGood DEF IInv
  <2>3. f.curNamespace < ns
    BY <1>1, <1>5, <2>2
  <2> HIDE DEF taken, f
  <2> QED
    BY <1>1, <2>1, <2>2, <2>3, TakeFirstGood
<1> QED
  BY <1>3, <1>4, <1>5 DEF ChangesNamespace

\* Taking an entry keeps it, with the namespace change and the flushes that
\* go with it.
LEMMA AddAcceptedGood ==
  ASSUME NEW ns \in Namespaces \cup BadNamespaces, NEW key \in Keys, NEW value \in Values,
         NEW o1 \in Outcomes, NEW o2 \in Outcomes, IInv,
         AddAccepted(ns, key, value, o1, o2)
  PROVE  IInv'
<1> DEFINE opened == EntryWriter(ns, key, o1)
           taken == takeEntry(opened, key, value)
           e == [ns |-> ns, key |-> key, value |-> value]
<1>1. /\ RejectErr(ns, key) = "nil"
      /\ ChangesNamespace(ns) => FlushErr(sw, o1) = "nil"
      /\ sw' = IF CapReached(taken) THEN flushChunk(taken, o2) ELSE taken
      /\ err' = IF CapReached(taken) THEN FlushErr(taken, o2) ELSE "nil"
      /\ accepted' = Append(accepted, e)
  BY DEF AddAccepted, EntryWriter
<1>2. /\ ns \in Namespaces
      /\ ChangesNamespace(ns) => sw.curNamespace < ns
      /\ sw.nsStarted /\ ns = sw.curNamespace =>
           sw.lastKey < key /\ KeyLength[key] = sw.keyLen
  BY <1>1, NotRejected
<1>8. ns \in Namespaces
  BY <1>2
<1>9. AtEntry(taken, ns, key)
  BY <1>1, EntryTakenGood
<1>3. /\ Good(taken) /\ taken.nsStarted = TRUE /\ taken.curNamespace = ns
      /\ taken.lastKey = key /\ taken.keyLen = KeyLength[key]
  BY <1>9 DEF AtEntry
<1>4. e \in LogEntries /\ e.ns = ns /\ e.key = key
  BY <1>2 DEF LogEntries
<1> HIDE DEF taken, e
<1>5. LogInv(taken, accepted')
  <2>1. \/ ~sw.nsStarted
        \/ sw.curNamespace < ns
        \/ sw.curNamespace = ns /\ sw.lastKey < key /\ KeyLength[key] = sw.keyLen
    BY <1>2 DEF ChangesNamespace
  <2>2. LogInv(taken, Append(accepted, e))
    BY <1>3, <1>4, <2>1, LogExtend DEF IInv
  <2> QED
    BY <1>1, <2>2
<1>6. CASE CapReached(taken)
  <2>1. sw' = flushChunk(taken, o2) /\ err' \in Errors
    BY <1>1, <1>6, FlushErrTyped
  <2>2. /\ Good(sw') /\ sw'.nsStarted = taken.nsStarted
        /\ sw'.curNamespace = taken.curNamespace
        /\ sw'.lastKey = taken.lastKey /\ sw'.keyLen = taken.keyLen
    BY <1>3, <2>1, FlushGood
  <2>3. LogInv(sw', accepted')
    BY <1>5, <2>2, LogFrame
  <2> QED
    BY <2>1, <2>2, <2>3 DEF IInv
<1>7. CASE ~CapReached(taken)
  BY <1>1, <1>3, <1>5, <1>7 DEF IInv, Errors
<1> QED
  BY <1>6, <1>7

\* Closing changes neither the position nor the sink.
LEMMA ClosedGood ==
  ASSUME NEW s, Good(s)
  PROVE  LET t == [s EXCEPT !.closed = TRUE]
         IN  /\ Good(t) /\ t.nsStarted = s.nsStarted /\ t.curNamespace = s.curNamespace
             /\ t.lastKey = s.lastKey /\ t.keyLen = s.keyLen
<1> DEFINE t == [s EXCEPT !.closed = TRUE]
<1>1. DOMAIN s = Fields /\ s.faults \in Nat
  BY DEF Good, FieldsTyped
<1>2. /\ DOMAIN t = Fields /\ SamePosition(s, t) /\ t.w = s.w
      /\ t.faults = s.faults /\ t.closed = TRUE
  BY <1>1 DEF Fields, SamePosition
<1> HIDE DEF t
<1>3. Good(t)
  BY <1>1, <1>2, GoodFrame
<1> QED
  BY <1>2, <1>3 DEF SamePosition, t

\* Writing the manifest keeps the invariant, whatever the sink does.
LEMMA ManifestGood ==
  ASSUME NEW s, Good(s), NEW rec, rec.type = "MANIFEST", NEW o \in Outcomes
  PROVE  LET t == writeRecord(s, rec, o)
         IN  /\ Good(t) /\ t.nsStarted = s.nsStarted /\ t.curNamespace = s.curNamespace
             /\ t.lastKey = s.lastKey /\ t.keyLen = s.keyLen
<1> DEFINE t == writeRecord(s, rec, o)
<1>1. DOMAIN s = Fields /\ s.faults \in Nat /\ s.closed \in BOOLEAN
  BY DEF Good, FieldsTyped
<1>2. /\ DOMAIN t = Fields /\ SamePosition(s, t) /\ t.closed = s.closed
      /\ t.w = s.w \o (IF o = "ok" THEN <<rec>> ELSE IF o = "torn" THEN <<Torn>> ELSE <<>>)
      /\ t.faults = IF o = "ok" THEN s.faults ELSE s.faults + 1
  BY <1>1 DEF writeRecord, Fields, SamePosition
<1> HIDE DEF t
<1>3. t.faults \in Nat
  BY <1>1, <1>2
<1>4. s.w \o <<>> = s.w
  BY ConcatEmptySeq DEF Good, SinkTyped, IsSeq
<1>5. Good(t)
  <2>1. CASE o = "ok"
    BY <1>1, <1>2, <1>3, <2>1, GoodOther
  <2>2. CASE o = "torn"
    <3>1. Torn.type = "TORN"
      BY DEF Torn
    <3> QED
      BY <1>1, <1>2, <1>3, <2>2, <3>1, GoodOther
  <2>3. CASE o = "failed"
    BY <1>1, <1>2, <1>3, <1>4, <2>3, GoodFrame
  <2> QED
    BY <2>1, <2>2, <2>3 DEF Outcomes
<1> QED
  BY <1>2, <1>5 DEF SamePosition, t

\* Close without a MANIFEST keeps it.
LEMMA CloseBlockedGood ==
  ASSUME NEW o \in Outcomes, IInv, CloseBlocked(o)
  PROVE  IInv'
<1> DEFINE f == flushChunk(sw, o)
<1>1. sw' = [f EXCEPT !.closed = TRUE] /\ err' = FlushErr(sw, o) /\ accepted' = accepted
  BY DEF CloseBlocked
<1>2. /\ Good(f) /\ f.nsStarted = sw.nsStarted /\ f.curNamespace = sw.curNamespace
      /\ f.lastKey = sw.lastKey /\ f.keyLen = sw.keyLen
  BY FlushGood DEF IInv
<1> HIDE DEF f
<1>3. /\ Good(sw') /\ sw'.nsStarted = sw.nsStarted /\ sw'.curNamespace = sw.curNamespace
      /\ sw'.lastKey = sw.lastKey /\ sw'.keyLen = sw.keyLen
  BY <1>1, <1>2, ClosedGood
<1>4. LogInv(sw', accepted)
  BY <1>3, LogFrame DEF IInv
<1> QED
  BY <1>1, <1>3, <1>4, FlushErrTyped DEF IInv
\* Close keeps it, whether or not the MANIFEST is encoded and written.
LEMMA CloseGood ==
  ASSUME NEW o1 \in Outcomes, NEW o2 \in Outcomes, IInv, Close(o1, o2)
  PROVE  IInv'
<1> DEFINE s == IF sw.nsStarted THEN finishNamespace(sw, o1) ELSE sw
           m == Manifest(s.totalEntries, s.totalChunks, GlobalRoot(s.namespaces), s.namespaces)
           fin == IF s.summary = "utf8" THEN writeRecord(s, m, o2) ELSE s
<1>1. /\ sw.nsStarted => FlushErr(sw, o1) = "nil"
      /\ sw' = [fin EXCEPT !.closed = TRUE]
      /\ accepted' = accepted
  BY DEF Close
<1>2. err' \in Errors
  BY DEF Close, Errors
<1>3. m.type = "MANIFEST"
  BY DEF Manifest
<1>4. Good(s) /\ LogInv(s, accepted)
  <2>1. CASE sw.nsStarted
    <3>1. /\ Good(s) /\ s.nsStarted = sw.nsStarted /\ s.curNamespace = sw.curNamespace
          /\ s.lastKey = sw.lastKey /\ s.keyLen = sw.keyLen
      BY <1>1, <2>1, FinishGood DEF IInv
    <3> HIDE DEF s
    <3> QED
      BY <3>1, LogFrame DEF IInv
  <2>2. CASE ~sw.nsStarted
    BY <2>2 DEF IInv
  <2> QED
    BY <2>1, <2>2
<1> HIDE DEF s, m
<1>5. Good(fin) /\ LogInv(fin, accepted)
  <2>1. CASE s.summary = "utf8"
    <3> DEFINE t == writeRecord(s, m, o2)
    <3>1. /\ Good(t) /\ t.nsStarted = s.nsStarted /\ t.curNamespace = s.curNamespace
          /\ t.lastKey = s.lastKey /\ t.keyLen = s.keyLen
      BY <1>3, <1>4, ManifestGood
    <3>2. fin = t
      BY <2>1
    <3> HIDE DEF t, fin
    <3> QED
      BY <1>4, <3>1, <3>2, LogFrame
  <2>2. CASE s.summary # "utf8"
    BY <1>4, <2>2
  <2> QED
    BY <2>1, <2>2
<1> HIDE DEF fin
<1>6. /\ Good(sw') /\ sw'.nsStarted = fin.nsStarted /\ sw'.curNamespace = fin.curNamespace
      /\ sw'.lastKey = fin.lastKey /\ sw'.keyLen = fin.keyLen
  BY <1>1, <1>5, ClosedGood
<1>7. LogInv(sw', accepted)
  BY <1>5, <1>6, LogFrame
<1> QED
  BY <1>1, <1>2, <1>6, <1>7 DEF IInv

\* Every call keeps it.
LEMMA NextGood == IInv /\ [Next]_vars => IInv'
<1> SUFFICES ASSUME IInv, [Next]_vars PROVE IInv'
  OBVIOUS
<1>1. ASSUME NEW ns \in Namespaces \cup BadNamespaces, NEW key \in Keys,
             NEW value \in Values, AddEntry(ns, key, value)
      PROVE  IInv'
  <2>1. CASE AddRejected(ns, key)
    BY <2>1, RejectErrTyped DEF AddRejected, IInv
  <2>2. ASSUME NEW o \in Outcomes, AddBlocked(ns, key, o)
        PROVE  IInv'
    BY <2>2, AddBlockedGood
  <2>3. ASSUME NEW o1 \in Outcomes, NEW o2 \in Outcomes,
               AddAccepted(ns, key, value, o1, o2)
        PROVE  IInv'
    BY <1>1, <2>3, AddAcceptedGood
  <2> QED
    BY <1>1, <2>1, <2>2, <2>3 DEF AddEntry
<1>2. CASE CloseCall
  <2>1. CASE CloseRejected
    BY <2>1 DEF CloseRejected, IInv, Errors
  <2>2. ASSUME NEW o \in Outcomes, CloseBlocked(o)
        PROVE  IInv'
    BY <2>2, CloseBlockedGood
  <2>3. ASSUME NEW o1 \in Outcomes, NEW o2 \in Outcomes, Close(o1, o2)
        PROVE  IInv'
    BY <2>3, CloseGood
  <2> QED
    BY <1>2, <2>1, <2>2, <2>3 DEF CloseCall
<1>3. CASE UNCHANGED vars
  BY <1>3 DEF vars, IInv
<1> QED
  BY <1>1, <1>2, <1>3 DEF Next
-----------------------------------------------------------------------------
\* The invariant holds in every state of a Writer, whichever calls its owner
\* makes after whichever errors, and whatever the sink does with the records.
THEOREM WriterInvariant == Spec => []IInv
<1> QED
  BY InitGood, NextGood, PTL DEF Spec

\* The fields of struct Writer (writer.go:64-87) and the records it emits keep
\* their types; in particular every CHUNK carries the hash of its entries.
THEOREM WriterTypes == Spec => []TypeOK
<1>1. IInv => TypeOK
  BY DEF IInv, Good, SinkTyped, FieldsTyped, LogInv, RecordTypes, TypeOK
<1> QED
  BY <1>1, WriterInvariant, PTL

\* The entries AddEntry takes in ascend strictly and have one key length per
\* namespace, across failed and repeated calls (writer.go:117-141).
THEOREM WriterLogAscends == Spec => []AcceptedAscend
<1>1. IInv => AcceptedAscend
  BY DEF IInv, LogInv, AcceptedAscend
<1> QED
  BY <1>1, WriterInvariant, PTL

\* However writes fail and are retried, the entries taken in ascend, every chunk
\* that reaches the sink is sound and the chunks are in the order Verify demands
\* (writer.go:117-141,172-196).
THEOREM WriterFileOrdered == Spec => []FileOrdered
<1>1. IInv => ChunksAscend
  BY DEF IInv, Good, ChunksInv, ChunksAscend
<1> QED
  BY <1>1, WriterInvariant, WriterLogAscends, PTL DEF FileOrdered

-----------------------------------------------------------------------------
(***************************************************************************)
(* The folds of the model, unfolded.                                       *)
(***************************************************************************)
FileFold == INSTANCE SeqFold WITH
  op <- LAMBDA log, rec : IF IsChunk(rec) THEN log \o Located(rec.ns, rec.entries)
                          ELSE log

SizeFold == INSTANCE SeqFold WITH op <- LAMBDA n, e : n + EntrySize(e)

PartFold == INSTANCE SeqFold WITH
  op <- LAMBDA parts, e : [parts EXCEPT ![e.ns] = Append(@, e)]

TreeFold == INSTANCE SeqFold WITH op <- Add

\* EntriesOf reads a file record by record.
LEMMA EntriesOfRecord ==
  ASSUME NEW w, NEW rec, IsSeq(w)
  PROVE  /\ EntriesOf(<<>>) = <<>>
         /\ EntriesOf(w \o <<rec>>) = IF IsChunk(rec)
                                        THEN EntriesOf(w) \o Located(rec.ns, rec.entries)
                                        ELSE EntriesOf(w)
<1>1. \A q : EntriesOf(q) = FileFold!Fold(<<>>, q)
  BY DEF EntriesOf, FoldLeft, MapThenFoldSet, Max,
         FileFold!Fold, FileFold!FoldLeft, FileFold!MapThenFoldSet, FileFold!Max
<1>2. EntriesOf(<<>>) = <<>>
  BY <1>1, FileFold!FoldEmpty
<1>3. EntriesOf(w \o <<rec>>) = IF IsChunk(rec)
                                  THEN EntriesOf(w) \o Located(rec.ns, rec.entries)
                                  ELSE EntriesOf(w)
  <2>1. FileFold!IsSeq(w)
    BY DEF IsSeq, FileFold!IsSeq
  <2> QED
    BY <1>1, <2>1, FileFold!FoldSnoc
<1> QED
  BY <1>2, <1>3

\* EntriesSize starts at 0 and adds an entry's size.
LEMMA SizeIsFold == \A q : EntriesSize(q) = SizeFold!Fold(0, q)
BY DEF EntriesSize, FoldLeft, MapThenFoldSet, Max,
       SizeFold!Fold, SizeFold!FoldLeft, SizeFold!MapThenFoldSet, SizeFold!Max

\* No entries have no size.
LEMMA EntriesSizeEmpty == EntriesSize(<<>>) = 0
BY SizeIsFold, SizeFold!FoldEmpty

\* One entry more adds its size.
LEMMA EntriesSizeAppend ==
  ASSUME NEW q \in Seq(Entries), NEW e \in Entries
  PROVE  EntriesSize(Append(q, e)) = EntriesSize(q) + EntrySize(e)
BY SizeIsFold, SizeFold!FoldAppend

\* ByNamespace files an entry under its namespace.
LEMMA PartIsFold ==
  \A q : ByNamespace(q) = PartFold!Fold([ns \in Namespaces |-> <<>>], q)
BY DEF ByNamespace, FoldLeft, MapThenFoldSet, Max,
       PartFold!Fold, PartFold!FoldLeft, PartFold!MapThenFoldSet, PartFold!Max

\* An empty log has nothing in any namespace.
LEMMA ByNamespaceEmpty == ByNamespace(<<>>) = [ns \in Namespaces |-> <<>>]
BY PartIsFold, PartFold!FoldEmpty

\* One entry more is the last of its namespace.
LEMMA ByNamespaceAppend ==
  ASSUME NEW q \in Seq(LogEntries), NEW e \in LogEntries
  PROVE  ByNamespace(Append(q, e)) = [ByNamespace(q) EXCEPT ![e.ns] = Append(@, e)]
BY PartIsFold, PartFold!FoldAppend

\* TreeOf adds leaf after leaf.
LEMMA TreeIsFold == \A q : TreeOf(q) = TreeFold!Fold(EmptyTree, q)
BY DEF TreeOf, FoldLeft, MapThenFoldSet, Max,
       TreeFold!Fold, TreeFold!FoldLeft, TreeFold!MapThenFoldSet, TreeFold!Max

\* No leaves make the empty tree.
LEMMA TreeOfEmpty == TreeOf(<<>>) = EmptyTree
BY TreeIsFold, TreeFold!FoldEmpty

\* One leaf more is one Add more: what the Writer does per entry is what
\* TreeOf does over the whole log.
LEMMA TreeOfAppend ==
  ASSUME NEW S, NEW q \in Seq(S), NEW leaf \in S
  PROVE  TreeOf(Append(q, leaf)) = Add(TreeOf(q), leaf)
BY TreeIsFold, TreeFold!FoldAppend

-----------------------------------------------------------------------------
(***************************************************************************)
(* What one record more changes of what the model reads off the sink.      *)
(***************************************************************************)
AllChunks(w) == {i \in DOMAIN w : IsChunk(w[i])}

Earlier(w, i) == {j \in ChunkPositions(w, w[i].ns) : j < i}

Dense(w) == \A i \in DOMAIN w : IsChunk(w[i]) => w[i].seq = Cardinality(Earlier(w, i))

\* A record that is no chunk changes nothing.
LEMMA SinkOther ==
  ASSUME NEW w, NEW rec, IsSeq(w), ~IsChunk(rec), NEW v, v = w \o <<rec>>
  PROVE  /\ EntriesOf(v) = EntriesOf(w)
         /\ AllChunks(v) = AllChunks(w)
         /\ \A ns : ChunkPositions(v, ns) = ChunkPositions(w, ns)
         /\ Dense(w) => Dense(v)
<1>1. EntriesOf(v) = EntriesOf(w)
  BY EntriesOfRecord
<1>2. /\ Len(w) \in Nat /\ DOMAIN w = 1..Len(w) /\ DOMAIN v = 1..(Len(w) + 1)
      /\ \A i \in 1..Len(w) : v[i] = w[i]
      /\ v[Len(w) + 1] = rec
  BY Extension
<1>3. AllChunks(v) = AllChunks(w)
  BY <1>2 DEF AllChunks
<1>4. \A ns : ChunkPositions(v, ns) = ChunkPositions(w, ns)
  BY <1>2 DEF ChunkPositions
<1>5. ASSUME Dense(w), NEW i \in DOMAIN v, IsChunk(v[i])
      PROVE  v[i].seq = Cardinality(Earlier(v, i))
  <2>1. i \in DOMAIN w /\ v[i] = w[i]
    BY <1>2, <1>5
  <2>2. Earlier(v, i) = Earlier(w, i)
    BY <1>4, <2>1 DEF Earlier
  <2> QED
    BY <1>5, <2>1, <2>2 DEF Dense
<1> QED
  BY <1>1, <1>3, <1>4, <1>5 DEF Dense

\* The chunks of a file can be counted.
LEMMA ChunksCounted ==
  ASSUME NEW w, IsSeq(w)
  PROVE  /\ IsFiniteSet(AllChunks(w)) /\ Cardinality(AllChunks(w)) \in Nat
         /\ \A ns : /\ IsFiniteSet(ChunkPositions(w, ns))
                    /\ Cardinality(ChunkPositions(w, ns)) \in Nat
<1>1. Len(w) \in Nat /\ DOMAIN w = 1..Len(w)
  BY LenProperties DEF IsSeq
<1>2. IsFiniteSet(DOMAIN w)
  BY <1>1, FS_Interval
<1>3. IsFiniteSet(AllChunks(w))
  BY <1>2, FS_Subset DEF AllChunks
<1>4. ASSUME NEW ns PROVE IsFiniteSet(ChunkPositions(w, ns))
  BY <1>2, FS_Subset DEF ChunkPositions
<1> QED
  BY <1>3, <1>4, FS_CardinalityType

\* A chunk is counted once, in its namespace.
LEMMA SinkChunk ==
  ASSUME NEW w, NEW c, IsSeq(w), IsChunk(c), NEW v, v = w \o <<c>>
  PROVE  /\ EntriesOf(v) = EntriesOf(w) \o Located(c.ns, c.entries)
         /\ Cardinality(AllChunks(v)) = Cardinality(AllChunks(w)) + 1
         /\ Cardinality(ChunkPositions(v, c.ns)) = Cardinality(ChunkPositions(w, c.ns)) + 1
         /\ \A ns : ns # c.ns => ChunkPositions(v, ns) = ChunkPositions(w, ns)
         /\ Dense(w) /\ c.seq = Cardinality(ChunkPositions(w, c.ns)) => Dense(v)
<1> DEFINE n == Len(w)
<1>1. EntriesOf(v) = EntriesOf(w) \o Located(c.ns, c.entries)
  BY EntriesOfRecord
<1>2. /\ n \in Nat /\ DOMAIN w = 1..n /\ DOMAIN v = 1..(n + 1)
      /\ \A i \in 1..n : v[i] = w[i]
      /\ v[n + 1] = c
  BY Extension
<1> HIDE DEF n
<1>3. n + 1 \notin AllChunks(w) /\ \A ns : n + 1 \notin ChunkPositions(w, ns)
  BY <1>2 DEF AllChunks, ChunkPositions
<1>4. AllChunks(v) = AllChunks(w) \cup {n + 1}
  BY <1>2 DEF AllChunks
<1>5. ChunkPositions(v, c.ns) = ChunkPositions(w, c.ns) \cup {n + 1}
  BY <1>2 DEF ChunkPositions
<1>6. \A ns : ns # c.ns => ChunkPositions(v, ns) = ChunkPositions(w, ns)
  BY <1>2 DEF ChunkPositions
<1>7. Cardinality(AllChunks(v)) = Cardinality(AllChunks(w)) + 1
  BY <1>3, <1>4, ChunksCounted, FS_AddElement
<1>8. Cardinality(ChunkPositions(v, c.ns)) = Cardinality(ChunkPositions(w, c.ns)) + 1
  BY <1>3, <1>5, ChunksCounted, FS_AddElement
<1>9. ASSUME Dense(w), c.seq = Cardinality(ChunkPositions(w, c.ns)),
             NEW i \in DOMAIN v, IsChunk(v[i])
      PROVE  v[i].seq = Cardinality(Earlier(v, i))
  <2>1. CASE i = n + 1
    <3>1. \A j \in ChunkPositions(w, c.ns) : j < n + 1
      BY <1>2 DEF ChunkPositions
    <3>2. Earlier(v, i) = ChunkPositions(w, c.ns)
      BY <1>2, <1>5, <2>1, <3>1 DEF Earlier
    <3> QED
      BY <1>2, <1>9, <2>1, <3>2
  <2>2. CASE i \in DOMAIN w
    <3>1. v[i] = w[i] /\ i <= n /\ i \in Nat
      BY <1>2, <2>2
    <3>2. Earlier(v, i) = Earlier(w, i)
      <4>1. ~(n + 1 < i)
        BY <1>2, <3>1
      <4> QED
        BY <1>5, <1>6, <3>1, <4>1 DEF Earlier
    <3> QED
      BY <1>9, <2>2, <3>1, <3>2 DEF Dense
  <2> QED
    BY <1>2, <2>1, <2>2
<1>10. Dense(w) /\ c.seq = Cardinality(ChunkPositions(w, c.ns)) => Dense(v)
  BY <1>9 DEF Dense
<1> QED
  BY <1>1, <1>6, <1>7, <1>8, <1>10

-----------------------------------------------------------------------------
(***************************************************************************)
(* What the Writer's helpers do, field by field.                           *)
(***************************************************************************)
SamePlace(s, t) ==
  /\ DOMAIN t = Fields
  /\ t.curNamespace = s.curNamespace /\ t.nsStarted = s.nsStarted
  /\ t.lastKey = s.lastKey /\ t.keyLen = s.keyLen /\ t.nsTree = s.nsTree
  /\ t.nsEntries = s.nsEntries /\ t.totalEntries = s.totalEntries
  /\ t.namespaces = s.namespaces /\ t.closed = s.closed /\ t.summary = s.summary

\* No chunk is written.
Kept(s, t) ==
  /\ SamePlace(s, t)
  /\ t.w = s.w \/ t.w = s.w \o <<Torn>>
  /\ t.chunkSeq = s.chunkSeq /\ t.totalChunks = s.totalChunks
  /\ t.nsChunks = s.nsChunks
  /\ t.pending = s.pending /\ t.pendingBytes = s.pendingBytes

\* The pending entries become a chunk.
Flushed(s, t) ==
  /\ SamePlace(s, t)
  /\ t.w = s.w \o <<PendingChunk(s)>>
  /\ t.chunkSeq = s.chunkSeq + 1 /\ t.totalChunks = s.totalChunks + 1
  /\ t.nsChunks = s.nsChunks + 1
  /\ t.pending = <<>> /\ t.pendingBytes = 0

\* flushChunk does one or the other, and is silent only when nothing stays
\* pending.
LEMMA FlushEffect ==
  ASSUME NEW s, NEW o \in Outcomes, Good(s)
  PROVE  LET t == flushChunk(s, o)
         IN  \/ Kept(s, t) /\ (FlushErr(s, o) = "nil" => s.pending = <<>>)
             \/ Flushed(s, t) /\ s.pending # <<>>
<1> DEFINE t == flushChunk(s, o)
           c == PendingChunk(s)
<1>0. DOMAIN s = Fields
  BY DEF Good, FieldsTyped
<1>1. CASE ~Writable(s)
  <2>1. t = s
    BY <1>1 DEF flushChunk
  <2>2. FlushErr(s, o) = "nil" => s.pending = <<>>
    BY <1>1 DEF FlushErr, Writable
  <2> QED
    BY <1>0, <2>1, <2>2 DEF Kept, SamePlace
<1>2. CASE Writable(s) /\ o = "failed"
  <2>1. t = [s EXCEPT !.w = @ \o <<>>, !.faults = @ + 1]
    BY <1>2 DEF flushChunk, writeRecord
  <2>2. s.w \o <<>> = s.w
    BY ConcatEmptySeq DEF Good, SinkTyped, IsSeq
  <2>3. Kept(s, t)
    BY <1>0, <2>1, <2>2 DEF Kept, SamePlace, Fields
  <2>4. FlushErr(s, o) # "nil"
    BY <1>2 DEF FlushErr, Writable
  <2> QED
    BY <2>3, <2>4
<1>3. CASE Writable(s) /\ o = "torn"
  <2>1. t = [s EXCEPT !.w = @ \o <<Torn>>, !.faults = @ + 1]
    BY <1>3 DEF flushChunk, writeRecord
  <2>2. Kept(s, t)
    BY <1>0, <2>1 DEF Kept, SamePlace, Fields
  <2>3. FlushErr(s, o) # "nil"
    BY <1>3 DEF FlushErr, Writable
  <2> QED
    BY <2>2, <2>3
<1>4. CASE Writable(s) /\ o = "ok"
  <2>1. t = [[s EXCEPT !.w = @ \o <<c>>, !.faults = @] EXCEPT
               !.chunkSeq = @ + 1, !.totalChunks = @ + 1, !.nsChunks = @ + 1,
               !.pending = <<>>, !.pendingBytes = 0]
    BY <1>4 DEF flushChunk, writeRecord
  <2>2. Flushed(s, t)
    BY <1>0, <2>1 DEF Flushed, SamePlace, Fields
  <2>3. s.pending # <<>>
    BY <1>4 DEF Writable
  <2> QED
    BY <2>2, <2>3
<1> QED
  BY <1>1, <1>2, <1>3, <1>4 DEF Outcomes

\* The namespace's line of the manifest joins the others.
Finished(f, t) ==
  /\ DOMAIN t = Fields /\ t.w = f.w
  /\ t.curNamespace = f.curNamespace /\ t.nsStarted = f.nsStarted
  /\ t.lastKey = f.lastKey /\ t.keyLen = f.keyLen /\ t.nsTree = f.nsTree
  /\ t.nsEntries = f.nsEntries /\ t.totalEntries = f.totalEntries
  /\ t.chunkSeq = f.chunkSeq /\ t.totalChunks = f.totalChunks
  /\ t.nsChunks = f.nsChunks
  /\ t.pending = f.pending /\ t.pendingBytes = f.pendingBytes
  /\ t.closed = f.closed /\ t.summary = f.summary
  /\ t.namespaces = Append(f.namespaces,
        NamespaceInfo(f.curNamespace, f.nsEntries, f.nsChunks, Root(f.nsTree)))

\* finishNamespace adds the line of the current namespace to what its flush left.
LEMMA FinishEffect ==
  ASSUME NEW s, NEW o \in Outcomes, Good(s)
  PROVE  Finished(flushChunk(s, o), finishNamespace(s, o))
<1> DEFINE f == flushChunk(s, o)
           t == finishNamespace(s, o)
           info == NamespaceInfo(f.curNamespace, f.nsEntries, f.nsChunks, Root(f.nsTree))
<1>1. DOMAIN f = Fields
  BY FlushGood DEF Good, FieldsTyped
<1>2. t = [f EXCEPT !.namespaces = Append(@, info)]
  BY DEF finishNamespace
<1> HIDE DEF f, t
<1>3. Finished(f, t)
  BY <1>1, <1>2 DEF Finished, Fields
<1> QED
  BY <1>3 DEF f, t

Started(s, t, ns, keyLen) ==
  /\ DOMAIN t = Fields /\ t.w = s.w
  /\ t.curNamespace = ns /\ t.nsStarted = TRUE /\ t.keyLen = keyLen
  /\ t.nsTree = EmptyTree /\ t.nsEntries = 0 /\ t.nsChunks = 0 /\ t.chunkSeq = 0
  /\ t.totalEntries = s.totalEntries /\ t.totalChunks = s.totalChunks
  /\ t.pending = s.pending /\ t.pendingBytes = s.pendingBytes
  /\ t.namespaces = s.namespaces /\ t.closed = s.closed

\* startNamespace resets what is counted per namespace.
LEMMA StartEffect ==
  ASSUME NEW s, NEW ns, NEW keyLen, DOMAIN s = Fields
  PROVE  Started(s, startNamespace(s, ns, keyLen), ns, keyLen)
BY DEF Started, startNamespace, Fields

Taken(s, t, key, value) ==
  LET e == [key |-> key, value |-> value]
  IN  /\ DOMAIN t = Fields /\ t.w = s.w
      /\ t.curNamespace = s.curNamespace /\ t.nsStarted = s.nsStarted
      /\ t.lastKey = key /\ t.keyLen = s.keyLen
      /\ t.pending = Append(s.pending, e)
      /\ t.pendingBytes = s.pendingBytes + EntrySize(e)
      /\ t.nsTree = Add(s.nsTree, EntryDigest(s.curNamespace, key, value))
      /\ t.nsEntries = s.nsEntries + 1 /\ t.totalEntries = s.totalEntries + 1
      /\ t.chunkSeq = s.chunkSeq /\ t.totalChunks = s.totalChunks
      /\ t.nsChunks = s.nsChunks
      /\ t.namespaces = s.namespaces /\ t.closed = s.closed

\* takeEntry adds its entry to the pending ones, the tree and the counters.
LEMMA TakeEffect ==
  ASSUME NEW s, NEW key, NEW value, DOMAIN s = Fields
  PROVE  Taken(s, takeEntry(s, key, value), key, value)
BY DEF Taken, takeEntry, Fields

-----------------------------------------------------------------------------
\* A sequence mapped to another, element by element.
LEMMA LocatedSeq ==
  ASSUME NEW ns \in Namespaces, NEW q \in Seq(Entries)
  PROVE  Located(ns, q) \in Seq(LogEntries)
<1> DEFINE m == Located(ns, q)
           n == Len(q)
<1>1. n \in Nat /\ DOMAIN q = 1..n /\ \A i \in 1..n : q[i] \in Entries
  OBVIOUS
<1>2. m \in [1..n -> LogEntries]
  BY <1>1 DEF Located, LogEntries, Entries
<1> HIDE DEF m, n
<1>3. m \in UNION {[1..k -> LogEntries] : k \in Nat}
  BY <1>1, <1>2
<1> QED
  BY <1>3, SeqDef DEF m

\* No entries are located nowhere.
LEMMA LocatedEmpty == \A ns : Located(ns, <<>>) = <<>>
BY DEF Located

\* One entry more is located last.
LEMMA LocatedAppend ==
  ASSUME NEW ns \in Namespaces, NEW q \in Seq(Entries), NEW e \in Entries
  PROVE  Located(ns, Append(q, e))
           = Append(Located(ns, q), [ns |-> ns, key |-> e.key, value |-> e.value])
<1> DEFINE x == [ns |-> ns, key |-> e.key, value |-> e.value]
           n == Len(q)
           a == Located(ns, Append(q, e))
           b == Append(Located(ns, q), x)
<1>1. Located(ns, q) \in Seq(LogEntries) /\ a \in Seq(LogEntries) /\ x \in LogEntries
  <2>1. Append(q, e) \in Seq(Entries)
    OBVIOUS
  <2>2. x \in LogEntries
    BY DEF LogEntries, Entries
  <2> QED
    BY <2>1, <2>2, LocatedSeq
<1>2. /\ n \in Nat /\ DOMAIN q = 1..n /\ DOMAIN Append(q, e) = 1..(n + 1)
      /\ \A i \in 1..n : Append(q, e)[i] = q[i]
      /\ Append(q, e)[n + 1] = e
  OBVIOUS
<1>3. DOMAIN Located(ns, q) = 1..n /\ DOMAIN a = 1..(n + 1)
  BY <1>2 DEF Located
<1>4. Len(Located(ns, q)) = n /\ Len(a) = n + 1
  BY <1>1, <1>2, <1>3
<1>5. b \in Seq(LogEntries) /\ Len(b) = n + 1 /\ b[n + 1] = x
      /\ \A i \in 1..n : b[i] = Located(ns, q)[i]
  <2> HIDE DEF x
  <2> QED
    BY <1>1, <1>2, <1>4
<1>6. /\ \A i \in 1..n : a[i] = Located(ns, q)[i]
      /\ a[n + 1] = x
  BY <1>2 DEF Located
<1> HIDE DEF a, b, n, x
<1>7. \A i \in 1..(n + 1) : i \in 1..n \/ i = n + 1
  BY <1>2
<1>8. \A i \in 1..(n + 1) : a[i] = b[i]
  BY <1>5, <1>6, <1>7
<1>9. a = b
  BY <1>1, <1>4, <1>5, <1>8, SeqEqual
<1> QED
  BY <1>9 DEF a, b, x

\* The leaves of a log, one entry further.
Leaves == {EntryDigest(e.ns, e.key, e.value) : e \in LogEntries}

\* A log has as many leaves as entries.
LEMMA LeavesSeq ==
  ASSUME NEW q \in Seq(LogEntries)
  PROVE  LeavesIn(q) \in Seq(Leaves) /\ Len(LeavesIn(q)) = Len(q)
<1> DEFINE m == LeavesIn(q)
           n == Len(q)
<1>1. n \in Nat /\ DOMAIN q = 1..n /\ \A i \in 1..n : q[i] \in LogEntries
  OBVIOUS
<1>2. m \in [1..n -> Leaves]
  BY <1>1 DEF LeavesIn, Leaves
<1> HIDE DEF m, n
<1>3. m \in UNION {[1..k -> Leaves] : k \in Nat}
  BY <1>1, <1>2
<1>4. m \in Seq(Leaves)
  BY <1>3, SeqDef
<1>5. Len(m) = n
  BY <1>1, <1>2, <1>4
<1> QED
  BY <1>4, <1>5 DEF m, n

\* One entry more has its leaf last.
LEMMA LeavesAppend ==
  ASSUME NEW q \in Seq(LogEntries), NEW e \in LogEntries
  PROVE  LeavesIn(Append(q, e)) = Append(LeavesIn(q), EntryDigest(e.ns, e.key, e.value))
<1> DEFINE x == EntryDigest(e.ns, e.key, e.value)
           n == Len(q)
           p == Append(q, e)
           a == LeavesIn(p)
           b == Append(LeavesIn(q), x)
<1>2. /\ n \in Nat /\ DOMAIN q = 1..n /\ DOMAIN p = 1..(n + 1)
      /\ \A i \in 1..n : p[i] = q[i]
      /\ p[n + 1] = e /\ p \in Seq(LogEntries) /\ Len(p) = n + 1
  OBVIOUS
<1> HIDE DEF p
<1>1. /\ LeavesIn(q) \in Seq(Leaves) /\ Len(LeavesIn(q)) = n
      /\ a \in Seq(Leaves) /\ Len(a) = n + 1 /\ x \in Leaves
  BY <1>2, LeavesSeq DEF Leaves
<1>5. b \in Seq(Leaves) /\ Len(b) = n + 1 /\ b[n + 1] = x
      /\ \A i \in 1..n : b[i] = LeavesIn(q)[i]
  <2> HIDE DEF x
  <2> QED
    BY <1>1, <1>2
<1>6. /\ \A i \in 1..n : a[i] = LeavesIn(q)[i]
      /\ a[n + 1] = x
  BY <1>2 DEF LeavesIn
<1> HIDE DEF a, b, n, x
<1>7. \A i \in 1..(n + 1) : i \in 1..n \/ i = n + 1
  BY <1>2
<1>8. \A i \in 1..(n + 1) : a[i] = b[i]
  BY <1>5, <1>6, <1>7
<1>9. a = b
  BY <1>1, <1>5, <1>8, SeqEqual
<1> QED
  BY <1>9 DEF a, b, p, x

-----------------------------------------------------------------------------
(***************************************************************************)
(* The invariant, of a Writer s and a log.  Core holds of every Writer a   *)
(* call passes through, between two namespaces too.                        *)
(***************************************************************************)
\* The file, and then the pending entries, are the log.
Content(s, log) ==
  /\ EntriesOf(s.w) \in Seq(LogEntries)
  /\ EntriesOf(s.w) \o Located(s.curNamespace, s.pending) = log

Sized(s) == s.pendingBytes = EntriesSize(s.pending)

Totals(s, log) == /\ s.totalEntries = Len(log)
                  /\ s.totalChunks = Cardinality(AllChunks(s.w))
                  /\ Dense(s.w)

\* No entry of a namespace still to come is in the log.
Parts(s, log) ==
  /\ ByNamespace(log) \in [Namespaces -> Seq(LogEntries)]
  /\ \A ns \in Namespaces : (s.nsStarted => s.curNamespace < ns) => ByNamespace(log)[ns] = <<>>

\* The counters and the tree are those of the current namespace.
Current(s, log) ==
  s.nsStarted =>
    /\ s.nsEntries = Len(ByNamespace(log)[s.curNamespace])
    /\ s.nsTree = TreeOf(LeavesIn(ByNamespace(log)[s.curNamespace]))
    /\ s.nsChunks = Cardinality(ChunkPositions(s.w, s.curNamespace))
    /\ s.chunkSeq = s.nsChunks

Infos(s, log) ==
  /\ IsSeq(s.namespaces)
  /\ \A i \in DOMAIN s.namespaces : /\ s.namespaces[i].name \in Namespaces
                                    /\ InfoSays(s.namespaces[i], s.w, log)

\* The names are listed in ascending order.
ListAscends(s) ==
  \A i, j \in DOMAIN s.namespaces : i < j => s.namespaces[i].name < s.namespaces[j].name

Core(s, log) == /\ Content(s, log) /\ Sized(s) /\ Totals(s, log)
                /\ Parts(s, log) /\ Current(s, log)
                /\ Infos(s, log) /\ ListAscends(s)

\* The finished namespaces are below the current one; between namespaces it is
\* one of them.
Below(s)   == \A i \in DOMAIN s.namespaces : s.nsStarted /\ s.namespaces[i].name < s.curNamespace
Between(s) == \A i \in DOMAIN s.namespaces : s.nsStarted /\ s.namespaces[i].name <= s.curNamespace

SameCounts(s, t) ==
  /\ t.curNamespace = s.curNamespace /\ t.nsStarted = s.nsStarted
  /\ t.pending = s.pending /\ t.pendingBytes = s.pendingBytes
  /\ t.totalEntries = s.totalEntries /\ t.totalChunks = s.totalChunks
  /\ t.nsTree = s.nsTree /\ t.nsEntries = s.nsEntries
  /\ t.nsChunks = s.nsChunks /\ t.chunkSeq = s.chunkSeq
  /\ t.namespaces = s.namespaces

\* Core does not notice a record that is no chunk.
LEMMA CoreKept ==
  ASSUME NEW s, NEW t, NEW log, Core(s, log), IsSeq(s.w), SameCounts(s, t),
         t.w = s.w \/ \E rec : ~IsChunk(rec) /\ t.w = s.w \o <<rec>>
  PROVE  Core(t, log)
<1>1. /\ EntriesOf(t.w) = EntriesOf(s.w)
      /\ AllChunks(t.w) = AllChunks(s.w)
      /\ \A ns : ChunkPositions(t.w, ns) = ChunkPositions(s.w, ns)
      /\ Dense(s.w) => Dense(t.w)
  <2>1. CASE t.w = s.w
    BY <2>1
  <2>2. ASSUME NEW rec, ~IsChunk(rec), t.w = s.w \o <<rec>>
        PROVE  /\ EntriesOf(t.w) = EntriesOf(s.w)
               /\ AllChunks(t.w) = AllChunks(s.w)
               /\ \A ns : ChunkPositions(t.w, ns) = ChunkPositions(s.w, ns)
               /\ Dense(s.w) => Dense(t.w)
    BY <2>2, SinkOther, Zenon
  <2> QED
    BY <2>1, <2>2, Zenon
<1>2. Content(t, log)
  BY <1>1 DEF Core, Content, SameCounts
<1>3. Sized(t)
  BY DEF Core, Sized, SameCounts
<1>4. Totals(t, log)
  BY <1>1 DEF Core, Totals, SameCounts
<1>5. Parts(t, log)
  BY DEF Core, Parts, SameCounts
<1>6. Current(t, log)
  BY <1>1 DEF Core, Current, SameCounts
<1>7. Infos(t, log)
  BY <1>1 DEF Core, Infos, InfoSays, SameCounts
<1>8. ListAscends(t)
  BY DEF Core, ListAscends, SameCounts
<1> QED
  BY <1>2, <1>3, <1>4, <1>5, <1>6, <1>7, <1>8 DEF Core

\* flushChunk keeps Core.
LEMMA FlushCore ==
  ASSUME NEW s, NEW log, NEW o \in Outcomes, Good(s), Core(s, log), Below(s)
  PROVE  LET t == flushChunk(s, o) IN Core(t, log) /\ Below(t)
<1> DEFINE t == flushChunk(s, o)
           c == PendingChunk(s)
<1>1. \/ Kept(s, t)
      \/ Flushed(s, t) /\ s.pending # <<>>
  BY FlushEffect
<1>2. IsSeq(s.w)
  BY DEF Good, SinkTyped
<1> HIDE DEF t, c
<1>3. CASE Kept(s, t)
  <2>1. ~IsChunk(Torn)
    BY DEF IsChunk, Torn
  <2>2. t.w = s.w \/ \E rec : ~IsChunk(rec) /\ t.w = s.w \o <<rec>>
    BY <1>3, <2>1, Zenon DEF Kept
  <2>3. SameCounts(s, t)
    BY <1>3 DEF SameCounts, Kept, SamePlace
  <2>4. Core(t, log)
    BY <1>2, <2>2, <2>3, CoreKept
  <2>5. Below(t)
    BY <1>3 DEF Below, Kept, SamePlace
  <2> QED
    BY <2>4, <2>5 DEF t
<1>4. CASE Flushed(s, t) /\ s.pending # <<>>
  <2>1. s.nsStarted /\ s.curNamespace \in Namespaces /\ s.pending \in Seq(Entries)
    BY <1>4 DEF Good, PendingInv, FieldsTyped
  <2>2. /\ IsChunk(c) /\ c.ns = s.curNamespace /\ c.seq = s.chunkSeq
        /\ c.entries = s.pending
    BY DEF c, PendingChunk, Chunk, IsChunk
  <2>3. t.w = s.w \o <<c>>
    BY <1>4 DEF Flushed, c
  <2>4. /\ EntriesOf(t.w) = EntriesOf(s.w) \o Located(s.curNamespace, s.pending)
        /\ Cardinality(AllChunks(t.w)) = Cardinality(AllChunks(s.w)) + 1
        /\ Cardinality(ChunkPositions(t.w, s.curNamespace))
              = Cardinality(ChunkPositions(s.w, s.curNamespace)) + 1
        /\ \A ns : ns # s.curNamespace =>
             ChunkPositions(t.w, ns) = ChunkPositions(s.w, ns)
        /\ Dense(s.w) /\ s.chunkSeq = Cardinality(ChunkPositions(s.w, s.curNamespace))
             => Dense(t.w)
    <3>1. /\ EntriesOf(t.w) = EntriesOf(s.w) \o Located(c.ns, c.entries)
          /\ Cardinality(AllChunks(t.w)) = Cardinality(AllChunks(s.w)) + 1
          /\ Cardinality(ChunkPositions(t.w, c.ns)) = Cardinality(ChunkPositions(s.w, c.ns)) + 1
          /\ \A ns : ns # c.ns => ChunkPositions(t.w, ns) = ChunkPositions(s.w, ns)
          /\ Dense(s.w) /\ c.seq = Cardinality(ChunkPositions(s.w, c.ns)) => Dense(t.w)
      BY <1>2, <2>2, <2>3, SinkChunk, Zenon
    <3> QED
      BY <2>2, <3>1
  <2>5. Content(t, log)
    <3>1. Located(s.curNamespace, s.pending) \in Seq(LogEntries)
      BY <2>1, LocatedSeq
    <3>2. EntriesOf(t.w) = log /\ log \in Seq(LogEntries)
      BY <2>4, <3>1, ConcatProperties DEF Core, Content
    <3>3. Located(t.curNamespace, t.pending) = <<>>
      BY <1>4, LocatedEmpty DEF Flushed
    <3>4. log \o <<>> = log
      BY <3>2, ConcatEmptySeq
    <3> QED
      BY <3>2, <3>3, <3>4 DEF Content
  <2>6. Sized(t)
    <3>1. EntriesSize(<<>>) = 0
      BY <2>1, EntriesSizeEmpty
    <3> QED
      BY <1>4, <3>1 DEF Sized, Flushed
  <2>7. Totals(t, log)
    BY <1>4, <2>1, <2>4 DEF Core, Totals, Current, Flushed, SamePlace
  <2>8. Parts(t, log)
    BY <1>4 DEF Core, Parts, Flushed, SamePlace
  <2>9. Current(t, log)
    BY <1>4, <2>1, <2>4 DEF Core, Current, Flushed, SamePlace
  <2>10. Infos(t, log)
    <3>1. t.namespaces = s.namespaces
      BY <1>4 DEF Flushed, SamePlace
    <3>2. ASSUME NEW i \in DOMAIN s.namespaces
          PROVE  /\ s.namespaces[i].name \in Namespaces
                 /\ InfoSays(s.namespaces[i], t.w, log)
      <4>1. s.namespaces[i].name # s.curNamespace
        <5>1. s.namespaces[i].name \in Namespaces /\ s.namespaces[i].name < s.curNamespace
          BY DEF Core, Infos, Below
        <5>2. s.namespaces[i].name \in Nat /\ s.curNamespace \in Nat
          BY <2>1, <5>1, NamespacesAssumption
        <5> QED
          BY <5>1, <5>2
      <4> QED
        BY <2>4, <4>1 DEF Core, Infos, InfoSays
    <3> QED
      BY <3>1, <3>2 DEF Core, Infos
  <2>11. Below(t) /\ ListAscends(t)
    BY <1>4 DEF Core, ListAscends, Below, Flushed, SamePlace
  <2> QED
    BY <2>5, <2>6, <2>7, <2>8, <2>9, <2>10, <2>11 DEF Core, t
<1> QED
  BY <1>1, <1>3, <1>4

\* The namespaces of the manifest so far, and those of the log.
Names(s)    == {s.namespaces[i].name : i \in DOMAIN s.namespaces}
Logged(log) == {log[i].ns : i \in DOMAIN log}

\* finishNamespace adds a line that says what the log and the sink say.
LEMMA FinishCore ==
  ASSUME NEW s, NEW log, NEW o \in Outcomes, Good(s), Core(s, log), Below(s), s.nsStarted
  PROVE  LET t == finishNamespace(s, o)
         IN  Core(t, log) /\ Between(t) /\ Names(t) = Names(s) \cup {s.curNamespace}
<1> DEFINE f == flushChunk(s, o)
           t == finishNamespace(s, o)
           info == NamespaceInfo(f.curNamespace, f.nsEntries, f.nsChunks, Root(f.nsTree))
           n == Len(f.namespaces)
<1>1. Core(f, log) /\ Below(f)
  BY FlushCore
<1>2. /\ f.curNamespace = s.curNamespace /\ f.nsStarted = s.nsStarted
      /\ f.namespaces = s.namespaces
  BY FlushEffect DEF Kept, Flushed, SamePlace
<1>3. Finished(f, t)
  BY FinishEffect
<1>4. s.curNamespace \in Namespaces
  BY DEF Good, FieldsTyped
<1>5. /\ info.name = f.curNamespace /\ info.entriesCount = f.nsEntries
      /\ info.chunksCount = f.nsChunks /\ info.digest = Root(f.nsTree)
  BY DEF NamespaceInfo
<1>6. t.namespaces = Append(f.namespaces, info)
  BY <1>3 DEF Finished
<1> HIDE DEF f, t, info
<1>7. /\ IsSeq(t.namespaces) /\ n \in Nat /\ DOMAIN f.namespaces = 1..n
      /\ DOMAIN t.namespaces = 1..(n + 1)
      /\ \A i \in 1..n : t.namespaces[i] = f.namespaces[i]
      /\ t.namespaces[n + 1] = info
  <2>1. IsSeq(f.namespaces)
    BY <1>1 DEF Core, Infos
  <2> QED
    BY <1>6, <2>1, Appended
<1> HIDE DEF n
<1>8. InfoSays(info, t.w, log)
  BY <1>1, <1>2, <1>3, <1>5 DEF Core, Current, InfoSays, Finished
<1>9. Infos(t, log)
  <2>1. ASSUME NEW i \in DOMAIN t.namespaces
        PROVE  /\ t.namespaces[i].name \in Namespaces
               /\ InfoSays(t.namespaces[i], t.w, log)
    <3>1. CASE i = n + 1
      BY <1>2, <1>4, <1>5, <1>7, <1>8, <3>1
    <3>2. CASE i \in 1..n
      BY <1>1, <1>3, <1>7, <3>2 DEF Core, Infos, Finished
    <3> QED
      BY <1>7, <3>1, <3>2
  <2> QED
    BY <1>7, <2>1 DEF Infos
<1>10. Content(t, log) /\ Sized(t) /\ Totals(t, log) /\ Parts(t, log) /\ Current(t, log)
  <2>1. Content(t, log) /\ Sized(t)
    BY <1>1, <1>3 DEF Core, Content, Sized, Finished
  <2>2. Totals(t, log)
    BY <1>1, <1>3 DEF Core, Totals, Finished
  <2>3. Parts(t, log)
    BY <1>1, <1>3 DEF Core, Parts, Finished
  <2>4. Current(t, log)
    BY <1>1, <1>3 DEF Core, Current, Finished
  <2> QED
    BY <2>1, <2>2, <2>3, <2>4
<1>11. Between(t)
  <2> SUFFICES ASSUME NEW i \in DOMAIN t.namespaces
               PROVE  t.nsStarted /\ t.namespaces[i].name <= t.curNamespace
    BY DEF Between
  <2>1. t.nsStarted /\ t.curNamespace = s.curNamespace
    BY <1>2, <1>3 DEF Finished
  <2>2. s.curNamespace \in Nat
    BY <1>4, NamespacesAssumption
  <2>3. CASE i = n + 1
    BY <1>2, <1>5, <1>7, <2>1, <2>2, <2>3
  <2>4. CASE i \in 1..n
    <3>1. f.namespaces[i].name \in Namespaces /\ f.namespaces[i].name < f.curNamespace
      BY <1>1, <1>7, <2>4 DEF Core, Infos, Below
    <3>2. f.namespaces[i].name \in Nat
      BY <3>1, NamespacesAssumption
    <3> QED
      BY <1>2, <1>7, <2>1, <2>2, <2>4, <3>1, <3>2
  <2> QED
    BY <1>7, <2>3, <2>4
<1>12. Names(t) = Names(s) \cup {s.curNamespace}
  <2>1. \A i \in 1..(n + 1) : i \in 1..n \/ i = n + 1
    BY <1>7
  <2>2. 1..n \subseteq 1..(n + 1) /\ n + 1 \in 1..(n + 1)
    BY <1>7
  <2>3. Names(t) = {f.namespaces[i].name : i \in DOMAIN f.namespaces} \cup {info.name}
    BY <1>7, <2>1, <2>2 DEF Names
  <2> QED
    BY <1>2, <1>5, <2>3 DEF Names
<1>13. ListAscends(t)
  <2> SUFFICES ASSUME NEW i \in DOMAIN t.namespaces, NEW j \in DOMAIN t.namespaces, i < j
               PROVE  t.namespaces[i].name < t.namespaces[j].name
    BY DEF ListAscends
  <2>1. i \in 1..n
    BY <1>7
  <2>2. CASE j \in 1..n
    BY <1>1, <1>7, <2>1, <2>2 DEF Core, ListAscends
  <2>3. CASE j = n + 1
    BY <1>1, <1>5, <1>7, <2>1, <2>3 DEF Below
  <2> QED
    BY <1>7, <2>2, <2>3
<1> QED
  BY <1>9, <1>10, <1>11, <1>12, <1>13 DEF Core, t

\* startNamespace, above every namespace so far.
LEMMA StartCore ==
  ASSUME NEW s, NEW log, Good(s), Core(s, log), Between(s), s.pending = <<>>,
         NEW ns \in Namespaces, s.nsStarted => s.curNamespace < ns, NEW keyLen
  PROVE  LET t == startNamespace(s, ns, keyLen)
         IN  Core(t, log) /\ Below(t) /\ Names(t) = Names(s)
<1> DEFINE t == startNamespace(s, ns, keyLen)
<1>1. Started(s, t, ns, keyLen)
  BY StartEffect DEF Good, FieldsTyped
<1>2. ns \in Nat /\ (s.nsStarted => s.curNamespace \in Nat)
  BY NamespacesAssumption DEF Good, FieldsTyped
<1> HIDE DEF t
<1>3. Content(t, log)
  BY <1>1, LocatedEmpty DEF Core, Content, Started
<1>4. Sized(t)
  BY <1>1 DEF Core, Sized, Started
<1>5. Totals(t, log)
  BY <1>1 DEF Core, Totals, Started
<1>6. ByNamespace(log)[ns] = <<>>
  BY DEF Core, Parts
<1>7. Parts(t, log)
  <2>1. ASSUME NEW m \in Namespaces, ns < m
        PROVE  ByNamespace(log)[m] = <<>>
    <3>1. m \in Nat
      BY NamespacesAssumption
    <3>2. s.nsStarted => s.curNamespace < m
      BY <1>2, <2>1, <3>1
    <3> QED
      BY <3>2 DEF Core, Parts
  <2> QED
    BY <1>1, <2>1 DEF Core, Parts, Started
<1>8. ChunkPositions(t.w, ns) = {}
  <2>1. ASSUME NEW i \in DOMAIN s.w, IsChunk(s.w[i]) PROVE s.w[i].ns # ns
    <3>1. IsChunkRecord(s.w[i]) /\ Behind(s, s.w[i])
      BY <2>1 DEF Good, SinkTyped, ChunksInv
    <3>2. s.w[i].ns \in Nat
      BY <3>1, NamespacesAssumption DEF IsChunkRecord
    <3>3. s.nsStarted /\ (s.w[i].ns < s.curNamespace \/ s.w[i].ns = s.curNamespace)
      BY <3>1 DEF Behind
    <3> QED
      BY <1>2, <3>2, <3>3
  <2> QED
    BY <1>1, <2>1 DEF ChunkPositions, Started
<1>9. Current(t, log)
  <2>1. Cardinality({}) = 0 /\ LeavesIn(<<>>) = <<>> /\ Len(<<>>) = 0
    BY FS_EmptySet DEF LeavesIn
  <2> QED
    BY <1>1, <1>6, <1>8, <2>1, TreeOfEmpty DEF Current, Started
<1>10. Infos(t, log)
  BY <1>1 DEF Core, Infos, Started
<1>11. Below(t) /\ Names(t) = Names(s)
  <2>1. ASSUME NEW i \in DOMAIN s.namespaces PROVE s.namespaces[i].name < ns
    <3>1. /\ s.nsStarted /\ s.namespaces[i].name <= s.curNamespace
          /\ s.namespaces[i].name \in Namespaces
      BY DEF Between, Core, Infos
    <3>2. s.namespaces[i].name \in Nat
      BY <3>1, NamespacesAssumption
    <3> QED
      BY <1>2, <3>1, <3>2
  <2> QED
    BY <1>1, <2>1 DEF Started, Below, Names
<1>12. ListAscends(t)
  BY <1>1 DEF Core, ListAscends, Started
<1> QED
  BY <1>3, <1>4, <1>5, <1>7, <1>9, <1>10, <1>11, <1>12 DEF Core, t

\* takeEntry extends the log by the entry.
LEMMA TakeCore ==
  ASSUME NEW s, NEW log, DOMAIN s = Fields, s.nsStarted,
         s.curNamespace \in Namespaces, s.pending \in Seq(Entries),
         Core(s, log), Below(s), log \in Seq(LogEntries),
         NEW key \in Keys, NEW value \in Values
  PROVE  LET t == takeEntry(s, key, value)
             e == [ns |-> s.curNamespace, key |-> key, value |-> value]
         IN  Core(t, Append(log, e)) /\ Below(t) /\ Names(t) = Names(s)
<1> DEFINE t == takeEntry(s, key, value)
           e == [ns |-> s.curNamespace, key |-> key, value |-> value]
           p == [key |-> key, value |-> value]
           new == Append(log, e)
           cur == s.curNamespace
           mine == ByNamespace(log)[cur]
<1>1. Taken(s, t, key, value)
  BY TakeEffect
<1>2. cur \in Namespaces /\ s.pending \in Seq(Entries)
  OBVIOUS
<1>3. e \in LogEntries /\ e.ns = cur /\ e.key = key /\ e.value = value
  BY <1>2 DEF LogEntries
<1>4. p \in Entries /\ p.key = key /\ p.value = value
  BY DEF Entries
<1>5. /\ DOMAIN t = Fields /\ t.w = s.w
      /\ t.curNamespace = cur /\ t.nsStarted = s.nsStarted
      /\ t.pending = Append(s.pending, p)
      /\ t.pendingBytes = s.pendingBytes + EntrySize(p)
      /\ t.nsTree = Add(s.nsTree, EntryDigest(e.ns, e.key, e.value))
      /\ t.nsEntries = s.nsEntries + 1 /\ t.totalEntries = s.totalEntries + 1
      /\ t.chunkSeq = s.chunkSeq /\ t.totalChunks = s.totalChunks
      /\ t.nsChunks = s.nsChunks
      /\ t.namespaces = s.namespaces
  BY <1>1, <1>3 DEF Taken
<1>6. ByNamespace(new) = [ByNamespace(log) EXCEPT ![cur] = Append(@, e)]
  <2> HIDE DEF e, cur
  <2>1. ByNamespace(Append(log, e)) = [ByNamespace(log) EXCEPT ![e.ns] = Append(@, e)]
    BY <1>3, ByNamespaceAppend
  <2> QED
    BY <1>3, <2>1
<1>7. ByNamespace(log) \in [Namespaces -> Seq(LogEntries)]
  BY DEF Core, Parts
<1>8. /\ mine \in Seq(LogEntries)
      /\ ByNamespace(new)[cur] = Append(mine, e)
      /\ \A ns \in Namespaces : ns # cur => ByNamespace(new)[ns] = ByNamespace(log)[ns]
  BY <1>2, <1>6, <1>7
<1>9. Content(t, new)
  <2>1. Located(cur, s.pending) \in Seq(LogEntries)
    BY <1>2, LocatedSeq
  <2>2. Located(cur, t.pending) = Append(Located(cur, s.pending), e)
    <3> HIDE DEF t, p
    <3>1. Located(cur, Append(s.pending, p))
            = Append(Located(cur, s.pending), [ns |-> cur, key |-> p.key, value |-> p.value])
      BY <1>2, <1>4, LocatedAppend
    <3> QED
      BY <1>4, <1>5, <3>1
  <2>3. EntriesOf(s.w) \in Seq(LogEntries) /\ EntriesOf(s.w) \o Located(cur, s.pending) = log
    BY DEF Core, Content
  <2> DEFINE a == EntriesOf(s.w)
             b == Located(cur, s.pending)
  <2>4. a \o Append(b, e) = Append(a \o b, e)
    <3>1. a \in Seq(LogEntries) /\ b \in Seq(LogEntries)
      BY <2>1, <2>3
    <3> HIDE DEF a, b, e
    <3> QED
      BY <1>3, <3>1
  <2> HIDE DEF t, e
  <2> QED
    BY <1>5, <2>2, <2>3, <2>4 DEF Content
<1>10. Sized(t)
  <2>1. EntriesSize(Append(s.pending, p)) = EntriesSize(s.pending) + EntrySize(p)
    BY <1>2, <1>4, EntriesSizeAppend
  <2> HIDE DEF t, p
  <2> QED
    BY <1>5, <2>1 DEF Core, Sized
<1>11. Totals(t, new)
  <2>1. Len(new) = Len(log) + 1
    BY <1>3
  <2> HIDE DEF t, new
  <2> QED
    BY <1>5, <2>1 DEF Core, Totals
<1> HIDE DEF t, new, e, p
<1>12. Parts(t, new)
  <2>1. ByNamespace(new) \in [Namespaces -> Seq(LogEntries)]
    <3>1. Append(mine, e) \in Seq(LogEntries)
      BY <1>3, <1>8, AppendProperties
    <3> QED
      BY <1>2, <1>6, <1>7, <3>1
  <2>2. ASSUME NEW ns \in Namespaces, cur < ns
        PROVE  ByNamespace(new)[ns] = <<>>
    <3>1. ns # cur
      BY <1>2, <2>2, NamespacesAssumption
    <3> QED
      BY <1>8, <2>2, <3>1 DEF Core, Parts
  <2> QED
    BY <1>5, <2>1, <2>2 DEF Parts
<1>13. Current(t, new)
  <2>1. /\ s.nsEntries = Len(mine) /\ s.nsTree = TreeOf(LeavesIn(mine))
        /\ s.nsChunks = Cardinality(ChunkPositions(s.w, cur)) /\ s.chunkSeq = s.nsChunks
    BY DEF Core, Current
  <2>2. LeavesIn(mine) \in Seq(Leaves) /\ EntryDigest(e.ns, e.key, e.value) \in Leaves
    BY <1>3, <1>8, LeavesSeq DEF Leaves
  <2>3. TreeOf(LeavesIn(Append(mine, e)))
          = Add(TreeOf(LeavesIn(mine)), EntryDigest(e.ns, e.key, e.value))
    <3> HIDE DEF mine
    <3>1. LeavesIn(Append(mine, e)) = Append(LeavesIn(mine), EntryDigest(e.ns, e.key, e.value))
      BY <1>3, <1>8, LeavesAppend
    <3> QED
      BY <2>2, <3>1, TreeOfAppend
  <2>4. Len(Append(mine, e)) = Len(mine) + 1
    BY <1>3, <1>8, AppendProperties
  <2> HIDE DEF mine
  <2> QED
    BY <1>5, <1>8, <2>1, <2>3, <2>4 DEF Current
<1>14. Infos(t, new)
  <2>1. ASSUME NEW i \in DOMAIN s.namespaces
        PROVE  s.namespaces[i].name \in Namespaces /\ InfoSays(s.namespaces[i], t.w, new)
    <3>1. /\ s.namespaces[i].name \in Namespaces /\ s.namespaces[i].name < cur
          /\ InfoSays(s.namespaces[i], s.w, log)
      BY DEF Core, Infos, Below
    <3>2. s.namespaces[i].name # cur
      <4>1. s.namespaces[i].name \in Nat /\ cur \in Nat
        BY <1>2, <3>1, NamespacesAssumption
      <4> QED
        BY <3>1, <4>1
    <3> QED
      BY <1>5, <1>8, <3>1, <3>2 DEF InfoSays
  <2> QED
    BY <1>5, <2>1 DEF Core, Infos
<1>15. Below(t) /\ Names(t) = Names(s) /\ ListAscends(t)
  BY <1>5 DEF Core, ListAscends, Below, Names
<1> QED
  BY <1>9, <1>10, <1>11, <1>12, <1>13, <1>14, <1>15 DEF Core, t, new, e

\* The namespaces of the log, one entry further.
LEMMA LoggedAppend ==
  ASSUME NEW q \in Seq(LogEntries), NEW e \in LogEntries
  PROVE  Logged(Append(q, e)) = Logged(q) \cup {e.ns}
<1> DEFINE n == Len(q)
           p == Append(q, e)
<1>1. /\ n \in Nat /\ DOMAIN q = 1..n /\ DOMAIN p = 1..(n + 1)
      /\ \A i \in 1..n : p[i] = q[i]
      /\ p[n + 1] = e
  OBVIOUS
<1> HIDE DEF n, p
<1>2. \A i \in 1..(n + 1) : i \in 1..n \/ i = n + 1
  BY <1>1
<1>3. 1..n \subseteq 1..(n + 1) /\ n + 1 \in 1..(n + 1)
  BY <1>1
<1> QED
  BY <1>1, <1>2, <1>3 DEF Logged, p

-----------------------------------------------------------------------------
(***************************************************************************)
(* A root that Close returns is not the empty return value: what the tree  *)
(* holds are digests.                                                      *)
(***************************************************************************)
CarryFold == INSTANCE SeqFold WITH
  op <- LAMBDA a, top : IF Len(top) = 1 /\ top[1].depth = a.depth
                          THEN <<Merge(a, top[1])>>
                          ELSE <<a>> \o top

MergeFold == INSTANCE SeqFold WITH op <- Merge

\* A stack of digests.
Solid(tree) == IsSeq(tree) /\ \A i \in DOMAIN tree : tree[i].hash # NoRoot

\* Digests are tagged with what they hash, and NoRoot is none of them.
LEMMA DigestsReturned ==
  /\ \A a, b : nodeDigest(a, b) # NoRoot
  /\ \A d : NamespaceLeafDigest(d) # NoRoot
  /\ EmptyRoot # NoRoot
BY DEF nodeDigest, NamespaceLeafDigest, EmptyRoot, NoRoot

\* One digest alone is a stack.
LEMMA SolidOne ==
  ASSUME NEW b, b.hash # NoRoot
  PROVE  Solid(<<b>>)
<1>1. <<b>> \in Seq({b}) /\ DOMAIN <<b>> = {1} /\ <<b>>[1] = b
  OBVIOUS
<1>2. {<<b>>[i] : i \in DOMAIN <<b>>} = {b}
  BY <1>1
<1> QED
  BY <1>1, <1>2 DEF Solid, IsSeq

\* Add pushes and merges digests.
LEMMA AddSolid ==
  ASSUME NEW tree, NEW leaf, Solid(tree), leaf # NoRoot
  PROVE  Solid(Add(tree, leaf))
<1> DEFINE base == <<[depth |-> 0, hash |-> leaf]>>
           n == Len(tree)
<1>1. Add(tree, leaf) = CarryFold!FoldR(tree, base)
  BY DEF Add, FoldRight, MapThenFoldSet, Min,
         CarryFold!FoldR, CarryFold!FoldRight, CarryFold!MapThenFoldSet, CarryFold!Min
<1>2. n \in Nat /\ DOMAIN tree = 1..n
  BY LenProperties DEF Solid, IsSeq
<1>3. Solid(base)
  BY SolidOne
<1> HIDE DEF base, n
<1>4. PICK r : /\ r[n + 1] = base
               /\ CarryFold!RunsRight(r, tree, n)
               /\ CarryFold!FoldR(tree, base) = r[1]
  <2>1. CarryFold!FoldRightRun(base, tree, n)
    BY <1>2, CarryFold!FoldRightRuns, Zenon
  <2> QED
    BY <2>1 DEF CarryFold!FoldRightRun
<1> DEFINE S == {k \in 0..n : Solid(r[(n - k) + 1])}
<1>5. 0 \in S
  BY <1>2, <1>3, <1>4
<1>6. ASSUME NEW k \in 0..(n - 1), k \in S PROVE k + 1 \in S
  <2> DEFINE i == n - k
             a == tree[i]
             top == r[i + 1]
  <2>1. i \in 1..n /\ (n - (k + 1)) + 1 = i
    BY <1>2
  <2>2. Solid(top)
    BY <1>6
  <2>3. r[i] = IF Len(top) = 1 /\ top[1].depth = a.depth
               THEN <<Merge(a, top[1])>> ELSE <<a>> \o top
    BY <1>4, <2>1 DEF CarryFold!RunsRight
  <2>4. a.hash # NoRoot
    BY <1>2, <2>1 DEF Solid
  <2> HIDE DEF i, a, top
  <2>5. Solid(<<Merge(a, top[1])>>)
    <3>1. Merge(a, top[1]).hash # NoRoot
      BY DigestsReturned DEF Merge
    <3> QED
      BY <3>1, SolidOne
  <2>6. Solid(<<a>> \o top)
    <3> DEFINE v == <<a>> \o top
               m == Len(top)
    <3>1. IsSeq(top) /\ m \in Nat /\ DOMAIN top = 1..m
      BY <2>2, LenProperties DEF Solid, IsSeq
    <3>2. /\ IsSeq(v) /\ DOMAIN v = 1..(m + 1) /\ v[1] = a
          /\ \A j \in 1..m : v[j + 1] = top[j]
      BY <3>1, Prepended
    <3> HIDE DEF v, m
    <3>3. ASSUME NEW j \in 1..(m + 1) PROVE v[j].hash # NoRoot
      <4>1. CASE j = 1
        BY <2>4, <3>2, <4>1
      <4>2. CASE j # 1
        <5>1. j - 1 \in 1..m /\ (j - 1) + 1 = j
          BY <3>1, <4>2
        <5>2. v[j] = top[j - 1]
          BY <3>2, <5>1
        <5> QED
          BY <2>2, <3>1, <5>1, <5>2 DEF Solid
      <4> QED
        BY <4>1, <4>2
    <3> QED
      BY <3>2, <3>3 DEF Solid, v
  <2>7. Solid(r[i])
    BY <2>3, <2>5, <2>6
  <2> QED
    BY <1>2, <2>1, <2>7
<1>7. n \in S
  <2>1. n \in Nat /\ n \in 0..n
    BY <1>2
  <2> HIDE DEF S, n
  <2> QED
    BY <1>5, <1>6, <2>1, BoundedInduct
<1> QED
  BY <1>1, <1>2, <1>4, <1>7

\* So does a whole fold of them.
LEMMA TreeOfSolid ==
  ASSUME NEW q, NEW n \in Nat, DOMAIN q = 1..n, \A i \in 1..n : q[i] # NoRoot
  PROVE  Solid(TreeOf(q))
<1>1. TreeOf(q) = TreeFold!Fold(EmptyTree, q)
  BY TreeIsFold
<1>2. PICK r : /\ r[0] = EmptyTree
               /\ TreeFold!Runs(r, q, n)
               /\ TreeFold!Fold(EmptyTree, q) = r[n]
  <2>1. TreeFold!FoldRun(EmptyTree, q, n)
    BY TreeFold!FoldRuns, Zenon
  <2> QED
    BY <2>1 DEF TreeFold!FoldRun
<1> DEFINE S == {k \in 0..n : Solid(r[k])}
<1>3. 0 \in S
  <2>1. Solid(<<>>)
    <3>1. <<>> \in Seq({<<>>[i] : i \in DOMAIN <<>>}) /\ DOMAIN <<>> = {}
      BY EmptySeq
    <3> QED
      BY <3>1 DEF Solid, IsSeq
  <2> QED
    BY <1>2, <2>1 DEF EmptyTree
<1>4. ASSUME NEW k \in 0..(n - 1), k \in S PROVE k + 1 \in S
  <2>1. k + 1 \in 1..n /\ (k + 1) - 1 = k /\ k + 1 \in 0..n
    OBVIOUS
  <2>2. r[k + 1] = Add(r[(k + 1) - 1], q[k + 1])
    BY <1>2, <2>1 DEF TreeFold!Runs
  <2>3. Solid(r[k]) /\ q[k + 1] # NoRoot
    BY <1>4, <2>1
  <2>4. Solid(r[k + 1])
    BY <2>1, <2>2, <2>3, AddSolid
  <2> QED
    BY <2>1, <2>4
<1>5. n \in S
  <2> HIDE DEF S
  <2> QED
    BY <1>3, <1>4, BoundedInduct
<1> QED
  BY <1>1, <1>2, <1>5

\* Root of a stack of digests is a digest.
LEMMA RootReturned ==
  ASSUME NEW tree, Solid(tree)
  PROVE  Root(tree) # NoRoot
<1>1. CASE tree = EmptyTree
  BY <1>1, DigestsReturned DEF Root
<1>2. CASE tree # EmptyTree
  <2> DEFINE n == Len(tree) - 1
             q == Front(tree)
             base == Last(tree)
             T == {tree[i] : i \in DOMAIN tree}
  <2>1. /\ n \in Nat /\ DOMAIN q = 1..n /\ n + 1 \in DOMAIN tree
        /\ base = tree[n + 1]
    <3>1. tree \in Seq(T) /\ tree # <<>>
      BY <1>2 DEF Solid, IsSeq, EmptyTree
    <3>2. Len(tree) \in Nat /\ Len(tree) # 0 /\ DOMAIN tree = 1..Len(tree)
      BY <3>1, EmptySeq, LenProperties
    <3>3. \A i \in 1..n : tree[i] \in T
      BY <3>2
    <3> HIDE DEF T
    <3>4. q = SubSeq(tree, 1, n)
      BY DEF Front
    <3>5. 1 \in Int /\ n \in Int /\ n \in Nat
      BY <3>2
    <3>6. q \in Seq(T) /\ Len(q) = n
      <4> HIDE DEF q, n
      <4>1. SubSeq(tree, 1, n) \in Seq(T)
        BY <3>3, <3>5, SubSeqProperties
      <4>2. Len(SubSeq(tree, 1, n)) = IF 1 <= n THEN n - 1 + 1 ELSE 0
        BY <3>3, <3>5, SubSeqProperties
      <4> QED
        BY <3>4, <3>5, <4>1, <4>2
    <3>7. DOMAIN q = 1..n
      <4> HIDE DEF q, n
      <4> QED
        BY <3>6, LenProperties
    <3> QED
      BY <3>2, <3>7 DEF Last
  <2>2. Root(tree) = MergeFold!FoldR(q, base).hash
    BY <1>2 DEF Root, FoldRight, MapThenFoldSet, Min,
       MergeFold!FoldR, MergeFold!FoldRight, MergeFold!MapThenFoldSet, MergeFold!Min
  <2>3. base.hash # NoRoot
    BY <2>1 DEF Solid
  <2> HIDE DEF n, q, base
  <2>4. PICK r : /\ r[n + 1] = base
                 /\ MergeFold!RunsRight(r, q, n)
                 /\ MergeFold!FoldR(q, base) = r[1]
    <3>1. MergeFold!FoldRightRun(base, q, n)
      BY <2>1, MergeFold!FoldRightRuns, Zenon
    <3> QED
      BY <3>1 DEF MergeFold!FoldRightRun
  <2>5. CASE n = 0
    BY <2>2, <2>3, <2>4, <2>5
  <2>6. CASE n # 0
    <3>1. r[1] = Merge(q[1], r[1 + 1])
      BY <2>1, <2>4, <2>6 DEF MergeFold!RunsRight
    <3>2. r[1].hash # NoRoot
      BY <3>1, DigestsReturned DEF Merge
    <3> QED
      BY <2>2, <2>4, <3>2
  <2> QED
    BY <2>5, <2>6
<1> QED
  BY <1>1, <1>2

\* The global root that Close returns is a digest.
LEMMA GlobalRootReturned ==
  ASSUME NEW infos, IsSeq(infos)
  PROVE  GlobalRoot(infos) # NoRoot
<1> DEFINE q == [i \in DOMAIN infos |-> NamespaceLeafDigest(infos[i].digest)]
           n == Len(infos)
<1>1. n \in Nat /\ DOMAIN infos = 1..n
  BY LenProperties DEF IsSeq
<1>2. DOMAIN q = 1..n /\ \A i \in 1..n : q[i] # NoRoot
  BY <1>1, DigestsReturned
<1>3. GlobalRoot(infos) = Root(TreeOf(q))
  BY DEF GlobalRoot
<1> HIDE DEF q, n
<1> QED
  BY <1>1, <1>2, <1>3, TreeOfSolid, RootReturned

-----------------------------------------------------------------------------
(***************************************************************************)
(* The inductive invariant, and that every call keeps it.                  *)
(***************************************************************************)
Opened(s) == IF s.nsStarted THEN {s.curNamespace} ELSE {}

Unsealed(w) == \A i \in DOMAIN w : ~IsManifest(w[i])

\* A MANIFEST is the last record, with the root returned, and says what the sink
\* and the log say.
SealsOnly(w, r, log) ==
  \A i \in DOMAIN w : IsManifest(w[i]) => /\ i = Len(w) /\ w[i].rootHash = r
                                         /\ ManifestSays(w[i], w, log)

\* While the Writer is open nothing is sealed; once it is closed the root that
\* was returned and the sink agree.
Sealing ==
  /\ sw.w # <<>>
  /\ ~sw.closed => root = NoRoot /\ Unsealed(sw.w)
  /\ sw.closed => /\ root # NoRoot <=> IsManifest(Last(sw.w))
                  /\ SealsOnly(sw.w, root, accepted)

Account == /\ Core(sw, accepted)
           /\ ~sw.closed => Below(sw)
           /\ Names(sw) \cup Opened(sw) = Logged(accepted)
           /\ Sealing

LogIInv == IInv /\ Account

\* One record more, and whether the sink is sealed.
LEMMA SinkSealed ==
  ASSUME NEW w, NEW rec, IsSeq(w), NEW v, v = w \o <<rec>>
  PROVE  /\ v # <<>> /\ Last(v) = rec
         /\ Unsealed(w) => \A i \in DOMAIN v : IsManifest(v[i]) => i = Len(v)
         /\ Unsealed(w) /\ ~IsManifest(rec) => Unsealed(v)
<1> DEFINE n == Len(w)
<1>1. /\ IsSeq(v) /\ n \in Nat /\ DOMAIN w = 1..n /\ DOMAIN v = 1..(n + 1)
      /\ \A i \in 1..n : v[i] = w[i]
      /\ v[n + 1] = rec
  BY Extension
<1>2. Len(v) = n + 1
  <2>1. Len(v) \in Nat /\ DOMAIN v = 1..Len(v)
    BY <1>1, LenProperties DEF IsSeq
  <2> HIDE DEF n
  <2> QED
    BY <1>1, <2>1
<1> HIDE DEF n
<1>3. v # <<>> /\ Last(v) = rec
  <2>1. DOMAIN v # {}
    BY <1>1
  <2> QED
    BY <1>1, <1>2, <2>1 DEF Last
<1>4. ASSUME Unsealed(w), NEW i \in DOMAIN v, IsManifest(v[i])
      PROVE  i = n + 1 /\ IsManifest(rec)
  BY <1>1, <1>4 DEF Unsealed
<1> QED
  BY <1>2, <1>3, <1>4 DEF Unsealed

\* A Writer that has not been closed.
Open(s, log) == /\ Good(s) /\ Core(s, log) /\ Below(s)
                /\ Unsealed(s.w) /\ s.w # <<>>

SameNames(s, t) == /\ Names(t) = Names(s) /\ Opened(t) = Opened(s)
                   /\ t.closed = s.closed

\* A flush leaves an open Writer open, whether or not it succeeds.
LEMMA FlushOpen ==
  ASSUME NEW s, NEW log, NEW o \in Outcomes, Open(s, log)
  PROVE  LET t == flushChunk(s, o) IN Open(t, log) /\ SameNames(s, t)
<1> DEFINE t == flushChunk(s, o)
<1>1. Good(t) /\ Core(t, log) /\ Below(t)
  BY FlushGood, FlushCore DEF Open
<1>2. Kept(s, t) \/ Flushed(s, t)
  BY FlushEffect DEF Open
<1> HIDE DEF t
<1>3. SameNames(s, t)
  BY <1>2 DEF SameNames, Names, Opened, Kept, Flushed, SamePlace
<1>4. Unsealed(t.w) /\ t.w # <<>>
  <2>1. t.w = s.w \/ \E rec : ~IsManifest(rec) /\ t.w = s.w \o <<rec>>
    <3>1. ~IsManifest(Torn) /\ ~IsManifest(PendingChunk(s))
      BY DEF IsManifest, Torn, PendingChunk, Chunk
    <3> QED
      BY <1>2, <3>1, Zenon DEF Kept, Flushed
  <2>2. IsSeq(s.w) /\ Unsealed(s.w) /\ s.w # <<>>
    BY DEF Open, Good, SinkTyped
  <2> QED
    BY <2>1, <2>2, SinkSealed, Zenon
<1> QED
  BY <1>1, <1>3, <1>4 DEF Open, t

\* NewWriter establishes the account.
LEMMA InitLog == Init => LogIInv
<1> SUFFICES ASSUME Init PROVE LogIInv
  OBVIOUS
<1>1. /\ sw.w = <<Hdr>> /\ sw.totalEntries = 0 /\ sw.totalChunks = 0
      /\ sw.pendingBytes = 0 /\ sw.nsStarted = FALSE /\ sw.closed = FALSE
      /\ sw.pending = <<>> /\ sw.namespaces = <<>>
      /\ accepted = <<>> /\ root = NoRoot
  BY DEF Init
<1>2. DOMAIN sw.w = {1} /\ sw.w[1] = Hdr /\ ~IsChunk(Hdr) /\ ~IsManifest(Hdr)
  BY <1>1 DEF IsChunk, IsManifest, Hdr
<1>3. EntriesOf(sw.w) = <<>>
  <2>1. IsSeq(<<>>)
    <3>1. <<>> \in Seq({<<>>[i] : i \in DOMAIN <<>>})
      BY EmptySeq
    <3> QED
      BY <3>1 DEF IsSeq
  <2>2. <<>> \o <<Hdr>> = <<Hdr>>
    OBVIOUS
  <2>3. EntriesOf(<<>> \o <<Hdr>>) = <<>>
    BY <1>2, <2>1, EntriesOfRecord
  <2> QED
    BY <1>1, <2>2, <2>3
<1>4. Content(sw, accepted)
  BY <1>1, <1>3, LocatedEmpty, EmptySeq, ConcatEmptySeq DEF Content
<1>5. Sized(sw)
  BY <1>1, EntriesSizeEmpty DEF Sized
<1>6. Totals(sw, accepted)
  <2>1. AllChunks(sw.w) = {} /\ Dense(sw.w)
    BY <1>2 DEF AllChunks, Dense
  <2>2. Cardinality({}) = 0 /\ Len(<<>>) = 0
    BY FS_EmptySet
  <2> QED
    BY <1>1, <2>1, <2>2 DEF Totals
<1>7. Parts(sw, accepted)
  <2>1. \A S : <<>> \in Seq(S)
    BY EmptySeq
  <2> QED
    BY <1>1, <2>1, ByNamespaceEmpty DEF Parts
<1>8. Current(sw, accepted)
  BY <1>1 DEF Current
<1>9. Infos(sw, accepted) /\ Below(sw) /\ Names(sw) \cup Opened(sw) = Logged(accepted)
  <2>1. DOMAIN <<>> = {} /\ <<>> \in Seq({<<>>[i] : i \in DOMAIN <<>>})
    BY EmptySeq
  <2> QED
    BY <1>1, <2>1 DEF Infos, IsSeq, Below, Names, Opened, Logged
<1>10. Sealing
  BY <1>1, <1>2 DEF Sealing, Unsealed
<1>11. ListAscends(sw)
  BY <1>1 DEF ListAscends
<1> QED
  BY <1>4, <1>5, <1>6, <1>7, <1>8, <1>9, <1>10, <1>11, InitGood DEF LogIInv, Account, Core

\* An open Writer in the invariant.
LEMMA StillOpen ==
  ASSUME LogIInv, ~sw.closed
  PROVE  Open(sw, accepted) /\ root = NoRoot /\ sw.closed = FALSE
BY DEF LogIInv, IInv, Account, Sealing, Open, Good, FieldsTyped

\* What is left open is in the invariant.
LEMMA LeftOpen ==
  ASSUME IInv', sw'.closed = FALSE, Open(sw', accepted'), root' = NoRoot,
         Names(sw') \cup Opened(sw') = Logged(accepted')
  PROVE  LogIInv'
<1>1. Account'
  BY DEF Account, Sealing, Open, Names, Opened, Logged, Unsealed, Core, Content, Sized,
         Totals, Parts, Current, Infos, ListAscends, Below, AllChunks, Dense, Earlier
<1> QED
  BY <1>1 DEF LogIInv

\* A namespace change whose flush fails keeps it.
LEMMA AddBlockedLog ==
  ASSUME NEW ns, NEW key, NEW o \in Outcomes, LogIInv, AddBlocked(ns, key, o)
  PROVE  LogIInv'
<1>1. /\ sw' = flushChunk(sw, o) /\ accepted' = accepted /\ root' = root
      /\ ~sw.closed
  BY DEF AddBlocked, RejectErr
<1>2. Open(sw, accepted) /\ root = NoRoot /\ sw.closed = FALSE
  BY <1>1, StillOpen
<1>3. Open(sw', accepted) /\ SameNames(sw, sw')
  BY <1>1, <1>2, FlushOpen
<1>4. IInv'
  BY AddBlockedGood DEF LogIInv
<1>5. Names(sw) \cup Opened(sw) = Logged(accepted)
  BY DEF LogIInv, Account
<1> QED
  BY <1>1, <1>2, <1>3, <1>4, <1>5, LeftOpen DEF SameNames

\* The Writer the entry is added to, at a namespace that is neither in the
\* manifest nor, unless it is the current one, in the log.
LEMMA EntryWriterOpen ==
  ASSUME NEW ns \in Namespaces \cup BadNamespaces, NEW key \in Keys,
         NEW o \in Outcomes, LogIInv, RejectErr(ns, key) = "nil",
         ChangesNamespace(ns) => FlushErr(sw, o) = "nil"
  PROVE  LET b == EntryWriter(ns, key, o)
         IN  /\ DOMAIN b = Fields /\ b.nsStarted /\ b.curNamespace = ns
             /\ b.pending \in Seq(Entries)
             /\ Core(b, accepted) /\ Below(b)
             /\ Unsealed(b.w) /\ b.w # <<>> /\ b.closed = FALSE
             /\ Names(b) \cup {ns} = Logged(accepted) \cup {ns}
<1> DEFINE b == EntryWriter(ns, key, o)
<1>1. /\ ns \in Namespaces /\ sw.closed = FALSE
      /\ ChangesNamespace(ns) => sw.curNamespace < ns
  BY NotRejected DEF LogIInv
<1>2. Open(sw, accepted)
  BY <1>1, StillOpen
<1>3. Good(sw) /\ Names(sw) \cup Opened(sw) = Logged(accepted)
  BY DEF LogIInv, IInv, Account
<1>4. CASE ~sw.nsStarted
  <2> DEFINE t == startNamespace(sw, ns, KeyLength[key])
  <2>1. b = t
    BY <1>4 DEF EntryWriter
  <2>2. sw.pending = <<>>
    BY <1>3, <1>4 DEF Good, PendingInv
  <2>3. Between(sw)
    BY <1>2, <1>4 DEF Open, Below, Between
  <2>4. Started(sw, t, ns, KeyLength[key])
    BY <1>3, StartEffect DEF Good, FieldsTyped
  <2>5. Core(t, accepted) /\ Below(t) /\ Names(t) = Names(sw)
    BY <1>1, <1>2, <1>4, <2>2, <2>3, StartCore DEF Open
  <2> HIDE DEF t, b
  <2>6. t.pending \in Seq(Entries)
    BY <2>2, <2>4, EmptySeq DEF Started
  <2>7. /\ Unsealed(t.w) /\ t.w # <<>> /\ t.closed = FALSE
        /\ DOMAIN t = Fields /\ t.nsStarted /\ t.curNamespace = ns
    BY <1>1, <1>2, <2>4 DEF Started, Open
  <2>8. Names(t) \cup {ns} = Logged(accepted) \cup {ns}
    BY <1>3, <1>4, <2>5 DEF Opened
  <2> QED
    BY <2>1, <2>5, <2>6, <2>7, <2>8 DEF b
<1>5. CASE sw.nsStarted /\ ns = sw.curNamespace
  <2>1. b = sw
    BY <1>5 DEF EntryWriter
  <2>2. Names(sw) \cup {ns} = Logged(accepted) \cup {ns}
    BY <1>3, <1>5 DEF Opened
  <2> QED
    BY <1>1, <1>2, <1>5, <2>1, <2>2 DEF Open, Good, FieldsTyped
<1>6. CASE ChangesNamespace(ns)
  <2> DEFINE f == finishNamespace(sw, o)
             t == startNamespace(f, ns, KeyLength[key])
             g == flushChunk(sw, o)
  <2>0. sw.nsStarted /\ sw.curNamespace < ns
    BY <1>1, <1>6 DEF ChangesNamespace
  <2>1. b = t
    BY <1>6 DEF EntryWriter, ChangesNamespace
  <2>2. /\ Good(f) /\ f.pending = <<>> /\ f.curNamespace = sw.curNamespace
        /\ f.closed = sw.closed
    BY <1>3, <1>6, FinishGood
  <2>3. /\ Core(f, accepted) /\ Between(f)
        /\ Names(f) = Names(sw) \cup {sw.curNamespace}
    BY <1>2, <1>3, <2>0, FinishCore DEF Open
  <2>4. Unsealed(f.w) /\ f.w # <<>>
    <3>1. Unsealed(g.w) /\ g.w # <<>>
      BY <1>2, FlushOpen DEF Open
    <3>2. f.w = g.w
      BY <1>3, FinishEffect DEF Finished
    <3> QED
      BY <3>1, <3>2
  <2>5. Started(f, t, ns, KeyLength[key])
    <3> HIDE DEF f
    <3> QED
      BY <2>2, StartEffect DEF Good, FieldsTyped
  <2>6. Core(t, accepted) /\ Below(t) /\ Names(t) = Names(f)
    <3>1. f.nsStarted => f.curNamespace < ns
      BY <2>0, <2>2
    <3> HIDE DEF f
    <3> QED
      BY <1>1, <2>2, <2>3, <3>1, StartCore
  <2> HIDE DEF t, b, f, g
  <2>7. t.pending \in Seq(Entries)
    BY <2>2, <2>5, EmptySeq DEF Started
  <2>8. /\ Unsealed(t.w) /\ t.w # <<>> /\ t.closed = FALSE
        /\ DOMAIN t = Fields /\ t.nsStarted /\ t.curNamespace = ns
    BY <1>1, <2>2, <2>4, <2>5 DEF Started
  <2>9. Names(t) \cup {ns} = Logged(accepted) \cup {ns}
    BY <1>3, <2>0, <2>3, <2>6 DEF Opened
  <2> QED
    BY <2>1, <2>6, <2>7, <2>8, <2>9 DEF b
<1> QED
  BY <1>4, <1>5, <1>6 DEF ChangesNamespace

\* Taking an entry keeps it, whichever of its two flushes happen and fail.
LEMMA AddAcceptedLog ==
  ASSUME NEW ns \in Namespaces \cup BadNamespaces, NEW key \in Keys, NEW value \in Values,
         NEW o1 \in Outcomes, NEW o2 \in Outcomes, LogIInv,
         AddAccepted(ns, key, value, o1, o2)
  PROVE  LogIInv' /\ sw'.closed = FALSE
<1> DEFINE b == EntryWriter(ns, key, o1)
           t == takeEntry(b, key, value)
           e == [ns |-> ns, key |-> key, value |-> value]
<1>1. /\ RejectErr(ns, key) = "nil"
      /\ ChangesNamespace(ns) => FlushErr(sw, o1) = "nil"
      /\ sw' = IF CapReached(t) THEN flushChunk(t, o2) ELSE t
      /\ accepted' = Append(accepted, e)
      /\ root' = root
  BY DEF AddAccepted, EntryWriter
<1>2. IInv' /\ IInv
  BY AddAcceptedGood DEF LogIInv
<1>3. ns \in Namespaces /\ sw.closed = FALSE
  BY <1>1, <1>2, NotRejected
<1>4. root = NoRoot
  BY <1>3, StillOpen
<1>5. /\ DOMAIN b = Fields /\ b.nsStarted /\ b.curNamespace = ns
      /\ b.pending \in Seq(Entries)
      /\ Core(b, accepted) /\ Below(b)
      /\ Unsealed(b.w) /\ b.w # <<>> /\ b.closed = FALSE
      /\ Names(b) \cup {ns} = Logged(accepted) \cup {ns}
  BY <1>1, EntryWriterOpen
<1>6. accepted \in Seq(LogEntries) /\ e \in LogEntries /\ e.ns = ns
  BY <1>2, <1>3 DEF IInv, LogInv, LogEntries
<1>7. Good(t)
  BY <1>1, <1>2, EntryTakenGood DEF AtEntry
<1>8. Taken(b, t, key, value)
  BY <1>5, TakeEffect
<1>9. Core(t, accepted') /\ Below(t) /\ Names(t) = Names(b)
  <2> DEFINE x == [ns |-> b.curNamespace, key |-> key, value |-> value]
  <2>1. Core(t, Append(accepted, x)) /\ Below(t) /\ Names(t) = Names(b)
    <3> HIDE DEF b
    <3> QED
      BY <1>3, <1>5, <1>6, TakeCore
  <2>2. x = e
    BY <1>5
  <2> QED
    BY <1>1, <2>1, <2>2
<1> HIDE DEF b, t, e
<1>10. Open(t, accepted') /\ t.closed = FALSE
  BY <1>5, <1>7, <1>8, <1>9 DEF Open, Taken
<1>11. Names(t) \cup Opened(t) = Logged(accepted')
  <2>1. Opened(t) = {ns}
    BY <1>5, <1>8 DEF Opened, Taken
  <2>2. Logged(accepted') = Logged(accepted) \cup {ns}
    BY <1>1, <1>6, LoggedAppend
  <2> QED
    BY <1>5, <1>9, <2>1, <2>2
<1>12. CASE CapReached(t)
  <2>1. Open(sw', accepted') /\ SameNames(t, sw')
    BY <1>1, <1>10, <1>12, FlushOpen
  <2> QED
    BY <1>1, <1>2, <1>4, <1>10, <1>11, <2>1, LeftOpen DEF SameNames
<1>13. CASE ~CapReached(t)
  BY <1>1, <1>2, <1>4, <1>10, <1>11, <1>13, LeftOpen
<1> QED
  BY <1>12, <1>13

\* What is left closed is in the invariant.
LEMMA LeftClosed ==
  ASSUME IInv', sw'.closed = TRUE, Core(sw', accepted'),
         Names(sw') \cup Opened(sw') = Logged(accepted'), sw'.w # <<>>,
         root' # NoRoot <=> IsManifest(Last(sw'.w)),
         SealsOnly(sw'.w, root', accepted')
  PROVE  LogIInv'
<1>1. Account'
  BY DEF Account, Sealing, SealsOnly, Names, Opened, Logged, Core, Content, Sized,
         Totals, Parts, Current, Infos, ListAscends, AllChunks, Dense, Earlier
<1> QED
  BY <1>1 DEF LogIInv

\* An unsealed sink has no MANIFEST at its end either.
LEMMA UnsealedEnd ==
  ASSUME NEW w, IsSeq(w), Unsealed(w), w # <<>>
  PROVE  ~IsManifest(Last(w))
<1>1. Len(w) \in Nat /\ Len(w) # 0 /\ DOMAIN w = 1..Len(w)
  BY LenProperties, EmptySeq DEF IsSeq
<1> QED
  BY <1>1 DEF Last, Unsealed

\* Close without a MANIFEST keeps it: nothing is sealed.
LEMMA CloseBlockedLog ==
  ASSUME NEW o \in Outcomes, LogIInv, CloseBlocked(o)
  PROVE  LogIInv'
<1> DEFINE f == flushChunk(sw, o)
<1>1. /\ sw' = [f EXCEPT !.closed = TRUE] /\ accepted' = accepted /\ root' = root
      /\ ~sw.closed
  BY DEF CloseBlocked
<1>2. Open(sw, accepted) /\ root = NoRoot
  BY <1>1, StillOpen
<1>3. Open(f, accepted) /\ SameNames(sw, f)
  BY <1>2, FlushOpen
<1>4. DOMAIN f = Fields /\ IsSeq(f.w)
  BY <1>3 DEF Open, Good, FieldsTyped, SinkTyped
<1> HIDE DEF f
<1>5. /\ sw'.closed = TRUE /\ sw'.w = f.w /\ SameCounts(f, sw')
  BY <1>1, <1>4 DEF SameCounts, Fields
<1>6. Core(sw', accepted)
  BY <1>3, <1>4, <1>5, CoreKept DEF Open
<1>7. Names(sw') \cup Opened(sw') = Logged(accepted)
  <2>1. Names(sw') = Names(f) /\ Opened(sw') = Opened(f)
    BY <1>5 DEF SameCounts, Names, Opened
  <2> QED
    BY <1>3, <2>1 DEF SameNames, LogIInv, Account
<1>8. /\ sw'.w # <<>> /\ Unsealed(sw'.w) /\ ~IsManifest(Last(sw'.w))
  BY <1>3, <1>4, <1>5, UnsealedEnd DEF Open
<1>9. IInv'
  BY CloseBlockedGood DEF LogIInv
<1> QED
  BY <1>1, <1>2, <1>5, <1>6, <1>7, <1>8, <1>9, LeftClosed DEF Unsealed, SealsOnly

\* Close keeps it: the root is returned exactly when the MANIFEST is written.
LEMMA CloseLog ==
  ASSUME NEW o1 \in Outcomes, NEW o2 \in Outcomes, LogIInv, Close(o1, o2)
  PROVE  LogIInv' /\ sw'.closed
<1> DEFINE s == IF sw.nsStarted THEN finishNamespace(sw, o1) ELSE sw
           r == GlobalRoot(s.namespaces)
           m == Manifest(s.totalEntries, s.totalChunks, r, s.namespaces)
           fin == IF s.summary = "utf8" THEN writeRecord(s, m, o2) ELSE s
           sealed == s.summary = "utf8" /\ o2 = "ok"
           g == flushChunk(sw, o1)
<1>1. /\ ~sw.closed
      /\ sw.nsStarted => FlushErr(sw, o1) = "nil"
      /\ sw' = [fin EXCEPT !.closed = TRUE]
      /\ accepted' = accepted
      /\ root' = IF sealed THEN r ELSE root
  BY DEF Close
<1>2. Open(sw, accepted) /\ root = NoRoot
  BY <1>1, StillOpen
<1>3. Names(sw) \cup Opened(sw) = Logged(accepted)
  BY DEF LogIInv, Account
<1>4. /\ Good(s) /\ Core(s, accepted) /\ Unsealed(s.w) /\ s.w # <<>>
      /\ Names(s) \cup Opened(s) = Logged(accepted)
      /\ Names(s) = Logged(accepted) /\ s.pending = <<>>
  <2>1. CASE sw.nsStarted
    <3> DEFINE f == finishNamespace(sw, o1)
    <3>1. /\ Good(f) /\ f.nsStarted = sw.nsStarted /\ f.curNamespace = sw.curNamespace
          /\ f.pending = <<>>
      BY <1>1, <1>2, <2>1, FinishGood DEF Open
    <3>2. Core(f, accepted) /\ Names(f) = Names(sw) \cup {sw.curNamespace}
      BY <1>2, <2>1, FinishCore DEF Open
    <3>3. Unsealed(g.w) /\ g.w # <<>>
      BY <1>2, FlushOpen DEF Open
    <3>4. f.w = g.w
      BY <1>2, FinishEffect DEF Finished, Open
    <3>5. s = f
      BY <2>1
    <3> HIDE DEF f, g, s
    <3> QED
      BY <1>3, <2>1, <3>1, <3>2, <3>3, <3>4, <3>5 DEF Opened
  <2>2. CASE ~sw.nsStarted
    BY <1>2, <1>3, <2>2 DEF Open, Opened, Good, PendingInv
  <2> QED
    BY <2>1, <2>2
<1>5. r # NoRoot
  <2>1. IsSeq(s.namespaces)
    BY <1>4 DEF Core, Infos
  <2> HIDE DEF s
  <2> QED
    BY <2>1, GlobalRootReturned
<1>6. /\ ~IsChunk(m) /\ IsManifest(m)
      /\ m.totalEntries = s.totalEntries /\ m.totalChunks = s.totalChunks
      /\ m.namespaces = s.namespaces /\ m.rootHash = r /\ r = GlobalRoot(s.namespaces)
  BY DEF Manifest, IsChunk, IsManifest
<1> HIDE DEF s, m, r, g
<1>7. DOMAIN s = Fields /\ IsSeq(s.w)
  BY <1>4 DEF Good, FieldsTyped, SinkTyped
<1>8. /\ sw'.closed = TRUE /\ SameCounts(s, sw')
      /\ sw'.w = IF sealed THEN s.w \o <<m>>
                 ELSE IF s.summary = "utf8" /\ o2 = "torn" THEN s.w \o <<Torn>>
                 ELSE s.w
  <2>1. s.w \o <<>> = s.w
    BY <1>7, ConcatEmptySeq DEF IsSeq
  <2>2. CASE s.summary = "utf8"
    <3>1. fin = [s EXCEPT !.w = @ \o (IF o2 = "ok" THEN <<m>>
                                     ELSE IF o2 = "torn" THEN <<Torn>> ELSE <<>>),
                          !.faults = IF o2 = "ok" THEN @ ELSE @ + 1]
      BY <2>2 DEF writeRecord
    <3>2. /\ DOMAIN fin = Fields /\ SameCounts(s, fin)
          /\ fin.w = s.w \o (IF o2 = "ok" THEN <<m>>
                             ELSE IF o2 = "torn" THEN <<Torn>> ELSE <<>>)
      <4> HIDE DEF fin
      <4> QED
        BY <1>7, <3>1 DEF SameCounts, Fields
    <3>3. sw'.closed = TRUE /\ SameCounts(s, sw') /\ sw'.w = fin.w
      <4> HIDE DEF fin
      <4> QED
        BY <1>1, <3>2 DEF SameCounts, Fields
    <3>4. fin.w = IF sealed THEN s.w \o <<m>>
                  ELSE IF s.summary = "utf8" /\ o2 = "torn" THEN s.w \o <<Torn>>
                  ELSE s.w
      <4> HIDE DEF fin
      <4> QED
        BY <2>1, <2>2, <3>2
    <3> QED
      BY <3>3, <3>4
  <2>3. CASE s.summary # "utf8"
    BY <1>1, <1>7, <2>3 DEF SameCounts, Fields
  <2> QED
    BY <2>2, <2>3
<1> HIDE DEF fin
<1>9. ~IsChunk(Torn) /\ ~IsManifest(Torn)
  BY DEF IsChunk, IsManifest, Torn
<1>10. Core(sw', accepted)
  <2>1. sw'.w = s.w \/ \E rec : ~IsChunk(rec) /\ sw'.w = s.w \o <<rec>>
    BY <1>6, <1>8, <1>9, Zenon
  <2> QED
    BY <1>4, <1>7, <1>8, <2>1, CoreKept
<1>11. Names(sw') \cup Opened(sw') = Logged(accepted)
  <2>1. Names(sw') = Names(s) /\ Opened(sw') = Opened(s)
    BY <1>8 DEF SameCounts, Names, Opened
  <2> QED
    BY <1>4, <2>1
<1>12. /\ sw'.w # <<>>
       /\ root' # NoRoot <=> IsManifest(Last(sw'.w))
       /\ SealsOnly(sw'.w, root', accepted)
  <2>1. CASE sealed
    <3>1. sw'.w = s.w \o <<m>> /\ root' = r
      BY <1>1, <1>8, <2>1
    <3>2. /\ sw'.w # <<>> /\ Last(sw'.w) = m
          /\ \A i \in DOMAIN sw'.w : IsManifest(sw'.w[i]) => i = Len(sw'.w)
      BY <1>4, <1>7, <3>1, SinkSealed, Zenon
    <3>3. ManifestSays(m, sw'.w, accepted)
      <4>1. EntriesOf(sw'.w) = accepted
        <5>1. /\ EntriesOf(sw'.w) \in Seq(LogEntries)
              /\ EntriesOf(sw'.w) \o Located(sw'.curNamespace, <<>>) = accepted
          BY <1>4, <1>8, <1>10 DEF Core, Content, SameCounts
        <5> QED
          BY <5>1, LocatedEmpty, ConcatEmptySeq
      <4>2. /\ m.totalEntries = Len(accepted)
            /\ m.totalChunks = Cardinality({i \in DOMAIN sw'.w : IsChunk(sw'.w[i])})
        BY <1>6, <1>8, <1>10 DEF Core, Totals, AllChunks, SameCounts
      <4>3. {m.namespaces[i].name : i \in DOMAIN m.namespaces}
              = {accepted[i].ns : i \in DOMAIN accepted}
        BY <1>4, <1>6 DEF Names, Logged
      <4>4. /\ \A i, j \in DOMAIN m.namespaces :
                 i < j => m.namespaces[i].name < m.namespaces[j].name
            /\ \A i \in DOMAIN m.namespaces : InfoSays(m.namespaces[i], sw'.w, accepted)
        BY <1>6, <1>8, <1>10 DEF Core, Infos, ListAscends, SameCounts
      <4> QED
        BY <1>6, <4>1, <4>2, <4>3, <4>4 DEF ManifestSays
    <3>4. ASSUME NEW i \in DOMAIN sw'.w, IsManifest(sw'.w[i])
          PROVE  i = Len(sw'.w) /\ sw'.w[i] = m
      BY <3>2, <3>4 DEF Last
    <3>5. SealsOnly(sw'.w, root', accepted)
      BY <1>6, <3>1, <3>3, <3>4 DEF SealsOnly
    <3> QED
      BY <1>5, <1>6, <3>1, <3>2, <3>5
  <2>2. CASE ~sealed
    <3>1. Unsealed(sw'.w) /\ sw'.w # <<>> /\ ~IsManifest(Last(sw'.w))
      <4>1. CASE sw'.w = s.w
        BY <1>4, <1>7, <4>1, UnsealedEnd
      <4>2. CASE sw'.w = s.w \o <<Torn>>
        <5>1. PICK rec : rec = Torn
          OBVIOUS
        <5>2. sw'.w = s.w \o <<rec>> /\ ~IsManifest(rec)
          BY <1>9, <4>2, <5>1
        <5>3. sw'.w # <<>> /\ Last(sw'.w) = rec /\ Unsealed(sw'.w)
          BY <1>4, <1>7, <5>2, SinkSealed, Zenon
        <5> QED
          BY <5>2, <5>3
      <4> QED
        BY <1>8, <2>2, <4>1, <4>2
    <3>2. root' = NoRoot
      BY <1>1, <1>2, <2>2
    <3> QED
      BY <3>1, <3>2 DEF Unsealed, SealsOnly
  <2> QED
    BY <2>1, <2>2
<1>13. IInv'
  BY CloseGood DEF LogIInv
<1> QED
  BY <1>1, <1>8, <1>10, <1>11, <1>12, <1>13, LeftClosed

\* Every call keeps it.
LEMMA NextLog == LogIInv /\ [Next]_vars => LogIInv'
<1> SUFFICES ASSUME LogIInv, [Next]_vars PROVE LogIInv'
  OBVIOUS
<1>0. UNCHANGED <<sw, accepted, root>> /\ IInv' => LogIInv'
  BY DEF LogIInv, Account, Sealing
<1>1. IInv'
  BY NextGood DEF LogIInv
<1>2. ASSUME NEW ns \in Namespaces \cup BadNamespaces, NEW key \in Keys,
             NEW value \in Values, AddEntry(ns, key, value)
      PROVE  LogIInv'
  <2>1. CASE AddRejected(ns, key)
    BY <1>0, <1>1, <2>1 DEF AddRejected
  <2>2. ASSUME NEW o \in Outcomes, AddBlocked(ns, key, o)
        PROVE  LogIInv'
    BY <2>2, AddBlockedLog
  <2>3. ASSUME NEW o1 \in Outcomes, NEW o2 \in Outcomes,
               AddAccepted(ns, key, value, o1, o2)
        PROVE  LogIInv'
    BY <1>2, <2>3, AddAcceptedLog
  <2> QED
    BY <1>2, <2>1, <2>2, <2>3 DEF AddEntry
<1>3. CASE CloseCall
  <2>1. CASE CloseRejected
    BY <1>0, <1>1, <2>1 DEF CloseRejected
  <2>2. ASSUME NEW o \in Outcomes, CloseBlocked(o)
        PROVE  LogIInv'
    BY <2>2, CloseBlockedLog
  <2>3. ASSUME NEW o1 \in Outcomes, NEW o2 \in Outcomes, Close(o1, o2)
        PROVE  LogIInv'
    BY <2>3, CloseLog
  <2> QED
    BY <1>3, <2>1, <2>2, <2>3 DEF CloseCall
<1>4. CASE UNCHANGED vars
  BY <1>0, <1>1, <1>4 DEF vars
<1> QED
  BY <1>2, <1>3, <1>4 DEF Next

-----------------------------------------------------------------------------
\* The account is kept in every state of a Writer, whichever calls its owner
\* makes after whichever errors, and whatever the sink does with the records.
THEOREM WriterLogInvariant == Spec => []LogIInv
<1> QED
  BY InitLog, NextLog, PTL DEF Spec

\* No entry AddEntry took in is lost, repeated or reordered on its way to the
\* sink, whatever writes fail and however often the caller goes on
\* (writer.go:110-157,172-196).
THEOREM WriterFileIsLog == Spec => []FileIsLog
<1>1. LogIInv => FileIsLog
  BY DEF LogIInv, Account, Core, Content, FileIsLog
<1> QED
  BY <1>1, WriterLogInvariant, PTL

\* What the MANIFEST counts and digests is what was taken in and written:
\* totals, per-namespace counts and roots, sequence numbers from 0
\* (writer.go:150-151,167-169,190-192,198-209).
THEOREM WriterCountsMatchLog == Spec => []CountsMatchLog
<1>1. ASSUME LogIInv PROVE CountsMatchLog
  <2>1. /\ sw.totalEntries = Len(accepted)
        /\ sw.totalChunks = Cardinality({i \in DOMAIN sw.w : IsChunk(sw.w[i])})
        /\ \A i \in DOMAIN sw.w : IsChunk(sw.w[i]) => NumberedDensely(i)
    BY <1>1 DEF LogIInv, Account, Core, Totals, AllChunks, Dense, Earlier, NumberedDensely
  <2>2. \A i \in DOMAIN sw.namespaces : InfoSays(sw.namespaces[i], sw.w, accepted)
    BY <1>1 DEF LogIInv, Account, Core, Infos
  <2>3. {sw.namespaces[i].name : i \in DOMAIN sw.namespaces}
          \cup (IF sw.nsStarted THEN {sw.curNamespace} ELSE {})
          = {accepted[i].ns : i \in DOMAIN accepted}
    BY <1>1 DEF LogIInv, Account, Names, Opened, Logged
  <2> QED
    BY <2>1, <2>2, <2>3 DEF CountsMatchLog
<1> QED
  BY <1>1, WriterLogInvariant, PTL

\* A MANIFEST reaches the sink exactly when Close returns a root, and nothing
\* is written after it; it has that root, and its totals, its list of namespaces
\* and their roots are those of all entries taken in, all of which are written
\* (writer.go:198-246).
THEOREM WriterManifestSeals == Spec => []ManifestSeals
<1>1. ASSUME LogIInv PROVE ManifestSeals
  <2>1. Sealing /\ sw.closed \in BOOLEAN /\ IsSeq(sw.w)
    BY <1>1 DEF LogIInv, Account, IInv, Good, FieldsTyped, SinkTyped
  <2>2. CASE sw.closed
    BY <2>1, <2>2 DEF Sealing, SealsOnly, ManifestSeals
  <2>3. CASE ~sw.closed
    <3>1. ~IsManifest(Last(sw.w))
      BY <2>1, <2>3, UnsealedEnd DEF Sealing
    <3> QED
      BY <2>1, <2>3, <3>1 DEF Sealing, Unsealed, ManifestSeals
  <2> QED
    BY <2>1, <2>2, <2>3
<1> QED
  BY <1>1, WriterLogInvariant, PTL

-----------------------------------------------------------------------------
(***************************************************************************)
(* The Writer implements OrderedLog.                                       *)
(***************************************************************************)
Seen == /\ EntriesOf(sw.w) \o Located(sw.curNamespace, sw.pending) = accepted
        /\ accepted \in Seq(LogEntries)
        /\ sw.closed \in BOOLEAN

\* What is read back from the sink and the pending chunk is the log taken in.
LEMMA LogSeen == LogIInv => Seen
BY DEF LogIInv, Account, Core, Content, IInv, LogInv, Good, FieldsTyped, Seen

\* A call that takes nothing and leaves the sink as it is, or the Writer open,
\* is a stutter of the log.
LEMMA LogStutters ==
  ASSUME Seen, Seen', accepted' = accepted,
         sw' = sw \/ (~sw.closed /\ ~sw'.closed)
  PROVE  UNCHANGED Log!vars
BY DEF Seen, Log!vars

\* AddEntry adds its entry to an open log, which has only lesser ones.
LEMMA LogAdds ==
  ASSUME NEW ns \in Namespaces \cup BadNamespaces, NEW key \in Keys, NEW value \in Values,
         NEW o1 \in Outcomes, NEW o2 \in Outcomes, LogIInv, LogIInv',
         AddAccepted(ns, key, value, o1, o2)
  PROVE  Log!Next
<1> DEFINE e == [ns |-> ns, key |-> key, value |-> value]
<1>1. RejectErr(ns, key) = "nil" /\ accepted' = Append(accepted, e)
  BY DEF AddAccepted
<1>2. Seen /\ Seen' /\ AcceptedAscend'
  <2>1. LogIInv' => Seen'
    BY DEF LogIInv, Account, Core, Content, IInv, LogInv, Good, FieldsTyped, Seen
  <2> QED
    BY <2>1, LogSeen DEF LogIInv, IInv, LogInv, AcceptedAscend
<1>3. ns \in Namespaces /\ sw.closed = FALSE /\ sw'.closed = FALSE
  BY <1>1, AddAcceptedLog, NotRejected DEF LogIInv
<1>4. e \in LogEntries
  BY <1>3 DEF LogEntries
<1> HIDE DEF e
<1>5. ASSUME accepted # <<>> PROVE Before(accepted[Len(accepted)], e)
  <2> DEFINE n == Len(accepted)
  <2>1. n \in Nat \ {0} /\ DOMAIN accepted = 1..n
    BY <1>2, <1>5, LenProperties, EmptySeq DEF Seen
  <2>2. /\ DOMAIN accepted' = 1..(n + 1) /\ accepted'[n] = accepted[n]
        /\ accepted'[n + 1] = e
    BY <1>1, <1>2, <1>4, <2>1, AppendProperties DEF Seen
  <2> HIDE DEF n
  <2>3. n \in DOMAIN accepted' /\ n + 1 \in DOMAIN accepted' /\ n < n + 1
    BY <2>1, <2>2
  <2>4. Before(accepted'[n], accepted'[n + 1])
    BY <1>2, <2>3 DEF AcceptedAscend
  <2> QED
    BY <2>2, <2>4 DEF n
<1>6. Log!Add(e)
  BY <1>1, <1>2, <1>3, <1>5 DEF Log!Add, Seen
<1> QED
  BY <1>4, <1>6 DEF Log!Next

\* Close finishes the log, sealed or not.
LEMMA LogFinishes ==
  ASSUME Seen, Seen', ~sw.closed, sw'.closed, accepted' = accepted
  PROVE  Log!Next
<1>1. Log!Finish
  BY DEF Log!Finish, Seen
<1> QED
  BY <1>1 DEF Log!Next

\* Every call is a step of the log or a stutter.
LEMMA LogSteps ==
  ASSUME LogIInv, LogIInv', [Next]_vars
  PROVE  [Log!Next]_Log!vars
<1>1. Seen /\ Seen'
  <2>1. LogIInv' => Seen'
    BY DEF LogIInv, Account, Core, Content, IInv, LogInv, Good, FieldsTyped, Seen
  <2> QED
    BY <2>1, LogSeen
<1>2. ASSUME NEW ns \in Namespaces \cup BadNamespaces, NEW key \in Keys,
             NEW value \in Values, AddEntry(ns, key, value)
      PROVE  [Log!Next]_Log!vars
  <2>1. CASE AddRejected(ns, key)
    BY <1>1, <2>1, LogStutters DEF AddRejected
  <2>2. ASSUME NEW o \in Outcomes, AddBlocked(ns, key, o)
        PROVE  [Log!Next]_Log!vars
    <3>1. accepted' = accepted /\ sw' = flushChunk(sw, o) /\ ~sw.closed
      BY <2>2 DEF AddBlocked, RejectErr
    <3>2. Open(sw, accepted)
      BY <3>1, StillOpen
    <3>3. SameNames(sw, flushChunk(sw, o))
      BY <3>2, FlushOpen
    <3> QED
      BY <1>1, <3>1, <3>3, LogStutters DEF SameNames
  <2>3. ASSUME NEW o1 \in Outcomes, NEW o2 \in Outcomes,
               AddAccepted(ns, key, value, o1, o2)
        PROVE  [Log!Next]_Log!vars
    BY <1>2, <2>3, LogAdds
  <2> QED
    BY <1>2, <2>1, <2>2, <2>3 DEF AddEntry
<1>3. CASE CloseCall
  <2>1. CASE CloseRejected
    BY <1>1, <2>1, LogStutters DEF CloseRejected
  <2>2. ASSUME NEW o \in Outcomes, CloseBlocked(o)
        PROVE  [Log!Next]_Log!vars
    <3>1. accepted' = accepted /\ ~sw.closed
          /\ sw' = [flushChunk(sw, o) EXCEPT !.closed = TRUE]
      BY <2>2 DEF CloseBlocked
    <3>2. DOMAIN flushChunk(sw, o) = Fields
      BY FlushGood DEF LogIInv, IInv, Good, FieldsTyped
    <3>3. sw'.closed
      BY <3>1, <3>2 DEF Fields
    <3> QED
      BY <1>1, <3>1, <3>3, LogFinishes
  <2>3. ASSUME NEW o1 \in Outcomes, NEW o2 \in Outcomes, Close(o1, o2)
        PROVE  [Log!Next]_Log!vars
    <3>1. ~sw.closed /\ accepted' = accepted
      BY <2>3 DEF Close
    <3>2. sw'.closed
      BY <2>3, CloseLog
    <3> QED
      BY <1>1, <3>1, <3>2, LogFinishes
  <2> QED
    BY <1>3, <2>1, <2>2, <2>3 DEF CloseCall
<1>4. CASE UNCHANGED vars
  BY <1>1, <1>4, LogStutters DEF vars
<1> QED
  BY <1>2, <1>3, <1>4 DEF Next

\* Read back from the sink, the Writer is the ordered log that OrderedLog
\* promises: it ascends, only grows, and is closed once (writer.go:61-63,
\* 110-157,214-246).
THEOREM WriterRefinesOrderedLog == Spec => RefinesOrderedLog
<1>1. Init => Log!Init
  <2> SUFFICES ASSUME Init PROVE Log!Init
    OBVIOUS
  <2>1. Seen
    BY InitLog, LogSeen
  <2>2. accepted = <<>> /\ sw.closed = FALSE
    BY DEF Init
  <2> QED
    BY <2>1, <2>2 DEF Seen, Log!Init
<1>2. LogIInv /\ LogIInv' /\ [Next]_vars => [Log!Next]_Log!vars
  BY LogSteps
<1> QED
  BY <1>1, <1>2, WriterLogInvariant, PTL DEF Spec, RefinesOrderedLog, Log!Spec

-----------------------------------------------------------------------------
(***************************************************************************)
(* A chunk too large to write.                                             *)
(***************************************************************************)
\* Such a chunk is not flushed, and the attempt says so.
LEMMA OversizeBlocks ==
  ASSUME NEW s, NEW o \in Outcomes, PendingTooLarge(s)
  PROVE  flushChunk(s, o) = s /\ FlushErr(s, o) # "nil"
BY DEF PendingTooLarge, flushChunk, FlushErr, Writable

\* One entry more does not make it smaller.
LEMMA OversizeGrows ==
  ASSUME NEW key \in Keys, NEW value \in Values, LogIInv, sw.nsStarted,
         PendingTooLarge(sw)
  PROVE  LET t == takeEntry(sw, key, value) IN PendingTooLarge(t) /\ t.w = sw.w
<1> DEFINE e == [key |-> key, value |-> value]
           t == takeEntry(sw, key, value)
<1>1. /\ DOMAIN sw = Fields /\ sw.pending \in Seq(Entries) /\ sw.pendingBytes \in Nat
      /\ sw.pendingBytes = EntriesSize(sw.pending) /\ sw.curNamespace \in Namespaces
  BY DEF LogIInv, IInv, Good, FieldsTyped, Account, Core, Sized
<1>2. e \in Entries /\ EntrySize(e) \in Nat
  BY Lengths DEF Entries, EntrySize
<1>3. t.w = sw.w /\ t.curNamespace = sw.curNamespace /\ t.pending = Append(sw.pending, e)
  BY <1>1 DEF takeEntry, Fields
<1>4. EntriesSize(t.pending) = EntriesSize(sw.pending) + EntrySize(e)
  BY <1>1, <1>2, <1>3, EntriesSizeAppend
<1>5. t.pending # <<>>
  BY <1>1, <1>2, <1>3, AppendProperties
<1>6. Len(NamespaceBytes[sw.curNamespace]) \in Nat
  BY <1>1, BytesAssumption, LenProperties
<1>7. ChunkPayloadSize(t.curNamespace, t.pending)
        = ChunkPayloadSize(sw.curNamespace, sw.pending) + EntrySize(e)
  <2> HIDE DEF t, e
  <2> QED
    BY <1>1, <1>2, <1>3, <1>4, <1>6 DEF ChunkPayloadSize
<1>8. ChunkPayloadSize(sw.curNamespace, sw.pending) \in Nat
  BY <1>1, <1>6 DEF ChunkPayloadSize
<1> HIDE DEF t, e
<1>9. PendingTooLarge(t)
  BY <1>2, <1>5, <1>7, <1>8, BoundsAssumption DEF PendingTooLarge
<1> QED
  BY <1>3, <1>9 DEF t

\* Every call of a Writer whose chunk is too large leaves the sink and the root
\* as they were, and the chunk too large.
LEMMA OversizeStays ==
  ASSUME LogIInv, [Next]_vars, PendingTooLarge(sw)
  PROVE  sw'.w = sw.w /\ PendingTooLarge(sw') /\ root' = root
<1> DEFINE Stays == sw'.w = sw.w /\ PendingTooLarge(sw') /\ root' = root
<1> SUFFICES Stays
  OBVIOUS
<1>0. sw' = sw /\ root' = root => Stays
  BY DEF PendingTooLarge
<1>1. /\ sw.nsStarted /\ DOMAIN sw = Fields
  BY DEF LogIInv, IInv, Good, FieldsTyped, PendingInv, PendingTooLarge
<1> HIDE DEF Stays
<1>2. ASSUME NEW ns \in Namespaces \cup BadNamespaces, NEW key \in Keys,
             NEW value \in Values, AddEntry(ns, key, value)
      PROVE  Stays
  <2>1. CASE AddRejected(ns, key)
    BY <1>0, <2>1 DEF AddRejected
  <2>2. ASSUME NEW o \in Outcomes, AddBlocked(ns, key, o)
        PROVE  Stays
    BY <1>0, <2>2, OversizeBlocks DEF AddBlocked
  <2>3. ASSUME NEW o1 \in Outcomes, NEW o2 \in Outcomes,
               AddAccepted(ns, key, value, o1, o2)
        PROVE  Stays
    <3> DEFINE t == takeEntry(sw, key, value)
    <3>1. FlushErr(sw, o1) # "nil"
      BY OversizeBlocks
    <3>2. ns = sw.curNamespace
      BY <1>1, <2>3, <3>1 DEF AddAccepted, ChangesNamespace
    <3>3. /\ sw' = IF CapReached(t) THEN flushChunk(t, o2) ELSE t
          /\ root' = root
      BY <1>1, <2>3, <3>2 DEF AddAccepted
    <3>4. PendingTooLarge(t) /\ t.w = sw.w
      BY <1>1, <1>2, OversizeGrows
    <3> HIDE DEF t
    <3>5. flushChunk(t, o2) = t
      BY <3>4, OversizeBlocks
    <3> QED
      BY <3>3, <3>4, <3>5 DEF Stays
  <2> QED
    BY <1>2, <2>1, <2>2, <2>3 DEF AddEntry
<1>3. CASE CloseCall
  <2>1. CASE CloseRejected
    BY <1>0, <2>1 DEF CloseRejected
  <2>2. ASSUME NEW o \in Outcomes, CloseBlocked(o)
        PROVE  Stays
    <3>1. sw' = [sw EXCEPT !.closed = TRUE] /\ root' = root
      BY <2>2, OversizeBlocks DEF CloseBlocked
    <3>2. sw'.w = sw.w /\ sw'.pending = sw.pending /\ sw'.curNamespace = sw.curNamespace
      BY <1>1, <3>1 DEF Fields
    <3> QED
      BY <3>1, <3>2 DEF Stays, PendingTooLarge
  <2>3. ASSUME NEW o1 \in Outcomes, NEW o2 \in Outcomes, Close(o1, o2)
        PROVE  Stays
    BY <1>1, <2>3, OversizeBlocks DEF Close
  <2> QED
    BY <1>3, <2>1, <2>2, <2>3 DEF CloseCall
<1>4. CASE UNCHANGED vars
  BY <1>0, <1>4 DEF vars
<1> QED
  BY <1>2, <1>3, <1>4 DEF Next

\* Once the pending chunk exceeds maxRecordSize no call ever writes again: the
\* stream is never sealed with its entries missing (writer.go:184-189,
\* wire.go:42-45).
THEOREM WriterOversizeTerminal == Spec => OversizeIsTerminal
<1>1. LogIInv /\ [Next]_vars
        => [PendingTooLarge(sw) =>
              sw'.w = sw.w /\ PendingTooLarge(sw') /\ root' = root]_vars
  BY OversizeStays
<1> QED
  BY <1>1, WriterLogInvariant, PTL DEF Spec, OversizeIsTerminal
=============================================================================
