------------------------------ MODULE Framing ------------------------------
(***************************************************************************)
(* The bytes of a file while a Writer writes them, record by record, with  *)
(* writes that break off at any byte and are retried, and after a sealed   *)
(* file was damaged or extended.  In every state of the bytes, a crash     *)
(* among them, Reader, ReadManifest and Open are asked what they see.      *)
(*                                                                         *)
(* The Writer is the one of module Writer, cut down to what it sends: the  *)
(* entries of Log in turn, chunked wherever it likes.  Digests are bytes   *)
(* that name what was hashed; only what the Writer hashes has one.         *)
(***************************************************************************)
EXTENDS Locate

CONSTANTS Log,           \* the entries: sequence of [ns, key, value] of bytes
          MaxFaults,     \* bound on failed writes and changes together
          MaxChanges,    \* bound on changes to a sealed file
          DamagedBytes,  \* what a damaged byte may become
          Inserted,      \* records that may be added: set of [type, payload]
          Probes         \* sizes of chunkHeaderProbe

ASSUME BoundsAssumption == MaxFaults \in Nat /\ MaxChanges \in Nat
ASSUME ProbesAssumption == Probes \subseteq Nat \ {0}

VARIABLES data,      \* the bytes that reached the sink
          cuts,      \* the entry each chunk in the sink ends with
          pending,   \* entries up to here were given to AddEntry
          status,    \* "new", "open", "sealed" or "failed"
          faults, changes

vars == <<data, cuts, pending, status, faults, changes>>

Flushed == IF cuts = <<>> THEN 0 ELSE Last(cuts)

-----------------------------------------------------------------------------
\* What the Writer sends.
Digest(i, j) == 100 + i * (Len(Log) + 1) + j       \* of the entries i to j
Root(n)      == 200 + n                            \* over the first n entries

StartOf(n) == IF n = 1 THEN 1 ELSE cuts[n - 1] + 1
ChunksNamed(ns) == {n \in DOMAIN cuts : Log[cuts[n]].ns = ns}

ChunkPayload(j) ==
  LET i == Flushed + 1
  IN  encodeChunk(Cardinality(ChunksNamed(Log[i].ns)), Log[i].ns, Len(Log[i].key),
                  SubSeq(Log, i, j), Digest(i, j))

\* The namespaces in their order, with what the chunks in the sink hold.
Firsts == SelectSeq([n \in DOMAIN cuts |-> StartOf(n)],
                    LAMBDA i : i = 1 \/ Log[i - 1].ns # Log[i].ns)

InfoOf(i) ==
  LET ns == Log[i].ns
  IN  [name |-> ns, digest |-> Root(i),
       entriesCount |-> Cardinality({k \in 1..Flushed : Log[k].ns = ns}),
       chunksCount  |-> Cardinality(ChunksNamed(ns))]

ManifestPayload ==
  encodeManifest([totalEntries |-> Flushed, totalChunks |-> Len(cuts),
                  rootHash |-> Root(Flushed),
                  namespaces |-> [n \in DOMAIN Firsts |-> InfoOf(Firsts[n])]])

-----------------------------------------------------------------------------
Init == /\ data = <<>> /\ cuts = <<>> /\ pending = 0
        /\ status = "new" /\ faults = 0 /\ changes = 0

\* writeRecord's two outcomes.  A write that fails leaves any part of the
\* record behind, all of it included.
Sent(bytes) == /\ data' = data \o bytes
               /\ UNCHANGED <<faults, changes>>

SentInPart(bytes) == /\ faults < MaxFaults
                     /\ \E k \in 0..Len(bytes) : data' = data \o At(bytes, 0, k)
                     /\ faults' = faults + 1
                     /\ UNCHANGED changes

NewWriter == /\ status = "new"
             /\ \/ Sent(Frame(RecordTypeHdr, HdrPayload)) /\ status' = "open"
                \/ SentInPart(Frame(RecordTypeHdr, HdrPayload)) /\ status' = "failed"
             /\ UNCHANGED <<cuts, pending>>

\* flushChunk with the entries up to j pending.  What failed stays pending, and
\* later entries join it; a flush inside Close is not repeated.
Pending(j) == /\ status = "open"
              /\ j \in (Flushed + 1)..Len(Log) /\ j >= pending
              /\ Log[j].ns = Log[Flushed + 1].ns

Flush(j) == /\ Pending(j)
            /\ Writable(ChunkPayload(j))
            /\ Sent(Frame(RecordTypeChunk, ChunkPayload(j)))
            /\ cuts' = Append(cuts, j)
            /\ pending' = j
            /\ UNCHANGED status

FlushFails(j) == /\ Pending(j)
                 /\ \/ /\ Writable(ChunkPayload(j))
                       /\ SentInPart(Frame(RecordTypeChunk, ChunkPayload(j)))
                    \/ /\ ~Writable(ChunkPayload(j))
                       /\ UNCHANGED <<data, faults, changes>>
                 /\ pending' = j
                 /\ status' \in {"open", "failed"}
                 /\ UNCHANGED cuts

\* Close with nothing pending: the MANIFEST, which is not tried again.
Close == /\ status = "open"
         /\ pending = Flushed
         /\ LET bytes == Frame(RecordTypeManifest, ManifestPayload)
            IN  \/ Writable(ManifestPayload) /\ Sent(bytes) /\ status' = "sealed"
                \/ Writable(ManifestPayload) /\ SentInPart(bytes) /\ status' = "failed"
                \/ /\ ~Writable(ManifestPayload)
                   /\ status' = "failed" /\ UNCHANGED <<data, faults, changes>>
         /\ UNCHANGED <<cuts, pending>>

\* A sealed file is damaged, cut, or extended by a record.
Change(bytes) == /\ status = "sealed"
                 /\ changes < MaxChanges /\ faults + changes < MaxFaults
                 /\ data' = bytes
                 /\ changes' = changes + 1
                 /\ UNCHANGED <<cuts, pending, status, faults>>

DamageByte == \E i \in DOMAIN data, b \in DamagedBytes : Change([data EXCEPT ![i] = b])
CutOff     == \E n \in 0..(Len(data) - 1) : Change(At(data, 0, n))

\* Where a record starts, or the file ends.
Boundaries ==
  LET from[off \in 0..Len(data)] ==
        {off} \cup (IF readRecord(data, off).err = "nil"
                      THEN from[readRecord(data, off).end] ELSE {})
  IN  from[0]

InsertRecord == \E off \in Boundaries, rec \in Inserted :
  Change(At(data, 0, off) \o Frame(rec.type, rec.payload) \o At(data, off, Len(data) - off))

Next == \/ NewWriter \/ Close
        \/ \E j \in DOMAIN Log : Flush(j) \/ FlushFails(j)
        \/ DamageByte \/ CutOff \/ InsertRecord

Spec == Init /\ [][Next]_vars

-----------------------------------------------------------------------------
\* The chunks and the manifest a Reader gets, checked as VerifyChunks does:
\* the digests in the chunks, the order of the entries and the totals of the
\* manifest.  The manifest names the root that Close computed.
Named(c) == [n \in DOMAIN c.entries |->
               [ns |-> c.ns, key |-> c.entries[n].key, value |-> c.entries[n].value]]

\* EntryDigest: name, key and value are hashed in a row, undivided.
Rows(log) == [n \in DOMAIN log |-> log[n].ns \o log[n].key \o log[n].value]

Hashed(c) == \E i, j \in DOMAIN Log : /\ i <= j /\ c.hash = Digest(i, j)
                                      /\ Rows(Named(c)) = Rows(SubSeq(Log, i, j))

Ordered(c, d) ==
  \/ BytesBefore(c.ns, d.ns)
  \/ c.ns = d.ns /\ \A i \in DOMAIN c.entries, j \in DOMAIN d.entries :
                      BytesBefore(c.entries[i].key, d.entries[j].key)

EntriesIn(chunks) == FlattenSeq([n \in DOMAIN chunks |-> Named(chunks[n])])

Counted(r) == /\ r.manifest.rootHash = Root(Flushed)
              /\ r.manifest.totalEntries = Len(EntriesIn(r.chunks))
              /\ r.manifest.totalChunks = Len(r.chunks)

VerifyChunksUnordered(r) ==                     \* a slip: the order is not checked
  /\ r.err = "EOF"
  /\ \A n \in DOMAIN r.chunks : Hashed(r.chunks[n])
  /\ Counted(r)

VerifyChunks(r) ==
  /\ r.err = "EOF"
  /\ \A n \in DOMAIN r.chunks : Hashed(r.chunks[n])
  /\ \A n \in 2..Len(r.chunks) : Ordered(r.chunks[n - 1], r.chunks[n])
  /\ Counted(r)

\* A file of that root whose chunks and totals check holds, once and in order,
\* the bytes of the entries that the Writer counted as written, wherever a write
\* broke off before it was retried and wherever a byte changed (wire.go:49-53).
\* Where name and key are as long as they were it holds the entries themselves; a
\* changed len_key divides the same bytes otherwise and is noticed by nobody
\* (hash.go:44-50, entry.go:63-65).  A file that nothing happened to does check.
CheckedIsWritten ==
  LET r   == ReadFile(data)
      log == EntriesIn(r.chunks)
  IN  /\ VerifyChunks(r) =>
           /\ Rows(log) = Rows(SubSeq(Log, 1, Flushed))
           /\ \A n \in DOMAIN log :
                /\ log[n].ns = Log[n].ns
                /\ Len(log[n].key) = Len(Log[n].key)
                => log[n] = Log[n]
      /\ status = "sealed" /\ faults = 0 /\ changes = 0 => VerifyChunks(r)

EndsIn(bytes) == /\ Len(bytes) <= Len(data)
                 /\ At(data, Len(data) - Len(bytes), Len(bytes)) = bytes

Sealed == \/ status = "sealed"
          \/ LET bytes == Frame(RecordTypeManifest, ManifestPayload)
             IN  status = "failed" /\ EndsIn(bytes)

IsManifestRecord(bytes) ==
  LET rec == readRecord(bytes, 0)
  IN  /\ rec.err = "nil" /\ rec.end = Len(bytes)
      /\ rec.type = RecordTypeManifest /\ decodeManifest(rec.payload).ok

\* The last write broke off right behind bytes of its payload that are a whole
\* MANIFEST record.
BrokeBehindManifest ==
  \E j \in (Flushed + 1)..Len(Log) :
    /\ Log[j].ns = Log[Flushed + 1].ns
    /\ LET payload == ChunkPayload(j)
       IN  \E n \in DOMAIN payload :
             /\ EndsIn(At(payload, 0, n))
             /\ \E k \in 1..n : IsManifestRecord(SubSeq(payload, k, n))

\* A write broke off after an entry was taken whose value holds such bytes.
BrokeWithManifest ==
  /\ faults > 0
  /\ \E n \in 1..pending :
       LET v == Log[n].value
       IN  \E i, j \in DOMAIN v : IsManifestRecord(SubSeq(v, i, j))

\* Before the last byte of the MANIFEST is written nothing takes the file for
\* a whole one, neither the Reader nor a search from the end, whatever part of
\* which record is in the sink (wire.go:64-83, manifest_locate.go:45-80).  Only
\* the bytes of a MANIFEST record inside a value are mistaken for one: by
\* ReadManifest exactly if a write broke off right behind them, by Reader and
\* Open only if a write broke off at all.
UnsealedIsRefused ==
  ~Sealed => /\ ReadManifest(data).err = "nil" <=> BrokeBehindManifest
             /\ ~BrokeWithManifest => /\ ReadFile(data).err # "EOF"
                                      /\ Open(data, Len(data)).err # "nil"

\* Wherever Reader and Open both take a file they see the same chunks and the
\* same manifest, and so does ReadManifest.  A file the Reader takes that ends
\* in its manifest is refused by neither, except by Open for a chunk without
\* entries or namespaces that are not contiguous.  A sealed file is taken by
\* all three (snapshot.go:62-151, manifest_locate.go:39-81).
Located(r) == [n \in DOMAIN r.chunks |->
  [at |-> r.chunks[n].at, ns |-> r.chunks[n].ns, firstKey |-> r.chunks[n].entries[1].key]]

Indexable(r) == /\ \A n \in DOMAIN r.chunks : r.chunks[n].entries # <<>>
                /\ ~Scattered(r.chunks)

EndsInManifest(r) == r.err = "EOF" /\ R!IsManifest(Last(Records(data)))

Agree(r, m, s) ==
  /\ EndsInManifest(r) => m = [err |-> "nil", manifest |-> r.manifest]
  /\ EndsInManifest(r) /\ Indexable(r) => s.err = "nil" /\ s.chunks = Located(r)
  /\ s.err = "nil" => m = [err |-> "nil", manifest |-> s.manifest]
  /\ s.err = "nil" /\ r.err = "EOF" => EndsInManifest(r)
  /\ status = "sealed" /\ faults = 0 /\ changes = 0 => EndsInManifest(r) /\ Indexable(r)

ReadersAgree ==
  Agree(ReadFile(data), ReadManifest(data), Open(data, Len(data)))

\* How much of a chunk Open probes for its header changes nothing that it
\* returns, error or index (snapshot.go:25-29,104-127).
ProbeIsInvisible ==
  LET whole == Open(data, Len(data))
  IN  \A probe \in Probes : Open(data, probe) = whole
=============================================================================
