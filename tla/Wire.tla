-------------------------------- MODULE Wire --------------------------------
(***************************************************************************)
(* SCLS files as bytes: records framed by a length (wire.go), what decides *)
(* whether a payload decodes (header.go, chunk.go, entry.go, manifest.go). *)
(* Reader is taken over from its own module: it reads the records that     *)
(* readRecord cuts the bytes into.                                         *)
(*                                                                         *)
(* The layout is scaled down: a u32 has Width digits in base Base, a u64,  *)
(* a digest and the magic are one byte each, and of the manifest only the  *)
(* totals, the list and the root are kept.  Offsets count from 0.          *)
(***************************************************************************)
EXTENDS Bytes, SequencesExt

CONSTANTS Width, Base,        \* of a u32
          maxRecordSize       \* bound on a record's type byte and payload

ASSUME WidthAssumption == Width \in Nat \ {0} /\ Base \in Nat \ {0, 1}
ASSUME maxRecordSizeAssumption == maxRecordSize \in 1..(Base^Width - 1)

RecordTypeHdr      == 0
RecordTypeManifest == 1
RecordTypeChunk    == 16
RecordTypeDelta    == 17
ChunkFormatRaw     == 0
Magic              == 83
FormatVersion      == 1

PutUint32(n) == [i \in 1..Width |-> (n \div Base^(Width - i)) % Base]

\* The n bytes of data at an offset, and the u32 there.
At(data, off, n)    == SubSeq(data, off + 1, off + n)
Uint32At(data, off) ==
  LET upTo[i \in 0..Width] == IF i = 0 THEN 0 ELSE upTo[i - 1] * Base + data[off + i]
  IN  upTo[Width]

-----------------------------------------------------------------------------
\* writeRecord: what it would write, and whether it writes at all.
Frame(recType, payload) == PutUint32(Len(payload) + 1) \o <<recType>> \o payload

Writable(payload) == Len(payload) < maxRecordSize

\* readRecord at an offset: the error, or the record and where it ends.
NoRecord(err) == [err |-> err, type |-> RecordTypeHdr, payload |-> <<>>, end |-> 0]

RecordErr(data, off) ==
  LET left == Len(data) - off
      size == Uint32At(data, off)
  IN  IF left = 0 THEN "EOF"
      ELSE IF left < Width \/ size = 0 THEN "ErrTruncatedRecord"
      ELSE IF size > maxRecordSize THEN "ErrRecordTooLarge"
      ELSE IF left - Width < size THEN "ErrTruncatedRecord"
      ELSE "nil"

RecordOf(data, off, size) ==
  [err |-> "nil", type |-> data[off + Width + 1],
   payload |-> At(data, off + Width + 1, size - 1), end |-> off + Width + size]

readRecord(data, off) ==
  IF RecordErr(data, off) # "nil" THEN NoRecord(RecordErr(data, off))
  ELSE RecordOf(data, off, Uint32At(data, off))

-----------------------------------------------------------------------------
\* Payloads.  Bytes behind the version are tolerated.
HdrPayload == <<Magic, FormatVersion>>
decodeHeader(payload) == Len(payload) >= 2 /\ At(payload, 0, 2) = HdrPayload

encodeEntry(e) == PutUint32(Len(e.key) + Len(e.value)) \o e.key \o e.value

encodeChunk(seq, ns, keyLen, entries, hash) ==
  <<seq, ChunkFormatRaw>> \o PutUint32(Len(ns)) \o ns \o PutUint32(keyLen)
    \o FlattenSeq([i \in DOMAIN entries |-> encodeEntry(entries[i])])
    \o PutUint32(Len(entries)) \o <<hash>>

\* decodeEntries: exactly count entries, which end where the bytes end.
EntryFits(data, off, keyLen) ==
  /\ off + Width <= Len(data)
  /\ Uint32At(data, off) <= Len(data) - off - Width
  /\ Uint32At(data, off) >= keyLen

EntryAt(data, off, keyLen) ==
  [key   |-> At(data, off + Width, keyLen),
   value |-> At(data, off + Width + keyLen, Uint32At(data, off) - keyLen)]

NoEntries(ok) == [ok |-> ok, entries |-> <<>>]
Prepended(e, r) == [ok |-> r.ok, entries |-> <<e>> \o r.entries]

decodeEntries(data, count, keyLen) ==
  LET from[off \in 0..Len(data), n \in 0..count] ==
        IF n = 0 THEN NoEntries(off = Len(data))
        ELSE IF ~EntryFits(data, off, keyLen) THEN NoEntries(FALSE)
        ELSE Prepended(EntryAt(data, off, keyLen),
                       from[off + Width + Uint32At(data, off), n - 1])
  IN  from[0, count]

\* utf8.Valid: a name is ASCII here, and other bytes never make a character.
ValidUTF8(bytes) == \A i \in DOMAIN bytes : bytes[i] < 128

chunkHeaderFixedSize == 2 + 2 * Width
chunkFooterSize      == Width + 1

\* decodeChunk, for the reader of records: the chunk that starts at offset at.
ChunkFits(p) ==
  /\ Len(p) >= chunkHeaderFixedSize + chunkFooterSize
  /\ p[2] = ChunkFormatRaw
  /\ Uint32At(p, 2) <= Len(p) - chunkHeaderFixedSize - chunkFooterSize
  /\ ValidUTF8(At(p, 2 + Width, Uint32At(p, 2)))

ChunkOf(at, p, lenNS, keyLen) ==
  LET body    == At(p, chunkHeaderFixedSize + lenNS,
                    Len(p) - chunkHeaderFixedSize - lenNS - chunkFooterSize)
      decoded == decodeEntries(body, Uint32At(p, Len(p) - chunkFooterSize), keyLen)
  IN  [type |-> "CHUNK", ok |-> decoded.ok, at |-> at, seq |-> p[1],
       ns |-> At(p, 2 + Width, lenNS), entries |-> decoded.entries, hash |-> Last(p)]

BadChunk == [type |-> "CHUNK", ok |-> FALSE]

decodeChunk(at, p) ==
  IF ~ChunkFits(p) THEN BadChunk
  ELSE LET lenNS == Uint32At(p, 2)
       IN  ChunkOf(at, p, lenNS, Uint32At(p, 2 + Width + lenNS))

-----------------------------------------------------------------------------
\* The manifest ends in its own length.
encodeManifest(m) ==
  LET info(i) == PutUint32(Len(i.name)) \o <<i.entriesCount, i.chunksCount>>
                   \o i.name \o <<i.digest>>
      fields  == <<m.totalEntries, m.totalChunks>>
                   \o FlattenSeq([i \in DOMAIN m.namespaces |-> info(m.namespaces[i])])
                   \o PutUint32(0) \o <<m.rootHash>>
  IN  fields \o PutUint32(Len(fields) + 1 + Width)

manifestMinRecordLen == 1 + 2 + Width + 1 + Width

BadManifest == [type |-> "MANIFEST", ok |-> FALSE]

InfoAt(p, off, lenNS) ==
  [name |-> At(p, off + Width + 2, lenNS), digest |-> p[off + Width + lenNS + 3],
   entriesCount |-> p[off + Width + 1], chunksCount |-> p[off + Width + 2]]

\* The list up to its sentinel, and where the fields behind it start.
NoInfos(end) == [infos |-> <<>>, end |-> end]
InfoFirst(info, r) == [infos |-> <<info>> \o r.infos, end |-> r.end]

decodeInfos(p) ==
  LET from[off \in 0..Len(p)] ==
        IF off + Width > Len(p) THEN NoInfos(Len(p) + 1)
        ELSE IF Uint32At(p, off) = 0 THEN NoInfos(off + Width)
        ELSE IF off + Width + 3 + Uint32At(p, off) > Len(p) THEN NoInfos(Len(p) + 1)
        ELSE IF ~ValidUTF8(At(p, off + Width + 2, Uint32At(p, off))) THEN NoInfos(Len(p) + 1)
        ELSE InfoFirst(InfoAt(p, off, Uint32At(p, off)),
                       from[off + Width + 3 + Uint32At(p, off)])
  IN  from[2]

ManifestEnds(p, end) ==
  /\ end + 1 + Width = Len(p)
  /\ Uint32At(p, end + 1) = Len(p) + 1

ManifestOfPayload(p, list) ==
  IF ManifestEnds(p, list.end)
    THEN [type |-> "MANIFEST", ok |-> TRUE, totalEntries |-> p[1], totalChunks |-> p[2],
          namespaces |-> list.infos, rootHash |-> p[list.end + 1]]
    ELSE BadManifest

decodeManifest(p) == IF Len(p) < 2 THEN BadManifest
                     ELSE ManifestOfPayload(p, decodeInfos(p))

-----------------------------------------------------------------------------
\* The records of a file as a Reader meets them, up to the first that cannot
\* be read.
R == INSTANCE Reader WITH Namespaces <- {}, Keys <- {}, Values <- {},
       NamespaceBytes <- <<>>, KeyBytes <- <<>>, ValueBytes <- <<>>

Decoded(at, rec) ==
  CASE rec.type = RecordTypeHdr ->
         IF at # 0 \/ decodeHeader(rec.payload) THEN R!Hdr ELSE R!Delta
    [] rec.type = RecordTypeChunk    -> decodeChunk(at, rec.payload)
    [] rec.type = RecordTypeManifest -> decodeManifest(rec.payload)
    [] rec.type = RecordTypeDelta    -> R!Delta
    [] OTHER                         -> R!Reserved

Records(data) ==
  LET from[off \in 0..Len(data)] ==
        IF off = Len(data) THEN <<>>
        ELSE LET next(rec) == IF rec.err # "nil" THEN <<R!Torn>>
                              ELSE <<Decoded(off, rec)>> \o from[rec.end]
             IN  next(readRecord(data, off))
  IN  from[0]

\* NewReader, then Next to the first error or the clean end.
ReadFile(data) == R!ReadAll(Records(data))

=============================================================================
