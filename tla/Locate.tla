------------------------------- MODULE Locate -------------------------------
(***************************************************************************)
(* The manifest found from the end of a file (manifest_locate.go), and the *)
(* index that a Snapshot makes of it without decoding a chunk              *)
(* (snapshot.go), on the bytes of Wire.                                    *)
(***************************************************************************)
EXTENDS Wire

Refused(err)    == [err |-> err, manifest |-> R!NoManifest]
Found(m)        == IF m.ok THEN [err |-> "nil", manifest |-> m]
                   ELSE Refused("ErrMissingManifest")

\* The record in front of the end whose length the last bytes give.
Bookend(data) == Uint32At(data, Len(data) - Width)

ImplausibleAtMinimum(offset, start, least) ==      \* a slip: the least length too
  offset <= manifestMinRecordLen \/ start < least
Implausible(offset, start, least) == offset < manifestMinRecordLen \/ start < least

ManifestAt(rec, offset) ==
  IF \/ rec.err # "nil" \/ rec.type # RecordTypeManifest
     \/ Len(rec.payload) + 1 # offset
    THEN Refused("ErrMissingManifest")
    ELSE Found(decodeManifest(rec.payload))

\* The search of ReadManifest and Open for a manifest that starts behind the
\* first least bytes.
Trailing(data, offset, least) ==
  LET start == Len(data) - Width - offset
  IN  IF Implausible(offset, start, least) THEN Refused("ErrMissingManifest")
      ELSE ManifestAt(readRecord(data, start), offset)

ReadManifest(data) ==
  IF Len(data) < Width + manifestMinRecordLen THEN Refused("ErrMissingManifest")
  ELSE Trailing(data, Bookend(data), 0)

\* parseChunkHeader of a body that may be cut: its type byte first.
Unparsed(err) == [ok |-> FALSE, err |-> err]

HeaderAt(p, lenNS) ==
  LET keyLen == Uint32At(p, 2 + Width + lenNS)
      key    == 2 + 3 * Width + lenNS
  IN  IF key + keyLen > Len(p) THEN Unparsed("nil")
      ELSE [ok |-> TRUE, err |-> "nil", ns |-> At(p, 2 + Width, lenNS),
            firstKey |-> At(p, key, keyLen)]

parseChunkHeader(body) ==
  LET p == Tail(body)
  IN  IF Len(p) < 2 + Width THEN Unparsed("nil")
      ELSE IF p[2] # ChunkFormatRaw THEN Unparsed("ErrUnsupportedChunkFormat")
      ELSE IF 2 + Width + Uint32At(p, 2) + Width > Len(p) THEN Unparsed("nil")
      ELSE HeaderAt(p, Uint32At(p, 2))

\* The header of the chunk at an offset, from a probe or else the whole record.
\* Slip: a header that does not fit the probe is given up.
ChunkHeaderProbed(data, off, size, probe) ==
  parseChunkHeader(At(data, off + Width, IF size < probe THEN size ELSE probe))

ChunkHeader(data, off, size, probe) ==
  LET probed == parseChunkHeader(At(data, off + Width, IF size < probe THEN size ELSE probe))
  IN  IF probed.ok \/ probed.err # "nil" THEN probed
      ELSE parseChunkHeader(At(data, off + Width, size))

-----------------------------------------------------------------------------
\* Open's walk over the records between the HDR and the MANIFEST.
NoChunks(err) == [err |-> err, chunks |-> <<>>]
ChunkFirst(off, header, r) ==
  [err |-> r.err, chunks |-> <<[at |-> off, ns |-> header.ns, firstKey |-> header.firstKey]>> \o r.chunks]

\* readRecordHeaderAt
SizeErr(data, off, limit) ==
  LET size == Uint32At(data, off)
  IN  IF \/ off + Width > Len(data) \/ size = 0 \/ size > maxRecordSize
         \/ off + Width + size > limit
        THEN "ErrTruncatedRecord" ELSE "nil"

HeaderErr(header) == IF header.ok THEN "nil"
                     ELSE IF header.err # "nil" THEN header.err ELSE "ErrTruncatedRecord"

Walk(data, first, limit, probe) ==
  LET from[off \in first..limit] ==
        LET size  == Uint32At(data, off)
            type  == data[off + Width + 1]
            rest  == from[off + Width + size]
            chunk(header) == IF HeaderErr(header) # "nil" THEN NoChunks(HeaderErr(header))
                             ELSE ChunkFirst(off, header, rest)
        IN  IF off = limit THEN NoChunks("nil")
            ELSE IF SizeErr(data, off, limit) # "nil" THEN NoChunks("ErrTruncatedRecord")
            ELSE CASE type = RecordTypeChunk -> chunk(ChunkHeader(data, off, size, probe))
                   [] type \in {RecordTypeDelta, RecordTypeManifest} ->
                        NoChunks("ErrUnexpectedRecord")
                   [] OTHER -> rest
  IN  from[first]

\* Namespaces whose chunks are not contiguous in the index.
Scattered(chunks) ==
  \E i, j, k \in DOMAIN chunks :
     i < j /\ j < k /\ chunks[i].ns = chunks[k].ns /\ chunks[j].ns # chunks[i].ns

NotOpened(err) == [err |-> err, manifest |-> R!NoManifest, chunks |-> <<>>]

Indexed(m, walked) ==
  IF walked.err # "nil" THEN NotOpened(walked.err)
  ELSE IF Scattered(walked.chunks) THEN NotOpened("ErrNamespaceOrder")
  ELSE [err |-> "nil", manifest |-> m, chunks |-> walked.chunks]

OpenBehind(data, hdrConsumed, found, probe) ==
  IF found.err # "nil" THEN NotOpened(found.err)
  ELSE Indexed(found.manifest,
               Walk(data, hdrConsumed, Len(data) - Width - Bookend(data), probe))

\* Open, with what HDR and bookend say, and with chunkHeaderProbe.
OpenHdr(data, hdr, probe) ==
  IF hdr.err # "nil" THEN NotOpened(hdr.err)
  ELSE IF hdr.type # RecordTypeHdr \/ ~decodeHeader(hdr.payload)
    THEN NotOpened("ErrMissingHeader")
  ELSE OpenBehind(data, hdr.end, Trailing(data, Bookend(data), hdr.end), probe)

Open(data, probe) ==
  IF Len(data) < Width + manifestMinRecordLen THEN NotOpened("ErrMissingManifest")
  ELSE OpenHdr(data, readRecord(data, 0), probe)
=============================================================================
