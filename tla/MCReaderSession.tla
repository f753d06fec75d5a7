--------------------------- MODULE MCReaderSession ---------------------------
(***************************************************************************)
(* Streams of a few records over every kind of record.  Chunks differ by   *)
(* sequence number, and manifests by count, so that order, repetition and  *)
(* replacement show.                                                       *)
(***************************************************************************)
EXTENDS ReaderSession

MCNamespaceBytes == [n \in Namespaces |-> <<n>>]
MCKeyBytes       == [k \in Keys |-> <<k>>]
MCValueBytes     == [v \in Values |-> <<v>>]

e == <<[key |-> 1, value |-> 1]>>
m == Manifest(2, 2, EmptyRoot, <<>>)
MCRecordPool == {Hdr, Torn, Reserved, Delta, m, [m EXCEPT !.totalChunks = 3],
                 [m EXCEPT !.ok = FALSE],
                 Chunk(0, 1, 1, e), Chunk(1, 1, 1, e), [Chunk(2, 1, 1, e) EXCEPT !.ok = FALSE]}
=============================================================================
