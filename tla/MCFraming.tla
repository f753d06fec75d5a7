----------------------------- MODULE MCFraming -----------------------------
(***************************************************************************)
(* Three entries in one namespace, of which two fit a record, and one in   *)
(* the next namespace, which just fits.  Its value ends in the bytes of a  *)
(* whole MANIFEST record; in front of them are a count and a hash, with    *)
(* which a chunk may end.                                                  *)
(***************************************************************************)
EXTENDS Framing

MCManifest == encodeManifest([totalEntries |-> 0, totalChunks |-> 0,
                              rootHash |-> Root(0), namespaces |-> <<>>])

MCLog == <<[ns |-> <<1>>, key |-> <<1>>, value |-> <<2>>],
           [ns |-> <<1>>, key |-> <<2>>, value |-> <<2, 1>>],
           [ns |-> <<1>>, key |-> <<3>>, value |-> <<2, 1, 2, 1, 2>>],
           [ns |-> <<2>>, key |-> <<1>>,
            value |-> <<0, 1, 2>> \o Frame(RecordTypeManifest, MCManifest)]>>

MCInserted == [type : {RecordTypeHdr, RecordTypeDelta, 32}, payload : {<<>>, HdrPayload}]
                \cup {[type |-> RecordTypeManifest, payload |-> MCManifest]}
=============================================================================
