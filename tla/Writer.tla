------------------------------- MODULE Writer -------------------------------
(***************************************************************************)
(* writer.go: the Writer that streams HDR, (CHUNK)*, MANIFEST.             *)
(*                                                                         *)
(* sw has the fields of struct Writer.  sw.w is the io.Writer: the records *)
(* that reached it, in order.  Writing a record takes two Write calls      *)
(* (wire.go:42-54) and can fail before any byte, or after some: then the   *)
(* stream keeps a Torn fragment.  No state of the Writer says so, and its  *)
(* owner may go on calling it.                                             *)
(*                                                                         *)
(* accepted is the history of the entries AddEntry took in; err and root   *)
(* are what the last call returned.  sw.faults counts the failed writes,   *)
(* only to bound them.                                                     *)
(***************************************************************************)
EXTENDS Container

CONSTANTS BadNamespaces,    \* names that are empty or not valid UTF-8
          EntryCaps,        \* values of WithMaxChunkEntries
          ByteCaps,         \* values of WithMaxChunkBytes
          Summaries,        \* subset of {"utf8", "binary"}: WithSummary strings
          MaxRecordSize,    \* wire.go's maxRecordSize
          MaxFaults         \* bound on failed writes

ASSUME CapsAssumption == EntryCaps \subseteq Nat \ {0} /\ ByteCaps \subseteq Nat \ {0}
ASSUME BadNamespacesAssumption == BadNamespaces \cap Namespaces = {}
ASSUME BoundsAssumption == MaxRecordSize \in Nat /\ MaxFaults \in Nat

VARIABLES sw, accepted, err, root

vars == <<sw, accepted, err, root>>

NoKey  == -1          \* the nil lastKey
NoRoot == <<"none">>

\* NewWriter, once the HDR record is written.  (If that fails there is no
\* Writer.)
Init ==
  /\ \E entryCap \in EntryCaps, byteCap \in ByteCaps, summary \in Summaries :
       sw = [w |-> <<Hdr>>, faults |-> 0,
             maxChunkEntries |-> entryCap, maxChunkBytes |-> byteCap,
             summary |-> summary,
             chunkSeq |-> 0, totalEntries |-> 0, totalChunks |-> 0,
             curNamespace |-> 0, nsStarted |-> FALSE, lastKey |-> NoKey,
             keyLen |-> 0, pending |-> <<>>, pendingBytes |-> 0,
             nsTree |-> EmptyTree, nsEntries |-> 0, nsChunks |-> 0,
             namespaces |-> <<>>, closed |-> FALSE]
  /\ accepted = <<>>
  /\ err = "nil"
  /\ root = NoRoot

-----------------------------------------------------------------------------
(***************************************************************************)
(* The helpers map a Writer to the Writer they leave behind.  o is what    *)
(* the sink does with the record, if one is written.                       *)
(***************************************************************************)
Outcomes == {"ok", "failed", "torn"}

\* writeRecord on a payload that fits.
writeRecord(s, rec, o) ==
  [s EXCEPT !.w      = @ \o (IF o = "ok" THEN <<rec>>
                             ELSE IF o = "torn" THEN <<Torn>> ELSE <<>>),
            !.faults = IF o = "ok" THEN @ ELSE @ + 1]

PendingChunk(s) == Chunk(s.chunkSeq, s.curNamespace, s.keyLen, s.pending)

\* encodeChunk's and writeRecord's checks that come before any byte is written.
PendingMismatch(s) == \E i \in DOMAIN s.pending : KeyLength[s.pending[i].key] # s.keyLen
PendingTooLarge(s) == /\ s.pending # <<>>
                      /\ ChunkPayloadSize(s.curNamespace, s.pending) >= MaxRecordSize
WritableUnbounded(s) == s.pending # <<>> /\ ~PendingMismatch(s)   \* a slip: no size check
Writable(s) == s.pending # <<>> /\ ~PendingMismatch(s) /\ ~PendingTooLarge(s)

FlushErr(s, o) ==
  IF s.pending = <<>> \/ (Writable(s) /\ o = "ok") THEN "nil"
  ELSE IF PendingMismatch(s) THEN "ErrKeyLength"
  ELSE IF PendingTooLarge(s) THEN "ErrRecordTooLarge"
  ELSE "ErrWrite"

\* Slips: the pending entries are let go before the write has succeeded, and
\* the sequence number does not advance.
flushChunkClearedFirst(s, o) ==
  IF ~Writable(s) THEN s
  ELSE IF o # "ok" THEN [writeRecord(s, PendingChunk(s), o) EXCEPT
                           !.pending = <<>>, !.pendingBytes = 0]
  ELSE [writeRecord(s, PendingChunk(s), o) EXCEPT
          !.chunkSeq = @ + 1, !.totalChunks = @ + 1, !.nsChunks = @ + 1,
          !.pending = <<>>, !.pendingBytes = 0]

flushChunkSameSeq(s, o) ==
  IF ~Writable(s) THEN s
  ELSE IF o # "ok" THEN writeRecord(s, PendingChunk(s), o)
  ELSE [writeRecord(s, PendingChunk(s), o) EXCEPT
          !.totalChunks = @ + 1, !.nsChunks = @ + 1,
          !.pending = <<>>, !.pendingBytes = 0]

\* Any failure leaves the pending entries and every counter as they were.
flushChunk(s, o) ==
  IF ~Writable(s) THEN s
  ELSE IF o # "ok" THEN writeRecord(s, PendingChunk(s), o)
  ELSE [writeRecord(s, PendingChunk(s), o) EXCEPT
          !.chunkSeq = @ + 1, !.totalChunks = @ + 1, !.nsChunks = @ + 1,
          !.pending = <<>>, !.pendingBytes = 0]

\* finishNamespace, when its flushChunk succeeds.
finishNamespace(s, o) ==
  LET f == flushChunk(s, o)
  IN  [f EXCEPT !.namespaces = Append(@,
         NamespaceInfo(f.curNamespace, f.nsEntries, f.nsChunks, Root(f.nsTree)))]

\* Slips: what belongs to the old namespace is not reset.
startNamespaceKeepingCount(s, ns, keyLen) ==
  [s EXCEPT !.curNamespace = ns, !.nsStarted = TRUE, !.keyLen = keyLen,
            !.lastKey = NoKey, !.nsTree = EmptyTree, !.nsChunks = 0, !.chunkSeq = 0]

startNamespaceKeepingTree(s, ns, keyLen) ==
  [s EXCEPT !.curNamespace = ns, !.nsStarted = TRUE, !.keyLen = keyLen,
            !.lastKey = NoKey, !.nsEntries = 0, !.nsChunks = 0, !.chunkSeq = 0]

startNamespace(s, ns, keyLen) ==
  [s EXCEPT !.curNamespace = ns, !.nsStarted = TRUE, !.keyLen = keyLen,
            !.lastKey = NoKey, !.nsTree = EmptyTree,
            !.nsEntries = 0, !.nsChunks = 0, !.chunkSeq = 0]

takeEntryForgettingKey(s, key, value) ==        \* a slip: lastKey is not set
  LET e == [key |-> key, value |-> value]
  IN  [s EXCEPT !.pending = Append(@, e),
                !.pendingBytes = @ + EntrySize(e),
                !.nsTree = Add(@, EntryDigest(s.curNamespace, key, value)),
                !.nsEntries = @ + 1, !.totalEntries = @ + 1]

takeEntry(s, key, value) ==
  LET e == [key |-> key, value |-> value]
  IN  [s EXCEPT !.pending = Append(@, e),
                !.pendingBytes = @ + EntrySize(e),
                !.lastKey = key,
                !.nsTree = Add(@, EntryDigest(s.curNamespace, key, value)),
                !.nsEntries = @ + 1, !.totalEntries = @ + 1]

CapReached(s) == \/ Len(s.pending) >= s.maxChunkEntries
                 \/ s.pendingBytes >= s.maxChunkBytes

-----------------------------------------------------------------------------
\* Slip: a closed Writer takes entries.
RejectErrClosed(ns, key) ==
  IF ns \in BadNamespaces THEN "ErrNamespaceOrder"
  ELSE IF ~sw.nsStarted THEN "nil"
  ELSE IF ns < sw.curNamespace THEN "ErrNamespaceOrder"
  ELSE IF ns > sw.curNamespace THEN "nil"
  ELSE IF key <= sw.lastKey THEN "ErrEntryOrder"
  ELSE IF KeyLength[key] # sw.keyLen THEN "ErrKeyLength"
  ELSE "nil"

\* AddEntry's errors that leave the Writer as it was.
RejectErr(ns, key) ==
  IF sw.closed THEN "ErrClosed"
  ELSE IF ns \in BadNamespaces THEN "ErrNamespaceOrder"
  ELSE IF ~sw.nsStarted THEN "nil"
  ELSE IF ns < sw.curNamespace THEN "ErrNamespaceOrder"
  ELSE IF ns > sw.curNamespace THEN "nil"
  ELSE IF key <= sw.lastKey THEN "ErrEntryOrder"
  ELSE IF KeyLength[key] # sw.keyLen THEN "ErrKeyLength"
  ELSE "nil"

AddRejected(ns, key) ==
  /\ RejectErr(ns, key) # "nil"
  /\ err' = RejectErr(ns, key)
  /\ UNCHANGED <<sw, accepted, root>>

ChangesNamespace(ns) == sw.nsStarted /\ ns # sw.curNamespace

\* The namespace changes, but the entries of the old one cannot be flushed:
\* the new entry is not taken.
AddBlocked(ns, key, o) ==
  /\ RejectErr(ns, key) = "nil"
  /\ ChangesNamespace(ns)
  /\ FlushErr(sw, o) # "nil"
  /\ sw' = flushChunk(sw, o)
  /\ err' = FlushErr(sw, o)
  /\ UNCHANGED <<accepted, root>>

\* The entry is taken.  If it fills the chunk the chunk is flushed, and the
\* error of that flush is returned although the entry stays in the Writer.
AddAccepted(ns, key, value, o1, o2) ==
  LET opened == IF ~sw.nsStarted THEN startNamespace(sw, ns, KeyLength[key])
                ELSE IF ns = sw.curNamespace THEN sw
                ELSE startNamespace(finishNamespace(sw, o1), ns, KeyLength[key])
      taken  == takeEntry(opened, key, value)
  IN  /\ RejectErr(ns, key) = "nil"
      /\ ChangesNamespace(ns) => FlushErr(sw, o1) = "nil"
      /\ sw' = IF CapReached(taken) THEN flushChunk(taken, o2) ELSE taken
      /\ err' = IF CapReached(taken) THEN FlushErr(taken, o2) ELSE "nil"
      /\ accepted' = Append(accepted, [ns |-> ns, key |-> key, value |-> value])
      /\ UNCHANGED root

CloseRejected == /\ sw.closed
                 /\ err' = "ErrClosed"
                 /\ UNCHANGED <<sw, accepted, root>>

\* Close, when the last namespace cannot be flushed: closed without MANIFEST.
CloseBlocked(o) ==
  /\ ~sw.closed /\ sw.nsStarted
  /\ FlushErr(sw, o) # "nil"
  /\ sw' = [flushChunk(sw, o) EXCEPT !.closed = TRUE]
  /\ err' = FlushErr(sw, o)
  /\ UNCHANGED <<accepted, root>>

\* A slip: the chunks are counted before the last one is flushed.
CloseCountedFirst(o1, o2) ==
  LET s == IF sw.nsStarted THEN finishNamespace(sw, o1) ELSE sw
      r == GlobalRoot(s.namespaces)
      m == Manifest(s.totalEntries, sw.totalChunks, r, s.namespaces)
      encodable == s.summary = "utf8"
      fin == IF encodable THEN writeRecord(s, m, o2) ELSE s
  IN  /\ ~sw.closed
      /\ sw.nsStarted => FlushErr(sw, o1) = "nil"
      /\ sw' = [fin EXCEPT !.closed = TRUE]
      /\ err' = IF ~encodable THEN "ErrInvalidManifest"
                ELSE IF o2 # "ok" THEN "ErrWrite" ELSE "nil"
      /\ root' = IF err' = "nil" THEN r ELSE root
      /\ UNCHANGED accepted

Close(o1, o2) ==
  LET s == IF sw.nsStarted THEN finishNamespace(sw, o1) ELSE sw
      r == GlobalRoot(s.namespaces)
      m == Manifest(s.totalEntries, s.totalChunks, r, s.namespaces)
      encodable == s.summary = "utf8"
      fin == IF encodable THEN writeRecord(s, m, o2) ELSE s
  IN  /\ ~sw.closed
      /\ sw.nsStarted => FlushErr(sw, o1) = "nil"
      /\ sw' = [fin EXCEPT !.closed = TRUE]
      /\ err' = IF ~encodable THEN "ErrInvalidManifest"
                ELSE IF o2 # "ok" THEN "ErrWrite" ELSE "nil"
      /\ root' = IF err' = "nil" THEN r ELSE root
      /\ UNCHANGED accepted

\* MaxFaults bounds the failed writes of a behaviour.
WithinFaults == sw'.faults <= MaxFaults

AddEntry(ns, key, value) ==
  \/ AddRejected(ns, key)
  \/ \E o \in Outcomes : AddBlocked(ns, key, o) /\ WithinFaults
  \/ \E o1, o2 \in Outcomes : AddAccepted(ns, key, value, o1, o2) /\ WithinFaults

CloseCall ==
  \/ CloseRejected
  \/ \E o \in Outcomes : CloseBlocked(o) /\ WithinFaults
  \/ \E o1, o2 \in Outcomes : Close(o1, o2) /\ WithinFaults

Next ==
  \/ \E ns \in Namespaces \cup BadNamespaces, key \in Keys, value \in Values :
        AddEntry(ns, key, value)
  \/ CloseCall

Spec == Init /\ [][Next]_vars
-----------------------------------------------------------------------------
Errors == {"nil", "ErrClosed", "ErrNamespaceOrder", "ErrEntryOrder", "ErrKeyLength",
           "ErrRecordTooLarge", "ErrWrite", "ErrInvalidManifest"}

LogEntries == [ns : Namespaces, key : Keys, value : Values]

IsChunkRecord(c) == /\ c.ok = TRUE
                    /\ c.seq \in Nat /\ c.keyLen \in Nat
                    /\ c.ns \in Namespaces /\ c.entries \in Seq(Entries)
                    /\ c.hash = ComputeHash(c.ns, c.entries)

\* The types of the Writer's fields (writer.go:64-87) and of what it emits.
TypeOK ==
  /\ \A i \in DOMAIN sw.w : /\ sw.w[i].type \in {"HDR", "TORN", "CHUNK", "MANIFEST"}
                            /\ IsChunk(sw.w[i]) => IsChunkRecord(sw.w[i])
  /\ {sw.faults, sw.chunkSeq, sw.totalEntries, sw.totalChunks, sw.keyLen,
      sw.pendingBytes, sw.nsEntries, sw.nsChunks} \subseteq Nat
  /\ sw.nsStarted \in BOOLEAN /\ sw.closed \in BOOLEAN
  /\ sw.nsStarted => sw.curNamespace \in Namespaces /\ sw.lastKey \in Keys
  /\ sw.pending \in Seq(Entries)
  /\ accepted \in Seq(LogEntries)
  /\ err \in Errors

\* No entry is lost, repeated or reordered, whatever writes fail and however
\* often the caller goes on: the chunks that reached the sink followed by the
\* pending entries are the entries AddEntry took in (writer.go:110-157,172-196).
FileIsLog ==
  EntriesOf(sw.w) \o Located(sw.curNamespace, sw.pending) = accepted

\* The entries taken in ascend strictly by namespace and key, and the keys of
\* a namespace have one length (writer.go:61-63), across chunk flushes,
\* namespace changes and failed calls.  In particular a caller that repeats
\* a call whose entry was kept despite its error cannot store it twice.
AcceptedAscend ==
  \A i, j \in DOMAIN accepted : i < j =>
     /\ Before(accepted[i], accepted[j])
     /\ accepted[i].ns = accepted[j].ns =>
          KeyLength[accepted[i].key] = KeyLength[accepted[j].key]

\* Two chunks of the file, in file order, are what Verify requires of them:
\* namespaces ascend, within one the sequence numbers ascend, and every key
\* of the first is below every key of the second.
ChunksOrdered(c, d) ==
  \/ c.ns < d.ns
  \/ /\ c.ns = d.ns
     /\ c.seq < d.seq
     /\ \A i \in DOMAIN c.entries, j \in DOMAIN d.entries :
          c.entries[i].key < d.entries[j].key

\* A chunk decodes to the entries it was encoded from: it is not empty, its
\* keys ascend and all have the declared length (decodeEntries splits by it).
ChunkSound(c) ==
  /\ c.entries # <<>>
  /\ \A i, j \in DOMAIN c.entries : i < j => c.entries[i].key < c.entries[j].key
  /\ \A i \in DOMAIN c.entries : KeyLength[c.entries[i].key] = c.keyLen

\* The log ascends, every chunk that reaches the sink is sound, and the chunks
\* are ordered.
ChunksAscend ==
  \A i \in DOMAIN sw.w : IsChunk(sw.w[i]) =>
     /\ ChunkSound(sw.w[i])
     /\ \A j \in DOMAIN sw.w : i < j /\ IsChunk(sw.w[j]) => ChunksOrdered(sw.w[i], sw.w[j])

FileOrdered == AcceptedAscend /\ ChunksAscend

\* What the manifest will say of every finished namespace, and the running
\* totals, are what the log and the sink say (writer.go:150-151,190-192,198-209);
\* and sequence numbers are per namespace and dense from 0 (RECONCILIATION #9,
\* writer.go:167-169): retrying a failed flush neither skips nor repeats one.
ByNamespace(log) ==
  FoldLeft(LAMBDA parts, e : [parts EXCEPT ![e.ns] = Append(@, e)],
           [ns \in Namespaces |-> <<>>], log)

ChunkPositions(w, ns) == {i \in DOMAIN w : IsChunk(w[i]) /\ w[i].ns = ns}

LeavesIn(log) == [i \in DOMAIN log |-> EntryDigest(log[i].ns, log[i].key, log[i].value)]

InfoSays(info, w, log) ==
  /\ info.entriesCount = Len(ByNamespace(log)[info.name])
  /\ info.chunksCount = Cardinality(ChunkPositions(w, info.name))
  /\ info.digest = Root(TreeOf(LeavesIn(ByNamespace(log)[info.name])))

NumberedDensely(i) ==
  sw.w[i].seq = Cardinality({j \in ChunkPositions(sw.w, sw.w[i].ns) : j < i})

CountsMatchLog ==
  /\ sw.totalEntries = Len(accepted)
  /\ sw.totalChunks = Cardinality({i \in DOMAIN sw.w : IsChunk(sw.w[i])})
  /\ \A i \in DOMAIN sw.w : IsChunk(sw.w[i]) => NumberedDensely(i)
  /\ \A i \in DOMAIN sw.namespaces : InfoSays(sw.namespaces[i], sw.w, accepted)
  /\ {sw.namespaces[i].name : i \in DOMAIN sw.namespaces}
       \cup (IF sw.nsStarted THEN {sw.curNamespace} ELSE {})
       = {accepted[i].ns : i \in DOMAIN accepted}

\* The promise of WithMaxChunkBytes (writer.go:44-46), whatever the sink does:
\* a chunk exceeds the cap by at most one entry.
CapsHeld ==
  \A i \in DOMAIN sw.w : IsChunk(sw.w[i]) =>
     EntriesSize(Front(sw.w[i].entries)) <= sw.maxChunkBytes

\* A chunk over maxRecordSize is never written, in whole or in part, and no
\* later call gets past it (writer.go:184-189, wire.go:42-45): the Writer emits
\* nothing more, so the stream is never sealed with entries missing.
OversizeIsTerminal ==
  [][PendingTooLarge(sw) => sw'.w = sw.w /\ PendingTooLarge(sw') /\ root' = root]_vars

\* What a MANIFEST has to say of a sink and a log, all of which is written: the
\* totals, each namespace of the log once and in order with its counts and its
\* root, and the root over them.
ManifestSays(m, w, log) ==
  /\ EntriesOf(w) = log
  /\ m.totalEntries = Len(log)
  /\ m.totalChunks = Cardinality({i \in DOMAIN w : IsChunk(w[i])})
  /\ {m.namespaces[i].name : i \in DOMAIN m.namespaces} = {log[i].ns : i \in DOMAIN log}
  /\ \A i, j \in DOMAIN m.namespaces :
       i < j => m.namespaces[i].name < m.namespaces[j].name
  /\ \A i \in DOMAIN m.namespaces : InfoSays(m.namespaces[i], w, log)
  /\ m.rootHash = GlobalRoot(m.namespaces)

\* A MANIFEST reaches the sink exactly when Close returns a root, and it is
\* the last thing the Writer writes; it has that root and says what was taken in
\* and written, all of it, whatever failed before (writer.go:214-246): no entry
\* is left pending behind it, and no later call contradicts it.
ManifestSeals ==
  /\ root # NoRoot <=> IsManifest(Last(sw.w))
  /\ \A i \in DOMAIN sw.w : IsManifest(sw.w[i]) =>
       /\ i = Len(sw.w) /\ sw.closed
       /\ sw.w[i].rootHash = root
       /\ ManifestSays(sw.w[i], sw.w, accepted)

\* Refinement: read back from the sink, the Writer is the ordered log that
\* OrderedLog promises.
Log == INSTANCE OrderedLog WITH
         Item   <- LogEntries,
         Before <- Before,
         log    <- EntriesOf(sw.w) \o Located(sw.curNamespace, sw.pending),
         status <- IF ~sw.closed THEN "open"
                   ELSE IF IsManifest(Last(sw.w)) THEN "sealed" ELSE "abandoned"

RefinesOrderedLog == Log!Spec
=============================================================================
