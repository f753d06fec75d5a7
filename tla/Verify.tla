------------------------------- MODULE Verify -------------------------------
(***************************************************************************)
(* verify.go: Verify reads a file through a Reader and tallies it at one   *)
(* of three levels.  Its local variables are the fields of t.              *)
(***************************************************************************)
EXTENDS Reader

Structure == 0     \* VerifyStructure
Chunks    == 1     \* VerifyChunks
Full      == 2     \* VerifyFull
Levels    == {Structure, Chunks, Full}

NoDigest == <<"zero">>
NilKey   == -1    \* the nil lastKey

Tally0 == [curNamespace |-> 0, nsStarted |-> FALSE, lastKey |-> NilKey,
           lastSeq |-> 0, seqSeen |-> FALSE, nsTree |-> EmptyTree,
           nsEntries |-> 0, nsChunks |-> 0,
           namespaces |-> <<>>, totalEntries |-> 0, totalChunks |-> 0,
           err |-> "nil"]

\* The closure finishNamespace.
finishTally(t, level) ==
  [t EXCEPT !.namespaces = Append(@,
     NamespaceInfo(t.curNamespace, t.nsEntries, t.nsChunks,
                   IF level >= Full THEN Root(t.nsTree) ELSE NoDigest))]

\* The switch on the namespace of the next chunk.
enterNamespaceKeepingKey(t, ns, level) ==       \* a slip: lastKey is not reset
  IF t.nsStarted /\ ns > t.curNamespace
    THEN [finishTally(t, level) EXCEPT
            !.curNamespace = ns, !.nsTree = EmptyTree,
            !.nsEntries = 0, !.nsChunks = 0, !.seqSeen = FALSE]
    ELSE [t EXCEPT !.nsStarted = TRUE, !.curNamespace = ns]

enterNamespace(t, ns, level) ==
  IF t.nsStarted /\ ns > t.curNamespace
    THEN [finishTally(t, level) EXCEPT
            !.curNamespace = ns, !.lastKey = NilKey, !.nsTree = EmptyTree,
            !.nsEntries = 0, !.nsChunks = 0, !.seqSeen = FALSE]
    ELSE [t EXCEPT !.nsStarted = TRUE, !.curNamespace = ns]

Ascend(lastKey, entries) ==
  \A i \in DOMAIN entries :
     IF i > 1 THEN entries[i].key > entries[i - 1].key
              ELSE lastKey = NilKey \/ entries[i].key > lastKey

\* t is the tally that has entered the chunk's namespace.
ChunkErr(t, c, level) ==
  IF t.seqSeen /\ c.seq <= t.lastSeq THEN "ErrChunkSequence"
  ELSE IF ~Ascend(t.lastKey, c.entries) THEN "ErrEntryOrder"
  ELSE IF level >= Chunks /\ ComputeHash(c.ns, c.entries) # c.hash THEN "ErrHashMismatch"
  ELSE "nil"

countChunk(t, c, level) ==
  LET leaf(e) == EntryDigest(c.ns, e.key, e.value)
      n == Len(c.entries)
  IN  [t EXCEPT !.lastSeq = c.seq, !.seqSeen = TRUE,
                !.lastKey = IF n = 0 THEN @ ELSE c.entries[n].key,
                !.nsTree = IF level >= Full
                             THEN FoldLeft(LAMBDA tree, e : Add(tree, leaf(e)), @, c.entries)
                             ELSE @,
                !.nsEntries = @ + n, !.nsChunks = @ + 1,
                !.totalEntries = @ + n, !.totalChunks = @ + 1]

\* One turn of the loop.  The first error stands.
takeChunk(t, c, level) ==
  IF ChunkErr(t, c, level) # "nil" THEN [t EXCEPT !.err = ChunkErr(t, c, level)]
  ELSE countChunk(t, c, level)

VerifyChunk(t, c, level) ==
  IF t.err # "nil" THEN t
  ELSE IF t.nsStarted /\ c.ns < t.curNamespace THEN [t EXCEPT !.err = "ErrNamespaceOrder"]
  ELSE takeChunk(enterNamespace(t, c.ns, level), c, level)

\* The comparison with the manifest, namespaces compared as a set keyed by
\* name (RECONCILIATION E3).
InfoErr(m, info, level) ==
  LET named == {i \in DOMAIN m.namespaces : m.namespaces[i].name = info.name}
      mns   == m.namespaces[CHOOSE i \in named : TRUE]
  IN  IF named = {} \/ mns.entriesCount # info.entriesCount
                    \/ mns.chunksCount # info.chunksCount THEN "ErrCountMismatch"
      ELSE IF level >= Full /\ mns.digest # info.digest THEN "ErrHashMismatch"
      ELSE "nil"

ManifestErr(t, m, level) ==
  LET names == {m.namespaces[i].name : i \in DOMAIN m.namespaces}
      bad   == {i \in DOMAIN t.namespaces : InfoErr(m, t.namespaces[i], level) # "nil"}
      first == CHOOSE i \in bad : \A j \in bad : i <= j
  IN  IF m.totalEntries # t.totalEntries \/ m.totalChunks # t.totalChunks
        THEN "ErrCountMismatch"
      ELSE IF Cardinality(names) # Len(m.namespaces) THEN "ErrInvalidManifest"
      ELSE IF Len(m.namespaces) # Len(t.namespaces) THEN "ErrCountMismatch"
      ELSE IF bad # {} THEN InfoErr(m, t.namespaces[first], level)
      ELSE IF level >= Full /\ GlobalRoot(t.namespaces) # m.rootHash THEN "ErrHashMismatch"
      ELSE "nil"

closeTally(t, level) == IF t.nsStarted THEN finishTally(t, level) ELSE t

VerifyErr(read, t, level) ==
  IF t.err # "nil" THEN t.err
  ELSE IF read.err # "EOF" THEN read.err
  ELSE ManifestErr(closeTally(t, level), read.manifest, level)

\* The result: the error, and at VerifyFull the recomputed global root.
Verdict(err, t, level) ==
  [err  |-> err,
   root |-> IF err = "nil" /\ level >= Full
              THEN GlobalRoot(closeTally(t, level).namespaces) ELSE NoDigest]

VerifyTally(read, t, level) == Verdict(VerifyErr(read, t, level), t, level)

VerifyRead(read, level) ==
  VerifyTally(read,
              FoldLeft(LAMBDA t, c : VerifyChunk(t, c, level), Tally0, read.chunks),
              level)

Verify(file, level) == VerifyRead(ReadAll(file), level)
=============================================================================
