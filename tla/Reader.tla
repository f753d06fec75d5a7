------------------------------- MODULE Reader -------------------------------
(***************************************************************************)
(* reader.go: the streaming Reader.  rd has the fields of struct Reader;   *)
(* rd.r is the input still to be read.  Next is an operator on rd, so that *)
(* the modules of its callers (Verify, Lookup, ReaderSession) share it.    *)
(***************************************************************************)
EXTENDS Container

NoManifest == [type |-> "none"]

\* readRecord, where no record can be read: the input has ended, or what is
\* left of it is the start of a record.
AtEOF(r)  == r = <<>>
AtTorn(r) == r # <<>> /\ Head(r) = Torn

\* NewReader: the first record has to be the HDR.
OpenErr(file) == IF AtEOF(file) THEN "ErrMissingHeader"
                 ELSE IF AtTorn(file) THEN "ErrTruncatedRecord"
                 ELSE IF Head(file) # Hdr THEN "ErrMissingHeader" ELSE "nil"

NewReader(file) ==
  [r |-> Tail(file), manifest |-> NoManifest, skipped |-> 0, done |-> FALSE]

-----------------------------------------------------------------------------
\* The records Next takes in without returning: reserved ones, and a MANIFEST
\* that decodes when it is the first.
PassedDelta(rd, n) ==                            \* a slip: DELTA records pass
  \A i \in 1..n :
     \/ rd.r[i] \in {Reserved, Delta}
     \/ /\ IsManifest(rd.r[i]) /\ rd.r[i].ok
        /\ rd.manifest = NoManifest
        /\ \A j \in 1..(i - 1) : ~IsManifest(rd.r[j])

Passed(rd, n) ==
  \A i \in 1..n :
     \/ rd.r[i] = Reserved
     \/ /\ IsManifest(rd.r[i]) /\ rd.r[i].ok
        /\ rd.manifest = NoManifest
        /\ \A j \in 1..(i - 1) : ~IsManifest(rd.r[j])

PassedBy(rd) ==
  LET n == CHOOSE n \in 0..Len(rd.r) :
             /\ Passed(rd, n)
             /\ n < Len(rd.r) => ~Passed(rd, n + 1)
      seen == {i \in 1..n : IsManifest(rd.r[i])}
  IN  [rd EXCEPT !.r        = SubSeq(@, n + 1, Len(@)),
                 !.manifest = IF seen = {} THEN @ ELSE rd.r[CHOOSE i \in seen : TRUE],
                 !.skipped  = @ + n - Cardinality(seen)]

\* What Next says of the record it stops at, p being the reader that has
\* passed the others.
StopErrLateChunk(p) ==                          \* a slip: CHUNKs after MANIFEST
  LET rec == Head(p.r)
  IN  IF rec = Torn THEN "ErrTruncatedRecord"
      ELSE IF IsChunk(rec) THEN IF rec.ok THEN "nil" ELSE "ErrTruncatedChunk"
      ELSE IF IsManifest(rec)
             THEN IF p.manifest # NoManifest THEN "ErrUnexpectedRecord"
                  ELSE "ErrInvalidManifest"
      ELSE IF rec = Hdr THEN "ErrMissingHeader"
      ELSE "ErrUnexpectedRecord"

StopErr(p) ==
  LET rec == Head(p.r)
  IN  IF rec = Torn THEN "ErrTruncatedRecord"
      ELSE IF IsChunk(rec)
             THEN IF p.manifest # NoManifest THEN "ErrUnexpectedRecord"
                  ELSE IF rec.ok THEN "nil" ELSE "ErrTruncatedChunk"
      ELSE IF IsManifest(rec)
             THEN IF p.manifest # NoManifest THEN "ErrUnexpectedRecord"
                  ELSE "ErrInvalidManifest"
      ELSE IF rec = Hdr THEN "ErrMissingHeader"
      ELSE "ErrUnexpectedRecord"                          \* DELTA

\* What Next returns once it has passed what it skips: the reader it leaves
\* behind, the error ("nil" or "EOF" among them) and the chunk, if the error is
\* nil.  The record that causes an error is consumed: calling Next again goes
\* on behind it.
EndedAnyway(p) ==                       \* a slip: the MANIFEST is not missed
  [rd |-> [p EXCEPT !.done = TRUE], err |-> "EOF", chunk |-> <<>>]

Ended(p) == IF p.manifest = NoManifest
            THEN [rd |-> p, err |-> "ErrMissingManifest", chunk |-> <<>>]
            ELSE [rd |-> [p EXCEPT !.done = TRUE], err |-> "EOF", chunk |-> <<>>]

Stopped(p) ==
  IF AtEOF(p.r) THEN Ended(p)
  ELSE [rd    |-> [p EXCEPT !.r = Tail(@)],
        err   |-> StopErr(p),
        chunk |-> IF StopErr(p) = "nil" THEN <<Head(p.r)>> ELSE <<>>]

StoppedStuck(p) ==                        \* a slip: a bad record stays in the way
  IF AtEOF(p.r) THEN Ended(p)
  ELSE IF StopErr(p) = "nil"
    THEN [rd |-> [p EXCEPT !.r = Tail(@)], err |-> "nil", chunk |-> <<Head(p.r)>>]
  ELSE [rd |-> p, err |-> StopErr(p), chunk |-> <<>>]

NextForgetful(rd) == Stopped(PassedBy(rd))      \* a slip: done is not looked at

NextStuck(rd) == IF rd.done THEN [rd |-> rd, err |-> "EOF", chunk |-> <<>>]
                 ELSE StoppedStuck(PassedBy(rd))

Next(rd) == IF rd.done THEN [rd |-> rd, err |-> "EOF", chunk |-> <<>>]
            ELSE Stopped(PassedBy(rd))

-----------------------------------------------------------------------------
\* The loop of Verify, Lookup and LookupProof: Next until it returns an error
\* or EOF, which it does within as many calls as the file has records.
Received(st, n) == [rd |-> n.rd, chunks |-> st.chunks \o n.chunk, err |-> n.err]

ReadOn(st) == IF st.err = "nil" THEN Received(st, Next(st.rd)) ELSE st

AllRead(st) == [manifest |-> st.rd.manifest, chunks |-> st.chunks, err |-> st.err]

ReadAll(file) ==
  IF OpenErr(file) # "nil"
    THEN [manifest |-> NoManifest, chunks |-> <<>>, err |-> OpenErr(file)]
    ELSE AllRead(FoldLeft(LAMBDA st, rec : ReadOn(st),
                          [rd |-> NewReader(file), chunks |-> <<>>, err |-> "nil"], file))
=============================================================================
