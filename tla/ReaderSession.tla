---------------------------- MODULE ReaderSession ----------------------------
(***************************************************************************)
(* A client of Reader: NewReader on some stream, then Next as often as it  *)
(* likes, also after an error.  The stream may grow meanwhile, as a file   *)
(* does that is still being written.  delivered and failed are the history *)
(* of what Next returned: the chunks, and whether an error other than      *)
(* io.EOF was ever among its answers.                                      *)
(***************************************************************************)
EXTENDS Reader

CONSTANTS RecordPool,   \* the records a stream may consist of
          MaxRecords    \* bound on the records of a stream

ASSUME MaxRecordsAssumption == MaxRecords \in Nat

VARIABLES file, state, rd, err, delivered, failed

vars == <<file, state, rd, err, delivered, failed>>

\* Any stream may be handed to NewReader; a partial record ends one.
Streams == {s \in BoundedSeq(RecordPool, MaxRecords) :
              \A i \in 1..(Len(s) - 1) : s[i] # Torn}

NoReader == [r |-> <<>>, manifest |-> NoManifest, skipped |-> 0, done |-> FALSE]

Init == /\ file \in Streams
        /\ state = "new" /\ rd = NoReader /\ err = "nil"
        /\ delivered = <<>> /\ failed = FALSE

Open == /\ state = "new"
        /\ err' = OpenErr(file)
        /\ IF err' = "nil" THEN state' = "open" /\ rd' = NewReader(file)
                           ELSE state' = "refused" /\ UNCHANGED rd
        /\ UNCHANGED <<file, delivered, failed>>

CallNext == LET n == Next(rd)
            IN  /\ state = "open"
                /\ rd' = n.rd
                /\ err' = n.err
                /\ delivered' = delivered \o n.chunk
                /\ failed' = (failed \/ n.err \notin {"nil", "EOF"})
                /\ UNCHANGED <<file, state>>

\* What the stream was when its end was reached need not be all of it.
Grow == /\ state = "open"
        /\ Len(file) < MaxRecords /\ Last(file) # Torn
        /\ \E rec \in RecordPool : /\ file' = Append(file, rec)
                                   /\ rd' = [rd EXCEPT !.r = Append(@, rec)]
        /\ UNCHANGED <<state, err, delivered, failed>>

SessionNext == Open \/ CallNext

\* The callers of Next (Verify, Lookup, LookupProof, the commands) call it in
\* a loop; nothing they wait for lies between two calls.
Spec == Init /\ [][SessionNext \/ Grow]_vars /\ WF_vars(SessionNext)

-----------------------------------------------------------------------------
Consumed == SubSeq(file, 1, Len(file) - Len(rd.r))

FirstManifest(s) ==
  LET at == {i \in DOMAIN s : IsManifest(s[i]) /\ s[i].ok}
  IN  IF at = {} THEN Len(s) + 1 ELSE CHOOSE i \in at : \A j \in at : i <= j

Decodable(rec) == IsChunk(rec) /\ rec.ok

Deliverable(records) ==
  FoldLeft(LAMBDA chunks, rec : IF Decodable(rec) THEN Append(chunks, rec) ELSE chunks,
           <<>>, records)

ReservedIn(records) == {i \in DOMAIN records : records[i] = Reserved}

\* However the calls and errors interleave, the chunks delivered are the
\* decodable ones read so far that precede the MANIFEST, each once and in
\* file order; every reserved record read is counted; and the MANIFEST held is
\* the first decodable one read, never replaced: a second snapshot appended to
\* a file cannot take over (reader.go:68-110).
DeliversInOrder ==
  state = "open" =>
    LET m == FirstManifest(Consumed)
    IN  /\ delivered = Deliverable(SubSeq(Consumed, 1, m - 1))
        /\ rd.skipped = Cardinality(ReservedIn(Consumed))
        /\ rd.manifest = IF m <= Len(Consumed) THEN Consumed[m] ELSE NoManifest

\* io.EOF without an error before it means the stream read so far is HDR,
\* CHUNKs, one MANIFEST, reserved records anywhere, and that every chunk was
\* delivered (reader.go:65-67, RECONCILIATION E4).
CleanEOFMeansWholeFile ==
  rd.done /\ ~failed =>
    /\ delivered = Deliverable(Consumed)
    /\ \E m \in DOMAIN Consumed :
         /\ file[m] = rd.manifest
         /\ \A i \in DOMAIN Consumed \ {1, m} :
              file[i] = Reserved \/ (i < m /\ Decodable(file[i]))

\* Once Next has returned io.EOF it returns nothing else and reads nothing
\* more, whatever has been appended to the stream since (reader.go:69-71).
EOFIsFinal ==
  [][rd.done => /\ file' = file => rd' = rd
                /\ err' = "EOF" /\ delivered' = delivered]_vars

\* A caller that calls Next until it sees io.EOF or ErrMissingManifest gets
\* there: every call takes in a record or ends the file, and a stream of
\* finite length grows finitely often.
ReadsToTheEnd == state = "open" ~> err \in {"EOF", "ErrMissingManifest"}

\* reader.go:62: "Manifest returns the MANIFEST; non-nil only after Next
\* returned io.EOF."
ManifestOnlyAfterEOF == rd.manifest # NoManifest => rd.done

\* reader.go:65-66: Next "returns io.EOF after the MANIFEST has been read and
\* the stream has cleanly ended".
EOFMeansCleanEnd == err = "EOF" => Last(Consumed) # Torn
=============================================================================
