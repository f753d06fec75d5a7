----------------------------- MODULE DiffProofs -----------------------------
(***************************************************************************)
(* Two results on scls diff, for any files.  It renders no report from a   *)
(* stream that broke: the two cursors go through their streams as a reader *)
(* that reads to the end would, so that where both have stopped without an *)
(* error that reader meets io.EOF too.  And of two files in order it shows *)
(* the differences and nothing else: what Verify tallies ascends, so a     *)
(* cursor goes from one wanted entry to the next, and in lockstep the two  *)
(* settle each name and key once.                                          *)
(***************************************************************************)
EXTENDS Diff, SeqLemmas, TLAPS

ReadFold == INSTANCE SeqFold WITH op <- LAMBDA st, rec : ReadOn(st)
TurnFold == INSTANCE SeqFold WITH op <- readChunk

-----------------------------------------------------------------------------
(***************************************************************************)
(* The reader that reads to the end, call by call.                         *)
(***************************************************************************)
ReadStart(file) == [rd |-> NewReader(file), chunks |-> <<>>, err |-> "nil"]

ReadsFile(file, R) == /\ R[0] = ReadStart(file)
                      /\ \A i \in 1..Len(file) : R[i] = ReadOn(R[i - 1])

\* ReadAll makes these calls, one for each record of the file.
LEMMA ReadAllRuns ==
  ASSUME NEW S, NEW file \in Seq(S), OpenErr(file) = "nil"
  PROVE  \E R : /\ ReadsFile(file, R)
              /\ ReadAll(file) = AllRead(R[Len(file)])
              /\ ReadAll(file).err = R[Len(file)].err
<1>1. \A q, base : FoldLeft(LAMBDA st, rec : ReadOn(st), base, q) = ReadFold!Fold(base, q)
  BY DEF FoldLeft, MapThenFoldSet, Max,
         ReadFold!Fold, ReadFold!FoldLeft, ReadFold!MapThenFoldSet, ReadFold!Max
<1>2. ReadAll(file) = AllRead(ReadFold!Fold(ReadStart(file), file))
  BY <1>1 DEF ReadAll, ReadStart
<1>3. Len(file) \in Nat /\ DOMAIN file = 1..Len(file)
  BY LenProperties
<1>4. ReadFold!FoldRun(ReadStart(file), file, Len(file))
  BY <1>3, ReadFold!FoldRuns
<1>5. PICK R : /\ R[0] = ReadStart(file)
               /\ \A i \in 1..Len(file) : R[i] = ReadOn(R[i - 1])
               /\ ReadFold!Fold(ReadStart(file), file) = R[Len(file)]
  BY <1>4 DEF ReadFold!FoldRun, ReadFold!Runs
<1>6. ReadAll(file).err = R[Len(file)].err
  BY <1>2, <1>5 DEF AllRead
<1> QED
  BY <1>2, <1>5, <1>6 DEF ReadsFile

ReaderFields == {"r", "manifest", "skipped", "done"}

IsReader(rd, S) == DOMAIN rd = ReaderFields /\ rd.r \in Seq(S)

\* What Next passes over ends somewhere.
LEMMA PassStops ==
  ASSUME NEW rd, Len(rd.r) \in Nat
  PROVE  \E n \in 0..Len(rd.r) : /\ Passed(rd, n)
                                 /\ n < Len(rd.r) => ~Passed(rd, n + 1)
<1> DEFINE N == Len(rd.r)
           S == {k \in 0..N : Passed(rd, k)}
<1> SUFFICES ASSUME \A n \in 0..N : ~(Passed(rd, n) /\ (n < N => ~Passed(rd, n + 1)))
             PROVE  FALSE
  OBVIOUS
<1>1. 0 \in S
  BY DEF Passed
<1>2. \A k \in 0..(N - 1) : k \in S => k + 1 \in S
  OBVIOUS
<1>3. N \in S
  <2>1. N \in Nat /\ N \in 0..N
    OBVIOUS
  <2> HIDE DEF S, N
  <2> QED
    BY <1>1, <1>2, <2>1, BoundedInduct
<1> QED
  BY <1>3

\* A call that returns a chunk has taken in a record.
LEMMA NextTakes ==
  ASSUME NEW S, NEW rd, IsReader(rd, S), Next(rd).err = "nil"
  PROVE  IsReader(Next(rd).rd, S) /\ Len(Next(rd).rd.r) < Len(rd.r)
<1> DEFINE n == CHOOSE n \in 0..Len(rd.r) :
                  /\ Passed(rd, n)
                  /\ n < Len(rd.r) => ~Passed(rd, n + 1)
           p == PassedBy(rd)
<1>1. Len(rd.r) \in Nat /\ DOMAIN rd.r = 1..Len(rd.r)
  BY LenProperties DEF IsReader
<1>2. n \in 0..Len(rd.r)
  BY <1>1, PassStops, Zenon
<1>3. DOMAIN p = ReaderFields /\ p.r = SubSeq(rd.r, n + 1, Len(rd.r))
  BY DEF PassedBy, IsReader, ReaderFields
<1> HIDE DEF n, p
<1>4. p.r \in Seq(S) /\ Len(p.r) \in 0..Len(rd.r)
  <2>1. \A i \in (n + 1)..Len(rd.r) : rd.r[i] \in S
    BY <1>1, <1>2, ElementOfSeq DEF IsReader
  <2>2. n \in Nat
    BY <1>1, <1>2
  <2>3. /\ SubSeq(rd.r, n + 1, Len(rd.r)) \in Seq(S)
        /\ Len(SubSeq(rd.r, n + 1, Len(rd.r)))
             = IF n + 1 <= Len(rd.r) THEN Len(rd.r) - (n + 1) + 1 ELSE 0
    BY <1>1, <2>1, <2>2, SubSeqProperties
  <2> QED
    BY <1>1, <1>2, <1>3, <2>2, <2>3
<1>5. Next(rd) = Stopped(p)
  BY DEF Next, p
<1>6. p.r # <<>>
  BY <1>5 DEF Stopped, Ended, AtEOF
<1>7. Next(rd).rd = [p EXCEPT !.r = Tail(@)]
  BY <1>5, <1>6 DEF Stopped, AtEOF
<1>8. DOMAIN Next(rd).rd = ReaderFields /\ Next(rd).rd.r = Tail(p.r)
  BY <1>3, <1>7 DEF ReaderFields
<1>9. Tail(p.r) \in Seq(S) /\ Len(Tail(p.r)) = Len(p.r) - 1
  BY <1>4, <1>6, HeadTailProperties
<1> QED
  BY <1>1, <1>4, <1>8, <1>9 DEF IsReader

StillReading(st, S, n) == st.err = "nil" => IsReader(st.rd, S) /\ Len(st.rd.r) < n

\* As long as no call has returned an error each has taken in a record: the
\* calls of ReadAll are enough.
LEMMA ReadShrinks ==
  ASSUME NEW S, NEW file \in Seq(S), OpenErr(file) = "nil", NEW R, ReadsFile(file, R)
  PROVE  \A k \in 0..Len(file) : StillReading(R[k], S, Len(file) - k)
<1> DEFINE N == Len(file)
           T == {k \in 0..N : StillReading(R[k], S, N - k)}
<1>1. N \in Nat
  BY LenProperties
<1>2. 0 \in T
  <2>1. file # <<>>
    BY DEF OpenErr, AtEOF
  <2>2. Tail(file) \in Seq(S) /\ Len(Tail(file)) = N - 1
    BY <2>1, HeadTailProperties
  <2>3. R[0].rd = [r |-> Tail(file), manifest |-> NoManifest, skipped |-> 0, done |-> FALSE]
    BY DEF ReadsFile, ReadStart, NewReader
  <2>4. DOMAIN R[0].rd = ReaderFields /\ R[0].rd.r = Tail(file)
    BY <2>3 DEF ReaderFields
  <2>5. N - 1 < N - 0 /\ 0 \in 0..N
    BY <1>1
  <2>6. StillReading(R[0], S, N - 0)
    BY <2>2, <2>4, <2>5 DEF StillReading, IsReader
  <2> QED
    BY <2>5, <2>6
<1>3. ASSUME NEW k \in 0..(N - 1), k \in T PROVE k + 1 \in T
  <2> DEFINE n == Next(R[k].rd)
  <2>1. k \in Nat /\ k + 1 \in 1..N /\ (k + 1) - 1 = k
    BY <1>1
  <2>2. R[k + 1] = ReadOn(R[k])
    BY <2>1 DEF ReadsFile
  <2> SUFFICES ASSUME R[k + 1].err = "nil"
               PROVE  IsReader(R[k + 1].rd, S) /\ Len(R[k + 1].rd.r) < N - (k + 1)
    BY <1>1, <2>1 DEF StillReading
  <2>3. R[k].err = "nil"
    BY <2>2 DEF ReadOn
  <2>4. R[k + 1].rd = n.rd /\ n.err = "nil"
    BY <2>2, <2>3 DEF ReadOn, Received
  <2>5. IsReader(R[k].rd, S) /\ Len(R[k].rd.r) < N - k
    BY <1>3, <2>3 DEF StillReading
  <2>6. IsReader(n.rd, S) /\ Len(n.rd.r) < Len(R[k].rd.r)
    BY <2>4, <2>5, NextTakes
  <2>7. Len(n.rd.r) \in Nat /\ Len(R[k].rd.r) \in Nat
    BY <2>5, <2>6, LenProperties DEF IsReader
  <2>8. \A a, b \in Nat : a < b /\ b < N - k => a < N - (k + 1)
    BY <1>1, <2>1
  <2> HIDE DEF n, N
  <2>9. Len(n.rd.r) < N - (k + 1)
    BY <2>5, <2>6, <2>7, <2>8
  <2> QED
    BY <2>4, <2>6, <2>9
<1>4. \A k \in 0..N : k \in T
  <2> HIDE DEF T, N
  <2> QED
    BY <1>1, <1>2, <1>3, BoundedInduct
<1> QED
  BY <1>4

-----------------------------------------------------------------------------
(***************************************************************************)
(* A cursor follows a file: it is where that reader was after some number  *)
(* of calls, it has stopped with an error, or it has stopped without one   *)
(* where the reader met io.EOF.                                            *)
(***************************************************************************)
CursorFields == {"sr", "buf", "ns", "cur", "ok", "err"}

Beside(st, c) == /\ c.sr = st.rd
                 /\ c.ok => c.err = "nil" /\ st.err = "nil"
                 /\ ~c.ok /\ c.err = "nil" => st.err = "EOF"

Follows(file, c) ==
  /\ DOMAIN c = CursorFields /\ c.ok \in BOOLEAN
  /\ \A R : ReadsFile(file, R) => \E k \in 0..Len(file) : Beside(R[k], c)

\* One turn of the loop of advance is one call of that reader.
LEMMA TurnFollows ==
  ASSUME NEW S, NEW file \in Seq(S), OpenErr(file) = "nil", NEW want,
         NEW c, Follows(file, c)
  PROVE  Follows(file, readChunk(c, want))
<1> DEFINE d == readChunk(c, want)
           n == Next(c.sr)
<1>1. DOMAIN c = CursorFields /\ c.ok \in BOOLEAN
  BY DEF Follows
<1>2. CASE ~c.ok \/ c.buf # <<>>
  BY <1>2 DEF readChunk
<1>3. CASE c.ok /\ c.buf = <<>>
  <2>1. \/ /\ n.err # "nil"
           /\ d = [c EXCEPT !.sr = n.rd, !.ok = FALSE,
                            !.err = IF n.err = "EOF" THEN "nil" ELSE n.err]
        \/ /\ n.err = "nil"
           /\ \/ d = [c EXCEPT !.sr = n.rd, !.ns = n.chunk[1].ns, !.buf = n.chunk[1].entries]
              \/ d = [c EXCEPT !.sr = n.rd]
    BY <1>3 DEF readChunk
  <2> HIDE DEF d, n
  <2>2. DOMAIN d = CursorFields /\ d.ok \in BOOLEAN /\ d.sr = n.rd
    BY <1>1, <2>1 DEF CursorFields
  <2>3. /\ n.err = "nil" => d.ok = TRUE /\ d.err = c.err
        /\ n.err # "nil" => d.ok = FALSE /\ (d.err = "nil" => n.err = "EOF")
    BY <1>1, <1>3, <2>1 DEF CursorFields
  <2>4. ASSUME NEW R, ReadsFile(file, R)
        PROVE  \E k \in 0..Len(file) : Beside(R[k], d)
    <3>1. PICK k \in 0..Len(file) : Beside(R[k], c)
      BY <2>4 DEF Follows
    <3>2. c.sr = R[k].rd /\ c.err = "nil" /\ R[k].err = "nil"
      BY <1>3, <3>1 DEF Beside
    <3>3. IsReader(R[k].rd, S) /\ Len(R[k].rd.r) < Len(file) - k
      BY <2>4, <3>2, ReadShrinks DEF StillReading
    <3>4. Len(R[k].rd.r) \in Nat /\ Len(file) \in Nat
      BY <3>3, LenProperties DEF IsReader
    <3>5. k + 1 \in 1..Len(file) /\ (k + 1) - 1 = k
      <4> \A a, b \in Nat : \A j \in 0..b : a < b - j => j + 1 \in 1..b /\ (j + 1) - 1 = j
        OBVIOUS
      <4> QED
        BY <3>3, <3>4
    <3>6. R[k + 1] = Received(R[k], n)
      BY <2>4, <3>2, <3>5 DEF ReadsFile, ReadOn, n
    <3>7. Beside(R[k + 1], d)
      BY <2>2, <2>3, <3>2, <3>6 DEF Beside, Received
    <3> QED
      BY <3>5, <3>7, <3>4
  <2> QED
    BY <2>2, <2>4 DEF Follows, d
<1> QED
  BY <1>1, <1>2, <1>3

\* The whole loop.
LEMMA RefillFollows ==
  ASSUME NEW S, NEW file \in Seq(S), OpenErr(file) = "nil", NEW want,
         NEW c, Follows(file, [c EXCEPT !.ok = TRUE]), DOMAIN c = CursorFields
  PROVE  Follows(file, refill(c, want))
<1> DEFINE b == [c EXCEPT !.ok = TRUE]
           N == Len(c.sr.r) + 1
           turns == [turn \in 1..N |-> want]
<1>1. N \in Nat
  <2>1. PICK R : ReadsFile(file, R)
    BY ReadAllRuns
  <2>2. PICK k \in 0..Len(file) : Beside(R[k], b)
    BY <2>1 DEF Follows
  <2>3. b.ok = TRUE /\ b.sr = c.sr
    BY DEF CursorFields
  <2>4. R[k].err = "nil" /\ c.sr = R[k].rd
    BY <2>2, <2>3 DEF Beside
  <2>5. c.sr.r \in Seq(S)
    BY <2>1, <2>4, ReadShrinks DEF StillReading, IsReader
  <2> QED
    BY <2>5, LenProperties
<1>2. DOMAIN turns = 1..N /\ \A i \in 1..N : turns[i] = want
  OBVIOUS
<1>3. \A x, y : FoldLeft(readChunk, x, y) = TurnFold!Fold(x, y)
  BY DEF FoldLeft, MapThenFoldSet, Max,
         TurnFold!Fold, TurnFold!FoldLeft, TurnFold!MapThenFoldSet, TurnFold!Max
<1>4. refill(c, want) = TurnFold!Fold(b, turns)
  BY <1>3 DEF refill
<1> HIDE DEF N, turns
<1>5. PICK q : /\ q[0] = b
               /\ \A i \in 1..N : q[i] = readChunk(q[i - 1], turns[i])
               /\ TurnFold!Fold(b, turns) = q[N]
  BY <1>1, <1>2, TurnFold!FoldRuns DEF TurnFold!FoldRun, TurnFold!Runs
<1> DEFINE T == {k \in 0..N : Follows(file, q[k])}
<1>6. 0 \in T
  BY <1>1, <1>5
<1>7. ASSUME NEW k \in 0..(N - 1), k \in T PROVE k + 1 \in T
  <2>1. k + 1 \in 1..N /\ (k + 1) - 1 = k /\ k + 1 \in 0..N
    BY <1>1
  <2>2. q[k + 1] = readChunk(q[k], want)
    BY <1>2, <1>5, <2>1
  <2> QED
    BY <1>7, <2>1, <2>2, TurnFollows
<1>8. N \in T
  <2>1. N \in 0..N
    BY <1>1
  <2> HIDE DEF T
  <2> QED
    BY <1>1, <1>6, <1>7, <2>1, BoundedInduct
<1> QED
  BY <1>4, <1>5, <1>8

\* A cursor that has not stopped follows its file through advance.
LEMMA AdvanceFollows ==
  ASSUME NEW S, NEW file \in Seq(S), OpenErr(file) = "nil", NEW want,
         NEW c, Follows(file, [c EXCEPT !.ok = TRUE]), DOMAIN c = CursorFields,
         c.err = "nil"
  PROVE  Follows(file, advance(c, want))
<1> DEFINE f == IF c.buf = <<>> THEN refill(c, want) ELSE [c EXCEPT !.ok = TRUE]
           a == advance(c, want)
<1>1. a = IF ~f.ok THEN f
          ELSE [f EXCEPT !.cur = [ns |-> f.ns, key |-> f.buf[1].key, value |-> f.buf[1].value],
                         !.buf = Tail(@)]
  BY DEF advance
<1>2. Follows(file, f)
  BY RefillFollows
<1> HIDE DEF f, a
<1>3. DOMAIN a = CursorFields /\ a.ok = f.ok /\ a.sr = f.sr /\ a.err = f.err
  BY <1>1, <1>2 DEF Follows, CursorFields
<1>4. \A st : Beside(st, f) => Beside(st, a)
  BY <1>3 DEF Beside
<1>5. Follows(file, a)
  BY <1>2, <1>3, <1>4 DEF Follows
<1> QED
  BY <1>5 DEF a

\* A new cursor stands at the start of its file.
LEMMA PrimedFollows ==
  ASSUME NEW S, NEW file \in Seq(S), OpenErr(file) = "nil", NEW want
  PROVE  Follows(file, advance(newEntryCursor(file), want))
<1> DEFINE c == newEntryCursor(file)
           b == [c EXCEPT !.ok = TRUE]
<1>1. DOMAIN c = CursorFields /\ c.err = "nil"
  BY DEF newEntryCursor, CursorFields
<1>2. /\ DOMAIN b = CursorFields /\ b.ok = TRUE /\ b.err = "nil"
      /\ b.sr = NewReader(file)
  BY DEF newEntryCursor, CursorFields
<1> HIDE DEF c, b
<1>3. ASSUME NEW R, ReadsFile(file, R) PROVE Beside(R[0], b)
  BY <1>2, <1>3 DEF Beside, ReadsFile, ReadStart
<1>4. 0 \in 0..Len(file)
  BY LenProperties
<1>5. Follows(file, b)
  BY <1>2, <1>3, <1>4 DEF Follows
<1> QED
  BY <1>1, <1>5, AdvanceFollows DEF b, c

\* A cursor whose item has been used is advanced along its file.
LEMMA StepFollows ==
  ASSUME NEW S, NEW file \in Seq(S), OpenErr(file) = "nil", NEW want,
         NEW c, Follows(file, c), c.ok
  PROVE  Follows(file, advance(c, want))
<1>1. DOMAIN c = CursorFields /\ c.ok = TRUE
  BY DEF Follows
<1> DEFINE b == [c EXCEPT !.ok = TRUE]
<1>2. Follows(file, b)
  <2>1. DOMAIN b = CursorFields /\ b.ok = TRUE /\ b.sr = c.sr /\ b.err = c.err
    BY <1>1 DEF CursorFields
  <2> HIDE DEF b
  <2>2. \A st : Beside(st, c) => Beside(st, b)
    BY <1>1, <2>1 DEF Beside
  <2> QED
    BY <2>1, <2>2 DEF Follows
<1>3. c.err = "nil"
  <2>1. PICK R : ReadsFile(file, R)
    BY ReadAllRuns
  <2>2. PICK k \in 0..Len(file) : Beside(R[k], c)
    BY <2>1 DEF Follows
  <2> QED
    BY <1>1, <2>2 DEF Beside
<1> QED
  BY <1>1, <1>2, <1>3, AdvanceFollows

\* Where a cursor has stopped without an error ReadAll meets io.EOF.
LEMMA StoppedAtEOF ==
  ASSUME NEW S, NEW file \in Seq(S), OpenErr(file) = "nil",
         NEW c, Follows(file, c), ~c.ok, c.err = "nil"
  PROVE  ReadAll(file).err = "EOF"
<1>1. PICK R : ReadsFile(file, R) /\ ReadAll(file).err = R[Len(file)].err
  BY ReadAllRuns
<1>2. PICK k \in 0..Len(file) : Beside(R[k], c)
  BY <1>1 DEF Follows
<1>3. R[k].err = "EOF"
  BY <1>2 DEF Beside
<1> DEFINE N == Len(file)
           T == {j \in 0..(N - k) : R[k + j].err = "EOF"}
<1>4. N \in Nat /\ k \in Nat /\ N - k \in Nat
  BY LenProperties
<1>5. 0 \in T
  BY <1>3, <1>4
<1>6. ASSUME NEW j \in 0..((N - k) - 1), j \in T PROVE j + 1 \in T
  <2>1. k + j + 1 \in 1..N /\ (k + j + 1) - 1 = k + j /\ k + (j + 1) = k + j + 1
        /\ j + 1 \in 0..(N - k)
    BY <1>4
  <2>2. R[k + j + 1] = ReadOn(R[k + j])
    BY <1>1, <2>1 DEF ReadsFile
  <2> QED
    BY <1>6, <2>1, <2>2 DEF ReadOn
<1>7. N - k \in T
  <2>1. N - k \in 0..(N - k)
    BY <1>4
  <2> HIDE DEF T, N
  <2> QED
    BY <1>4, <1>5, <1>6, <2>1, BoundedInduct
<1>8. k + (N - k) = N
  BY <1>4
<1> QED
  BY <1>1, <1>7, <1>8

-----------------------------------------------------------------------------
(***************************************************************************)
(* The inductive invariant.                                                *)
(***************************************************************************)
Opened == OpenErr(old) = "nil" /\ OpenErr(new) = "nil"

BothEnded == ReadAll(old).err = "EOF" /\ ReadAll(new).err = "EOF"

IInv == /\ old \in Inputs /\ new \in Inputs
        /\ pc \in {"start", "prime", "join", "rendered", "failed"}
        /\ pc \in {"prime", "join"} => Opened
        /\ pc = "join" => Follows(old, oldC) /\ Follows(new, newC)
        /\ pc = "rendered" /\ detailed /\ Want(report) # {} => BothEnded

\* The files are sequences of records.
LEMMA FileIsSeq ==
  ASSUME NEW file \in Inputs
  PROVE  file \in Seq({file[i] : i \in DOMAIN file})
BY InputsAssumption

\* At the start no cursor is open.
LEMMA InitFollows == Init => IInv
BY DEF Init, IInv

\* Load has opened both files if it goes on to join them.
LEMMA LoadFollows == ASSUME IInv, Load PROVE IInv'
<1>1. /\ old \in Inputs /\ new \in Inputs /\ old' = old /\ new' = new /\ detailed' = detailed
  BY DEF IInv, Load
<1>2. CASE Fail
  BY <1>1, <1>2 DEF IInv, Fail
<1>3. CASE ~Fail
  <2> DEFINE rep == buildDiff(loadManifest(old).manifest, loadManifest(new).manifest)
  <2>1. /\ loadManifest(old).err = "nil" /\ loadManifest(new).err = "nil"
        /\ report' = rep
        /\ pc' = IF detailed /\ Want(rep) # {} THEN "prime" ELSE "rendered"
    BY <1>3, Zenon DEF Load
  <2>2. Opened'
    BY <1>1, <2>1 DEF loadManifest, Opened
  <2> HIDE DEF rep
  <2>3. Want(report') = Want(rep)
    BY <2>1
  <2> QED
    BY <1>1, <2>1, <2>2, <2>3 DEF IInv
<1> QED
  BY <1>2, <1>3

\* Both cursors are primed.
LEMMA PrimeFollows == ASSUME IInv, Prime PROVE IInv'
<1>1. /\ old \in Inputs /\ new \in Inputs /\ old' = old /\ new' = new /\ Opened
  BY DEF IInv, Prime
<1>2. CASE Fail
  BY <1>1, <1>2 DEF IInv, Fail
<1>3. CASE ~Fail
  <2>1. /\ oldC' = advance(newEntryCursor(old), Want(report))
        /\ newC' = advance(newEntryCursor(new), Want(report))
        /\ pc' = "join"
    BY <1>3, Zenon DEF Prime
  <2>2. Follows(old, oldC') /\ Follows(new, newC')
    BY <1>1, <2>1, FileIsSeq, PrimedFollows DEF Opened
  <2>3. (Follows(old, oldC) /\ Follows(new, newC))'
    BY <1>1, <2>2
  <2>4. Opened'
    BY <1>1 DEF Opened
  <2> QED
    BY <1>1, <2>1, <2>3, <2>4 DEF IInv
<1> QED
  BY <1>2, <1>3

\* A turn of the join advances cursors that have not stopped.
LEMMA JoinFollows == ASSUME IInv, JoinOld \/ JoinNew \/ JoinBoth PROVE IInv'
<1>1. /\ old \in Inputs /\ new \in Inputs /\ old' = old /\ new' = new
      /\ pc = "join" /\ pc' = "join" /\ Opened
      /\ Follows(old, oldC) /\ Follows(new, newC)
  BY DEF IInv, JoinOld, JoinNew, JoinBoth
<1>2. /\ oldC' = oldC \/ (oldC.ok /\ oldC' = advance(oldC, Want(report)))
      /\ newC' = newC \/ (newC.ok /\ newC' = advance(newC, Want(report)))
  BY DEF JoinOld, JoinNew, JoinBoth, OldOnly, NewOnly
<1>3. Follows(old, oldC')
  BY <1>1, <1>2, FileIsSeq, StepFollows DEF Opened
<1>4. Follows(new, newC')
  BY <1>1, <1>2, FileIsSeq, StepFollows DEF Opened
<1>5. (Follows(old, oldC) /\ Follows(new, newC))'
  BY <1>1, <1>3, <1>4
<1>6. Opened'
  BY <1>1 DEF Opened
<1> QED
  BY <1>1, <1>5, <1>6 DEF IInv

\* Where no cursor has an error both streams have been read to their end.
LEMMA FinishFollows == ASSUME IInv, Finish PROVE IInv'
<1>1. /\ old \in Inputs /\ new \in Inputs /\ old' = old /\ new' = new
      /\ Opened /\ Follows(old, oldC) /\ Follows(new, newC)
      /\ ~oldC.ok /\ ~newC.ok
      /\ pc' = IF oldC.err # "nil" \/ newC.err # "nil" THEN "failed" ELSE "rendered"
  BY DEF IInv, Finish
<1>2. CASE oldC.err # "nil" \/ newC.err # "nil"
  BY <1>1, <1>2 DEF IInv
<1>3. CASE oldC.err = "nil" /\ newC.err = "nil"
  <2>1. BothEnded
    BY <1>1, <1>3, FileIsSeq, StoppedAtEOF DEF Opened, BothEnded
  <2>2. BothEnded'
    BY <1>1, <2>1 DEF BothEnded
  <2> QED
    BY <1>1, <1>3, <2>2 DEF IInv
<1> QED
  BY <1>2, <1>3

\* Every step of the command keeps the invariant.
LEMMA NextFollows == IInv /\ [DiffNext]_vars => IInv'
<1> SUFFICES ASSUME IInv, [DiffNext]_vars PROVE IInv'
  OBVIOUS
<1>1. CASE Load
  BY <1>1, LoadFollows
<1>2. CASE Prime
  BY <1>2, PrimeFollows
<1>3. CASE JoinOld \/ JoinNew \/ JoinBoth
  BY <1>3, JoinFollows
<1>4. CASE Finish
  BY <1>4, FinishFollows
<1>5. CASE UNCHANGED vars
  BY <1>5 DEF vars, IInv, Opened, BothEnded, Follows
<1> QED
  BY <1>1, <1>2, <1>3, <1>4, <1>5 DEF DiffNext

\* While scls diff joins two streams each cursor is where a reader of its
\* whole file would be.
THEOREM DiffInvariant == Spec => []IInv
<1> QED
  BY InitFollows, NextFollows, PTL DEF Spec

\* No report is rendered from a stream that broke (diff.go:184-187), for any
\* two files and wherever they break.
THEOREM DiffNoBrokenReport == Spec => []NoReportFromBrokenStream
<1>1. IInv => NoReportFromBrokenStream
  BY DEF IInv, NoReportFromBrokenStream, BothEnded
<1> QED
  BY <1>1, DiffInvariant, PTL

-----------------------------------------------------------------------------
(***************************************************************************)
(* A file that can be read to its end, as the calls of Next that read it.  *)
(***************************************************************************)
Records(file) == {file[i] : i \in DOMAIN file}

ChunkSet(s) == {s[i] : i \in {j \in DOMAIN s : IsChunk(s[j])}}

\* Records that are no chunks may be passed over.
LEMMA ChunksBehind ==
  ASSUME NEW S, NEW s \in Seq(S), NEW n \in 0..Len(s), \A i \in 1..n : ~IsChunk(s[i])
  PROVE  ChunkSet(SubSeq(s, n + 1, Len(s))) = ChunkSet(s)
<1> DEFINE t == SubSeq(s, n + 1, Len(s))
<1>1. Len(s) \in Nat /\ DOMAIN s = 1..Len(s) /\ n \in Nat /\ n <= Len(s)
  BY LenProperties
<1>2. \A i \in (n + 1)..Len(s) : s[i] \in S
  BY <1>1, ElementOfSeq
<1>3. /\ t \in Seq(S)
      /\ Len(t) = IF n + 1 <= Len(s) THEN Len(s) - (n + 1) + 1 ELSE 0
      /\ \A i \in 1..Len(t) : t[i] = s[(n + 1) + i - 1]
  BY <1>1, <1>2, SubSeqProperties
<1> HIDE DEF t
<1>4. DOMAIN t = 1..(Len(s) - n) /\ Len(t) = Len(s) - n
  <2>1. \A N \in Nat : n <= N => (IF n + 1 <= N THEN N - (n + 1) + 1 ELSE 0) = N - n
    BY <1>1
  <2>2. (IF n + 1 <= Len(s) THEN Len(s) - (n + 1) + 1 ELSE 0) = Len(s) - n
    BY <1>1, <2>1, Zenon
  <2>3. Len(t) = Len(s) - n
    BY <1>3, <2>2
  <2> QED
    BY <1>3, <2>3, LenProperties
<1>5. \A i \in 1..(Len(s) - n) : n + i \in DOMAIN s /\ t[i] = s[n + i]
  <2>1. \A N \in Nat : \A i \in 1..(N - n) : n + i \in 1..N /\ (n + 1) + i - 1 = n + i
    BY <1>1
  <2> QED
    BY <1>1, <1>3, <1>4, <2>1
<1>6. \A j \in DOMAIN s : IsChunk(s[j]) => j - n \in 1..(Len(s) - n) /\ n + (j - n) = j
  BY <1>1
<1>7. ChunkSet(t) \subseteq ChunkSet(s)
  BY <1>4, <1>5 DEF ChunkSet
<1>8. ASSUME NEW j \in DOMAIN s, IsChunk(s[j]) PROVE s[j] \in ChunkSet(t)
  <2>1. t[j - n] = s[j] /\ j - n \in DOMAIN t
    BY <1>4, <1>5, <1>6, <1>8
  <2> QED
    BY <1>8, <2>1 DEF ChunkSet
<1>9. ChunkSet(s) \subseteq ChunkSet(t)
  BY <1>8 DEF ChunkSet
<1> QED
  BY <1>7, <1>9 DEF t

\* Of the first record and the others.
LEMMA ChunksOfTail ==
  ASSUME NEW S, NEW s \in Seq(S), s # <<>>
  PROVE  /\ Head(s) \in S
         /\ ChunkSet(s) = ChunkSet(Tail(s)) \cup {x \in {Head(s)} : IsChunk(x)}
<1> DEFINE U == ChunkSet(Tail(s)) \cup {x \in {Head(s)} : IsChunk(x)}
<1>1. /\ Len(s) \in Nat /\ DOMAIN s = 1..Len(s) /\ Len(s) # 0
  BY LenProperties, EmptySeq
<1>2. /\ Tail(s) \in Seq(S) /\ Len(Tail(s)) = Len(s) - 1 /\ Head(s) = s[1] /\ Head(s) \in S
      /\ \A i \in 1..Len(Tail(s)) : Tail(s)[i] = s[i + 1]
  BY HeadTailProperties
<1>3. DOMAIN Tail(s) = 1..(Len(s) - 1)
  BY <1>2, LenProperties
<1>4. \A i \in 1..(Len(s) - 1) : i + 1 \in DOMAIN s /\ Tail(s)[i] = s[i + 1]
  BY <1>1, <1>2
<1>5. \A j \in DOMAIN s : j = 1 \/ (j - 1 \in 1..(Len(s) - 1) /\ (j - 1) + 1 = j)
  BY <1>1
<1>6. 1 \in DOMAIN s
  BY <1>1
<1>7. U \subseteq ChunkSet(s)
  BY <1>2, <1>3, <1>4, <1>6 DEF ChunkSet
<1>8. ASSUME NEW j \in DOMAIN s, IsChunk(s[j]) PROVE s[j] \in U
  <2>1. CASE j = 1
    BY <1>2, <1>8, <2>1
  <2>2. CASE j # 1
    <3>1. Tail(s)[j - 1] = s[j] /\ j - 1 \in DOMAIN Tail(s)
      BY <1>3, <1>4, <1>5, <2>2
    <3> QED
      BY <1>8, <3>1 DEF ChunkSet
  <2> QED
    BY <2>1, <2>2
<1>9. ChunkSet(s) \subseteq U
  <2> HIDE DEF U
  <2> QED
    BY <1>8 DEF ChunkSet
<1> QED
  BY <1>2, <1>7, <1>9

\* What a call returns, and which chunks it leaves.
LEMMA NextReturns ==
  ASSUME NEW S, NEW rd, IsReader(rd, S), rd.done = FALSE
  PROVE  /\ Next(rd).err = "nil" =>
              /\ Next(rd).rd.done = FALSE
              /\ \E c \in S : /\ Next(rd).chunk = <<c>> /\ IsChunk(c)
                              /\ ChunkSet(rd.r) = {c} \cup ChunkSet(Next(rd).rd.r)
         /\ Next(rd).err = "EOF" => ChunkSet(rd.r) = {}
         /\ Next(rd).err # "nil" => Next(rd).chunk = <<>>
<1> DEFINE n == CHOOSE n \in 0..Len(rd.r) :
                  /\ Passed(rd, n)
                  /\ n < Len(rd.r) => ~Passed(rd, n + 1)
           p == PassedBy(rd)
<1>1. Len(rd.r) \in Nat /\ DOMAIN rd.r = 1..Len(rd.r)
  BY LenProperties DEF IsReader
<1>2. n \in 0..Len(rd.r) /\ Passed(rd, n)
  BY <1>1, PassStops, Zenon
<1>3. /\ DOMAIN p = ReaderFields /\ p.r = SubSeq(rd.r, n + 1, Len(rd.r))
      /\ p.done = FALSE
  BY DEF PassedBy, IsReader, ReaderFields
<1>4. Next(rd) = Stopped(p)
  BY DEF Next, p
<1> HIDE DEF n, p
<1>5. \A i \in 1..n : ~IsChunk(rd.r[i])
  BY <1>2 DEF Passed, Reserved, IsChunk, IsManifest
<1>6. ChunkSet(rd.r) = ChunkSet(p.r)
  BY <1>2, <1>3, <1>5, ChunksBehind DEF IsReader
<1>7. p.r \in Seq(S)
  <2>1. \A i \in (n + 1)..Len(rd.r) : rd.r[i] \in S
    BY <1>1, <1>2, ElementOfSeq DEF IsReader
  <2>2. n \in Nat
    BY <1>1, <1>2
  <2> QED
    BY <1>1, <1>3, <2>1, <2>2, SubSeqProperties
<1>8. CASE p.r = <<>>
  <2>1. ChunkSet(p.r) = {}
    <3>1. DOMAIN p.r = {}
      BY <1>8, LenProperties, EmptySeq
    <3> QED
      BY <3>1 DEF ChunkSet
  <2>2. Next(rd) = Ended(p)
    BY <1>4, <1>8 DEF Stopped, AtEOF
  <2>3. Next(rd).err # "nil" /\ Next(rd).chunk = <<>>
    BY <2>2 DEF Ended
  <2> QED
    BY <1>6, <2>1, <2>3
<1>9. CASE p.r # <<>>
  <2>1. /\ Next(rd).err = StopErr(p) /\ Next(rd).rd = [p EXCEPT !.r = Tail(@)]
        /\ Next(rd).chunk = IF StopErr(p) = "nil" THEN <<Head(p.r)>> ELSE <<>>
    BY <1>4, <1>9 DEF Stopped, AtEOF
  <2>2. Next(rd).rd.done = FALSE /\ Next(rd).rd.r = Tail(p.r)
    BY <1>3, <2>1 DEF ReaderFields
  <2>3. StopErr(p) # "EOF" /\ (StopErr(p) = "nil" => IsChunk(Head(p.r)))
    BY DEF StopErr
  <2> QED
    BY <1>6, <1>7, <1>9, <2>1, <2>2, <2>3, ChunksOfTail
<1> QED
  BY <1>8, <1>9

Returns(n, rd, c) == n.err = "nil" /\ n.rd = rd /\ n.chunk = <<c>>

\* rds[k] is the reader after the k-th call, cs[k] what that call returned.
Reads(S, cs, rds) ==
  /\ cs \in Seq(S)
  /\ \A k \in 0..Len(cs) : IsReader(rds[k], S) /\ rds[k].done = FALSE
  /\ \A k \in 1..Len(cs) : Returns(Next(rds[k - 1]), rds[k], cs[k])

ReadsSoFar(S, R, k) ==
  \E m \in 0..k :
    /\ Len(R[k].chunks) = m
    /\ Reads(S, R[k].chunks, [j \in 0..m |-> R[j].rd])
    /\ R[k].err = "nil" => m = k
    /\ R[k].err # "nil" => Next(R[m].rd).err = R[k].err

\* One call more.
LEMMA ReadsMore ==
  ASSUME NEW S, NEW R, NEW k \in Nat, R[k + 1] = ReadOn(R[k]), ReadsSoFar(S, R, k)
  PROVE  ReadsSoFar(S, R, k + 1)
<1> DEFINE n == Next(R[k].rd)
<1>1. PICK m \in 0..k :
        /\ Len(R[k].chunks) = m
        /\ Reads(S, R[k].chunks, [j \in 0..m |-> R[j].rd])
        /\ R[k].err = "nil" => m = k
        /\ R[k].err # "nil" => Next(R[m].rd).err = R[k].err
  BY DEF ReadsSoFar
<1>2. CASE R[k].err # "nil"
  <2>1. R[k + 1] = R[k] /\ m \in 0..(k + 1)
    BY <1>1, <1>2 DEF ReadOn
  <2> QED
    BY <1>1, <1>2, <2>1 DEF ReadsSoFar
<1>3. CASE R[k].err = "nil"
  <2> DEFINE cs == R[k].chunks
             ds == R[k + 1].chunks
             rds == [j \in 0..k |-> R[j].rd]
  <2>1. m = k /\ k \in 0..k /\ k \in 0..(k + 1) /\ k + 1 \in 0..(k + 1)
    BY <1>1, <1>3
  <2>2. /\ R[k + 1].rd = n.rd /\ R[k + 1].err = n.err
        /\ ds = cs \o n.chunk
    <3>1. R[k + 1] = Received(R[k], n)
      BY <1>3 DEF ReadOn
    <3> HIDE DEF n
    <3>2. R[k + 1].rd = n.rd /\ R[k + 1].err = n.err
      BY <3>1 DEF Received
    <3>3. R[k + 1].chunks = R[k].chunks \o n.chunk
      <4>1. \A r, c, e : [rd |-> r, chunks |-> c, err |-> e].chunks = c
        OBVIOUS
      <4>2. Received(R[k], n).chunks = R[k].chunks \o n.chunk
        BY <4>1, Zenon DEF Received
      <4> QED
        BY <3>1, <4>2, Zenon
    <3> QED
      BY <3>2, <3>3
  <2>3. /\ cs \in Seq(S) /\ Len(cs) = k
        /\ \A j \in 0..k : IsReader(R[j].rd, S) /\ R[j].rd.done = FALSE
        /\ \A j \in 1..k : Returns(Next(R[j - 1].rd), R[j].rd, cs[j])
    <3>1. \A j \in 1..k : j \in 0..k /\ j - 1 \in 0..k
      OBVIOUS
    <3> QED
      BY <1>1, <2>1, <3>1 DEF Reads
  <2>4. IsReader(R[k].rd, S) /\ R[k].rd.done = FALSE
    BY <2>1, <2>3
  <2>5. CASE n.err = "nil"
    <3>1. PICK c \in S : n.chunk = <<c>> /\ n.rd.done = FALSE
      BY <2>4, <2>5, NextReturns
    <3>2. IsReader(n.rd, S)
      BY <2>4, <2>5, NextTakes
    <3>3. /\ ds \in Seq(S) /\ Len(ds) = k + 1
          /\ \A i \in 1..k : ds[i] = cs[i]
          /\ ds[k + 1] = c
      <4>1. <<c>> \in Seq(S) /\ Len(<<c>>) = 1 /\ <<c>>[1] = c
        OBVIOUS
      <4> HIDE DEF cs, ds, n
      <4>2. ds = cs \o <<c>>
        BY <2>2, <3>1
      <4> QED
        BY <2>3, <4>1, <4>2, ConcatProperties
    <3>4. \A j \in 0..(k + 1) : j \in 0..k \/ j = k + 1
      OBVIOUS
    <3>5. \A j \in 1..(k + 1) : j \in 1..k \/ j = k + 1
      OBVIOUS
    <3>6. (k + 1) - 1 = k
      OBVIOUS
    <3>7. \A j \in 0..(k + 1) : IsReader(R[j].rd, S) /\ R[j].rd.done = FALSE
      BY <2>2, <2>3, <3>1, <3>2, <3>4
    <3>8. \A j \in 1..(k + 1) : Returns(Next(R[j - 1].rd), R[j].rd, ds[j])
      <4>1. Returns(Next(R[k].rd), R[k + 1].rd, ds[k + 1])
        BY <2>2, <2>5, <3>1, <3>3 DEF Returns
      <4> QED
        BY <2>3, <3>3, <3>5, <3>6, <4>1
    <3>9. \A j \in 1..(k + 1) : j \in 0..(k + 1) /\ j - 1 \in 0..(k + 1)
      OBVIOUS
    <3>10. Reads(S, ds, [j \in 0..(k + 1) |-> R[j].rd])
      BY <3>3, <3>7, <3>8, <3>9 DEF Reads
    <3> QED
      BY <2>1, <2>2, <2>5, <3>3, <3>10 DEF ReadsSoFar
  <2>6. CASE n.err # "nil"
    <3>1. n.chunk = <<>>
      BY <2>4, <2>6, NextReturns
    <3>2. ds = cs
      BY <2>2, <2>3, <3>1, ConcatEmptySeq
    <3> QED
      BY <1>1, <2>1, <2>2, <2>6, <3>2 DEF ReadsSoFar
  <2> QED
    BY <2>5, <2>6
<1> QED
  BY <1>2, <1>3

\* What a file that is read to its end holds is what the calls returned.
LEMMA FileReads ==
  ASSUME NEW S, NEW file \in Seq(S), OpenErr(file) = "nil", ReadAll(file).err = "EOF",
         NEW cs, cs = ReadAll(file).chunks
  PROVE  \E rds : /\ rds[0] = NewReader(file)
                  /\ Reads(S, cs, rds)
                  /\ Next(rds[Len(cs)]).err = "EOF"
<1> DEFINE N == Len(file)
<1>1. N \in Nat
  BY LenProperties
<1>2. PICK R : ReadsFile(file, R) /\ ReadAll(file) = AllRead(R[N])
  BY ReadAllRuns
<1>3. R[N].err = "EOF" /\ R[N].chunks = cs
  <2>1. /\ \A st : AllRead(st).err = st.err
        /\ \A st : AllRead(st).chunks = st.chunks
    BY DEF AllRead
  <2> QED
    BY <1>2, <2>1
<1> DEFINE T == {k \in 0..N : ReadsSoFar(S, R, k)}
<1>4. 0 \in T
  <2>1. R[0] = ReadStart(file)
    BY <1>2 DEF ReadsFile
  <2>2. R[0].chunks = <<>> /\ R[0].err = "nil" /\ R[0].rd.done = FALSE
    BY <2>1 DEF ReadStart, NewReader
  <2>3. 0 \in 0..N
    BY <1>1
  <2>4. IsReader(R[0].rd, S)
    BY <1>2, <2>2, <2>3, ReadShrinks DEF StillReading
  <2>5. 0 \in 0..0 /\ (\A j \in 0..0 : j = 0) /\ 1..0 = {}
    OBVIOUS
  <2>6. Reads(S, <<>>, [j \in 0..0 |-> R[j].rd])
    BY <2>2, <2>4, <2>5, EmptySeq DEF Reads
  <2>7. ReadsSoFar(S, R, 0)
    BY <2>2, <2>5, <2>6, EmptySeq DEF ReadsSoFar
  <2> QED
    BY <2>3, <2>7
<1>5. ASSUME NEW k \in 0..(N - 1), k \in T PROVE k + 1 \in T
  <2>1. k \in Nat /\ k + 1 \in 1..N /\ (k + 1) - 1 = k /\ k + 1 \in 0..N
    BY <1>1
  <2>2. R[k + 1] = ReadOn(R[k])
    BY <1>2, <2>1 DEF ReadsFile
  <2> QED
    BY <1>5, <2>1, <2>2, ReadsMore
<1>6. ReadsSoFar(S, R, N)
  <2>1. N \in 0..N
    BY <1>1
  <2>2. \A k \in 0..N : k \in T
    <3> HIDE DEF T, N
    <3> QED
      BY <1>1, <1>4, <1>5, BoundedInduct
  <2> QED
    BY <2>1, <2>2
<1> HIDE DEF N
<1>7. PICK m \in 0..N : /\ Len(cs) = m
                        /\ Reads(S, cs, [j \in 0..m |-> R[j].rd])
                        /\ Next(R[m].rd).err = "EOF"
  BY <1>3, <1>6 DEF ReadsSoFar
<1> DEFINE rds == [j \in 0..m |-> R[j].rd]
<1>8. 0 \in 0..m /\ m \in 0..m
  BY <1>1
<1>9. rds[0] = NewReader(file)
  BY <1>2, <1>8 DEF ReadsFile, ReadStart
<1> QED
  BY <1>7, <1>8, <1>9

\* What the calls returned are the chunks of the file.
LEMMA ReadChunks ==
  ASSUME NEW S, NEW file \in Seq(S), OpenErr(file) = "nil", NEW cs, NEW rds,
         rds[0] = NewReader(file), Reads(S, cs, rds), Next(rds[Len(cs)]).err = "EOF"
  PROVE  /\ \A k \in 1..Len(cs) : IsChunk(cs[k])
         /\ ChunkSet(file) = {cs[k] : k \in 1..Len(cs)}
<1> DEFINE N == Len(cs)
           T == {k \in 0..N : /\ \A j \in 1..k : IsChunk(cs[j])
                              /\ ChunkSet(Tail(file)) = {cs[j] : j \in 1..k} \cup ChunkSet(rds[k].r)}
<1>1. N \in Nat
  BY LenProperties DEF Reads
<1>2. 0 \in T
  <2>1. rds[0].r = Tail(file)
    BY DEF NewReader
  <2>2. 1..0 = {} /\ 0 \in 0..N
    BY <1>1
  <2> QED
    BY <2>1, <2>2
<1>3. ASSUME NEW k \in 0..(N - 1), k \in T PROVE k + 1 \in T
  <2>1. k \in 0..N /\ k + 1 \in 1..N /\ k + 1 \in 0..N /\ (k + 1) - 1 = k
    BY <1>1
  <2>2. /\ IsReader(rds[k], S) /\ rds[k].done = FALSE
        /\ Returns(Next(rds[k]), rds[k + 1], cs[k + 1])
    BY <2>1 DEF Reads
  <2>3. PICK c \in S : /\ Next(rds[k]).chunk = <<c>> /\ IsChunk(c)
                       /\ ChunkSet(rds[k].r) = {c} \cup ChunkSet(Next(rds[k]).rd.r)
    BY <2>2, NextReturns DEF Returns
  <2>4. c = cs[k + 1] /\ Next(rds[k]).rd = rds[k + 1]
    <3>1. <<c>> = <<cs[k + 1]>>
      BY <2>2, <2>3 DEF Returns
    <3>2. \A x, y : <<x>> = <<y>> => x = y
      OBVIOUS
    <3> QED
      BY <2>2, <3>1, <3>2 DEF Returns
  <2>5. \A j \in 1..(k + 1) : j \in 1..k \/ j = k + 1
    OBVIOUS
  <2>6. k + 1 \in 1..(k + 1) /\ \A j \in 1..k : j \in 1..(k + 1)
    OBVIOUS
  <2>7. {cs[j] : j \in 1..(k + 1)} = {cs[j] : j \in 1..k} \cup {cs[k + 1]}
    BY <2>5, <2>6
  <2> HIDE DEF N
  <2> QED
    BY <1>3, <2>1, <2>3, <2>4, <2>5, <2>7
<1>4. N \in T
  <2>1. N \in 0..N
    BY <1>1
  <2> HIDE DEF T, N
  <2> QED
    BY <1>1, <1>2, <1>3, <2>1, BoundedInduct
<1>5. ChunkSet(rds[N].r) = {}
  <2>1. N \in 0..N
    BY <1>1
  <2> QED
    BY <2>1, NextReturns DEF Reads
<1>6. ChunkSet(file) = ChunkSet(Tail(file))
  <2>1. file # <<>> /\ Head(file) = Hdr
    BY DEF OpenErr, AtEOF
  <2>2. ~IsChunk(Head(file))
    BY <2>1 DEF Hdr, IsChunk
  <2>3. {x \in {Head(file)} : IsChunk(x)} = {}
    BY <2>2
  <2>4. ChunkSet(file) = ChunkSet(Tail(file)) \cup {x \in {Head(file)} : IsChunk(x)}
    BY <2>1, ChunksOfTail
  <2> QED
    BY <2>3, <2>4
<1> QED
  BY <1>4, <1>5, <1>6

-----------------------------------------------------------------------------
(***************************************************************************)
(* The entries of a file, by chunk and place in the chunk.                 *)
(***************************************************************************)
TypedChunk(c) == c.ns \in Namespaces /\ c.entries \in Seq(Entries)

Item == [ns : Namespaces, key : Keys, value : Values]

ItemAt(cs, k, a) ==
  [ns |-> cs[k].ns, key |-> cs[k].entries[a].key, value |-> cs[k].entries[a].value]

Places(cs) == {p \in (1..Len(cs)) \X Nat : p[2] \in 1..Len(cs[p[1]].entries)}

\* The reading of a file, as far as the cursors and Verify depend on it.
Reading(file, cs, rds) ==
  /\ Reads(Records(file), cs, rds)
  /\ rds[0] = NewReader(file)
  /\ Next(rds[Len(cs)]).err = "EOF"
  /\ \A k \in 1..Len(cs) : TypedChunk(cs[k])
  /\ Held(file) = {ItemAt(cs, p[1], p[2]) : p \in Places(cs)}

\* The entries of a chunk with its namespace.
LEMMA RangeOfLocated ==
  ASSUME NEW ns, NEW entries \in Seq(Entries)
  PROVE  Range(Located(ns, entries)) =
           {[ns |-> ns, key |-> entries[a].key, value |-> entries[a].value] :
              a \in 1..Len(entries)}
<1>1. DOMAIN entries = 1..Len(entries)
  BY LenProperties
<1> QED
  BY <1>1 DEF Range, Located

\* Every file that is opened and read to io.EOF has such a reading.
LEMMA FileReading ==
  ASSUME NEW file \in Inputs, OpenErr(file) = "nil", ReadAll(file).err = "EOF",
         NEW cs, cs = ReadAll(file).chunks
  PROVE  \E rds : Reading(file, cs, rds)
<1> DEFINE S == Records(file)
<1>1. file \in Seq(S)
  BY FileIsSeq DEF Records
<1>2. PICK rds : /\ rds[0] = NewReader(file)
                 /\ Reads(S, cs, rds)
                 /\ Next(rds[Len(cs)]).err = "EOF"
  BY <1>1, FileReads
<1>3. ChunkSet(file) = {cs[k] : k \in 1..Len(cs)}
  BY <1>1, <1>2, ReadChunks
<1>4. \A c \in ChunkSet(file) : TypedChunk(c)
  BY InputsAssumption DEF ChunkSet, TypedChunk
<1>5. \A k \in 1..Len(cs) : TypedChunk(cs[k])
  BY <1>3, <1>4
<1>6. Held(file) = UNION {Range(Located(c.ns, c.entries)) : c \in ChunkSet(file)}
  BY DEF Held, ChunkSet
<1>7. Held(file) = UNION {Range(Located(cs[k].ns, cs[k].entries)) : k \in 1..Len(cs)}
  BY <1>3, <1>6
<1>8. \A k \in 1..Len(cs) :
        Range(Located(cs[k].ns, cs[k].entries))
          = {ItemAt(cs, k, a) : a \in 1..Len(cs[k].entries)}
  BY <1>5, RangeOfLocated DEF TypedChunk, ItemAt
<1>9. ASSUME NEW e \in Held(file)
      PROVE  \E k \in 1..Len(cs) : \E a \in 1..Len(cs[k].entries) : e = ItemAt(cs, k, a)
  <2>1. PICK k \in 1..Len(cs) : e \in Range(Located(cs[k].ns, cs[k].entries))
    BY <1>7
  <2>2. e \in {ItemAt(cs, k, a) : a \in 1..Len(cs[k].entries)}
    BY <1>8, <2>1
  <2> QED
    BY <2>2
<1>10. ASSUME NEW k \in 1..Len(cs), NEW a \in 1..Len(cs[k].entries)
      PROVE  ItemAt(cs, k, a) \in Held(file)
  <2>1. ItemAt(cs, k, a) \in Range(Located(cs[k].ns, cs[k].entries))
    BY <1>8
  <2> QED
    BY <1>7, <2>1
<1>11. \A k \in 1..Len(cs) : \A a \in 1..Len(cs[k].entries) : <<k, a>> \in Places(cs)
  <2>1. \A k \in 1..Len(cs) : Len(cs[k].entries) \in Nat
    BY <1>5, LenProperties DEF TypedChunk
  <2> QED
    BY <2>1 DEF Places
<1>12. \A p \in Places(cs) : p[1] \in 1..Len(cs) /\ p[2] \in 1..Len(cs[p[1]].entries)
  BY DEF Places
<1>13. Held(file) = {ItemAt(cs, p[1], p[2]) : p \in Places(cs)}
  <2>1. ASSUME NEW e \in Held(file) PROVE e \in {ItemAt(cs, p[1], p[2]) : p \in Places(cs)}
    <3>1. PICK k \in 1..Len(cs) : \E a \in 1..Len(cs[k].entries) : e = ItemAt(cs, k, a)
      BY <1>9, <2>1
    <3>2. PICK a \in 1..Len(cs[k].entries) : e = ItemAt(cs, k, a)
      BY <3>1
    <3>3. <<k, a>> \in Places(cs) /\ <<k, a>>[1] = k /\ <<k, a>>[2] = a
      BY <1>11
    <3> QED
      BY <3>2, <3>3
  <2>2. ASSUME NEW p \in Places(cs) PROVE ItemAt(cs, p[1], p[2]) \in Held(file)
    BY <1>10, <1>12
  <2> QED
    BY <2>1, <2>2
<1> QED
  BY <1>2, <1>5, <1>13 DEF Reading

-----------------------------------------------------------------------------
(***************************************************************************)
(* The entries of a file that passes Verify ascend from place to place.    *)
(***************************************************************************)
TallyFold == INSTANCE SeqFold WITH op <- LAMBDA t, c : VerifyChunk(t, c, Structure)

PlaceBefore(p, q) == p[1] < q[1] \/ (p[1] = q[1] /\ p[2] < q[2])

PlacedItem(cs, p) == ItemAt(cs, p[1], p[2])

TallyFields == DOMAIN Tally0

\* What the tally knows of the first k chunks, if it has seen no error.
TallyKeeps(cs, t, k) ==
  /\ DOMAIN t = TallyFields
  /\ t.nsStarted \in BOOLEAN /\ (k > 0 <=> t.nsStarted = TRUE)
  /\ k > 0 => t.curNamespace \in Namespaces
  /\ t.lastKey \in Keys \cup {NilKey}
  /\ \A j \in 1..k : cs[j].ns <= t.curNamespace
  /\ \A p \in Places(cs) :
       p[1] <= k /\ cs[p[1]].ns = t.curNamespace =>
         t.lastKey # NilKey /\ PlacedItem(cs, p).key <= t.lastKey
  /\ \A p, q \in Places(cs) :
       PlaceBefore(p, q) /\ q[1] <= k => Before(PlacedItem(cs, p), PlacedItem(cs, q))

\* Keys that ascend one by one ascend.
LEMMA AscendOrders ==
  ASSUME NEW entries \in Seq(Entries), NEW lastKey \in Keys \cup {NilKey},
         Ascend(lastKey, entries)
  PROVE  /\ \A a, b \in 1..Len(entries) : a < b => entries[a].key < entries[b].key
         /\ lastKey # NilKey => \A a \in 1..Len(entries) : lastKey < entries[a].key
<1> DEFINE N == Len(entries)
           key(a) == entries[a].key
           T == {d \in 0..N : \A b \in 1..d :
                   /\ \A a \in 1..(b - 1) : key(a) < key(b)
                   /\ lastKey # NilKey => lastKey < key(b)}
<1>1. N \in Nat /\ DOMAIN entries = 1..N
  BY LenProperties
<1>2. \A a \in 1..N : key(a) \in Nat
  <2>1. \A a \in 1..N : entries[a] \in Entries
    BY ElementOfSeq
  <2> QED
    BY <2>1, KeysAssumption DEF Entries
<1>3. lastKey # NilKey => lastKey \in Nat
  BY KeysAssumption
<1>4. \A i \in 1..N : /\ i > 1 => key(i) > key(i - 1)
                      /\ i = 1 /\ lastKey # NilKey => key(i) > lastKey
  BY <1>1 DEF Ascend
<1> HIDE DEF key, N
<1>5. 0 \in T
  BY <1>1
<1>6. ASSUME NEW d \in 0..(N - 1), d \in T PROVE d + 1 \in T
  <2>1. d + 1 \in 0..N /\ d + 1 \in 1..N /\ d \in Nat /\ (d + 1) - 1 = d
    BY <1>1
  <2>2. ASSUME NEW b \in 1..(d + 1)
        PROVE  /\ \A a \in 1..(b - 1) : key(a) < key(b)
               /\ lastKey # NilKey => lastKey < key(b)
    <3>1. CASE b \in 1..d
      BY <1>6, <3>1
    <3>2. CASE b = d + 1 /\ d = 0
      <4>1. b = 1 /\ 1..(b - 1) = {} /\ 1 \in 1..N
        BY <2>1, <3>2
      <4>2. key(1) \in Nat
        BY <1>2, <4>1
      <4> QED
        BY <1>3, <1>4, <4>1, <4>2
    <3>3. CASE b = d + 1 /\ d > 0
      <4>1. d \in 1..d /\ d \in 1..N /\ d + 1 > 1 /\ b - 1 = d
        BY <1>1, <2>1, <3>3
      <4>2. key(d) < key(d + 1) /\ key(d) \in Nat /\ key(d + 1) \in Nat
        BY <1>2, <1>4, <2>1, <4>1
      <4>3. \A a \in 1..(d - 1) : key(a) < key(d) /\ a \in 1..N
        BY <1>1, <1>6, <2>1, <4>1
      <4>4. \A a \in 1..d : a \in 1..(d - 1) \/ a = d
        BY <2>1
      <4>5. \A a \in 1..d : key(a) < key(d + 1)
        BY <1>2, <4>2, <4>3, <4>4
      <4>6. lastKey # NilKey => lastKey < key(d)
        BY <1>6, <4>1
      <4>7. lastKey # NilKey => lastKey < key(d + 1)
        BY <1>3, <4>2, <4>6
      <4> QED
        BY <3>3, <4>1, <4>5, <4>7
    <3>4. b \in 1..d \/ b = d + 1
      BY <2>1
    <3> QED
      BY <2>1, <3>1, <3>2, <3>3, <3>4
  <2> QED
    BY <2>1, <2>2
<1>7. N \in T
  <2>1. N \in 0..N
    BY <1>1
  <2> HIDE DEF T
  <2> QED
    BY <1>1, <1>5, <1>6, <2>1, BoundedInduct
<1>8. \A a, b \in 1..N : a < b => a \in 1..(b - 1)
  BY <1>1
<1>9. \A a, b \in 1..N : a < b => key(a) < key(b)
  BY <1>7, <1>8
<1>10. lastKey # NilKey => \A a \in 1..N : lastKey < key(a)
  BY <1>7
<1> QED
  BY <1>9, <1>10 DEF key, N

\* What the tally takes over when it enters the namespace of a chunk.
LEMMA EnterKeeps ==
  ASSUME NEW t, DOMAIN t = TallyFields, t.nsStarted \in BOOLEAN, NEW ns
  PROVE  LET e == enterNamespace(t, ns, Structure)
         IN  /\ DOMAIN e = TallyFields /\ e.curNamespace = ns /\ e.err = t.err
             /\ e.nsStarted = TRUE
             /\ e.lastKey = IF t.nsStarted /\ ns > t.curNamespace THEN NilKey ELSE t.lastKey
<1> DEFINE e == enterNamespace(t, ns, Structure)
           F == {"curNamespace", "nsStarted", "lastKey", "lastSeq", "seqSeen", "nsTree",
                 "nsEntries", "nsChunks", "namespaces", "totalEntries", "totalChunks", "err"}
<1>1. DOMAIN t = F
  BY DEF TallyFields, Tally0
<1>2. CASE t.nsStarted /\ ns > t.curNamespace
  <2> DEFINE f == finishTally(t, Structure)
  <2>1. f = [t EXCEPT !.namespaces = f.namespaces]
    BY <1>1 DEF finishTally
  <2> HIDE DEF f
  <2>2. DOMAIN f = F /\ f.nsStarted = t.nsStarted /\ f.err = t.err
    BY <1>1, <2>1
  <2>3. e = [f EXCEPT !.curNamespace = ns, !.lastKey = NilKey, !.nsTree = EmptyTree,
                      !.nsEntries = 0, !.nsChunks = 0, !.seqSeen = FALSE]
    BY <1>2 DEF enterNamespace, f
  <2> HIDE DEF e
  <2> QED
    BY <1>1, <1>2, <2>2, <2>3 DEF e
<1>3. CASE ~(t.nsStarted /\ ns > t.curNamespace)
  <2>1. e = [t EXCEPT !.nsStarted = TRUE, !.curNamespace = ns]
    BY <1>3 DEF enterNamespace
  <2> HIDE DEF e
  <2> QED
    BY <1>1, <1>3, <2>1 DEF e
<1> QED
  BY <1>2, <1>3

EnteredKey(t, ns) ==
  IF t.nsStarted /\ ns > t.curNamespace THEN NilKey ELSE t.lastKey

Takes(t, c, u) ==
  /\ ~(t.nsStarted /\ c.ns < t.curNamespace)
  /\ Ascend(EnteredKey(t, c.ns), c.entries)
  /\ DOMAIN u = TallyFields /\ u.nsStarted = TRUE /\ u.curNamespace = c.ns
  /\ u.lastKey = IF Len(c.entries) = 0 THEN EnteredKey(t, c.ns)
                 ELSE c.entries[Len(c.entries)].key

\* What it says of a chunk that it takes without an error.
LEMMA TakeKeeps ==
  ASSUME NEW t, DOMAIN t = TallyFields, t.nsStarted \in BOOLEAN, t.err = "nil",
         NEW c, NEW u, u = VerifyChunk(t, c, Structure), u.err = "nil"
  PROVE  Takes(t, c, u)
<1> DEFINE e == enterNamespace(t, c.ns, Structure)
           F == {"curNamespace", "nsStarted", "lastKey", "lastSeq", "seqSeen", "nsTree",
                 "nsEntries", "nsChunks", "namespaces", "totalEntries", "totalChunks", "err"}
<1>1. DOMAIN t = F /\ TallyFields = F
  BY DEF TallyFields, Tally0
<1>2. ~(t.nsStarted /\ c.ns < t.curNamespace)
  <2>1. CASE t.nsStarted /\ c.ns < t.curNamespace
    <3>1. u = [t EXCEPT !.err = "ErrNamespaceOrder"]
      BY <2>1 DEF VerifyChunk
    <3> QED
      BY <1>1, <3>1
  <2> QED
    BY <2>1
<1>3. u = takeChunk(e, c, Structure)
  BY <1>2 DEF VerifyChunk
<1>4. /\ DOMAIN e = F /\ e.curNamespace = c.ns /\ e.err = "nil"
      /\ e.nsStarted = TRUE
      /\ e.lastKey = IF t.nsStarted /\ c.ns > t.curNamespace THEN NilKey ELSE t.lastKey
  <2>1. /\ DOMAIN e = TallyFields /\ e.curNamespace = c.ns /\ e.err = t.err
        /\ e.nsStarted = TRUE
        /\ e.lastKey = IF t.nsStarted /\ c.ns > t.curNamespace THEN NilKey ELSE t.lastKey
    BY EnterKeeps, Zenon
  <2> QED
    BY <1>1, <2>1, Zenon
<1> HIDE DEF e
<1>5. ChunkErr(e, c, Structure) = "nil"
  <2>1. CASE ChunkErr(e, c, Structure) # "nil"
    <3>1. u = [e EXCEPT !.err = ChunkErr(e, c, Structure)]
      BY <1>3, <2>1 DEF takeChunk
    <3> QED
      BY <1>4, <2>1, <3>1
  <2> QED
    BY <2>1
<1>6. Ascend(e.lastKey, c.entries)
  BY <1>5 DEF ChunkErr
<1>7. u = countChunk(e, c, Structure)
  BY <1>3, <1>5 DEF takeChunk
<1>8. /\ DOMAIN u = F /\ u.nsStarted = e.nsStarted /\ u.curNamespace = e.curNamespace
      /\ u.lastKey = IF Len(c.entries) = 0 THEN e.lastKey
                     ELSE c.entries[Len(c.entries)].key
  <2> DEFINE n    == Len(c.entries)
             tree == FoldLeft(LAMBDA s, x : Add(s, EntryDigest(c.ns, x.key, x.value)),
                              e.nsTree, c.entries)
  <2>1. u = [e EXCEPT !.lastSeq = c.seq, !.seqSeen = TRUE,
                      !.lastKey = IF n = 0 THEN @ ELSE c.entries[n].key,
                      !.nsTree = IF Structure >= Full THEN tree ELSE @,
                      !.nsEntries = @ + n, !.nsChunks = @ + 1,
                      !.totalEntries = @ + n, !.totalChunks = @ + 1]
    BY <1>7, Zenon DEF countChunk
  <2> HIDE DEF tree, n
  <2>2. /\ DOMAIN u = F /\ u.nsStarted = e.nsStarted /\ u.curNamespace = e.curNamespace
        /\ u.lastKey = IF n = 0 THEN e.lastKey ELSE c.entries[n].key
    BY <1>4, <2>1
  <2> QED
    BY <2>2 DEF n
<1>9. e.lastKey = EnteredKey(t, c.ns)
  BY <1>4 DEF EnteredKey
<1> QED
  BY <1>1, <1>2, <1>4, <1>6, <1>8, <1>9 DEF Takes

\* What is known of the places of typed chunks.
LEMMA PlacesAreTyped ==
  ASSUME NEW S, NEW cs \in Seq(S), \A k \in 1..Len(cs) : TypedChunk(cs[k])
  PROVE  /\ Len(cs) \in Nat
         /\ \A k \in 1..Len(cs) : cs[k].ns \in Nat
         /\ \A p \in Places(cs) :
              /\ p[1] \in 1..Len(cs) /\ p[2] \in 1..Len(cs[p[1]].entries)
              /\ PlacedItem(cs, p) \in Item
              /\ PlacedItem(cs, p).ns = cs[p[1]].ns
              /\ PlacedItem(cs, p).key = cs[p[1]].entries[p[2]].key
              /\ PlacedItem(cs, p).key \in Nat
<1>1. Len(cs) \in Nat
  BY LenProperties
<1>2. \A k \in 1..Len(cs) : cs[k].ns \in Nat /\ cs[k].ns \in Namespaces
                            /\ cs[k].entries \in Seq(Entries)
  BY NamespacesAssumption DEF TypedChunk
<1>3. ASSUME NEW p \in Places(cs)
      PROVE  /\ p[1] \in 1..Len(cs) /\ p[2] \in 1..Len(cs[p[1]].entries)
             /\ PlacedItem(cs, p) \in Item
             /\ PlacedItem(cs, p).ns = cs[p[1]].ns
             /\ PlacedItem(cs, p).key = cs[p[1]].entries[p[2]].key
             /\ PlacedItem(cs, p).key \in Nat
  <2>1. p[1] \in 1..Len(cs) /\ p[2] \in 1..Len(cs[p[1]].entries)
    BY DEF Places
  <2>2. cs[p[1]].entries[p[2]] \in Entries
    BY <1>2, <2>1, ElementOfSeq
  <2> QED
    BY <1>2, <2>1, <2>2, KeysAssumption DEF PlacedItem, ItemAt, Item, Entries
<1> QED
  BY <1>1, <1>2, <1>3

\* A chunk that Verify takes keeps what its tally knows.
LEMMA TallyStep ==
  ASSUME NEW S, NEW cs \in Seq(S), \A j \in 1..Len(cs) : TypedChunk(cs[j]),
         NEW k \in 0..(Len(cs) - 1), NEW t, TallyKeeps(cs, t, k), t.err = "nil",
         NEW u, u = VerifyChunk(t, cs[k + 1], Structure), u.err = "nil"
  PROVE  TallyKeeps(cs, u, k + 1)
<1> DEFINE c == cs[k + 1]
           n == Len(c.entries)
           key(p) == PlacedItem(cs, p).key
<1>1. /\ Len(cs) \in Nat /\ k \in Nat /\ k + 1 \in 1..Len(cs) /\ k + 1 > 0
      /\ \A j \in 1..(k + 1) : j \in 1..Len(cs) /\ (j \in 1..k \/ j = k + 1)
      /\ \A j \in 1..Len(cs) : j <= k + 1 => j \in 1..k \/ j = k + 1
      /\ \A j \in 1..Len(cs) : j <= k => j \in 1..k /\ k > 0
  BY PlacesAreTyped
<1>2. /\ \A j \in 1..Len(cs) : cs[j].ns \in Nat
      /\ \A p \in Places(cs) :
           /\ p[1] \in 1..Len(cs) /\ p[2] \in 1..Len(cs[p[1]].entries)
           /\ PlacedItem(cs, p).ns = cs[p[1]].ns
           /\ key(p) = cs[p[1]].entries[p[2]].key
           /\ key(p) \in Nat
  BY PlacesAreTyped
<1>3. Takes(t, c, u)
  <2>1. DOMAIN t = TallyFields /\ t.nsStarted \in BOOLEAN
    BY DEF TallyKeeps
  <2>2. u = VerifyChunk(t, c, Structure)
    OBVIOUS
  <2> HIDE DEF c
  <2> QED
    BY <2>1, <2>2, TakeKeeps
<1> DEFINE lastKey == EnteredKey(t, c.ns)
<1> HIDE DEF c, n, key
<1>4. /\ ~(t.nsStarted /\ c.ns < t.curNamespace)
      /\ Ascend(lastKey, c.entries)
      /\ DOMAIN u = TallyFields /\ u.nsStarted = TRUE /\ u.curNamespace = c.ns
      /\ u.lastKey = IF Len(c.entries) = 0 THEN lastKey
                     ELSE c.entries[Len(c.entries)].key
  BY <1>3 DEF Takes
<1>5. lastKey = IF t.nsStarted /\ c.ns > t.curNamespace THEN NilKey ELSE t.lastKey
  BY DEF EnteredKey
<1> HIDE DEF lastKey
<1>6. c.ns \in Namespaces /\ c.ns \in Nat /\ c.entries \in Seq(Entries)
  BY <1>1, <1>2 DEF TypedChunk, c
<1>7. lastKey \in Keys \cup {NilKey} /\ (lastKey # NilKey => lastKey \in Nat)
  BY <1>5, KeysAssumption DEF TallyKeeps
<1>8. /\ \A a, b \in 1..n : a < b => c.entries[a].key < c.entries[b].key
      /\ lastKey # NilKey => \A a \in 1..n : lastKey < c.entries[a].key
  BY <1>4, <1>6, <1>7, AscendOrders DEF n
<1>9. n \in Nat /\ \A a \in 1..n : c.entries[a].key \in Keys /\ c.entries[a].key \in Nat
  <2>1. \A a \in 1..n : c.entries[a] \in Entries
    BY <1>6, ElementOfSeq DEF n
  <2> QED
    BY <1>6, <2>1, LenProperties, KeysAssumption DEF Entries, n
<1>10. k > 0 => t.nsStarted = TRUE /\ t.curNamespace \in Nat /\ t.curNamespace <= c.ns
  <2> SUFFICES ASSUME k > 0
               PROVE  t.nsStarted = TRUE /\ t.curNamespace \in Nat /\ t.curNamespace <= c.ns
    OBVIOUS
  <2>1. t.nsStarted = TRUE /\ t.curNamespace \in Namespaces
    BY DEF TallyKeeps
  <2>2. ~(c.ns < t.curNamespace)
    BY <1>4, <2>1
  <2>3. t.curNamespace \in Nat
    BY <2>1, NamespacesAssumption
  <2> QED
    BY <1>6, <2>1, <2>2, <2>3
<1>11. \A j \in 1..k : cs[j].ns <= c.ns
  <2>1. ASSUME NEW j \in 1..k PROVE cs[j].ns <= c.ns
    <3>1. k > 0 /\ cs[j].ns <= t.curNamespace /\ cs[j].ns \in Nat
      BY <1>1, <1>2 DEF TallyKeeps
    <3> QED
      BY <1>6, <1>10, <3>1
  <2> QED
    BY <2>1
<1>12. ASSUME NEW p \in Places(cs), p[1] <= k, cs[p[1]].ns = c.ns
       PROVE  lastKey # NilKey /\ key(p) <= lastKey
  <2>1. k > 0 /\ p[1] \in 1..k
    BY <1>1, <1>2, <1>12
  <2>2. cs[p[1]].ns <= t.curNamespace
    BY <2>1 DEF TallyKeeps
  <2>3. c.ns = t.curNamespace /\ lastKey = t.lastKey
    BY <1>5, <1>6, <1>10, <1>12, <2>1, <2>2
  <2> QED
    BY <1>12, <2>3 DEF TallyKeeps, key
<1>13. u.lastKey \in Keys \cup {NilKey}
  BY <1>4, <1>7, <1>9 DEF n
<1>14. \A j \in 1..(k + 1) : cs[j].ns <= u.curNamespace
  <2>1. c.ns <= c.ns
    BY <1>6
  <2> QED
    BY <1>1, <1>4, <1>11, <2>1 DEF c
<1>15. ASSUME NEW p \in Places(cs), p[1] <= k + 1, cs[p[1]].ns = c.ns
       PROVE  u.lastKey # NilKey /\ key(p) <= u.lastKey
  <2>1. CASE p[1] \in 1..k
    <3>1. lastKey # NilKey /\ key(p) <= lastKey /\ key(p) \in Nat
      BY <1>1, <1>2, <1>12, <1>15, <2>1
    <3>2. CASE n = 0
      BY <1>4, <3>1, <3>2 DEF n
    <3>3. CASE n # 0
      <4>1. n \in 1..n /\ u.lastKey = c.entries[n].key
        BY <1>4, <1>9, <3>3 DEF n
      <4>2. lastKey < u.lastKey /\ u.lastKey \in Nat
        BY <1>8, <1>9, <3>1, <4>1
      <4>3. u.lastKey # NilKey
        BY <4>2 DEF NilKey
      <4> QED
        BY <1>7, <3>1, <4>2, <4>3
    <3> QED
      BY <3>2, <3>3
  <2>2. CASE p[1] = k + 1
    <3>1. p[2] \in 1..n /\ key(p) = c.entries[p[2]].key
      BY <1>2, <2>2 DEF c, n
    <3>2. n \in 1..n /\ n # 0 /\ (p[2] < n \/ p[2] = n)
      BY <1>9, <3>1
    <3>3. u.lastKey = c.entries[n].key /\ u.lastKey \in Nat /\ key(p) \in Nat
      BY <1>4, <1>9, <3>1, <3>2 DEF n
    <3>4. key(p) <= u.lastKey
      <4>1. CASE p[2] < n
        <5>1. key(p) < u.lastKey
          BY <1>8, <3>1, <3>2, <3>3, <4>1
        <5> QED
          BY <3>3, <5>1
      <4>2. CASE p[2] = n
        <5>1. key(p) = u.lastKey
          BY <3>1, <3>3, <4>2
        <5> QED
          BY <3>3, <5>1
      <4> QED
        BY <3>2, <4>1, <4>2
    <3> QED
      BY <3>3, <3>4 DEF NilKey
  <2> QED
    BY <1>1, <1>2, <1>15, <2>1, <2>2
<1>16. ASSUME NEW p \in Places(cs), NEW q \in Places(cs), PlaceBefore(p, q), q[1] <= k + 1
       PROVE  Before(PlacedItem(cs, p), PlacedItem(cs, q))
  <2>1. CASE q[1] \in 1..k
    BY <1>1, <1>16, <2>1 DEF TallyKeeps
  <2>2. CASE q[1] = k + 1 /\ p[1] = k + 1
    <3>1. p[2] < q[2] /\ p[2] \in 1..n /\ q[2] \in 1..n
      BY <1>1, <1>2, <1>16, <2>2 DEF PlaceBefore, c, n
    <3>2. c.entries[p[2]].key < c.entries[q[2]].key
      BY <1>8, <3>1
    <3>3. key(p) < key(q)
      BY <1>2, <2>2, <3>2 DEF c
    <3> QED
      BY <1>2, <2>2, <3>3 DEF Before, key
  <2>3. CASE q[1] = k + 1 /\ p[1] # k + 1
    <3>1. p[1] \in 1..k /\ p[1] <= k
      BY <1>1, <1>2, <1>16, <2>3 DEF PlaceBefore
    <3>2. cs[p[1]].ns <= c.ns /\ cs[p[1]].ns \in Nat /\ cs[q[1]].ns = c.ns
      BY <1>2, <1>11, <2>3, <3>1 DEF c
    <3>3. CASE cs[p[1]].ns = c.ns
      <4>1. lastKey # NilKey /\ key(p) <= lastKey
        BY <1>12, <3>1, <3>3
      <4>2. q[2] \in 1..n /\ key(q) = c.entries[q[2]].key
        BY <1>2, <2>3 DEF c, n
      <4>3. lastKey < key(q)
        BY <1>8, <4>1, <4>2
      <4>4. key(p) < key(q)
        BY <1>2, <1>7, <4>1, <4>3
      <4> QED
        BY <1>2, <3>2, <3>3, <4>4 DEF Before, key
    <3>4. CASE cs[p[1]].ns # c.ns
      <4>1. cs[p[1]].ns < cs[q[1]].ns
        BY <1>6, <3>2, <3>4
      <4> QED
        BY <1>2, <4>1 DEF Before
    <3> QED
      BY <3>3, <3>4
  <2> QED
    BY <1>1, <1>2, <1>16, <2>1, <2>2, <2>3
<1> QED
  BY <1>1, <1>4, <1>6, <1>13, <1>14, <1>15, <1>16 DEF TallyKeeps, key

\* The tally of Verify at the first level, where its loop ends.
LastTally(cs) == FoldLeft(LAMBDA t, c : VerifyChunk(t, c, Structure), Tally0, cs)

\* Before the first chunk it knows nothing.
LEMMA TallyStart ==
  ASSUME NEW S, NEW cs \in Seq(S), \A j \in 1..Len(cs) : TypedChunk(cs[j])
  PROVE  TallyKeeps(cs, Tally0, 0) /\ Tally0.err = "nil"
<1>1. /\ DOMAIN Tally0 = TallyFields /\ Tally0.nsStarted = FALSE
      /\ Tally0.lastKey = NilKey /\ Tally0.err = "nil"
  BY DEF Tally0, TallyFields
<1>2. \A p \in Places(cs) : ~(p[1] <= 0)
  BY PlacesAreTyped
<1>3. 1..0 = {} /\ ~(0 > 0)
  OBVIOUS
<1> QED
  BY <1>1, <1>2, <1>3 DEF TallyKeeps

\* The error of Verify is that of its tally, or of its Reader, if either has one.
LEMMA OrderedReads ==
  ASSUME NEW file \in Inputs, Ordered(file)
  PROVE  /\ OpenErr(file) = "nil" /\ ReadAll(file).err = "EOF"
         /\ LastTally(ReadAll(file).chunks).err = "nil"
<1> DEFINE read == ReadAll(file)
           t == LastTally(read.chunks)
<1>1. VerifyErr(read, t, Structure) = "nil"
  <2>1. Verify(file, Structure) = VerifyTally(read, t, Structure)
    BY Zenon DEF Verify, VerifyRead, LastTally
  <2> HIDE DEF read, t
  <2>2. VerifyTally(read, t, Structure).err = VerifyErr(read, t, Structure)
    BY DEF VerifyTally, Verdict
  <2> QED
    BY <2>1, <2>2 DEF Ordered
<1> HIDE DEF t
<1>2. t.err = "nil" /\ read.err \in {"EOF", "nil"}
  <2> HIDE DEF read
  <2> QED
    BY <1>1 DEF VerifyErr
<1>3. OpenErr(file) = "nil"
  <2>1. ASSUME OpenErr(file) # "nil" PROVE FALSE
    <3>1. read.err = OpenErr(file)
      BY <2>1 DEF ReadAll
    <3> QED
      BY <1>2, <2>1, <3>1 DEF OpenErr
  <2> QED
    BY <2>1
<1>4. read.err # "nil"
  <2>1. file \in Seq(Records(file))
    BY FileIsSeq DEF Records
  <2>2. PICK R : ReadsFile(file, R) /\ read.err = R[Len(file)].err
    BY <1>3, <2>1, ReadAllRuns
  <2>3. Len(file) \in Nat /\ Len(file) \in 0..Len(file) /\ Len(file) - Len(file) = 0
    BY <2>1, LenProperties
  <2>4. StillReading(R[Len(file)], Records(file), 0)
    BY <1>3, <2>1, <2>2, <2>3, ReadShrinks
  <2>5. ASSUME R[Len(file)].err = "nil" PROVE FALSE
    <3>1. /\ R[Len(file)].rd.r \in Seq(Records(file))
          /\ Len(R[Len(file)].rd.r) < 0
      BY <2>4, <2>5 DEF StillReading, IsReader
    <3>2. Len(R[Len(file)].rd.r) \in Nat
      BY <3>1, LenProperties
    <3> QED
      BY <3>1, <3>2
  <2> QED
    BY <2>2, <2>5
<1> QED
  BY <1>2, <1>3, <1>4 DEF t

InAscent(cs) ==
  \A p, q \in Places(cs) : PlaceBefore(p, q) => Before(PlacedItem(cs, p), PlacedItem(cs, q))

\* Where the tally has seen no error the entries ascend.
LEMMA TallyOrders ==
  ASSUME NEW S, NEW cs \in Seq(S), \A j \in 1..Len(cs) : TypedChunk(cs[j]),
         LastTally(cs).err = "nil"
  PROVE  InAscent(cs)
<1> DEFINE N == Len(cs)
<1>1. N \in Nat /\ DOMAIN cs = 1..N
  BY LenProperties
<1>2. LastTally(cs) = TallyFold!Fold(Tally0, cs)
  BY DEF LastTally, FoldLeft, MapThenFoldSet, Max,
         TallyFold!Fold, TallyFold!FoldLeft, TallyFold!MapThenFoldSet, TallyFold!Max
<1>3. TallyFold!Fold(Tally0, cs).err = "nil"
  BY <1>2
<1>4. PICK r : /\ r[0] = Tally0
               /\ \A i \in 1..N : r[i] = VerifyChunk(r[i - 1], cs[i], Structure)
               /\ r[N].err = "nil"
  BY <1>1, <1>3, TallyFold!FoldRuns DEF TallyFold!FoldRun, TallyFold!Runs
<1>5. \A k \in 0..N : r[k].err = "nil"
  <2> DEFINE T == {d \in 0..N : r[N - d].err = "nil"}
  <2>1. 0 \in T
    BY <1>1, <1>4
  <2>2. ASSUME NEW d \in 0..(N - 1), d \in T PROVE d + 1 \in T
    <3>1. /\ N - d \in 1..N /\ (N - d) - 1 = N - (d + 1) /\ d + 1 \in 0..N
      BY <1>1
    <3>2. r[N - d] = VerifyChunk(r[N - (d + 1)], cs[N - d], Structure)
      BY <1>4, <3>1
    <3>3. r[N - (d + 1)].err = "nil"
      BY <2>2, <3>2 DEF VerifyChunk
    <3> QED
      BY <3>1, <3>3
  <2>3. \A d \in 0..N : d \in T
    <3> HIDE DEF T, N
    <3> QED
      BY <1>1, <2>1, <2>2, BoundedInduct
  <2>4. \A k \in 0..N : N - k \in 0..N /\ N - (N - k) = k
    BY <1>1
  <2> QED
    BY <2>3, <2>4
<1> DEFINE T == {k \in 0..N : TallyKeeps(cs, r[k], k)}
<1>6. 0 \in T
  BY <1>1, <1>4, TallyStart
<1>7. ASSUME NEW k \in 0..(N - 1), k \in T PROVE k + 1 \in T
  <2>1. k \in 0..N /\ k + 1 \in 0..N /\ k + 1 \in 1..N /\ (k + 1) - 1 = k
    BY <1>1
  <2>2. r[k + 1] = VerifyChunk(r[k], cs[k + 1], Structure)
    BY <1>4, <2>1
  <2>3. r[k].err = "nil" /\ r[k + 1].err = "nil"
    BY <1>5, <2>1
  <2> QED
    BY <1>7, <2>1, <2>2, <2>3, TallyStep
<1>8. TallyKeeps(cs, r[N], N)
  <2>1. N \in 0..N
    BY <1>1
  <2>2. N \in T
    <3> HIDE DEF T, N
    <3> QED
      BY <1>1, <1>6, <1>7, <2>1, BoundedInduct
  <2> QED
    BY <2>2
<1>9. \A q \in Places(cs) : q[1] <= N
  BY <1>1, PlacesAreTyped
<1> QED
  BY <1>8, <1>9 DEF TallyKeeps, InAscent

\* A file that passes Verify at its first level is read to its end, and its entries
\* ascend strictly by namespace and key (verify.go:74-129).
THEOREM OrderedFile ==
  ASSUME NEW file \in Inputs, Ordered(file), NEW cs, cs = ReadAll(file).chunks
  PROVE  (\E rds : Reading(file, cs, rds)) /\ InAscent(cs)
<1>1. /\ OpenErr(file) = "nil" /\ ReadAll(file).err = "EOF"
      /\ LastTally(cs).err = "nil"
  BY OrderedReads
<1>2. PICK rds : Reading(file, cs, rds)
  BY <1>1, FileReading
<1>3. cs \in Seq(Records(file)) /\ \A j \in 1..Len(cs) : TypedChunk(cs[j])
  BY <1>2 DEF Reading, Reads
<1>4. InAscent(cs)
  BY <1>1, <1>3, TallyOrders
<1> QED
  BY <1>2, <1>4

-----------------------------------------------------------------------------
(***************************************************************************)
(* An entry cursor on such a file goes from wanted entry to wanted entry.  *)
(***************************************************************************)
Wants(want, c) == c.ns \in want /\ c.entries # <<>>

Over(c) == DOMAIN c = CursorFields /\ c.ok = FALSE /\ c.err = "nil"

Buffers(cs, rds, want, c, m) ==
  /\ DOMAIN c = CursorFields /\ c.ok = TRUE /\ c.err = "nil"
  /\ c.sr = rds[m] /\ c.ns = cs[m].ns /\ c.buf = cs[m].entries
  /\ Wants(want, cs[m])

\* After the chunks up to the k-th, the cursor has found the next wanted one, or
\* there is none.
Moved(cs, rds, want, k, c) ==
  \/ \E m \in (k + 1)..Len(cs) : /\ Buffers(cs, rds, want, c, m)
                                 /\ \A j \in (k + 1)..(m - 1) : ~Wants(want, cs[j])
  \/ Over(c) /\ \A j \in (k + 1)..Len(cs) : ~Wants(want, cs[j])

\* It is still looking for one, after i turns.
Looking(cs, rds, want, k, i, c) ==
  /\ DOMAIN c = CursorFields /\ c.ok = TRUE /\ c.err = "nil" /\ c.buf = <<>>
  /\ k + i <= Len(cs) /\ c.sr = rds[k + i]
  /\ Len(rds[k + i].r) <= Len(rds[k].r) - i
  /\ \A j \in (k + 1)..(k + i) : ~Wants(want, cs[j])

\* What readChunk makes of a cursor that looks for a chunk.
LEMMA ReadChunkReads ==
  ASSUME NEW c, DOMAIN c = CursorFields, c.ok = TRUE, c.err = "nil", c.buf = <<>>, NEW want
  PROVE  LET d == readChunk(c, want)
             n == Next(c.sr)
         IN  /\ n.err = "EOF" => Over(d)
             /\ n.err = "nil" =>
                  /\ DOMAIN d = CursorFields /\ d.ok = TRUE /\ d.err = "nil" /\ d.sr = n.rd
                  /\ Wants(want, n.chunk[1]) => d.ns = n.chunk[1].ns /\ d.buf = n.chunk[1].entries
                  /\ ~Wants(want, n.chunk[1]) => d.buf = <<>>
<1> DEFINE d == readChunk(c, want)
           n == Next(c.sr)
<1>1. CASE n.err = "EOF"
  <2>1. d = [c EXCEPT !.sr = n.rd, !.ok = FALSE, !.err = "nil"]
    BY <1>1 DEF readChunk
  <2> HIDE DEF d, n
  <2>2. Over(d)
    BY <2>1 DEF Over, CursorFields
  <2> QED
    BY <1>1, <2>2 DEF d, n
<1>2. CASE n.err = "nil"
  <2>1. d = IF n.chunk[1].ns \in want /\ n.chunk[1].entries # <<>>
              THEN [c EXCEPT !.sr = n.rd, !.ns = n.chunk[1].ns, !.buf = n.chunk[1].entries]
            ELSE [c EXCEPT !.sr = n.rd]
    BY <1>2 DEF readChunk
  <2> HIDE DEF d, n
  <2>2. /\ DOMAIN d = CursorFields /\ d.ok = TRUE /\ d.err = "nil" /\ d.sr = n.rd
        /\ Wants(want, n.chunk[1]) => d.ns = n.chunk[1].ns /\ d.buf = n.chunk[1].entries
        /\ ~Wants(want, n.chunk[1]) => d.buf = <<>>
    BY <2>1 DEF Wants, CursorFields
  <2> QED
    BY <1>2, <2>2 DEF d, n
<1>3. CASE n.err \notin {"EOF", "nil"}
  BY <1>3
<1> QED
  BY <1>1, <1>2, <1>3

\* One turn of the loop.
LEMMA LookingMoves ==
  ASSUME NEW file, NEW cs, NEW rds, Reading(file, cs, rds), NEW want,
         NEW k \in 0..Len(cs), NEW i \in Nat, NEW c, Looking(cs, rds, want, k, i, c)
  PROVE  LET d == readChunk(c, want)
         IN  Looking(cs, rds, want, k, i + 1, d) \/ Moved(cs, rds, want, k, d)
<1> DEFINE d == readChunk(c, want)
           n == Next(c.sr)
           N == Len(cs)
<1>1. N \in Nat /\ k \in Nat
  BY LenProperties DEF Reading, Reads
<1>2. /\ DOMAIN c = CursorFields /\ c.ok = TRUE /\ c.err = "nil" /\ c.buf = <<>>
      /\ k + i <= N /\ c.sr = rds[k + i]
      /\ Len(rds[k + i].r) <= Len(rds[k].r) - i
      /\ \A j \in (k + 1)..(k + i) : ~Wants(want, cs[j])
  BY DEF Looking
<1>3. /\ n.err = "EOF" => Over(d)
      /\ n.err = "nil" =>
           /\ DOMAIN d = CursorFields /\ d.ok = TRUE /\ d.err = "nil" /\ d.sr = n.rd
           /\ Wants(want, n.chunk[1]) => d.ns = n.chunk[1].ns /\ d.buf = n.chunk[1].entries
           /\ ~Wants(want, n.chunk[1]) => d.buf = <<>>
  BY <1>2, ReadChunkReads
<1> HIDE DEF d, n
<1>4. CASE k + i = N
  <2>1. n.err = "EOF"
    BY <1>2, <1>4 DEF Reading, n
  <2>2. \A j \in (k + 1)..N : ~Wants(want, cs[j])
    BY <1>2, <1>4
  <2> QED
    BY <1>3, <2>1, <2>2 DEF Moved, d
<1>5. CASE k + i < N
  <2> DEFINE m == k + i + 1
  <2>1. /\ m \in 1..N /\ m - 1 = k + i /\ m \in (k + 1)..N /\ m \in 0..N /\ k + i \in 0..N
        /\ k + (i + 1) = m
        /\ \A j \in (k + 1)..m : j \in (k + 1)..(k + i) \/ j = m
    BY <1>1, <1>5
  <2>2. Returns(n, rds[m], cs[m])
    <3>1. Returns(Next(rds[m - 1]), rds[m], cs[m])
      BY <2>1 DEF Reading, Reads
    <3> QED
      BY <1>2, <2>1, <3>1 DEF n
  <2>3. n.err = "nil" /\ n.rd = rds[m] /\ n.chunk[1] = cs[m]
    <3>1. n.chunk = <<cs[m]>>
      BY <2>2 DEF Returns
    <3> QED
      BY <2>2, <3>1 DEF Returns
  <2> HIDE DEF m
  <2>4. CASE Wants(want, cs[m])
    <3>1. Buffers(cs, rds, want, d, m)
      BY <1>3, <2>3, <2>4 DEF Buffers
    <3>2. \A j \in (k + 1)..(m - 1) : ~Wants(want, cs[j])
      BY <1>2, <2>1
    <3> QED
      BY <2>1, <3>1, <3>2 DEF Moved, d
  <2>5. CASE ~Wants(want, cs[m])
    <3>1. /\ DOMAIN d = CursorFields /\ d.ok = TRUE /\ d.err = "nil" /\ d.sr = rds[m]
          /\ d.buf = <<>>
      BY <1>3, <2>3, <2>5
    <3>2. \A j \in (k + 1)..m : ~Wants(want, cs[j])
      BY <1>2, <2>1, <2>5
    <3>3. Len(rds[m].r) <= Len(rds[k].r) - (i + 1)
      <4>1. /\ IsReader(rds[k], Records(file)) /\ IsReader(rds[k + i], Records(file))
            /\ IsReader(rds[m], Records(file))
        BY <2>1 DEF Reading, Reads
      <4>2. Len(rds[m].r) < Len(rds[k + i].r)
        <5>1. Next(rds[k + i]).err = "nil" /\ Next(rds[k + i]).rd = rds[m]
          BY <1>2, <2>3 DEF n
        <5> QED
          BY <4>1, <5>1, NextTakes
      <4>3. Len(rds[k].r) \in Nat /\ Len(rds[k + i].r) \in Nat /\ Len(rds[m].r) \in Nat
        BY <4>1, LenProperties DEF IsReader
      <4>4. \A x, y, z \in Nat : y <= x - i /\ z < y => z <= x - (i + 1)
        OBVIOUS
      <4> QED
        BY <1>2, <4>2, <4>3, <4>4, Zenon
    <3>4. m <= N
      BY <2>1
    <3>5. Looking(cs, rds, want, k, i + 1, d)
      BY <2>1, <3>1, <3>2, <3>3, <3>4 DEF Looking
    <3> QED
      BY <3>5 DEF d
  <2> QED
    BY <2>4, <2>5
<1> QED
  BY <1>1, <1>2, <1>4, <1>5

\* The whole loop of advance.
LEMMA RefillMoves ==
  ASSUME NEW file, NEW cs, NEW rds, Reading(file, cs, rds), NEW want,
         NEW k \in 0..Len(cs), NEW c, DOMAIN c = CursorFields, c.err = "nil",
         c.buf = <<>>, c.sr = rds[k]
  PROVE  Moved(cs, rds, want, k, refill(c, want))
<1> DEFINE b == [c EXCEPT !.ok = TRUE]
           N == Len(c.sr.r) + 1
           turns == [turn \in 1..N |-> want]
<1>1. IsReader(rds[k], Records(file)) /\ Len(rds[k].r) \in Nat /\ Len(cs) \in Nat
  BY LenProperties DEF Reading, Reads, IsReader
<1>2. N \in Nat /\ N = Len(rds[k].r) + 1
  BY <1>1
<1>3. DOMAIN turns = 1..N /\ \A i \in 1..N : turns[i] = want
  OBVIOUS
<1>4. \A x, y : FoldLeft(readChunk, x, y) = TurnFold!Fold(x, y)
  BY DEF FoldLeft, MapThenFoldSet, Max,
         TurnFold!Fold, TurnFold!FoldLeft, TurnFold!MapThenFoldSet, TurnFold!Max
<1>5. refill(c, want) = TurnFold!Fold(b, turns)
  BY <1>4 DEF refill
<1> HIDE DEF N, turns, b
<1>6. PICK q : /\ q[0] = b
               /\ \A i \in 1..N : q[i] = readChunk(q[i - 1], turns[i])
               /\ TurnFold!Fold(b, turns) = q[N]
  <2>1. TurnFold!FoldRun(b, turns, N)
    BY <1>2, <1>3, TurnFold!FoldRuns, Zenon
  <2> QED
    BY <2>1 DEF TurnFold!FoldRun, TurnFold!Runs
<1> DEFINE T == {i \in 0..N : Looking(cs, rds, want, k, i, q[i]) \/ Moved(cs, rds, want, k, q[i])}
<1>7. 0 \in T
  <2>1. /\ DOMAIN b = CursorFields /\ b.ok = TRUE /\ b.err = "nil" /\ b.buf = <<>>
        /\ b.sr = rds[k]
    BY DEF CursorFields, b
  <2>2. /\ k + 0 = k /\ k + 0 <= Len(cs) /\ (k + 1)..(k + 0) = {}
        /\ Len(rds[k].r) <= Len(rds[k].r) - 0
    BY <1>1
  <2>3. Looking(cs, rds, want, k, 0, b)
    BY <2>1, <2>2 DEF Looking
  <2> QED
    BY <1>2, <1>6, <2>3
<1>8. ASSUME NEW i \in 0..(N - 1), i \in T PROVE i + 1 \in T
  <2>1. i + 1 \in 1..N /\ (i + 1) - 1 = i /\ i + 1 \in 0..N /\ i \in Nat
    BY <1>2
  <2>2. q[i + 1] = readChunk(q[i], want)
    BY <1>3, <1>6, <2>1
  <2>3. CASE Looking(cs, rds, want, k, i, q[i])
    BY <2>1, <2>2, <2>3, LookingMoves
  <2>4. CASE Moved(cs, rds, want, k, q[i])
    <3>1. q[i].ok = FALSE \/ q[i].buf # <<>>
      BY <2>4 DEF Moved, Over, Buffers, Wants
    <3>2. q[i + 1] = q[i]
      BY <2>2, <3>1 DEF readChunk
    <3> QED
      BY <2>1, <2>4, <3>2
  <2> QED
    BY <1>8, <2>3, <2>4
<1>9. N \in T
  <2>1. N \in 0..N
    BY <1>2
  <2> HIDE DEF T
  <2> QED
    BY <1>2, <1>7, <1>8, <2>1, BoundedInduct
<1>10. ~Looking(cs, rds, want, k, N, q[N])
  <2> SUFFICES ASSUME Looking(cs, rds, want, k, N, q[N]) PROVE FALSE
    OBVIOUS
  <2>1. Len(rds[k + N].r) <= Len(rds[k].r) - N /\ k + N <= Len(cs)
    BY DEF Looking
  <2>2. k + N \in 0..Len(cs)
    BY <1>1, <1>2, <2>1
  <2>3. Len(rds[k + N].r) \in Nat
    BY <2>2, LenProperties DEF Reading, Reads, IsReader
  <2>4. \A x, y \in Nat : ~(y <= x - (x + 1))
    OBVIOUS
  <2>5. Len(rds[k + N].r) <= Len(rds[k].r) - (Len(rds[k].r) + 1)
    BY <1>2, <2>1
  <2> QED
    BY <1>1, <2>3, <2>4, <2>5, Zenon
<1> QED
  BY <1>5, <1>6, <1>9, <1>10

\* The cursor's item is the entry at p, what follows it in its chunk is buffered.
Stands(cs, rds, want, c, p) ==
  /\ DOMAIN c = CursorFields /\ c.ok = TRUE /\ c.err = "nil"
  /\ p \in Places(cs) /\ cs[p[1]].ns \in want
  /\ c.sr = rds[p[1]] /\ c.ns = cs[p[1]].ns
  /\ c.cur = PlacedItem(cs, p)
  /\ c.buf \in Seq(Entries)
  /\ Len(c.buf) = Len(cs[p[1]].entries) - p[2]
  /\ \A i \in 1..Len(c.buf) : c.buf[i] = cs[p[1]].entries[p[2] + i]

\* What advance does with a cursor that has found a buffered entry.
TakeItem(f) ==
  IF ~f.ok THEN f
  ELSE [f EXCEPT !.cur = [ns |-> f.ns, key |-> f.buf[1].key, value |-> f.buf[1].value],
                 !.buf = Tail(@)]

\* What it makes of one that has.
LEMMA TakenItem ==
  ASSUME NEW f, DOMAIN f = CursorFields, f.ok = TRUE
  PROVE  LET d == TakeItem(f)
         IN  /\ DOMAIN d = CursorFields /\ d.ok = TRUE /\ d.err = f.err /\ d.sr = f.sr
             /\ d.ns = f.ns /\ d.buf = Tail(f.buf)
             /\ d.cur = [ns |-> f.ns, key |-> f.buf[1].key, value |-> f.buf[1].value]
<1> DEFINE d == TakeItem(f)
<1>1. d = [f EXCEPT !.cur = [ns |-> f.ns, key |-> f.buf[1].key, value |-> f.buf[1].value],
                    !.buf = Tail(@)]
  BY DEF TakeItem
<1> HIDE DEF d
<1>2. /\ DOMAIN d = CursorFields /\ d.ok = TRUE /\ d.err = f.err /\ d.sr = f.sr
      /\ d.ns = f.ns /\ d.buf = Tail(f.buf)
      /\ d.cur = [ns |-> f.ns, key |-> f.buf[1].key, value |-> f.buf[1].value]
  BY <1>1 DEF CursorFields
<1> QED
  BY <1>2 DEF d

\* From a chunk it has just buffered it takes the first entry.
LEMMA MovedStands ==
  ASSUME NEW file, NEW cs, NEW rds, Reading(file, cs, rds), NEW want,
         NEW k \in 0..Len(cs), NEW f, Moved(cs, rds, want, k, f)
  PROVE  LET d == TakeItem(f)
         IN  \/ \E q \in Places(cs) :
                  /\ Stands(cs, rds, want, d, q) /\ q[1] > k
                  /\ \A r \in Places(cs) :
                       cs[r[1]].ns \in want /\ PlaceBefore(r, q) => r[1] <= k
             \/ /\ Over(d)
                /\ \A r \in Places(cs) : cs[r[1]].ns \in want => r[1] <= k
<1> DEFINE d == TakeItem(f)
           N == Len(cs)
<1>1. /\ N \in Nat /\ k \in Nat
      /\ \A j \in 1..N : cs[j].entries \in Seq(Entries) /\ Len(cs[j].entries) \in Nat
      /\ \A r \in Places(cs) : r[1] \in 1..N /\ r[2] \in 1..Len(cs[r[1]].entries)
  BY LenProperties DEF Reading, Reads, TypedChunk, Places
<1>2. ASSUME NEW r \in Places(cs) PROVE cs[r[1]].entries # <<>>
  BY <1>1, EmptySeq
<1>3. CASE Over(f) /\ \A j \in (k + 1)..N : ~Wants(want, cs[j])
  <2>1. d = f
    BY <1>3 DEF TakeItem, Over
  <2>2. ASSUME NEW r \in Places(cs), cs[r[1]].ns \in want PROVE r[1] <= k
    <3>1. Wants(want, cs[r[1]])
      BY <1>2, <2>2 DEF Wants
    <3> QED
      BY <1>1, <1>3, <3>1
  <2> QED
    BY <1>3, <2>1, <2>2
<1>4. CASE \E m \in (k + 1)..N : /\ Buffers(cs, rds, want, f, m)
                                 /\ \A j \in (k + 1)..(m - 1) : ~Wants(want, cs[j])
  <2>1. PICK m \in (k + 1)..N : /\ Buffers(cs, rds, want, f, m)
                                /\ \A j \in (k + 1)..(m - 1) : ~Wants(want, cs[j])
    BY <1>4
  <2> DEFINE q == <<m, 1>>
             es == cs[m].entries
  <2>2. /\ DOMAIN f = CursorFields /\ f.ok = TRUE /\ f.err = "nil"
        /\ f.sr = rds[m] /\ f.ns = cs[m].ns /\ f.buf = es
        /\ cs[m].ns \in want /\ es # <<>>
    BY <2>1 DEF Buffers, Wants
  <2>3. m \in 1..N /\ m > k /\ es \in Seq(Entries) /\ Len(es) \in Nat
    BY <1>1
  <2>4. Len(es) # 0 /\ 1 \in 1..Len(es)
    BY <2>2, <2>3, EmptySeq
  <2>5. q \in Places(cs) /\ q[1] = m /\ q[2] = 1
    BY <2>3, <2>4 DEF Places
  <2>6. /\ Tail(es) \in Seq(Entries) /\ Len(Tail(es)) = Len(es) - 1
        /\ \A i \in 1..Len(Tail(es)) : Tail(es)[i] = es[1 + i]
    <3>1. /\ Tail(es) \in Seq(Entries) /\ Len(Tail(es)) = Len(es) - 1
          /\ \A i \in 1..Len(Tail(es)) : Tail(es)[i] = es[i + 1]
      BY <2>2, <2>3, HeadTailProperties
    <3>2. \A i \in 1..Len(Tail(es)) : i + 1 = 1 + i
      OBVIOUS
    <3> QED
      BY <3>1, <3>2
  <2>7. /\ DOMAIN d = CursorFields /\ d.ok = TRUE /\ d.err = f.err /\ d.sr = f.sr
        /\ d.ns = f.ns /\ d.buf = Tail(f.buf)
        /\ d.cur = [ns |-> f.ns, key |-> f.buf[1].key, value |-> f.buf[1].value]
    BY <2>2, TakenItem
  <2> HIDE DEF d, q
  <2>8. d.cur = PlacedItem(cs, q)
    BY <2>2, <2>5, <2>7 DEF PlacedItem, ItemAt
  <2>9. Stands(cs, rds, want, d, q)
    BY <2>2, <2>5, <2>6, <2>7, <2>8 DEF Stands
  <2>10. ASSUME NEW r \in Places(cs), cs[r[1]].ns \in want, PlaceBefore(r, q)
         PROVE  r[1] <= k
    <3>1. Wants(want, cs[r[1]])
      BY <1>2, <2>10 DEF Wants
    <3>2. r[1] < m
      <4>1. r[2] \in Nat /\ r[2] >= 1
        BY <1>1
      <4> QED
        BY <2>5, <2>10, <4>1 DEF PlaceBefore
    <3> QED
      BY <1>1, <2>1, <2>3, <3>1, <3>2
  <2> QED
    BY <2>3, <2>5, <2>9, <2>10 DEF d
<1> QED
  BY <1>3, <1>4 DEF Moved

\* From the entry at p the cursor goes on to the next wanted one, or there is none.
GoesOn(cs, rds, want, p, d) ==
  \/ \E q \in Places(cs) :
       /\ Stands(cs, rds, want, d, q) /\ PlaceBefore(p, q)
       /\ \A r \in Places(cs) :
            cs[r[1]].ns \in want /\ PlaceBefore(r, q) => r = p \/ PlaceBefore(r, p)
  \/ /\ Over(d)
     /\ \A r \in Places(cs) : cs[r[1]].ns \in want => r = p \/ PlaceBefore(r, p)

\* That is all advance does once the buffer is filled.
LEMMA AdvanceTakes ==
  ASSUME NEW c, c.err = "nil", NEW want
  PROVE  advance(c, want)
           = TakeItem(IF c.buf = <<>> THEN refill(c, want) ELSE [c EXCEPT !.ok = TRUE])
BY DEF advance, TakeItem

\* A new cursor goes to the first wanted entry.
LEMMA PrimeGoesOn ==
  ASSUME NEW file, NEW cs, NEW rds, Reading(file, cs, rds), NEW want
  PROVE  GoesOn(cs, rds, want, <<0, 0>>, advance(newEntryCursor(file), want))
<1> DEFINE c == newEntryCursor(file)
           f == refill(c, want)
           d == TakeItem(f)
<1>1. /\ DOMAIN c = CursorFields /\ c.err = "nil" /\ c.buf = <<>> /\ c.sr = rds[0]
  BY DEF newEntryCursor, CursorFields, Reading
<1>2. /\ Len(cs) \in Nat /\ 0 \in 0..Len(cs)
      /\ \A r \in Places(cs) : r[1] \in 1..Len(cs)
  BY PlacesAreTyped DEF Reading, Reads
<1> HIDE DEF c
<1>3. advance(c, want) = d
  BY <1>1, AdvanceTakes
<1>4. Moved(cs, rds, want, 0, f)
  BY <1>1, <1>2, RefillMoves
<1> HIDE DEF f
<1>5. \/ \E q \in Places(cs) :
           /\ Stands(cs, rds, want, d, q) /\ q[1] > 0
           /\ \A r \in Places(cs) :
                cs[r[1]].ns \in want /\ PlaceBefore(r, q) => r[1] <= 0
      \/ /\ Over(d)
         /\ \A r \in Places(cs) : cs[r[1]].ns \in want => r[1] <= 0
  BY <1>2, <1>4, MovedStands
<1>6. /\ \A r \in Places(cs) : ~(r[1] <= 0)
      /\ \A q \in Places(cs) : q[1] > 0 => PlaceBefore(<<0, 0>>, q)
  BY <1>2 DEF PlaceBefore
<1> HIDE DEF d
<1> QED
  BY <1>3, <1>5, <1>6 DEF GoesOn, c

\* One that stands at a wanted entry goes to the next.
LEMMA AdvanceGoesOn ==
  ASSUME NEW file, NEW cs, NEW rds, Reading(file, cs, rds), NEW want,
         NEW p, NEW c, Stands(cs, rds, want, c, p)
  PROVE  GoesOn(cs, rds, want, p, advance(c, want))
<1> DEFINE es == cs[p[1]].entries
<1>1. /\ DOMAIN c = CursorFields /\ c.ok = TRUE /\ c.err = "nil"
      /\ p \in Places(cs) /\ cs[p[1]].ns \in want
      /\ c.sr = rds[p[1]] /\ c.ns = cs[p[1]].ns
      /\ c.buf \in Seq(Entries)
      /\ Len(c.buf) = Len(es) - p[2]
      /\ \A i \in 1..Len(c.buf) : c.buf[i] = es[p[2] + i]
  BY DEF Stands
<1>2. /\ Len(cs) \in Nat
      /\ \A r \in Places(cs) : r[1] \in 1..Len(cs) /\ r[2] \in 1..Len(cs[r[1]].entries)
  BY PlacesAreTyped DEF Reading, Reads
<1>3. /\ p[1] \in 1..Len(cs) /\ p[1] \in 0..Len(cs) /\ p[1] \in Nat /\ p[2] \in Nat
      /\ p[2] \in 1..Len(es)
  BY <1>1, <1>2
<1>4. es \in Seq(Entries) /\ Len(es) \in Nat
  BY <1>3, LenProperties DEF Reading, TypedChunk
<1>5. \A r, q \in Places(cs) : r[1] = q[1] /\ r[2] = q[2] => r = q
  BY DEF Places
<1>6. \A r \in Places(cs) : r[1] \in Nat /\ r[2] \in Nat
  BY <1>2
<1>7. CASE c.buf = <<>>
  <2> DEFINE f == refill(c, want)
             d == TakeItem(f)
  <2>1. advance(c, want) = d
    BY <1>1, <1>7, AdvanceTakes
  <2>2. Moved(cs, rds, want, p[1], f)
    BY <1>1, <1>3, <1>7, RefillMoves
  <2> HIDE DEF f
  <2>3. \/ \E q \in Places(cs) :
             /\ Stands(cs, rds, want, d, q) /\ q[1] > p[1]
             /\ \A r \in Places(cs) :
                  cs[r[1]].ns \in want /\ PlaceBefore(r, q) => r[1] <= p[1]
        \/ /\ Over(d)
           /\ \A r \in Places(cs) : cs[r[1]].ns \in want => r[1] <= p[1]
    BY <1>3, <2>2, MovedStands
  <2>4. p[2] = Len(es)
    <3>1. Len(c.buf) = 0
      BY <1>7, EmptySeq
    <3> QED
      BY <1>1, <1>3, <1>4, <3>1
  <2>5. ASSUME NEW r \in Places(cs), r[1] <= p[1] PROVE r = p \/ PlaceBefore(r, p)
    <3>1. CASE r[1] = p[1]
      <4>1. r[2] \in 1..Len(es)
        BY <1>2, <3>1
      <4>2. r[2] = p[2] \/ r[2] < p[2]
        BY <1>4, <2>4, <4>1
      <4> QED
        BY <1>1, <1>5, <3>1, <4>2 DEF PlaceBefore
    <3>2. CASE r[1] # p[1]
      BY <1>3, <1>6, <2>5, <3>2 DEF PlaceBefore
    <3> QED
      BY <3>1, <3>2
  <2>6. \A q \in Places(cs) : q[1] > p[1] => PlaceBefore(p, q)
    BY <1>3, <1>6 DEF PlaceBefore
  <2> HIDE DEF d
  <2> QED
    BY <2>1, <2>3, <2>5, <2>6 DEF GoesOn
<1>8. CASE c.buf # <<>>
  <2> DEFINE f == [c EXCEPT !.ok = TRUE]
             d == TakeItem(f)
             q == <<p[1], p[2] + 1>>
  <2>1. advance(c, want) = d
    BY <1>1, <1>8, AdvanceTakes
  <2>2. DOMAIN f = CursorFields /\ f.ok = TRUE /\ f.err = "nil" /\ f.sr = c.sr
        /\ f.ns = c.ns /\ f.buf = c.buf
    BY <1>1 DEF CursorFields
  <2> HIDE DEF f
  <2>3. /\ DOMAIN d = CursorFields /\ d.ok = TRUE /\ d.err = f.err /\ d.sr = f.sr
        /\ d.ns = f.ns /\ d.buf = Tail(f.buf)
        /\ d.cur = [ns |-> f.ns, key |-> f.buf[1].key, value |-> f.buf[1].value]
    BY <2>2, TakenItem
  <2>4. /\ Len(c.buf) \in Nat /\ Len(c.buf) # 0 /\ 1 \in 1..Len(c.buf)
    BY <1>1, <1>8, LenProperties, EmptySeq
  <2>5. /\ Tail(c.buf) \in Seq(Entries) /\ Len(Tail(c.buf)) = Len(c.buf) - 1
        /\ \A i \in 1..Len(Tail(c.buf)) : Tail(c.buf)[i] = c.buf[i + 1]
    BY <1>1, <1>8, HeadTailProperties
  <2>6. q \in Places(cs) /\ q[1] = p[1] /\ q[2] = p[2] + 1
    <3>1. p[2] + 1 \in 1..Len(es)
      BY <1>1, <1>3, <1>4, <2>4
    <3> QED
      BY <1>3, <3>1 DEF Places
  <2> HIDE DEF d, q
  <2>7. d.cur = PlacedItem(cs, q)
    <3>1. c.buf[1] = es[p[2] + 1]
      BY <1>1, <2>4
    <3> QED
      BY <1>1, <2>2, <2>3, <2>6, <3>1 DEF PlacedItem, ItemAt
  <2>8. /\ Len(Tail(c.buf)) = Len(es) - q[2]
        /\ \A i \in 1..Len(Tail(c.buf)) : Tail(c.buf)[i] = es[q[2] + i]
    <3>1. \A i \in 1..(Len(c.buf) - 1) : i + 1 \in 1..Len(c.buf) /\ p[2] + (i + 1) = q[2] + i
      BY <1>3, <2>4, <2>6
    <3>2. Len(es) - p[2] - 1 = Len(es) - q[2]
      BY <1>3, <1>4, <2>6
    <3> QED
      BY <1>1, <2>5, <3>1, <3>2
  <2>9. Stands(cs, rds, want, d, q)
    BY <1>1, <2>2, <2>3, <2>5, <2>6, <2>7, <2>8 DEF Stands
  <2>10. PlaceBefore(p, q)
    BY <1>3, <2>6 DEF PlaceBefore
  <2>11. ASSUME NEW r \in Places(cs), PlaceBefore(r, q) PROVE r = p \/ PlaceBefore(r, p)
    <3>1. r[1] < p[1] \/ (r[1] = p[1] /\ (r[2] < p[2] \/ r[2] = p[2]))
      BY <1>3, <1>6, <2>6, <2>11 DEF PlaceBefore
    <3> QED
      BY <1>1, <1>5, <3>1 DEF PlaceBefore
  <2> QED
    BY <2>1, <2>6, <2>9, <2>10, <2>11 DEF GoesOn
<1> QED
  BY <1>7, <1>8

-----------------------------------------------------------------------------
(***************************************************************************)
(* The same by entries: which of the wanted ones a cursor has behind it.   *)
(***************************************************************************)
Wanted(file, want) == {e \in Held(file) : e.ns \in want}

Behind(c, e) == c.ok => Before(e, c.cur)

Tracks(file, want, c) ==
  \E rds : /\ Reading(file, ReadAll(file).chunks, rds)
           /\ Over(c) \/ \E p : Stands(ReadAll(file).chunks, rds, want, c, p)

SameKey(e, x) == e.ns = x.ns /\ e.key = x.key

\* Namespace and key order the entries.
LEMMA BeforeOrders ==
  /\ \A a \in Item : a.ns \in Nat /\ a.key \in Nat
  /\ \A a, b \in Item : ~(SameKey(a, b) /\ Before(a, b))
  /\ \A a, b \in Item : ~(Before(a, b) /\ Before(b, a))
  /\ \A a, b \in Item : Before(a, b) \/ SameKey(a, b) \/ Before(b, a)
  /\ \A a, b, c \in Item : Before(a, b) /\ Before(b, c) => Before(a, c)
  /\ \A a, b, c \in Item : Before(a, b) /\ SameKey(b, c) => Before(a, c)
  /\ \A a, b, c \in Item : SameKey(a, b) /\ Before(b, c) => Before(a, c)
<1>1. \A a \in Item : a.ns \in Nat /\ a.key \in Nat
  BY NamespacesAssumption, KeysAssumption DEF Item
<1> QED
  BY <1>1 DEF Before, SameKey

\* Places are ordered as their entries are.
LEMMA PlacesOrder ==
  ASSUME NEW S, NEW cs \in Seq(S), \A k \in 1..Len(cs) : TypedChunk(cs[k]), InAscent(cs)
  PROVE  \A p, q \in Places(cs) :
           /\ p = q \/ PlaceBefore(p, q) \/ PlaceBefore(q, p)
           /\ PlaceBefore(p, q) <=> Before(PlacedItem(cs, p), PlacedItem(cs, q))
           /\ p = q <=> SameKey(PlacedItem(cs, p), PlacedItem(cs, q))
<1> SUFFICES ASSUME NEW p \in Places(cs), NEW q \in Places(cs)
             PROVE  /\ p = q \/ PlaceBefore(p, q) \/ PlaceBefore(q, p)
                    /\ PlaceBefore(p, q) <=> Before(PlacedItem(cs, p), PlacedItem(cs, q))
                    /\ p = q <=> SameKey(PlacedItem(cs, p), PlacedItem(cs, q))
  OBVIOUS
<1>1. \A r \in Places(cs) : /\ r[1] \in 1..Len(cs) /\ r[2] \in 1..Len(cs[r[1]].entries)
                            /\ PlacedItem(cs, r) \in Item
  BY PlacesAreTyped
<1>2. p[1] \in Nat /\ p[2] \in Nat /\ q[1] \in Nat /\ q[2] \in Nat
  BY <1>1
<1>3. p[1] = q[1] /\ p[2] = q[2] => p = q
  BY DEF Places
<1>4. p = q \/ PlaceBefore(p, q) \/ PlaceBefore(q, p)
  BY <1>2, <1>3 DEF PlaceBefore
<1>5. /\ PlaceBefore(p, q) => Before(PlacedItem(cs, p), PlacedItem(cs, q))
      /\ PlaceBefore(q, p) => Before(PlacedItem(cs, q), PlacedItem(cs, p))
  BY DEF InAscent
<1>6. p = q => SameKey(PlacedItem(cs, p), PlacedItem(cs, q))
  BY DEF SameKey
<1> DEFINE a == PlacedItem(cs, p)
           b == PlacedItem(cs, q)
<1>7. /\ ~(SameKey(a, b) /\ Before(a, b)) /\ ~(SameKey(a, b) /\ Before(b, a))
      /\ ~(Before(a, b) /\ Before(b, a))
  <2>1. a \in Item /\ b \in Item
    BY <1>1
  <2>2. SameKey(a, b) => SameKey(b, a)
    BY DEF SameKey
  <2> HIDE DEF a, b
  <2> QED
    BY <2>1, <2>2, BeforeOrders
<1> HIDE DEF a, b
<1> QED
  BY <1>4, <1>5, <1>6, <1>7 DEF a, b

\* What such a file holds.
LEMMA HeldPlaces ==
  ASSUME NEW file \in Inputs, Ordered(file), NEW cs, cs = ReadAll(file).chunks
  PROVE  /\ Held(file) = {PlacedItem(cs, p) : p \in Places(cs)}
         /\ cs \in Seq(Records(file))
         /\ \A k \in 1..Len(cs) : TypedChunk(cs[k])
         /\ InAscent(cs)
         /\ Held(file) \subseteq Item
<1>1. (\E rds : Reading(file, cs, rds)) /\ InAscent(cs)
  BY OrderedFile
<1>2. /\ cs \in Seq(Records(file))
      /\ \A k \in 1..Len(cs) : TypedChunk(cs[k])
      /\ Held(file) = {ItemAt(cs, p[1], p[2]) : p \in Places(cs)}
  BY <1>1 DEF Reading, Reads
<1>3. Held(file) = {PlacedItem(cs, p) : p \in Places(cs)}
  BY <1>2 DEF PlacedItem
<1>4. \A p \in Places(cs) : PlacedItem(cs, p) \in Item
  BY <1>2, PlacesAreTyped
<1> QED
  BY <1>1, <1>2, <1>3, <1>4

\* It holds one entry under a name and key.
LEMMA HeldOnce ==
  ASSUME NEW file \in Inputs, Ordered(file),
         NEW a \in Held(file), NEW b \in Held(file), SameKey(a, b)
  PROVE  a = b
<1> DEFINE cs == ReadAll(file).chunks
<1>1. /\ Held(file) = {PlacedItem(cs, p) : p \in Places(cs)}
      /\ cs \in Seq(Records(file))
      /\ \A k \in 1..Len(cs) : TypedChunk(cs[k])
      /\ InAscent(cs)
  BY HeldPlaces
<1> HIDE DEF cs
<1>2. PICK p \in Places(cs) : a = PlacedItem(cs, p)
  BY <1>1
<1>3. PICK q \in Places(cs) : b = PlacedItem(cs, q)
  BY <1>1
<1> QED
  BY <1>1, <1>2, <1>3, PlacesOrder

\* Past the entry at p: it and those before it are behind, no others.
LEMMA GoneOn ==
  ASSUME NEW file \in Inputs, Ordered(file), NEW cs, cs = ReadAll(file).chunks,
         NEW rds, Reading(file, cs, rds), NEW want,
         NEW p, p[1] \in Nat, p[2] \in Nat, NEW d, GoesOn(cs, rds, want, p, d)
  PROVE  /\ Tracks(file, want, d)
         /\ \A r \in Places(cs) :
              cs[r[1]].ns \in want =>
                (Behind(d, PlacedItem(cs, r)) <=> r = p \/ PlaceBefore(r, p))
<1>1. /\ cs \in Seq(Records(file))
      /\ \A k \in 1..Len(cs) : TypedChunk(cs[k])
      /\ InAscent(cs)
  BY HeldPlaces
<1>2. \A r, q \in Places(cs) :
        PlaceBefore(r, q) <=> Before(PlacedItem(cs, r), PlacedItem(cs, q))
  BY <1>1, PlacesOrder
<1>3. \A r \in Places(cs) : r[1] \in Nat /\ r[2] \in Nat
  <2>1. \A r \in Places(cs) : r[1] \in 1..Len(cs) /\ r[2] \in 1..Len(cs[r[1]].entries)
    BY <1>1, PlacesAreTyped
  <2> QED
    BY <2>1
<1>4. ASSUME NEW q \in Places(cs), Stands(cs, rds, want, d, q), PlaceBefore(p, q),
             \A r \in Places(cs) :
               cs[r[1]].ns \in want /\ PlaceBefore(r, q) => r = p \/ PlaceBefore(r, p),
             NEW r \in Places(cs), cs[r[1]].ns \in want
      PROVE  Behind(d, PlacedItem(cs, r)) <=> r = p \/ PlaceBefore(r, p)
  <2>1. d.ok = TRUE /\ d.cur = PlacedItem(cs, q)
    BY <1>4 DEF Stands
  <2>2. Behind(d, PlacedItem(cs, r)) <=> PlaceBefore(r, q)
    BY <1>2, <2>1 DEF Behind
  <2>3. PlaceBefore(r, p) => PlaceBefore(r, q)
    BY <1>3, <1>4 DEF PlaceBefore
  <2> QED
    BY <1>4, <2>2, <2>3
<1>5. CASE \E q \in Places(cs) :
             /\ Stands(cs, rds, want, d, q) /\ PlaceBefore(p, q)
             /\ \A r \in Places(cs) :
                  cs[r[1]].ns \in want /\ PlaceBefore(r, q) => r = p \/ PlaceBefore(r, p)
  <2>1. \E q : Stands(cs, rds, want, d, q)
    BY <1>5
  <2>2. Tracks(file, want, d)
    BY <2>1 DEF Tracks
  <2> QED
    BY <1>4, <1>5, <2>2
<1>6. CASE /\ Over(d)
           /\ \A r \in Places(cs) : cs[r[1]].ns \in want => r = p \/ PlaceBefore(r, p)
  <2>1. \A e : Behind(d, e)
    BY <1>6 DEF Over, Behind
  <2>2. Tracks(file, want, d)
    BY <1>6 DEF Tracks
  <2> QED
    BY <1>6, <2>1, <2>2
<1> QED
  BY <1>5, <1>6 DEF GoesOn

\* What is wanted is at the places of the wanted chunks.
LEMMA WantedPlaces ==
  ASSUME NEW file \in Inputs, Ordered(file), NEW cs, cs = ReadAll(file).chunks, NEW want
  PROVE  /\ \A e \in Wanted(file, want) :
              \E r \in Places(cs) : e = PlacedItem(cs, r) /\ cs[r[1]].ns \in want
         /\ \A r \in Places(cs) :
              cs[r[1]].ns \in want => PlacedItem(cs, r) \in Wanted(file, want)
         /\ Wanted(file, want) \subseteq Item
<1>1. /\ Held(file) = {PlacedItem(cs, p) : p \in Places(cs)}
      /\ cs \in Seq(Records(file))
      /\ \A k \in 1..Len(cs) : TypedChunk(cs[k])
      /\ Held(file) \subseteq Item
  BY HeldPlaces
<1>2. \A r \in Places(cs) : PlacedItem(cs, r).ns = cs[r[1]].ns
  BY <1>1, PlacesAreTyped
<1> QED
  BY <1>1, <1>2 DEF Wanted

\* The item of such a cursor is a wanted entry.
LEMMA Tracked ==
  ASSUME NEW file \in Inputs, Ordered(file), NEW want, NEW c, Tracks(file, want, c)
  PROVE  /\ c.ok \in BOOLEAN /\ c.err = "nil"
         /\ c.ok = TRUE => c.cur \in Wanted(file, want)
<1> DEFINE cs == ReadAll(file).chunks
<1>1. PICK rds : /\ Reading(file, cs, rds)
                 /\ Over(c) \/ \E p : Stands(cs, rds, want, c, p)
  BY DEF Tracks
<1>2. CASE Over(c)
  BY <1>2 DEF Over
<1>3. CASE \E p : Stands(cs, rds, want, c, p)
  <2>1. PICK p : Stands(cs, rds, want, c, p)
    BY <1>3
  <2>2. /\ c.ok = TRUE /\ c.err = "nil" /\ p \in Places(cs) /\ cs[p[1]].ns \in want
        /\ c.cur = PlacedItem(cs, p)
    BY <2>1 DEF Stands
  <2>3. PlacedItem(cs, p) \in Wanted(file, want)
    BY <2>2, WantedPlaces
  <2> QED
    BY <2>2, <2>3
<1> QED
  BY <1>1, <1>2, <1>3

\* A primed cursor has nothing behind it.
LEMMA PrimeTracks ==
  ASSUME NEW file \in Inputs, Ordered(file), NEW want
  PROVE  LET d == advance(newEntryCursor(file), want)
         IN  /\ Tracks(file, want, d)
             /\ \A e \in Wanted(file, want) : ~Behind(d, e)
<1> DEFINE cs == ReadAll(file).chunks
           d == advance(newEntryCursor(file), want)
           o == <<0, 0>>
<1>1. PICK rds : Reading(file, cs, rds)
  BY OrderedFile
<1>2. GoesOn(cs, rds, want, o, d)
  BY <1>1, PrimeGoesOn
<1>3. o[1] \in Nat /\ o[2] \in Nat
  OBVIOUS
<1>4. \A r \in Places(cs) : ~(r = o) /\ ~PlaceBefore(r, o)
  <2>1. \A r \in Places(cs) : r[1] \in 1..Len(cs)
    <3>1. /\ cs \in Seq(Records(file)) /\ \A k \in 1..Len(cs) : TypedChunk(cs[k])
      BY HeldPlaces
    <3> QED
      BY <3>1, PlacesAreTyped
  <2>2. Len(cs) \in Nat
    BY HeldPlaces, PlacesAreTyped
  <2> QED
    BY <2>1, <2>2 DEF PlaceBefore
<1> HIDE DEF o, d
<1>5. /\ Tracks(file, want, d)
      /\ \A r \in Places(cs) :
           cs[r[1]].ns \in want =>
             (Behind(d, PlacedItem(cs, r)) <=> r = o \/ PlaceBefore(r, o))
  BY <1>1, <1>2, <1>3, GoneOn
<1>6. \A e \in Wanted(file, want) :
        \E r \in Places(cs) : e = PlacedItem(cs, r) /\ cs[r[1]].ns \in want
  BY WantedPlaces
<1>7. \A e \in Wanted(file, want) : ~Behind(d, e)
  BY <1>4, <1>5, <1>6
<1> QED
  BY <1>5, <1>7 DEF d

\* A cursor that is advanced leaves its item behind, and only that.
Leaves(file, want, c, d) ==
  /\ Tracks(file, want, d)
  /\ c.cur \in Wanted(file, want) /\ ~Behind(c, c.cur)
  /\ \A e \in Wanted(file, want) : Behind(d, e) <=> Behind(c, e) \/ e = c.cur

\* It is what advance does.
LEMMA AdvanceTracks ==
  ASSUME NEW file \in Inputs, Ordered(file), NEW want, NEW c, Tracks(file, want, c), c.ok
  PROVE  Leaves(file, want, c, advance(c, want))
<1> DEFINE cs == ReadAll(file).chunks
           d == advance(c, want)
<1>1. PICK rds : /\ Reading(file, cs, rds)
                 /\ Over(c) \/ \E p : Stands(cs, rds, want, c, p)
  BY DEF Tracks
<1>2. ~Over(c)
  BY DEF Over
<1>3. PICK p : Stands(cs, rds, want, c, p)
  BY <1>1, <1>2
<1>4. /\ c.ok = TRUE /\ p \in Places(cs) /\ cs[p[1]].ns \in want
      /\ c.cur = PlacedItem(cs, p)
  BY <1>3 DEF Stands
<1>5. GoesOn(cs, rds, want, p, d)
  BY <1>1, <1>3, AdvanceGoesOn
<1>6. /\ cs \in Seq(Records(file)) /\ \A k \in 1..Len(cs) : TypedChunk(cs[k])
      /\ InAscent(cs)
  BY HeldPlaces
<1>7. p[1] \in Nat /\ p[2] \in Nat
  <2>1. p[1] \in 1..Len(cs) /\ p[2] \in 1..Len(cs[p[1]].entries)
    BY <1>4, <1>6, PlacesAreTyped
  <2> QED
    BY <2>1
<1> HIDE DEF d
<1>8. /\ Tracks(file, want, d)
      /\ \A r \in Places(cs) :
           cs[r[1]].ns \in want =>
             (Behind(d, PlacedItem(cs, r)) <=> r = p \/ PlaceBefore(r, p))
  BY <1>1, <1>5, <1>7, GoneOn
<1>9. \A r, q \in Places(cs) :
        /\ PlaceBefore(r, q) <=> Before(PlacedItem(cs, r), PlacedItem(cs, q))
        /\ r = q <=> SameKey(PlacedItem(cs, r), PlacedItem(cs, q))
  BY <1>6, PlacesOrder
<1>10. \A r \in Places(cs) : /\ Behind(c, PlacedItem(cs, r)) <=> PlaceBefore(r, p)
                             /\ PlacedItem(cs, r) = c.cur <=> r = p
  BY <1>4, <1>9 DEF Behind, SameKey
<1>11. \A e \in Wanted(file, want) :
         \E r \in Places(cs) : e = PlacedItem(cs, r) /\ cs[r[1]].ns \in want
  BY WantedPlaces
<1>12. c.cur \in Wanted(file, want)
  BY <1>4, WantedPlaces
<1>13. ~Behind(c, c.cur)
  <2>1. ~PlaceBefore(p, p)
    BY <1>7 DEF PlaceBefore
  <2> QED
    BY <1>4, <1>10, <2>1
<1>14. \A e \in Wanted(file, want) : Behind(d, e) <=> Behind(c, e) \/ e = c.cur
  BY <1>8, <1>10, <1>11
<1> QED
  BY <1>8, <1>12, <1>13, <1>14 DEF Leaves, d

-----------------------------------------------------------------------------
(***************************************************************************)
(* Two cursors that are advanced in lockstep.                              *)
(***************************************************************************)
Level(f, g, want, c, b) ==
  /\ \A e \in Wanted(f, want) : Behind(c, e) => Behind(b, e)
  /\ \A e \in Wanted(g, want) : Behind(b, e) => Behind(c, e)

Settled(c, b, e) == Behind(c, e) /\ Behind(b, e)

\* From c and b to d and a the name and key of x are settled, and no others;
\* what was settled before comes before x.
Settles(f, g, want, c, b, d, a, x) ==
  /\ Tracks(f, want, d) /\ Tracks(g, want, a) /\ Level(f, g, want, d, a)
  /\ \A e \in Wanted(f, want) \cup Wanted(g, want) :
       /\ Settled(d, a, e) <=> Settled(c, b, e) \/ SameKey(e, x)
       /\ Settled(c, b, e) => Before(e, x)

\* It does not matter which file is named first.
LEMMA SettlesSwapped ==
  ASSUME NEW f, NEW g, NEW want, NEW c, NEW b, NEW d, NEW a, NEW x,
         Settles(f, g, want, c, b, d, a, x)
  PROVE  Settles(g, f, want, b, c, a, d, x)
BY DEF Settles, Level, Settled

\* What an advance does to the entries behind a cursor.
LEMMA AdvancePasses ==
  ASSUME NEW file \in Inputs, Ordered(file), NEW want, NEW c, Tracks(file, want, c), c.ok,
         NEW d, d = advance(c, want)
  PROVE  /\ Tracks(file, want, d)
         /\ c.ok = TRUE /\ c.cur \in Wanted(file, want) /\ c.cur \in Item
         /\ \A e \in Item : Behind(c, e) <=> Before(e, c.cur)
         /\ \A e \in Item : Behind(c, e) \/ SameKey(e, c.cur) => Behind(d, e)
         /\ \A e \in Wanted(file, want) :
              Behind(d, e) <=> Behind(c, e) \/ SameKey(e, c.cur)
<1>1. Leaves(file, want, c, d)
  BY AdvanceTracks
<1>2. /\ Tracks(file, want, d) /\ c.cur \in Wanted(file, want)
      /\ \A e \in Wanted(file, want) : Behind(d, e) <=> Behind(c, e) \/ e = c.cur
  BY <1>1 DEF Leaves
<1>3. Wanted(file, want) \subseteq Item
  BY WantedPlaces
<1>4. c.ok = TRUE /\ d.ok \in BOOLEAN /\ (d.ok = TRUE => d.cur \in Wanted(file, want))
  BY <1>2, Tracked
<1>5. \A e \in Item : Behind(c, e) <=> Before(e, c.cur)
  BY <1>4 DEF Behind
<1>6. d.ok = TRUE => Before(c.cur, d.cur)
  BY <1>2 DEF Behind
<1>7. ASSUME NEW e \in Item, Before(e, c.cur) \/ SameKey(e, c.cur) PROVE Behind(d, e)
  <2>1. CASE d.ok = TRUE
    <3>1. d.cur \in Item /\ c.cur \in Item
      BY <1>2, <1>3, <1>4, <2>1
    <3>2. Before(e, d.cur)
      BY <1>6, <1>7, <2>1, <3>1, BeforeOrders
    <3> QED
      BY <3>2 DEF Behind
  <2>2. CASE d.ok = FALSE
    BY <2>2 DEF Behind
  <2> QED
    BY <1>4, <2>1, <2>2
<1>8. \A e \in Wanted(file, want) : e = c.cur <=> SameKey(e, c.cur)
  BY <1>2, HeldOnce DEF Wanted, SameKey
<1> QED
  BY <1>2, <1>3, <1>4, <1>5, <1>7, <1>8

\* The cursor whose item comes first is advanced: the other file does not hold
\* an entry under its name and key.
LEMMA Overtakes ==
  ASSUME NEW f \in Inputs, Ordered(f), NEW g \in Inputs, Ordered(g), NEW want,
         NEW c, Tracks(f, want, c), NEW b, Tracks(g, want, b), Level(f, g, want, c, b),
         c.ok, b.ok => Before(c.cur, b.cur)
  PROVE  /\ Settles(f, g, want, c, b, advance(c, want), b, c.cur)
         /\ c.cur \in Wanted(f, want)
         /\ \A e \in Held(g) : ~SameKey(e, c.cur)
<1> DEFINE d == advance(c, want)
           x == c.cur
<1>1. /\ Tracks(f, want, d)
      /\ x \in Wanted(f, want) /\ x \in Item
      /\ \A e \in Item : Behind(c, e) <=> Before(e, x)
      /\ \A e \in Item : Behind(c, e) \/ SameKey(e, x) => Behind(d, e)
      /\ \A e \in Wanted(f, want) : Behind(d, e) <=> Behind(c, e) \/ SameKey(e, x)
  BY AdvancePasses
<1>2. Wanted(f, want) \subseteq Item /\ Wanted(g, want) \subseteq Item
  BY WantedPlaces
<1>3. b.ok \in BOOLEAN /\ (b.ok = TRUE => b.cur \in Item)
  BY <1>2, Tracked
<1>4. b.ok = TRUE => Before(x, b.cur)
  OBVIOUS
<1> HIDE DEF d, x
<1>5. ASSUME NEW e \in Item, SameKey(e, x) PROVE Behind(b, e)
  <2>1. CASE b.ok = TRUE
    BY <1>1, <1>3, <1>4, <1>5, <2>1, BeforeOrders DEF Behind
  <2>2. CASE b.ok = FALSE
    BY <2>2 DEF Behind
  <2> QED
    BY <1>3, <2>1, <2>2
<1>6. \A e \in Item : ~(SameKey(e, x) /\ Before(e, x))
  BY <1>1, BeforeOrders
<1>7. ASSUME NEW e \in Wanted(g, want) PROVE ~SameKey(e, x)
  <2> SUFFICES ASSUME SameKey(e, x) PROVE FALSE
    OBVIOUS
  <2>1. Behind(b, e) /\ e \in Item
    BY <1>2, <1>5
  <2>2. Before(e, x)
    BY <1>1, <2>1 DEF Level
  <2> QED
    BY <1>6, <2>1, <2>2
<1>8. \A e \in Held(g) : ~SameKey(e, x)
  BY <1>1, <1>7 DEF Wanted, SameKey
<1>9. Level(f, g, want, d, b)
  BY <1>1, <1>2, <1>5 DEF Level
<1>10. \A e \in Wanted(f, want) : Settled(d, b, e) <=> Settled(c, b, e) \/ SameKey(e, x)
  BY <1>1, <1>2, <1>5 DEF Settled
<1>11. \A e \in Wanted(g, want) : Settled(d, b, e) <=> Settled(c, b, e) \/ SameKey(e, x)
  BY <1>1, <1>2, <1>7 DEF Settled, Level
<1>12. \A e \in Wanted(f, want) \cup Wanted(g, want) : Settled(c, b, e) => Before(e, x)
  BY <1>1, <1>2 DEF Settled
<1>13. Settles(f, g, want, c, b, d, b, x)
  BY <1>1, <1>9, <1>10, <1>11, <1>12 DEF Settles
<1> QED
  BY <1>1, <1>8, <1>13 DEF d, x

\* Both are advanced from the same name and key.
LEMMA Meets ==
  ASSUME NEW f \in Inputs, Ordered(f), NEW g \in Inputs, Ordered(g), NEW want,
         NEW c, Tracks(f, want, c), NEW b, Tracks(g, want, b), Level(f, g, want, c, b),
         c.ok, b.ok, SameKey(c.cur, b.cur)
  PROVE  /\ Settles(f, g, want, c, b, advance(c, want), advance(b, want), c.cur)
         /\ c.cur \in Wanted(f, want) /\ b.cur \in Wanted(g, want)
<1> DEFINE d == advance(c, want)
           a == advance(b, want)
           x == c.cur
<1>1. /\ Tracks(f, want, d)
      /\ x \in Wanted(f, want) /\ x \in Item
      /\ \A e \in Item : Behind(c, e) <=> Before(e, x)
      /\ \A e \in Item : Behind(c, e) \/ SameKey(e, x) => Behind(d, e)
      /\ \A e \in Wanted(f, want) : Behind(d, e) <=> Behind(c, e) \/ SameKey(e, x)
  BY AdvancePasses
<1>2. /\ Tracks(g, want, a)
      /\ b.cur \in Wanted(g, want) /\ b.cur \in Item
      /\ \A e \in Item : Behind(b, e) \/ SameKey(e, b.cur) => Behind(a, e)
      /\ \A e \in Wanted(g, want) : Behind(a, e) <=> Behind(b, e) \/ SameKey(e, b.cur)
  BY AdvancePasses
<1>3. Wanted(f, want) \subseteq Item /\ Wanted(g, want) \subseteq Item
  BY WantedPlaces
<1>4. \A e : SameKey(e, b.cur) <=> SameKey(e, x)
  BY DEF SameKey
<1> HIDE DEF d, a, x
<1>5. Level(f, g, want, d, a)
  BY <1>1, <1>2, <1>3, <1>4 DEF Level
<1>6. \A e \in Wanted(f, want) : Settled(d, a, e) <=> Settled(c, b, e) \/ SameKey(e, x)
  BY <1>1, <1>2, <1>3, <1>4 DEF Settled, Level
<1>7. \A e \in Wanted(g, want) : Settled(d, a, e) <=> Settled(c, b, e) \/ SameKey(e, x)
  BY <1>1, <1>2, <1>3, <1>4 DEF Settled, Level
<1>8. \A e \in Wanted(f, want) \cup Wanted(g, want) : Settled(c, b, e) => Before(e, x)
  BY <1>1, <1>3 DEF Settled
<1>9. Settles(f, g, want, c, b, d, a, x)
  BY <1>1, <1>2, <1>5, <1>6, <1>7, <1>8 DEF Settles
<1> QED
  BY <1>1, <1>2, <1>9 DEF d, a, x

-----------------------------------------------------------------------------
(***************************************************************************)
(* The rows of the report, while the join goes on.                         *)
(***************************************************************************)
RowFields == {"name", "status", "oldEntries", "newEntries", "keyChanges"}

Change == [op : {"-", "+", "~"}, key : Keys]

Rows(rep) ==
  /\ \A i \in DOMAIN rep : DOMAIN rep[i] = RowFields /\ rep[i].keyChanges \in Seq(Change)
  /\ \A i, j \in DOMAIN rep : rep[i].name = rep[j].name => rep[i].status = rep[j].status

Ascending(changes) ==
  \A a, b \in DOMAIN changes : a < b => changes[a].key < changes[b].key

\* A row shows the differences that are settled.
SettledChanges(ns, c, b) ==
  {ch \in Differences(ns) : Settled(c, b, [ns |-> ns, key |-> ch.key])}

Shown(rep, c, b) ==
  \A i \in DOMAIN rep :
    /\ rep[i].name \in Want(rep) =>
         /\ Range(rep[i].keyChanges) = SettledChanges(rep[i].name, c, b)
         /\ Ascending(rep[i].keyChanges)
    /\ rep[i].name \notin Want(rep) => rep[i].keyChanges = <<>>

Joins(rep, c, b) ==
  /\ Rows(rep)
  /\ Tracks(old, Want(rep), c) /\ Tracks(new, Want(rep), b)
  /\ Level(old, new, Want(rep), c, b)
  /\ Shown(rep, c, b)

\* Where a change is appended, every key before it being less.
LEMMA AppendAscends ==
  ASSUME NEW s \in Seq(Change), NEW ch \in Change, Ascending(s),
         \A x \in Range(s) : x.key < ch.key
  PROVE  /\ Append(s, ch) \in Seq(Change)
         /\ Range(Append(s, ch)) = Range(s) \cup {ch}
         /\ Ascending(Append(s, ch))
<1> DEFINE t == Append(s, ch)
           N == Len(s)
<1>1. N \in Nat /\ DOMAIN s = 1..N
  BY LenProperties
<1>2. /\ t \in Seq(Change) /\ Len(t) = N + 1
      /\ \A i \in 1..N : t[i] = s[i]
      /\ t[N + 1] = ch
  BY AppendProperties
<1>3. DOMAIN t = 1..(N + 1)
  BY <1>2, LenProperties
<1> HIDE DEF t, N
<1>4. /\ \A i \in 1..(N + 1) : i \in 1..N \/ i = N + 1
      /\ \A i \in 1..N : i \in 1..(N + 1)
      /\ N + 1 \in 1..(N + 1)
      /\ \A i, j \in 1..(N + 1) : i < j => i \in 1..N
  BY <1>1
<1>5. Range(t) = Range(s) \cup {ch}
  BY <1>1, <1>2, <1>3, <1>4 DEF Range
<1>6. ASSUME NEW i \in DOMAIN t, NEW j \in DOMAIN t, i < j PROVE t[i].key < t[j].key
  <2>1. i \in 1..N /\ t[i] = s[i]
    BY <1>2, <1>3, <1>4, <1>6
  <2>2. CASE j \in 1..N
    BY <1>1, <1>2, <1>6, <2>1, <2>2 DEF Ascending
  <2>3. CASE j = N + 1
    BY <1>1, <1>2, <2>1, <2>3 DEF Range
  <2> QED
    BY <1>3, <1>4, <2>2, <2>3
<1> QED
  BY <1>2, <1>5, <1>6 DEF t, Ascending

\* The report after a turn of the join in which x is settled with changes D, of
\* which there is one at most.
Adds(rep, next, x, D) ==
  /\ Rows(next)
  /\ DOMAIN next = DOMAIN rep /\ Want(next) = Want(rep)
  /\ \A i \in DOMAIN rep :
       /\ next[i].name = rep[i].name
       /\ rep[i].name = x.ns /\ D # {} =>
            \E ch \in Change : /\ D = {ch} /\ ch.key = x.key
                               /\ next[i].keyChanges = Append(rep[i].keyChanges, ch)
       /\ ~(rep[i].name = x.ns /\ D # {}) => next[i].keyChanges = rep[i].keyChanges

Emitted(rep, ns, ch) ==
  [i \in DOMAIN rep |->
     IF rep[i].name = ns THEN [rep[i] EXCEPT !.keyChanges = Append(@, ch)] ELSE rep[i]]

\* An emitted change is added.
LEMMA EmitAdds ==
  ASSUME NEW rep, Rows(rep), NEW x, NEW ch \in Change, ch.key = x.key
  PROVE  Adds(rep, Emitted(rep, x.ns, ch), x, {ch})
<1> DEFINE next == Emitted(rep, x.ns, ch)
<1>1. /\ DOMAIN next = DOMAIN rep
      /\ \A i \in DOMAIN rep :
           next[i] = IF rep[i].name = x.ns
                     THEN [rep[i] EXCEPT !.keyChanges = Append(@, ch)] ELSE rep[i]
  BY DEF Emitted
<1> HIDE DEF next
<1>2. ASSUME NEW i \in DOMAIN rep
      PROVE  /\ DOMAIN next[i] = RowFields
             /\ next[i].name = rep[i].name /\ next[i].status = rep[i].status
             /\ next[i].keyChanges \in Seq(Change)
             /\ rep[i].name = x.ns => next[i].keyChanges = Append(rep[i].keyChanges, ch)
             /\ rep[i].name # x.ns => next[i].keyChanges = rep[i].keyChanges
  <2>1. DOMAIN rep[i] = RowFields /\ rep[i].keyChanges \in Seq(Change)
    BY DEF Rows
  <2>2. CASE rep[i].name = x.ns
    <3>1. next[i] = [rep[i] EXCEPT !.keyChanges = Append(rep[i].keyChanges, ch)]
      BY <1>1, <2>2
    <3>2. Append(rep[i].keyChanges, ch) \in Seq(Change)
      BY <2>1, AppendProperties
    <3> QED
      BY <2>1, <2>2, <3>1, <3>2 DEF RowFields
  <2>3. CASE rep[i].name # x.ns
    BY <1>1, <2>1, <2>3
  <2> QED
    BY <2>2, <2>3
<1>3. Rows(next)
  BY <1>1, <1>2 DEF Rows
<1>4. Want(next) = Want(rep)
  BY <1>1, <1>2 DEF Want
<1>5. Adds(rep, next, x, {ch})
  BY <1>1, <1>2, <1>3, <1>4 DEF Adds
<1> QED
  BY <1>5 DEF next

\* Where the files do not differ nothing is added.
LEMMA NothingAdded ==
  ASSUME NEW rep, Rows(rep), NEW x
  PROVE  Adds(rep, rep, x, {})
BY DEF Adds

\* A difference in a wanted namespace is in what either file is wanted for.
LEMMA DifferenceIsWanted ==
  ASSUME NEW want, NEW ns \in want, NEW ch \in Differences(ns)
  PROVE  \E e \in Wanted(old, want) \cup Wanted(new, want) : e.ns = ns /\ e.key = ch.key
<1>1. Has(old, ns, ch.key) \/ Has(new, ns, ch.key)
  BY DEF Differences, Has
<1> QED
  BY <1>1 DEF Has, Wanted

\* The rows keep showing what is settled.
LEMMA ShownOn ==
  ASSUME old \in Inputs, Ordered(old), new \in Inputs, Ordered(new),
         NEW rep, Rows(rep), NEW c, NEW b, Shown(rep, c, b),
         NEW x \in Item, x.ns \in Want(rep), NEW d, NEW a,
         Settles(old, new, Want(rep), c, b, d, a, x),
         NEW next, Adds(rep, next, x, {ch \in Differences(x.ns) : ch.key = x.key})
  PROVE  Shown(next, d, a)
<1> DEFINE D == {ch \in Differences(x.ns) : ch.key = x.key}
           W == Wanted(old, Want(rep)) \cup Wanted(new, Want(rep))
<1>1. /\ Rows(next) /\ DOMAIN next = DOMAIN rep /\ Want(next) = Want(rep)
      /\ \A i \in DOMAIN rep :
           /\ next[i].name = rep[i].name
           /\ rep[i].name = x.ns /\ D # {} =>
                \E ch \in Change : /\ D = {ch} /\ ch.key = x.key
                                   /\ next[i].keyChanges = Append(rep[i].keyChanges, ch)
           /\ ~(rep[i].name = x.ns /\ D # {}) => next[i].keyChanges = rep[i].keyChanges
  BY DEF Adds
<1>2. ASSUME NEW ns \in Want(rep), NEW ch \in Differences(ns),
             NEW it, it = [ns |-> ns, key |-> ch.key]
      PROVE  /\ Settled(d, a, it) <=> Settled(c, b, it) \/ (ns = x.ns /\ ch.key = x.key)
             /\ Settled(c, b, it) /\ ns = x.ns => ch.key < x.key
  <2>1. PICK e \in W : e.ns = ns /\ e.key = ch.key
    BY DifferenceIsWanted
  <2>2. /\ Settled(d, a, e) <=> Settled(c, b, e) \/ SameKey(e, x)
        /\ Settled(c, b, e) => Before(e, x)
    BY DEF Settles
  <2>3. it.ns = e.ns /\ it.key = e.key
    BY <1>2, <2>1
  <2>4. \A u, v : Settled(u, v, it) <=> Settled(u, v, e)
    BY <2>3 DEF Settled, Behind, Before
  <2>5. e \in Item /\ e.ns \in Nat
    BY WantedPlaces, BeforeOrders
  <2>6. Before(e, x) /\ ns = x.ns => ch.key < x.key
    BY <2>1, <2>5 DEF Before
  <2> QED
    BY <2>1, <2>2, <2>4, <2>6 DEF SameKey
<1>3. ASSUME NEW ns \in Want(rep), ns # x.ns
      PROVE  SettledChanges(ns, d, a) = SettledChanges(ns, c, b)
  BY <1>2, <1>3 DEF SettledChanges
<1>4. /\ SettledChanges(x.ns, d, a) = SettledChanges(x.ns, c, b) \cup D
      /\ \A ch \in SettledChanges(x.ns, c, b) : ch.key < x.key
  BY <1>2 DEF SettledChanges
<1> HIDE DEF D
<1>5. ASSUME NEW i \in DOMAIN rep, rep[i].name \in Want(rep)
      PROVE  /\ Range(next[i].keyChanges) = SettledChanges(rep[i].name, d, a)
             /\ Ascending(next[i].keyChanges)
  <2>1. /\ Range(rep[i].keyChanges) = SettledChanges(rep[i].name, c, b)
        /\ Ascending(rep[i].keyChanges)
    BY <1>5 DEF Shown
  <2>2. CASE rep[i].name = x.ns /\ D # {}
    <3>1. PICK ch \in Change : /\ D = {ch} /\ ch.key = x.key
                               /\ next[i].keyChanges = Append(rep[i].keyChanges, ch)
      BY <1>1, <2>2
    <3>2. rep[i].keyChanges \in Seq(Change)
      BY DEF Rows
    <3>3. \A z \in Range(rep[i].keyChanges) : z.key < ch.key
      BY <1>4, <2>1, <2>2, <3>1
    <3>4. /\ Range(next[i].keyChanges) = Range(rep[i].keyChanges) \cup {ch}
          /\ Ascending(next[i].keyChanges)
      BY <2>1, <3>1, <3>2, <3>3, AppendAscends
    <3> QED
      BY <1>4, <2>1, <2>2, <3>1, <3>4
  <2>3. CASE ~(rep[i].name = x.ns /\ D # {})
    <3>1. next[i].keyChanges = rep[i].keyChanges
      BY <1>1, <2>3
    <3>2. SettledChanges(rep[i].name, d, a) = SettledChanges(rep[i].name, c, b)
      BY <1>3, <1>4, <1>5, <2>3
    <3> QED
      BY <2>1, <3>1, <3>2
  <2> QED
    BY <2>2, <2>3
<1>6. ASSUME NEW i \in DOMAIN rep, rep[i].name \notin Want(rep)
      PROVE  next[i].keyChanges = <<>>
  BY <1>1, <1>6 DEF Shown
<1> QED
  BY <1>1, <1>5, <1>6 DEF Shown

\* How the files differ under a name and key.
LEMMA DifferenceAt ==
  ASSUME old \in Inputs, Ordered(old), new \in Inputs, Ordered(new),
         NEW x \in Item, NEW D, D = {ch \in Differences(x.ns) : ch.key = x.key}
  PROVE  /\ x \in Held(old) /\ (\A e \in Held(new) : ~SameKey(e, x)) =>
              D = {[op |-> "-", key |-> x.key]}
         /\ x \in Held(new) /\ (\A e \in Held(old) : ~SameKey(e, x)) =>
              D = {[op |-> "+", key |-> x.key]}
         /\ \A y \in Held(new) :
              x \in Held(old) /\ SameKey(x, y) =>
                D = IF x.value # y.value THEN {[op |-> "~", key |-> x.key]} ELSE {}
<1>1. x.key \in Keys
  BY DEF Item
<1>2. \A ch : ch \in Differences(x.ns) <=>
        \E key \in Keys :
          \/ ch = [op |-> "-", key |-> key] /\ Has(old, x.ns, key) /\ ~Has(new, x.ns, key)
          \/ ch = [op |-> "+", key |-> key] /\ ~Has(old, x.ns, key) /\ Has(new, x.ns, key)
          \/ /\ ch = [op |-> "~", key |-> key]
             /\ \E o \in Held(old), n \in Held(new) :
                  /\ o.ns = x.ns /\ n.ns = x.ns /\ o.key = key /\ n.key = key
                  /\ o.value # n.value
  BY DEF Differences
<1>3. \A ch : ch \in D <=>
          \/ ch = [op |-> "-", key |-> x.key] /\ Has(old, x.ns, x.key) /\ ~Has(new, x.ns, x.key)
          \/ ch = [op |-> "+", key |-> x.key] /\ ~Has(old, x.ns, x.key) /\ Has(new, x.ns, x.key)
          \/ /\ ch = [op |-> "~", key |-> x.key]
             /\ \E o \in Held(old), n \in Held(new) :
                  SameKey(o, x) /\ SameKey(n, x) /\ o.value # n.value
  BY <1>1, <1>2 DEF SameKey
<1>4. \A f : Has(f, x.ns, x.key) <=> \E e \in Held(f) : SameKey(e, x)
  BY DEF Has, SameKey
<1>5. ASSUME x \in Held(old), \A e \in Held(new) : ~SameKey(e, x)
      PROVE  D = {[op |-> "-", key |-> x.key]}
  <2>1. SameKey(x, x)
    BY DEF SameKey
  <2> QED
    BY <1>3, <1>4, <1>5, <2>1
<1>6. ASSUME x \in Held(new), \A e \in Held(old) : ~SameKey(e, x)
      PROVE  D = {[op |-> "+", key |-> x.key]}
  <2>1. SameKey(x, x)
    BY DEF SameKey
  <2> QED
    BY <1>3, <1>4, <1>6, <2>1
<1>7. ASSUME NEW y \in Held(new), x \in Held(old), SameKey(x, y)
      PROVE  D = IF x.value # y.value THEN {[op |-> "~", key |-> x.key]} ELSE {}
  <2>1. SameKey(x, x) /\ SameKey(y, x)
    BY <1>7 DEF SameKey
  <2>2. \A o \in Held(old) : SameKey(o, x) <=> o = x
    BY <1>7, <2>1, HeldOnce
  <2>3. \A n \in Held(new) : SameKey(n, x) <=> n = y
    <3>1. \A n \in Held(new) : SameKey(n, x) => SameKey(n, y)
      BY <1>7 DEF SameKey
    <3> QED
      BY <1>7, <2>1, <3>1, HeldOnce
  <2>4. Has(old, x.ns, x.key) /\ Has(new, x.ns, x.key)
    BY <1>4, <1>7, <2>1
  <2>5. \A ch : ch \in D <=> ch = [op |-> "~", key |-> x.key] /\ x.value # y.value
    BY <1>3, <1>7, <2>2, <2>3, <2>4
  <2> QED
    BY <2>5
<1> QED
  BY <1>5, <1>6, <1>7

\* What a turn of the join makes of its rows.
LEMMA JoinsOn ==
  ASSUME old \in Inputs, Ordered(old), new \in Inputs, Ordered(new),
         NEW rep, NEW c, NEW b, Joins(rep, c, b),
         NEW x \in Item, x.ns \in Want(rep), NEW d, NEW a,
         Settles(old, new, Want(rep), c, b, d, a, x),
         NEW next, Adds(rep, next, x, {ch \in Differences(x.ns) : ch.key = x.key})
  PROVE  Joins(next, d, a)
<1>1. Rows(rep) /\ Shown(rep, c, b)
  BY DEF Joins
<1>2. Shown(next, d, a)
  BY <1>1, ShownOn
<1>3. Rows(next) /\ Want(next) = Want(rep)
  BY DEF Adds
<1>4. /\ Tracks(old, Want(rep), d) /\ Tracks(new, Want(rep), a)
      /\ Level(old, new, Want(rep), d, a)
  BY DEF Settles
<1> QED
  BY <1>2, <1>3, <1>4 DEF Joins

\* The entry is only in the old file.
LEMMA JoinOldKeeps ==
  ASSUME old \in Inputs, Ordered(old), new \in Inputs, Ordered(new),
         Joins(report, oldC, newC), JoinOld
  PROVE  Joins(report', oldC', newC')
<1> DEFINE want == Want(report)
           x == oldC.cur
           ch == [op |-> "-", key |-> x.key]
<1>1. /\ Rows(report) /\ Tracks(old, want, oldC) /\ Tracks(new, want, newC)
      /\ Level(old, new, want, oldC, newC)
  BY DEF Joins
<1>2. /\ oldC.ok /\ (newC.ok => Before(x, newC.cur))
      /\ report' = Emitted(report, x.ns, ch)
      /\ oldC' = advance(oldC, want) /\ newC' = newC
  BY DEF JoinOld, OldOnly, ItemBefore, Before, emit, Emitted
<1>3. /\ Settles(old, new, want, oldC, newC, oldC', newC', x)
      /\ x \in Wanted(old, want)
      /\ \A e \in Held(new) : ~SameKey(e, x)
  BY <1>1, <1>2, Overtakes
<1>4. x \in Item /\ x \in Held(old) /\ x.ns \in want
  BY <1>3, WantedPlaces DEF Wanted
<1>5. {y \in Differences(x.ns) : y.key = x.key} = {ch}
  BY <1>3, <1>4, DifferenceAt
<1>6. ch \in Change /\ ch.key = x.key
  BY <1>4 DEF Change, Item
<1> HIDE DEF ch, x
<1>7. Adds(report, report', x, {ch})
  BY <1>1, <1>2, <1>6, EmitAdds
<1> QED
  BY <1>3, <1>4, <1>5, <1>7, JoinsOn

\* The entry is only in the new file.
LEMMA JoinNewKeeps ==
  ASSUME old \in Inputs, Ordered(old), new \in Inputs, Ordered(new),
         Joins(report, oldC, newC), JoinNew
  PROVE  Joins(report', oldC', newC')
<1> DEFINE want == Want(report)
           x == newC.cur
           ch == [op |-> "+", key |-> x.key]
<1>1. /\ Rows(report) /\ Tracks(old, want, oldC) /\ Tracks(new, want, newC)
      /\ Level(new, old, want, newC, oldC)
  BY DEF Joins, Level
<1>2. /\ newC.ok /\ (oldC.ok => Before(x, oldC.cur))
      /\ report' = Emitted(report, x.ns, ch)
      /\ newC' = advance(newC, want) /\ oldC' = oldC
  BY DEF JoinNew, NewOnly, ItemBefore, Before, emit, Emitted
<1>3. /\ Settles(new, old, want, newC, oldC, newC', oldC', x)
      /\ x \in Wanted(new, want)
      /\ \A e \in Held(old) : ~SameKey(e, x)
  BY <1>1, <1>2, Overtakes
<1>4. x \in Item /\ x \in Held(new) /\ x.ns \in want
  BY <1>3, WantedPlaces DEF Wanted
<1>5. {y \in Differences(x.ns) : y.key = x.key} = {ch}
  BY <1>3, <1>4, DifferenceAt
<1>6. ch \in Change /\ ch.key = x.key
  BY <1>4 DEF Change, Item
<1>7. Settles(old, new, want, oldC, newC, oldC', newC', x)
  BY <1>3, SettlesSwapped
<1> HIDE DEF ch, x
<1>8. Adds(report, report', x, {ch})
  BY <1>1, <1>2, <1>6, EmitAdds
<1> QED
  BY <1>4, <1>5, <1>7, <1>8, JoinsOn

\* Both files hold an entry under the name and key.
LEMMA JoinBothKeeps ==
  ASSUME old \in Inputs, Ordered(old), new \in Inputs, Ordered(new),
         Joins(report, oldC, newC), JoinBoth
  PROVE  Joins(report', oldC', newC')
<1> DEFINE want == Want(report)
           x == oldC.cur
           y == newC.cur
           ch == [op |-> "~", key |-> x.key]
           D == {z \in Differences(x.ns) : z.key = x.key}
<1>1. /\ Rows(report) /\ Tracks(old, want, oldC) /\ Tracks(new, want, newC)
      /\ Level(old, new, want, oldC, newC)
  BY DEF Joins
<1>2. /\ oldC.ok /\ newC.ok /\ ~Before(x, y) /\ ~Before(y, x)
      /\ report' = IF x.value # y.value THEN Emitted(report, x.ns, ch) ELSE report
      /\ oldC' = advance(oldC, want) /\ newC' = advance(newC, want)
  BY DEF JoinBoth, OldOnly, NewOnly, ItemBefore, Before, emit, Emitted
<1>3. x \in Item /\ y \in Item
  <2>1. oldC.ok = TRUE /\ newC.ok = TRUE
    BY <1>1, <1>2, Tracked
  <2>2. x \in Wanted(old, want) /\ y \in Wanted(new, want)
    BY <1>1, <2>1, Tracked
  <2> QED
    BY <2>2, WantedPlaces
<1>4. SameKey(x, y)
  <2> HIDE DEF x, y
  <2> QED
    BY <1>2, <1>3, BeforeOrders
<1>5. /\ Settles(old, new, want, oldC, newC, oldC', newC', x)
      /\ x \in Wanted(old, want) /\ y \in Wanted(new, want)
  BY <1>1, <1>2, <1>4, Meets
<1>6. x \in Held(old) /\ y \in Held(new) /\ x.ns \in want
  BY <1>5 DEF Wanted
<1>7. ch \in Change /\ ch.key = x.key
  BY <1>3 DEF Change, Item
<1> HIDE DEF x, y
<1>8. D = IF x.value # y.value THEN {ch} ELSE {}
  BY <1>3, <1>4, <1>6, DifferenceAt
<1> HIDE DEF ch
<1>9. Adds(report, report', x, D)
  <2>1. CASE x.value # y.value
    <3>1. Adds(report, Emitted(report, x.ns, ch), x, {ch})
      BY <1>1, <1>7, EmitAdds
    <3> HIDE DEF D
    <3> QED
      BY <1>2, <1>8, <2>1, <3>1
  <2>2. CASE x.value = y.value
    <3>1. Adds(report, report, x, {})
      BY <1>1, NothingAdded
    <3> HIDE DEF D
    <3> QED
      BY <1>2, <1>8, <2>2, <3>1
  <2> QED
    BY <2>1, <2>2
<1> QED
  BY <1>3, <1>5, <1>6, <1>9, JoinsOn

-----------------------------------------------------------------------------
(***************************************************************************)
(* The invariant of the join, for two files in order.                      *)
(***************************************************************************)
Empty(rep) == \A i \in DOMAIN rep : rep[i].keyChanges = <<>>

BothOrdered == Ordered(old) /\ Ordered(new)

JInv == /\ old \in Inputs /\ new \in Inputs
        /\ BothOrdered =>
             /\ pc \in {"prime", "join"} => detailed
             /\ pc = "prime" => Rows(report) /\ Empty(report)
             /\ pc = "join" => Joins(report, oldC, newC)
             /\ ChangesAreExact

\* Both cursors are at their first entries and the rows are empty.
LEMMA PrimeJoins ==
  ASSUME old \in Inputs, Ordered(old), new \in Inputs, Ordered(new),
         NEW rep, Rows(rep), Empty(rep),
         NEW c, c = advance(newEntryCursor(old), Want(rep)),
         NEW b, b = advance(newEntryCursor(new), Want(rep))
  PROVE  Joins(rep, c, b)
<1> DEFINE want == Want(rep)
<1>1. /\ Tracks(old, want, c) /\ \A e \in Wanted(old, want) : ~Behind(c, e)
      /\ Tracks(new, want, b) /\ \A e \in Wanted(new, want) : ~Behind(b, e)
  BY PrimeTracks
<1>2. Level(old, new, want, c, b)
  BY <1>1 DEF Level
<1>3. ASSUME NEW ns \in want PROVE SettledChanges(ns, c, b) = {}
  <2> SUFFICES ASSUME NEW ch \in Differences(ns), Settled(c, b, [ns |-> ns, key |-> ch.key])
               PROVE  FALSE
    BY DEF SettledChanges
  <2>1. PICK e \in Wanted(old, want) \cup Wanted(new, want) : e.ns = ns /\ e.key = ch.key
    BY DifferenceIsWanted
  <2>2. Behind(c, e) /\ Behind(b, e)
    BY <2>1 DEF Settled, Behind, Before
  <2> QED
    BY <1>1, <2>2
<1>4. Range(<<>>) = {} /\ Ascending(<<>>)
  BY DEF Range, Ascending
<1>5. Shown(rep, c, b)
  BY <1>3, <1>4 DEF Shown, Empty
<1> QED
  BY <1>1, <1>2, <1>5 DEF Joins

\* Where both cursors are over every difference is settled.
LEMMA AllSettled ==
  ASSUME NEW rep, NEW c, NEW b, Joins(rep, c, b), ~c.ok, ~b.ok, NEW i \in DOMAIN rep
  PROVE  /\ Range(rep[i].keyChanges) = IF rep[i].status # "unchanged"
                                       THEN Differences(rep[i].name) ELSE {}
         /\ Ascending(rep[i].keyChanges)
<1>1. Rows(rep) /\ Shown(rep, c, b)
  BY DEF Joins
<1>2. rep[i].name \in Want(rep) <=> rep[i].status # "unchanged"
  BY <1>1 DEF Rows, Want
<1>3. \A ns : SettledChanges(ns, c, b) = Differences(ns)
  BY DEF SettledChanges, Settled, Behind
<1>4. Range(<<>>) = {} /\ Ascending(<<>>)
  BY DEF Range, Ascending
<1> QED
  BY <1>1, <1>2, <1>3, <1>4 DEF Shown

\* The rows that the manifests give show nothing yet, and one status for a name.
LEMMA BuiltRows ==
  ASSUME NEW oldM, NEW newM
  PROVE  Rows(buildDiff(oldM, newM)) /\ Empty(buildDiff(oldM, newM))
<1> DEFINE o == indexNS(oldM)
           n == indexNS(newM)
           names == unionSorted(o, n)
           rep == buildDiff(oldM, newM)
<1>1. rep = [i \in DOMAIN names |->
               [name       |-> names[i],
                status     |-> Status(o[names[i]], n[names[i]]),
                oldEntries |-> o[names[i]].entriesCount,
                newEntries |-> n[names[i]].entriesCount,
                keyChanges |-> <<>>]]
  BY DEF buildDiff
<1> HIDE DEF rep, names, o, n
<1>2. /\ DOMAIN rep = DOMAIN names
      /\ \A i \in DOMAIN rep :
           /\ DOMAIN rep[i] = RowFields /\ rep[i].keyChanges = <<>>
           /\ rep[i].name = names[i] /\ rep[i].status = Status(o[names[i]], n[names[i]])
  BY <1>1 DEF RowFields
<1>3. <<>> \in Seq(Change)
  OBVIOUS
<1>4. Rows(rep)
  BY <1>2, <1>3 DEF Rows
<1>5. Empty(rep)
  BY <1>2 DEF Empty
<1> QED
  BY <1>4, <1>5 DEF rep

\* The report that is shown without a join: its rows are empty, as they should be.
LEMMA EmptyIsExact == Empty(report) /\ ~(detailed /\ Want(report) # {}) => ChangesAreExact
<1> SUFFICES ASSUME Empty(report), ~(detailed /\ Want(report) # {})
             PROVE  ChangesAreExact
  OBVIOUS
<1>1. Range(<<>>) = {} /\ DOMAIN <<>> = {}
  BY DEF Range
<1>2. ASSUME NEW i \in DOMAIN report PROVE ~(detailed /\ report[i].status # "unchanged")
  BY DEF Want
<1> QED
  BY <1>1, <1>2 DEF ChangesAreExact, Empty

\* No report is rendered at the start.
LEMMA InitJoins == Init => JInv
BY DEF Init, JInv, ChangesAreExact

\* Load renders a report without changes, or goes on to the join.
LEMMA LoadJoins == ASSUME JInv, Load PROVE JInv'
<1>1. /\ old \in Inputs /\ new \in Inputs /\ old' = old /\ new' = new /\ detailed' = detailed
  BY DEF JInv, Load
<1>2. CASE Fail
  BY <1>1, <1>2 DEF JInv, Fail, ChangesAreExact
<1>3. CASE ~Fail
  <2> DEFINE rep == buildDiff(loadManifest(old).manifest, loadManifest(new).manifest)
  <2>1. /\ report' = rep
        /\ pc' = IF detailed /\ Want(rep) # {} THEN "prime" ELSE "rendered"
    BY <1>3, Zenon DEF Load
  <2>2. Rows(rep) /\ Empty(rep)
    BY BuiltRows
  <2> HIDE DEF rep
  <2>3. CASE detailed /\ Want(rep) # {}
    BY <1>1, <2>1, <2>2, <2>3 DEF JInv, ChangesAreExact
  <2>4. CASE ~(detailed /\ Want(rep) # {})
    <3>1. Empty(report)' /\ ~(detailed /\ Want(report) # {})'
      BY <1>1, <2>1, <2>2, <2>4
    <3>2. (Empty(report) /\ ~(detailed /\ Want(report) # {}) => ChangesAreExact)'
      BY EmptyIsExact, PTL
    <3>3. ChangesAreExact'
      BY <3>1, <3>2
    <3> QED
      BY <1>1, <2>1, <2>4, <3>3 DEF JInv
  <2> QED
    BY <2>3, <2>4
<1> QED
  BY <1>2, <1>3

\* The join starts with nothing settled.
LEMMA PrimeKeepsJoin == ASSUME JInv, Prime PROVE JInv'
<1>1. /\ old \in Inputs /\ new \in Inputs /\ old' = old /\ new' = new /\ detailed' = detailed
      /\ pc = "prime" /\ BothOrdered' = BothOrdered
  BY DEF JInv, Prime, BothOrdered
<1>2. CASE Fail
  BY <1>1, <1>2 DEF JInv, Fail, ChangesAreExact
<1>3. CASE ~Fail
  <2>1. /\ oldC' = advance(newEntryCursor(old), Want(report))
        /\ newC' = advance(newEntryCursor(new), Want(report))
        /\ pc' = "join" /\ report' = report
    BY <1>3, Zenon DEF Prime
  <2>2. BothOrdered => detailed /\ Rows(report) /\ Empty(report)
    BY <1>1 DEF JInv
  <2>3. BothOrdered => Joins(report, oldC', newC')
    BY <1>1, <2>1, <2>2, PrimeJoins DEF BothOrdered
  <2>4. BothOrdered => Joins(report, oldC, newC)'
    BY <1>1, <2>1, <2>3
       DEF Joins, Shown, SettledChanges, Differences, Has
  <2> QED
    BY <1>1, <2>1, <2>2, <2>4 DEF JInv, ChangesAreExact
<1> QED
  BY <1>2, <1>3

\* Every turn of the join settles one name and key.
LEMMA TurnKeepsJoin == ASSUME JInv, JoinOld \/ JoinNew \/ JoinBoth PROVE JInv'
<1>1. /\ old \in Inputs /\ new \in Inputs /\ old' = old /\ new' = new /\ detailed' = detailed
      /\ pc = "join" /\ pc' = "join" /\ BothOrdered' = BothOrdered
  BY DEF JInv, JoinOld, JoinNew, JoinBoth, BothOrdered
<1>2. BothOrdered => detailed /\ Joins(report, oldC, newC)
  BY <1>1 DEF JInv
<1>3. BothOrdered => Joins(report', oldC', newC')
  BY <1>1, <1>2, JoinOldKeeps, JoinNewKeeps, JoinBothKeeps DEF BothOrdered
<1>4. BothOrdered => Joins(report, oldC, newC)'
  BY <1>1, <1>3 DEF Joins, Shown, SettledChanges, Differences, Has
<1> QED
  BY <1>1, <1>2, <1>4 DEF JInv, ChangesAreExact

\* The report that is rendered after the join shows every difference.
LEMMA FinishIsExact == ASSUME JInv, Finish PROVE JInv'
<1>1. /\ old \in Inputs /\ new \in Inputs /\ old' = old /\ new' = new /\ detailed' = detailed
      /\ pc = "join" /\ pc' \in {"failed", "rendered"} /\ report' = report
      /\ ~oldC.ok /\ ~newC.ok /\ BothOrdered' = BothOrdered
  BY DEF JInv, Finish, BothOrdered
<1>2. BothOrdered => detailed /\ Joins(report, oldC, newC)
  BY <1>1 DEF JInv
<1>3. BothOrdered =>
        \A i \in DOMAIN report :
          /\ Range(report[i].keyChanges) = IF detailed /\ report[i].status # "unchanged"
                                           THEN Differences(report[i].name) ELSE {}
          /\ Ascending(report[i].keyChanges)
  BY <1>1, <1>2, AllSettled
<1>4. \A ns : Differences(ns)' = Differences(ns)
  BY <1>1 DEF Differences, Has
<1>5. BothOrdered => ChangesAreExact'
  BY <1>1, <1>3, <1>4 DEF ChangesAreExact, Ascending
<1> QED
  BY <1>1, <1>2, <1>5 DEF JInv

\* Every step of the command keeps the invariant.
LEMMA NextJoins == JInv /\ [DiffNext]_vars => JInv'
<1> SUFFICES ASSUME JInv, [DiffNext]_vars PROVE JInv'
  OBVIOUS
<1>1. CASE Load
  BY <1>1, LoadJoins
<1>2. CASE Prime
  BY <1>2, PrimeKeepsJoin
<1>3. CASE JoinOld \/ JoinNew \/ JoinBoth
  BY <1>3, TurnKeepsJoin
<1>4. CASE Finish
  BY <1>4, FinishIsExact
<1>5. CASE UNCHANGED vars
  <2>1. /\ old' = old /\ new' = new /\ detailed' = detailed /\ pc' = pc
        /\ report' = report /\ oldC' = oldC /\ newC' = newC
    BY <1>5 DEF vars
  <2>2. \A ns : Differences(ns)' = Differences(ns)
    BY <2>1 DEF Differences, Has
  <2>3. Joins(report, oldC, newC)' <=> Joins(report, oldC, newC)
    BY <2>1, <2>2 DEF Joins, Shown, SettledChanges
  <2>4. ChangesAreExact' <=> ChangesAreExact
    BY <2>1, <2>2 DEF ChangesAreExact
  <2> QED
    BY <2>1, <2>3, <2>4 DEF JInv, BothOrdered
<1> QED
  BY <1>1, <1>2, <1>3, <1>4, <1>5 DEF DiffNext

\* While two files in order are joined each row of the report shows the
\* differences that both cursors have passed.
THEOREM DiffJoinInvariant == Spec => []JInv
<1> QED
  BY InitJoins, NextJoins, PTL DEF Spec

\* For any two files in order the changes that scls diff shows are the
\* differences, each once and in ascending order (diff.go:125-187), however the
\* entries are cut into chunks.
THEOREM DiffChangesExact == Spec => []ChangesAreExact
<1>1. JInv => ChangesAreExact
  BY DEF JInv, BothOrdered, ChangesAreExact
<1> QED
  BY <1>1, DiffJoinInvariant, PTL
=============================================================================
