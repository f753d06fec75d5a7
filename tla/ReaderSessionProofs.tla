------------------------ MODULE ReaderSessionProofs ------------------------
(***************************************************************************)
(* The Reader delivers what the stream holds, for streams of any records   *)
(* and any length, however its client calls Next and however the stream    *)
(* grows between the calls.                                                *)
(***************************************************************************)
EXTENDS ReaderSession, SeqLemmas, SequenceTheorems, FiniteSetTheorems, TLAPS

ChunkFold == INSTANCE SeqFold WITH
  op <- LAMBDA chunks, rec : IF Decodable(rec) THEN Append(chunks, rec) ELSE chunks

\* A record more is delivered if it is a chunk that decodes.
LEMMA DeliverableFold == \A q : Deliverable(q) = ChunkFold!Fold(<<>>, q)
BY DEF Deliverable, FoldLeft, MapThenFoldSet, Max,
       ChunkFold!Fold, ChunkFold!FoldLeft, ChunkFold!MapThenFoldSet, ChunkFold!Max

\* Nothing is delivered of nothing.
LEMMA DeliverableEmpty == Deliverable(<<>>) = <<>>
BY DeliverableFold, ChunkFold!FoldEmpty

\* A record more is delivered if it is a chunk that decodes.
LEMMA DeliverableAppend ==
  ASSUME NEW S, NEW q \in Seq(S), NEW rec \in S
  PROVE  Deliverable(Append(q, rec)) = IF Decodable(rec) THEN Append(Deliverable(q), rec)
                                       ELSE Deliverable(q)
BY DeliverableFold, ChunkFold!FoldAppend

-----------------------------------------------------------------------------
(***************************************************************************)
(* The first k records of a stream.                                        *)
(***************************************************************************)
Prefix(f, k) == [i \in 1..k |-> f[i]]

\* They are what SubSeq cuts off.
LEMMA PrefixIsSubSeq ==
  ASSUME NEW f \in Seq(RecordPool), NEW k \in 0..Len(f)
  PROVE  SubSeq(f, 1, k) = Prefix(f, k)
BY SubSeqRestrict DEF Prefix, Restrict

\* They are a sequence.
LEMMA PrefixSeq ==
  ASSUME NEW f \in Seq(RecordPool), NEW k \in 0..Len(f)
  PROVE  /\ Prefix(f, k) \in Seq(RecordPool)
         /\ Len(Prefix(f, k)) = k /\ DOMAIN Prefix(f, k) = 1..k
<1>1. Len(f) \in Nat /\ DOMAIN f = 1..Len(f) /\ k \in Nat
  BY LenProperties
<1>2. \A i \in 1..Len(f) : f[i] \in RecordPool
  BY <1>1, ElementOfSeq
<1>3. Prefix(f, k) \in [1..k -> RecordPool]
  BY <1>1, <1>2 DEF Prefix
<1> QED
  BY <1>1, <1>3, SeqDef

\* The prefix is a sequence, and one record longer it ends in that record.
LEMMA PrefixGrows ==
  ASSUME NEW f \in Seq(RecordPool), NEW k \in 0..(Len(f) - 1)
  PROVE  /\ Prefix(f, k) \in Seq(RecordPool) /\ f[k + 1] \in RecordPool
         /\ Prefix(f, k + 1) = Append(Prefix(f, k), f[k + 1])
<1>0. Len(f) \in Nat /\ DOMAIN f = 1..Len(f) /\ k \in Nat /\ k + 1 \in 1..Len(f)
  BY LenProperties
<1>1. \A i \in 1..Len(f) : f[i] \in RecordPool
  BY <1>0, ElementOfSeq
<1>2. Prefix(f, k) \in [1..k -> RecordPool]
  BY <1>0, <1>1 DEF Prefix
<1>3. Prefix(f, k) \in Seq(RecordPool) /\ Len(Prefix(f, k)) = k
  BY <1>0, <1>2, SeqDef
<1>4. \A i \in 1..k : Prefix(f, k)[i] = f[i]
  BY DEF Prefix
<1> DEFINE a == Append(Prefix(f, k), f[k + 1])
<1>5. DOMAIN a = 1..(k + 1) /\ \A i \in 1..(k + 1) : a[i] = f[i]
  <2> HIDE DEF Prefix
  <2> QED
    BY <1>0, <1>1, <1>3, <1>4, AppendProperties
<1>6. a = [i \in DOMAIN a |-> a[i]]
  BY <1>3
<1>7. a = Prefix(f, k + 1)
  <2> HIDE DEF a
  <2> QED
    BY <1>5, <1>6 DEF Prefix
<1> QED
  BY <1>0, <1>1, <1>3, <1>7

\* What is delivered of one record more.
LEMMA DeliverableGrows ==
  ASSUME NEW f \in Seq(RecordPool), NEW k \in 0..(Len(f) - 1)
  PROVE  Deliverable(Prefix(f, k + 1)) =
           IF Decodable(f[k + 1]) THEN Append(Deliverable(Prefix(f, k)), f[k + 1])
           ELSE Deliverable(Prefix(f, k))
<1> DEFINE q == Prefix(f, k)
           rec == f[k + 1]
<1>1. q \in Seq(RecordPool) /\ rec \in RecordPool /\ Prefix(f, k + 1) = Append(q, rec)
  BY PrefixGrows
<1> HIDE DEF q, rec
<1>2. Deliverable(Append(q, rec)) = IF Decodable(rec) THEN Append(Deliverable(q), rec)
                                    ELSE Deliverable(q)
  BY <1>1, DeliverableAppend
<1> QED
  BY <1>1, <1>2 DEF q, rec

\* A set of positions can be counted.
LEMMA PositionsCounted ==
  ASSUME NEW k \in Nat, NEW S \in SUBSET (1..k)
  PROVE  IsFiniteSet(S) /\ Cardinality(S) \in Nat
<1>1. 1 \in Int /\ k \in Int
  OBVIOUS
<1>2. IsFiniteSet(1..k)
  BY <1>1, FS_Interval
<1>3. IsFiniteSet(S)
  BY <1>2, FS_Subset
<1> QED
  BY <1>3, FS_CardinalityType

ReservedUpTo(f, k) == {i \in 1..k : f[i] = Reserved}

\* What is skipped of one record more.
LEMMA ReservedGrows ==
  ASSUME NEW f \in Seq(RecordPool), NEW k \in 0..(Len(f) - 1)
  PROVE  /\ k \in Nat /\ Cardinality(ReservedUpTo(f, k)) \in Nat
         /\ Cardinality(ReservedUpTo(f, k + 1)) =
              IF f[k + 1] = Reserved THEN Cardinality(ReservedUpTo(f, k)) + 1
              ELSE Cardinality(ReservedUpTo(f, k))
<1>0. k \in Nat
  BY LenProperties
<1>1. IsFiniteSet(ReservedUpTo(f, k)) /\ k + 1 \notin ReservedUpTo(f, k)
  <2>1. ReservedUpTo(f, k) \in SUBSET (1..k) /\ k + 1 \notin ReservedUpTo(f, k)
    BY <1>0 DEF ReservedUpTo
  <2> QED
    BY <1>0, <2>1, PositionsCounted
<1>2. ReservedUpTo(f, k + 1) = IF f[k + 1] = Reserved
                                 THEN ReservedUpTo(f, k) \cup {k + 1}
                                 ELSE ReservedUpTo(f, k)
  BY <1>0 DEF ReservedUpTo
<1>3. Cardinality(ReservedUpTo(f, k)) \in Nat
  BY <1>1, FS_CardinalityType
<1>4. Cardinality(ReservedUpTo(f, k) \cup {k + 1}) = Cardinality(ReservedUpTo(f, k)) + 1
  BY <1>1, FS_AddElement
<1> QED
  BY <1>0, <1>2, <1>3, <1>4

-----------------------------------------------------------------------------
(***************************************************************************)
(* The account of the first k records: the first MANIFEST that decodes is  *)
(* at m, or there is none and m is k + 1.  clean says that every record    *)
(* was as it should be.                                                    *)
(***************************************************************************)
ManifestAt(rec) == IsManifest(rec) /\ rec.ok

Clean(f, k, m, chunks) ==
  /\ chunks = Deliverable(Prefix(f, k))
  /\ \A i \in 2..k : i = m \/ f[i] = Reserved \/ (i < m /\ Decodable(f[i]))

AccountAt(f, k, m, manifest, skipped, chunks, clean) ==
  /\ \A i \in 1..(m - 1) : ~ManifestAt(f[i])
  /\ m <= k => ManifestAt(f[m])
  /\ manifest = IF m <= k THEN f[m] ELSE NoManifest
  /\ chunks = Deliverable(Prefix(f, m - 1))
  /\ skipped = Cardinality(ReservedUpTo(f, k))
  /\ clean => Clean(f, k, m, chunks)

Account(f, k, manifest, skipped, chunks, clean) ==
  \E m \in 1..(k + 1) : AccountAt(f, k, m, manifest, skipped, chunks, clean)

\* A MANIFEST is held exactly when one has been met.
LEMMA ManifestHeld ==
  ASSUME NEW f, NEW k, NEW m, NEW manifest, NEW skipped, NEW chunks, NEW clean,
         AccountAt(f, k, m, manifest, skipped, chunks, clean)
  PROVE  manifest = NoManifest <=> ~(m <= k)
<1>1. ASSUME m <= k PROVE manifest # NoManifest
  <2>1. manifest.type = "MANIFEST"
    BY <1>1 DEF AccountAt, ManifestAt, IsManifest
  <2> QED
    BY <2>1 DEF NoManifest
<1> QED
  BY <1>1 DEF AccountAt

\* A reserved record is counted.
LEMMA StepReserved ==
  ASSUME NEW f \in Seq(RecordPool), NEW k \in 0..(Len(f) - 1),
         NEW manifest, NEW skipped, NEW chunks, NEW clean,
         Account(f, k, manifest, skipped, chunks, clean), f[k + 1] = Reserved
  PROVE  Account(f, k + 1, manifest, skipped + 1, chunks, clean)
<1>1. PICK m \in 1..(k + 1) : AccountAt(f, k, m, manifest, skipped, chunks, clean)
  BY DEF Account
<1>2. ~ManifestAt(f[k + 1]) /\ ~Decodable(f[k + 1])
  BY DEF ManifestAt, Decodable, IsManifest, IsChunk, Reserved
<1>3. Deliverable(Prefix(f, k + 1)) = Deliverable(Prefix(f, k))
  BY <1>2, DeliverableGrows
<1>4. Cardinality(ReservedUpTo(f, k + 1)) = skipped + 1
  BY <1>1, ReservedGrows DEF AccountAt
<1>5. CASE m <= k
  <2>1. AccountAt(f, k + 1, m, manifest, skipped + 1, chunks, clean)
    BY <1>1, <1>3, <1>4, <1>5 DEF AccountAt, Clean
  <2> QED
    BY <1>5, <2>1 DEF Account
<1>6. CASE ~(m <= k)
  <2>1. m = k + 1 /\ (k + 2) - 1 = k + 1 /\ m - 1 = k
    BY <1>6
  <2>2. AccountAt(f, k + 1, k + 2, manifest, skipped + 1, chunks, clean)
    BY <1>1, <1>2, <1>3, <1>4, <1>6, <2>1 DEF AccountAt, Clean
  <2> QED
    BY <2>2 DEF Account
<1> QED
  BY <1>5, <1>6

\* The first MANIFEST that decodes is held.
LEMMA StepManifest ==
  ASSUME NEW f \in Seq(RecordPool), NEW k \in 0..(Len(f) - 1),
         NEW skipped, NEW chunks, NEW clean,
         Account(f, k, NoManifest, skipped, chunks, clean), ManifestAt(f[k + 1])
  PROVE  Account(f, k + 1, f[k + 1], skipped, chunks, clean)
<1>1. PICK m \in 1..(k + 1) : AccountAt(f, k, m, NoManifest, skipped, chunks, clean)
  BY DEF Account
<1>2. m = k + 1
  BY <1>1, ManifestHeld
<1>3. f[k + 1] # Reserved /\ ~Decodable(f[k + 1])
  BY DEF ManifestAt, Decodable, IsManifest, IsChunk, Reserved
<1>4. Deliverable(Prefix(f, k + 1)) = Deliverable(Prefix(f, k))
  BY <1>3, DeliverableGrows
<1>5. Cardinality(ReservedUpTo(f, k + 1)) = skipped
  BY <1>1, <1>3, ReservedGrows DEF AccountAt
<1>6. AccountAt(f, k + 1, m, f[k + 1], skipped, chunks, clean)
  BY <1>1, <1>2, <1>4, <1>5 DEF AccountAt, Clean
<1> QED
  BY <1>2, <1>6 DEF Account

\* A chunk that decodes, before any MANIFEST, is delivered.
LEMMA StepChunk ==
  ASSUME NEW f \in Seq(RecordPool), NEW k \in 0..(Len(f) - 1),
         NEW skipped, NEW chunks, NEW clean,
         Account(f, k, NoManifest, skipped, chunks, clean), Decodable(f[k + 1])
  PROVE  Account(f, k + 1, NoManifest, skipped, Append(chunks, f[k + 1]), clean)
<1>1. PICK m \in 1..(k + 1) : AccountAt(f, k, m, NoManifest, skipped, chunks, clean)
  BY DEF Account
<1>2. m = k + 1 /\ m - 1 = k /\ (k + 2) - 1 = k + 1
  BY <1>1, ManifestHeld
<1>3. f[k + 1] # Reserved /\ ~ManifestAt(f[k + 1])
  BY DEF ManifestAt, Decodable, IsManifest, IsChunk, Reserved
<1>4. Deliverable(Prefix(f, k + 1)) = Append(Deliverable(Prefix(f, k)), f[k + 1])
  BY DeliverableGrows
<1>5. Cardinality(ReservedUpTo(f, k + 1)) = skipped
  BY <1>1, <1>3, ReservedGrows DEF AccountAt
<1>6. AccountAt(f, k + 1, k + 2, NoManifest, skipped, Append(chunks, f[k + 1]), clean)
  BY <1>1, <1>2, <1>3, <1>4, <1>5 DEF AccountAt, Clean
<1> QED
  BY <1>6 DEF Account

\* Any other record is passed over; only the HDR belongs where it is.
LEMMA StepOther ==
  ASSUME NEW f \in Seq(RecordPool), NEW k \in 0..(Len(f) - 1),
         NEW manifest, NEW skipped, NEW chunks, NEW clean, NEW stillClean,
         Account(f, k, manifest, skipped, chunks, clean),
         f[k + 1] # Reserved,
         manifest = NoManifest => ~ManifestAt(f[k + 1]) /\ ~Decodable(f[k + 1]),
         stillClean => clean /\ k = 0 /\ manifest = NoManifest
  PROVE  Account(f, k + 1, manifest, skipped, chunks, stillClean)
<1>1. PICK m \in 1..(k + 1) : AccountAt(f, k, m, manifest, skipped, chunks, clean)
  BY DEF Account
<1>2. Cardinality(ReservedUpTo(f, k + 1)) = skipped
  BY <1>1, ReservedGrows DEF AccountAt
<1>3. CASE m <= k
  <2>1. manifest # NoManifest
    BY <1>1, <1>3, ManifestHeld
  <2>2. AccountAt(f, k + 1, m, manifest, skipped, chunks, stillClean)
    BY <1>1, <1>2, <1>3, <2>1 DEF AccountAt
  <2> QED
    BY <1>3, <2>2 DEF Account
<1>4. CASE ~(m <= k)
  <2>1. m = k + 1 /\ m - 1 = k /\ (k + 2) - 1 = k + 1 /\ manifest = NoManifest
    BY <1>1, <1>4, ManifestHeld
  <2>2. ~ManifestAt(f[k + 1]) /\ ~Decodable(f[k + 1])
    BY <2>1
  <2>3. Deliverable(Prefix(f, k + 1)) = Deliverable(Prefix(f, k))
    BY <2>2, DeliverableGrows
  <2>4. stillClean => Clean(f, k + 1, k + 2, chunks)
    <3>1. k = 0 => 2..(k + 1) = {}
      OBVIOUS
    <3> QED
      BY <1>1, <2>3, <3>1 DEF AccountAt, Clean
  <2>5. AccountAt(f, k + 1, k + 2, manifest, skipped, chunks, stillClean)
    BY <1>1, <1>2, <2>1, <2>2, <2>3, <2>4 DEF AccountAt
  <2> QED
    BY <2>5 DEF Account
<1> QED
  BY <1>3, <1>4

-----------------------------------------------------------------------------
(***************************************************************************)
(* What Next takes in without returning.  What is left to read is a suffix *)
(* of the stream.                                                          *)
(***************************************************************************)
ReaderFields == {"r", "manifest", "skipped", "done"}

Suffix(r, f) == /\ r \in Seq(RecordPool) /\ Len(r) \in 0..Len(f)
                /\ \A i \in 1..Len(r) : r[i] = f[Len(f) - Len(r) + i]

At(f, p, chunks, clean) ==
  /\ DOMAIN p = ReaderFields
  /\ Suffix(p.r, f)
  /\ Account(f, Len(f) - Len(p.r), p.manifest, p.skipped, chunks, clean)

Stays(p, n) == Passed(p, n) /\ (n < Len(p.r) => ~Passed(p, n + 1))

\* It stops somewhere.
LEMMA PassStops ==
  ASSUME NEW p, Len(p.r) \in Nat
  PROVE  \E n \in 0..Len(p.r) : Stays(p, n)
<1> DEFINE N == Len(p.r)
           S == {k \in 0..N : Passed(p, k)}
<1> SUFFICES ASSUME \A n \in 0..N : ~Stays(p, n) PROVE FALSE
  OBVIOUS
<1>1. 0 \in S
  BY DEF Passed
<1>2. \A k \in 0..(N - 1) : k \in S => k + 1 \in S
  BY DEF Stays
<1>3. N \in S
  <2>1. N \in Nat /\ N \in 0..N
    OBVIOUS
  <2> HIDE DEF S, N
  <2> QED
    BY <1>1, <1>2, <2>1, BoundedInduct
<1> QED
  BY <1>3 DEF Stays

\* Behind n records a suffix is left.
LEMMA SuffixLeft ==
  ASSUME NEW f \in Seq(RecordPool), NEW r, Suffix(r, f), NEW n \in 0..Len(r)
  PROVE  LET q == SubSeq(r, n + 1, Len(r))
         IN  Suffix(q, f) /\ Len(q) = Len(r) - n /\ (q # <<>> => Head(q) = r[n + 1])
<1> DEFINE q == SubSeq(r, n + 1, Len(r))
<1>0. Len(r) \in Nat /\ DOMAIN r = 1..Len(r) /\ Len(f) \in Nat /\ n \in Nat
  BY LenProperties DEF Suffix
<1>1. \A i \in (n + 1)..Len(r) : r[i] \in RecordPool
  BY <1>0, ElementOfSeq DEF Suffix
<1>2. /\ q \in Seq(RecordPool)
      /\ Len(q) = IF n + 1 <= Len(r) THEN Len(r) - (n + 1) + 1 ELSE 0
      /\ \A i \in 1..(Len(r) - (n + 1) + 1) : q[i] = r[n + 1 + i - 1]
  BY <1>0, <1>1, SubSeqProperties
<1> HIDE DEF q
<1>3. Len(q) = Len(r) - n /\ \A i \in 1..Len(q) : q[i] = r[n + i]
  <2>1. Len(r) - (n + 1) + 1 = Len(r) - n
    BY <1>0
  <2>2. Len(q) = Len(r) - n
    <3>1. CASE n + 1 <= Len(r)
      BY <1>2, <2>1, <3>1
    <3>2. CASE ~(n + 1 <= Len(r))
      <4>1. PICK l \in Nat : l = Len(r)
        BY <1>0
      <4>2. n \in 0..l /\ ~(n + 1 <= l)
        BY <3>2, <4>1
      <4>3. n = l /\ l - n = 0
        BY <4>1, <4>2
      <4> QED
        BY <1>2, <3>2, <4>1, <4>3
    <3> QED
      BY <3>1, <3>2
  <2>3. ASSUME NEW i \in 1..Len(q) PROVE q[i] = r[n + i]
    <3>1. i \in 1..(Len(r) - (n + 1) + 1) /\ n + 1 + i - 1 = n + i
      BY <1>0, <2>1, <2>2
    <3> QED
      BY <1>2, <3>1
  <2> QED
    BY <2>2, <2>3
<1>4. Suffix(q, f)
  <2>1. ASSUME NEW i \in 1..Len(q) PROVE q[i] = f[Len(f) - Len(q) + i]
    <3>1. n + i \in 1..Len(r) /\ Len(f) - Len(r) + (n + i) = Len(f) - Len(q) + i
      BY <1>0, <1>3
    <3> QED
      BY <1>3, <3>1 DEF Suffix
  <2>2. Len(q) \in 0..Len(f)
    BY <1>0, <1>3 DEF Suffix
  <2> QED
    BY <1>2, <2>1, <2>2 DEF Suffix
<1>5. ASSUME q # <<>> PROVE Head(q) = r[n + 1]
  <2>1. Len(q) \in Nat \ {0} /\ Head(q) = q[1]
    BY <1>2, <1>5, LenProperties, EmptySeq
  <2> QED
    BY <1>3, <2>1
<1> QED
  BY <1>3, <1>4, <1>5 DEF q

\* What PassedBy knows after i records: the MANIFESTs among them, of which
\* there is at most one.
SeenIn(p, i) == {j \in 1..i : IsManifest(p.r[j])}
ManifestIn(p, i) == IF SeenIn(p, i) = {} THEN p.manifest
                    ELSE p.r[CHOOSE j \in SeenIn(p, i) : TRUE]

\* One record more.
LEMMA SeenGrows ==
  ASSUME NEW p, NEW i \in Nat, Passed(p, i + 1)
  PROVE  /\ Cardinality(SeenIn(p, i)) \in Nat
         /\ \/ /\ p.r[i + 1] = Reserved
               /\ Cardinality(SeenIn(p, i + 1)) = Cardinality(SeenIn(p, i))
               /\ ManifestIn(p, i + 1) = ManifestIn(p, i)
            \/ /\ ManifestAt(p.r[i + 1])
               /\ Cardinality(SeenIn(p, i)) = 0 /\ Cardinality(SeenIn(p, i + 1)) = 1
               /\ ManifestIn(p, i) = NoManifest
               /\ ManifestIn(p, i + 1) = p.r[i + 1]
<1>1. Cardinality(SeenIn(p, i)) \in Nat
  <2>1. SeenIn(p, i) \in SUBSET (1..i)
    BY DEF SeenIn
  <2> QED
    BY <2>1, PositionsCounted
<1>2. SeenIn(p, i + 1) = IF IsManifest(p.r[i + 1]) THEN SeenIn(p, i) \cup {i + 1}
                         ELSE SeenIn(p, i)
  BY DEF SeenIn
<1>3. CASE p.r[i + 1] = Reserved
  <2>1. ~IsManifest(p.r[i + 1])
    BY <1>3 DEF IsManifest, Reserved
  <2>2. SeenIn(p, i + 1) = SeenIn(p, i)
    BY <1>2, <2>1
  <2> QED
    BY <1>1, <1>3, <2>2 DEF ManifestIn
<1>4. CASE p.r[i + 1] # Reserved
  <2>1. /\ ManifestAt(p.r[i + 1]) /\ p.manifest = NoManifest
        /\ \A j \in 1..((i + 1) - 1) : ~IsManifest(p.r[j])
    BY <1>4 DEF Passed, ManifestAt
  <2>2. SeenIn(p, i) = {}
    BY <2>1 DEF SeenIn
  <2>3. SeenIn(p, i + 1) = {i + 1}
    BY <1>2, <2>1, <2>2 DEF ManifestAt
  <2>4. (CHOOSE j \in {i + 1} : TRUE) = i + 1
    OBVIOUS
  <2>5. Cardinality({}) = 0 /\ Cardinality({i + 1}) = 1
    BY FS_EmptySet, FS_Singleton
  <2> QED
    BY <1>1, <2>1, <2>2, <2>3, <2>4, <2>5 DEF ManifestIn
<1> QED
  BY <1>3, <1>4

\* The account after the records passed.
LEMMA PassedAccount ==
  ASSUME NEW f \in Seq(RecordPool), NEW p, NEW chunks, NEW clean,
         At(f, p, chunks, clean), NEW n \in 0..Len(p.r), Passed(p, n)
  PROVE  Account(f, Len(f) - Len(p.r) + n, ManifestIn(p, n),
                 p.skipped + n - Cardinality(SeenIn(p, n)), chunks, clean)
<1> DEFINE k == Len(f) - Len(p.r)
           Holds(i) == Account(f, k + i, ManifestIn(p, i),
                               p.skipped + i - Cardinality(SeenIn(p, i)), chunks, clean)
           S == {i \in 0..n : Holds(i)}
<1>0. /\ Len(f) \in Nat /\ Len(p.r) \in Nat /\ k \in Nat /\ n \in Nat
      /\ k + n <= Len(f)
  BY LenProperties DEF At, Suffix
<1>1. p.skipped \in Nat
  <2>1. p.skipped = Cardinality(ReservedUpTo(f, k))
    BY DEF At, Account, AccountAt
  <2>2. ReservedUpTo(f, k) \in SUBSET (1..k)
    BY DEF ReservedUpTo
  <2> HIDE DEF k
  <2> QED
    BY <1>0, <2>1, <2>2, PositionsCounted
<1>2. Holds(0)
  <2>1. SeenIn(p, 0) = {}
    BY DEF SeenIn
  <2>2. ManifestIn(p, 0) = p.manifest /\ Cardinality(SeenIn(p, 0)) = 0
    BY <2>1, FS_EmptySet DEF ManifestIn
  <2>3. k + 0 = k /\ p.skipped + 0 - 0 = p.skipped
    BY <1>0, <1>1
  <2> QED
    BY <2>2, <2>3 DEF At
<1>3. ASSUME NEW i \in 0..(n - 1), Holds(i) PROVE Holds(i + 1)
  <2>1. /\ i \in Nat /\ i + 1 \in 1..Len(p.r) /\ k + i \in 0..(Len(f) - 1)
        /\ (k + i) + 1 = k + (i + 1)
    BY <1>0
  <2>2. p.r[i + 1] = f[(k + i) + 1]
    <3>1. p.r[i + 1] = f[Len(f) - Len(p.r) + (i + 1)]
      BY <2>1 DEF At, Suffix
    <3> QED
      BY <2>1, <3>1
  <2>3. Passed(p, i + 1)
    BY <1>0, <2>1 DEF Passed
  <2> DEFINE c == Cardinality(SeenIn(p, i))
             sk == p.skipped + i - c
  <2>4. c \in Nat
    BY <2>1, <2>3, SeenGrows
  <2> HIDE DEF k
  <2>5. CASE /\ p.r[i + 1] = Reserved
             /\ Cardinality(SeenIn(p, i + 1)) = c
             /\ ManifestIn(p, i + 1) = ManifestIn(p, i)
    <3>1. Account(f, (k + i) + 1, ManifestIn(p, i), sk + 1, chunks, clean)
      BY <1>3, <2>1, <2>2, <2>5, StepReserved
    <3>2. sk + 1 = p.skipped + (i + 1) - c
      BY <1>1, <2>1, <2>4
    <3> QED
      BY <2>1, <2>5, <3>1, <3>2
  <2>6. CASE /\ ManifestAt(p.r[i + 1])
             /\ c = 0 /\ Cardinality(SeenIn(p, i + 1)) = 1
             /\ ManifestIn(p, i) = NoManifest
             /\ ManifestIn(p, i + 1) = p.r[i + 1]
    <3>1. Account(f, k + i, NoManifest, sk, chunks, clean)
      BY <1>3, <2>6
    <3>2. Account(f, (k + i) + 1, f[(k + i) + 1], sk, chunks, clean)
      <4> HIDE DEF sk
      <4> QED
        BY <2>1, <2>2, <2>6, <3>1, StepManifest
    <3>3. sk = p.skipped + (i + 1) - 1
      BY <1>1, <2>1, <2>6
    <3> QED
      BY <2>1, <2>2, <2>6, <3>2, <3>3
  <2> QED
    BY <2>1, <2>3, <2>5, <2>6, SeenGrows
<1>4. n \in S
  <2> HIDE DEF Holds
  <2>1. 0 \in S /\ n \in 0..n
    BY <1>0, <1>2
  <2>2. \A i \in 0..(n - 1) : i \in S => i + 1 \in S
    BY <1>0, <1>3
  <2>3. n \in Nat
    BY <1>0
  <2> HIDE DEF S
  <2> QED
    BY <2>1, <2>2, <2>3, BoundedInduct
<1> QED
  BY <1>4

\* Where Next stops there is nothing left, or a record it does not pass.
Halted(p) == p.r # <<>> => /\ Head(p.r) # Reserved
                           /\ ~(ManifestAt(Head(p.r)) /\ p.manifest = NoManifest)

\* Passing over records keeps the account.
LEMMA PassedByAccount ==
  ASSUME NEW f \in Seq(RecordPool), NEW p, NEW chunks, NEW clean,
         At(f, p, chunks, clean)
  PROVE  LET q == PassedBy(p)
         IN  At(f, q, chunks, clean) /\ Halted(q) /\ q.done = p.done
<1> DEFINE n == CHOOSE n \in 0..Len(p.r) :
                  /\ Passed(p, n)
                  /\ n < Len(p.r) => ~Passed(p, n + 1)
           q == PassedBy(p)
<1>0. Suffix(p.r, f) /\ Len(p.r) \in Nat /\ Len(f) \in Nat /\ DOMAIN p = ReaderFields
  BY LenProperties DEF At, Suffix
<1>1. n \in 0..Len(p.r) /\ Stays(p, n)
  BY <1>0, PassStops, Zenon DEF Stays
<1>2. q = [p EXCEPT !.r        = SubSeq(@, n + 1, Len(@)),
                    !.manifest = ManifestIn(p, n),
                    !.skipped  = @ + n - Cardinality(SeenIn(p, n))]
  BY DEF PassedBy, ManifestIn, SeenIn
<1> HIDE DEF n, q
<1>3. /\ DOMAIN q = ReaderFields /\ q.done = p.done
      /\ q.r = SubSeq(p.r, n + 1, Len(p.r)) /\ q.manifest = ManifestIn(p, n)
      /\ q.skipped = p.skipped + n - Cardinality(SeenIn(p, n))
  BY <1>0, <1>2 DEF ReaderFields
<1>4. /\ Suffix(q.r, f) /\ Len(q.r) = Len(p.r) - n
      /\ q.r # <<>> => Head(q.r) = p.r[n + 1]
  BY <1>0, <1>1, <1>3, SuffixLeft
<1>5. Len(f) - Len(q.r) = Len(f) - Len(p.r) + n
  BY <1>0, <1>1, <1>4
<1>6. At(f, q, chunks, clean)
  BY <1>1, <1>3, <1>4, <1>5, PassedAccount DEF At, Stays
<1>7. ASSUME q.r # <<>>
      PROVE  /\ Head(q.r) # Reserved
             /\ ~(ManifestAt(Head(q.r)) /\ q.manifest = NoManifest)
  <2>1. n \in Nat /\ n < Len(p.r) /\ Head(q.r) = p.r[n + 1]
    <3>1. Len(q.r) # 0
      BY <1>4, <1>7, EmptySeq DEF Suffix
    <3> QED
      BY <1>0, <1>1, <1>4, <1>7, <3>1
  <2>2. Passed(p, n) /\ ~Passed(p, n + 1)
    BY <1>1, <2>1 DEF Stays
  <2>3. /\ p.r[n + 1] # Reserved
        /\ ~/\ ManifestAt(p.r[n + 1]) /\ p.manifest = NoManifest
            /\ \A j \in 1..n : ~IsManifest(p.r[j])
    BY <2>1, <2>2 DEF Passed, ManifestAt
  <2>4. ASSUME ManifestIn(p, n) = NoManifest
        PROVE  p.manifest = NoManifest /\ \A j \in 1..n : ~IsManifest(p.r[j])
    <3>1. SeenIn(p, n) = {}
      <4> SUFFICES ASSUME SeenIn(p, n) # {} PROVE FALSE
        OBVIOUS
      <4>1. PICK j \in SeenIn(p, n) : ManifestIn(p, n) = p.r[j]
        BY DEF ManifestIn
      <4>2. p.r[j].type = "MANIFEST"
        BY DEF SeenIn, IsManifest
      <4> QED
        BY <2>4, <4>1, <4>2 DEF NoManifest
    <3> QED
      BY <2>4, <3>1 DEF ManifestIn, SeenIn
  <2> QED
    BY <1>3, <2>1, <2>3, <2>4
<1> QED
  BY <1>3, <1>6, <1>7 DEF Halted, q

-----------------------------------------------------------------------------
(***************************************************************************)
(* One call of Next.                                                       *)
(***************************************************************************)
\* What Next leaves: its account, clean as long as it returned no error, and
\* at the end of the stream the MANIFEST.
CallLeaves(f, n, chunks, clean) ==
  /\ At(f, n.rd, chunks \o n.chunk, clean /\ n.err \in {"nil", "EOF"})
  /\ n.rd.done \in BOOLEAN
  /\ n.rd.done => n.rd.manifest # NoManifest /\ n.err = "EOF"

\* An account that is clean is one that need not be.
LEMMA AccountWeaker ==
  ASSUME NEW f, NEW p, NEW chunks, NEW clean, NEW stillClean,
         At(f, p, chunks, clean), stillClean => clean
  PROVE  At(f, p, chunks, stillClean)
BY DEF At, Account, AccountAt

\* What is delivered is a sequence.
LEMMA ChunksSeq ==
  ASSUME NEW f \in Seq(RecordPool), NEW k \in 0..Len(f)
  PROVE  Deliverable(Prefix(f, k)) \in Seq(RecordPool)
<1> DEFINE S == {i \in 0..Len(f) : Deliverable(Prefix(f, i)) \in Seq(RecordPool)}
<1>0. Len(f) \in Nat
  BY LenProperties
<1>1. 0 \in S
  <2>1. Prefix(f, 0) = <<>>
    BY DEF Prefix
  <2> QED
    <3>1. Deliverable(Prefix(f, 0)) \in Seq(RecordPool)
      BY <2>1, DeliverableEmpty, EmptySeq
    <3>2. 0 \in 0..Len(f)
      BY <1>0
    <3> QED
      BY <3>1, <3>2
<1>2. ASSUME NEW i \in 0..(Len(f) - 1), i \in S PROVE i + 1 \in S
  <2>1. f[i + 1] \in RecordPool
    BY PrefixGrows
  <2>2. Deliverable(Prefix(f, i + 1)) \in Seq(RecordPool)
    BY <1>2, <2>1, DeliverableGrows, AppendProperties
  <2> QED
    BY <1>0, <2>2
<1> HIDE DEF S
<1>3. k \in S
  BY <1>0, <1>1, <1>2, BoundedInduct
<1> QED
  BY <1>3 DEF S

\* What a Reader has delivered is a sequence of records.
LEMMA DeliveredSeq ==
  ASSUME NEW f \in Seq(RecordPool), NEW p, NEW chunks, NEW clean,
         At(f, p, chunks, clean)
  PROVE  chunks \in Seq(RecordPool)
<1>1. PICK m \in 1..((Len(f) - Len(p.r)) + 1) : chunks = Deliverable(Prefix(f, m - 1))
  BY DEF At, Account, AccountAt
<1>2. m - 1 \in 0..Len(f)
  BY LenProperties DEF At, Suffix
<1> QED
  BY <1>1, <1>2, ChunksSeq

\* Next keeps the account, and ends a stream only behind a MANIFEST.
LEMMA NextLeaves ==
  ASSUME NEW f \in Seq(RecordPool), NEW p, NEW chunks, NEW clean,
         At(f, p, chunks, clean), p.done = FALSE
  PROVE  CallLeaves(f, Next(p), chunks, clean)
<1> DEFINE q == PassedBy(p)
           n == Stopped(q)
           k == Len(f) - Len(q.r)
<1>1. Next(p) = n
  BY DEF Next
<1>2. At(f, q, chunks, clean) /\ Halted(q) /\ q.done = FALSE
  BY PassedByAccount
<1>3. chunks \in Seq(RecordPool)
  BY DeliveredSeq
<1>4. chunks \o <<>> = chunks
  BY <1>3, ConcatEmptySeq
<1> HIDE DEF q
<1>5. CASE AtEOF(q.r) /\ q.manifest = NoManifest
  <2>1. n = [rd |-> q, err |-> "ErrMissingManifest", chunk |-> <<>>]
    BY <1>5 DEF Stopped, Ended
  <2>2. At(f, q, chunks, clean /\ n.err \in {"nil", "EOF"})
    BY <1>2, AccountWeaker
  <2>3. n.rd = q /\ n.chunk = <<>> /\ n.rd.done = FALSE
    BY <1>2, <2>1
  <2> HIDE DEF n
  <2> QED
    BY <1>1, <1>4, <2>2, <2>3 DEF CallLeaves
<1>6. CASE AtEOF(q.r) /\ q.manifest # NoManifest
  <2>1. n = [rd |-> [q EXCEPT !.done = TRUE], err |-> "EOF", chunk |-> <<>>]
    BY <1>6 DEF Stopped, Ended
  <2>2. /\ DOMAIN n.rd = ReaderFields /\ n.rd.r = q.r /\ n.rd.manifest = q.manifest
        /\ n.rd.skipped = q.skipped /\ n.rd.done = TRUE
        /\ n.err = "EOF" /\ n.chunk = <<>>
    BY <1>2, <2>1 DEF At, ReaderFields
  <2>3. At(f, n.rd, chunks, clean)
    BY <1>2, <2>2 DEF At
  <2>4. At(f, n.rd, chunks, clean /\ n.err \in {"nil", "EOF"})
    BY <2>3, AccountWeaker
  <2> QED
    BY <1>1, <1>4, <1>6, <2>2, <2>4 DEF CallLeaves
<1>7. CASE ~AtEOF(q.r)
  <2> DEFINE rec == f[k + 1]
             e == StopErr(q)
             c == IF e = "nil" THEN <<Head(q.r)>> ELSE <<>>
  <2>1. n = [rd |-> [q EXCEPT !.r = Tail(@)], err |-> e, chunk |-> c]
    BY <1>7 DEF Stopped
  <2>2. /\ k \in 0..(Len(f) - 1) /\ Head(q.r) = rec /\ rec \in RecordPool
        /\ Suffix(Tail(q.r), f) /\ Len(f) - Len(Tail(q.r)) = k + 1
    <3>1. q.r \in Seq(RecordPool) /\ q.r # <<>> /\ Len(q.r) \in 0..Len(f)
      BY <1>2, <1>7 DEF At, Suffix, AtEOF
    <3>2. Len(f) \in Nat /\ Len(q.r) \in Nat \ {0}
      BY <3>1, LenProperties, EmptySeq
    <3>3. Tail(q.r) = SubSeq(q.r, 2, Len(q.r)) /\ Head(q.r) = q.r[1]
      BY <3>1, TailIsSubSeq
    <3>4. 1 \in 0..Len(q.r) /\ 1 + 1 = 2 /\ 1 \in 1..Len(q.r)
      BY <3>2
    <3>5. Suffix(Tail(q.r), f) /\ Len(Tail(q.r)) = Len(q.r) - 1
      BY <1>2, <3>3, <3>4, SuffixLeft DEF At
    <3>6. q.r[1] = f[Len(f) - Len(q.r) + 1]
      BY <1>2, <3>4 DEF At, Suffix
    <3>7. k \in 0..(Len(f) - 1) /\ Len(f) - Len(Tail(q.r)) = k + 1
      <4>1. PICK a \in Nat, b \in Nat \ {0} : a = Len(f) /\ b = Len(q.r)
        BY <3>2
      <4>2. b <= a /\ Len(Tail(q.r)) = b - 1
        BY <3>1, <3>5, <4>1
      <4>3. a - b \in 0..(a - 1) /\ a - (b - 1) = (a - b) + 1
        BY <4>1, <4>2
      <4> QED
        BY <4>1, <4>2, <4>3
    <3>8. Head(q.r) = rec /\ rec \in RecordPool
      BY <3>1, <3>3, <3>4, <3>6, ElementOfSeq
    <3> QED
      BY <3>5, <3>7, <3>8
  <2>3. Account(f, k, q.manifest, q.skipped, chunks, clean)
    BY <1>2 DEF At
  <2>4. /\ DOMAIN n.rd = ReaderFields /\ n.rd.r = Tail(q.r)
        /\ n.rd.manifest = q.manifest /\ n.rd.skipped = q.skipped
        /\ n.rd.done = FALSE /\ n.err = e /\ n.chunk = c
    BY <1>2, <2>1 DEF At, ReaderFields
  <2>5. rec # Reserved /\ ~(ManifestAt(rec) /\ q.manifest = NoManifest)
    BY <1>2, <1>7, <2>2 DEF Halted, AtEOF
  <2> HIDE DEF n, k, rec
  <2>6. CASE e = "nil"
    <3>1. Decodable(rec) /\ q.manifest = NoManifest /\ c = <<rec>>
      BY <2>2, <2>6 DEF StopErr, Decodable
    <3>2. Account(f, k + 1, NoManifest, q.skipped, Append(chunks, rec), clean)
      BY <2>2, <2>3, <3>1, StepChunk DEF rec
    <3>3. chunks \o c = Append(chunks, rec)
      BY <1>3, <2>2, <3>1
    <3>4. At(f, n.rd, chunks \o n.chunk, clean)
      BY <2>2, <2>4, <3>1, <3>2, <3>3 DEF At
    <3>5. At(f, n.rd, chunks \o n.chunk, clean /\ n.err \in {"nil", "EOF"})
      BY <3>4, AccountWeaker
    <3> QED
      BY <1>1, <2>4, <3>5 DEF CallLeaves
  <2>7. CASE e # "nil"
    <3>1. e \notin {"nil", "EOF"} /\ c = <<>>
      BY <2>7 DEF StopErr
    <3>2. q.manifest = NoManifest => ~ManifestAt(rec) /\ ~Decodable(rec)
      <4>1. ASSUME q.manifest = NoManifest, Decodable(rec) PROVE FALSE
        <5>1. IsChunk(rec) /\ rec.ok /\ rec # Torn
          BY <4>1 DEF Decodable, IsChunk, Torn
        <5> QED
          BY <2>2, <2>7, <4>1, <5>1 DEF StopErr
      <4> QED
        BY <2>5, <4>1
    <3>3. Account(f, k + 1, q.manifest, q.skipped, chunks, FALSE)
      BY <2>2, <2>3, <2>5, <3>2, StepOther DEF rec
    <3>4. At(f, n.rd, chunks, FALSE)
      BY <2>2, <2>4, <3>3 DEF At
    <3>5. At(f, n.rd, chunks, clean /\ n.err \in {"nil", "EOF"})
      BY <2>4, <3>1, <3>4, AccountWeaker
    <3> QED
      BY <1>1, <1>4, <2>4, <3>1, <3>5 DEF CallLeaves
  <2> QED
    BY <2>6, <2>7
<1> QED
  BY <1>5, <1>6, <1>7

-----------------------------------------------------------------------------
(***************************************************************************)
(* The inductive invariant: the account of what has been read.  io.EOF is  *)
(* what the last call returned as long as the Reader is done.              *)
(***************************************************************************)
IInv ==
  /\ file \in Seq(RecordPool)
  /\ state = "new" => delivered = <<>> /\ failed = FALSE
  /\ state # "open" => rd = NoReader
  /\ state = "open" => At(file, rd, delivered, ~failed)
  /\ rd.done \in BOOLEAN
  /\ rd.done => state = "open" /\ rd.manifest # NoManifest /\ err = "EOF"

\* Nothing has been read of the stream that NewReader is given.
LEMMA InitReads == Init => IInv
<1> SUFFICES ASSUME Init PROVE IInv
  OBVIOUS
<1>1. file \in Seq(RecordPool)
  <2>1. file \in BoundedSeq(RecordPool, MaxRecords)
    BY DEF Init, Streams
  <2>2. PICK n \in 0..MaxRecords : file \in [1..n -> RecordPool]
    BY <2>1 DEF BoundedSeq, SeqOf
  <2> QED
    BY <2>2, MaxRecordsAssumption, SeqDef
<1> QED
  BY <1>1 DEF Init, NoReader, IInv

\* The account of the first k records does not depend on those behind them.
LEMMA AccountFrame ==
  ASSUME NEW f, NEW g, NEW k \in Nat, \A i \in 1..k : g[i] = f[i],
         NEW manifest, NEW skipped, NEW chunks, NEW clean,
         Account(f, k, manifest, skipped, chunks, clean)
  PROVE  Account(g, k, manifest, skipped, chunks, clean)
<1>1. PICK m \in 1..(k + 1) : AccountAt(f, k, m, manifest, skipped, chunks, clean)
  BY DEF Account
<1>2. /\ \A i \in 1..(m - 1) : i \in 1..k
      /\ m <= k => m \in 1..k
      /\ \A i \in 2..k : i \in 1..k
  OBVIOUS
<1>3. Prefix(g, k) = Prefix(f, k) /\ Prefix(g, m - 1) = Prefix(f, m - 1)
  BY <1>2 DEF Prefix
<1>4. ReservedUpTo(g, k) = ReservedUpTo(f, k)
  BY DEF ReservedUpTo
<1>5. AccountAt(g, k, m, manifest, skipped, chunks, clean)
  BY <1>1, <1>2, <1>3, <1>4 DEF AccountAt, Clean
<1> QED
  BY <1>5 DEF Account

\* A suffix grows with its stream.
LEMMA SuffixGrows ==
  ASSUME NEW f \in Seq(RecordPool), NEW r, Suffix(r, f), NEW rec \in RecordPool
  PROVE  /\ Suffix(Append(r, rec), Append(f, rec))
         /\ Len(Append(f, rec)) - Len(Append(r, rec)) = Len(f) - Len(r)
         /\ Len(f) - Len(r) \in 0..Len(f)
<1> DEFINE q == Append(r, rec)
           g == Append(f, rec)
<1>1. PICK a \in Nat, b \in Nat : a = Len(f) /\ b = Len(r)
  BY LenProperties DEF Suffix
<1>2. r \in Seq(RecordPool) /\ b <= a /\ \A i \in 1..b : r[i] = f[a - b + i]
  BY <1>1 DEF Suffix
<1>3. /\ q \in Seq(RecordPool) /\ Len(q) = b + 1
      /\ \A i \in 1..b : q[i] = r[i]
      /\ q[b + 1] = rec
  BY <1>1, <1>2, AppendProperties
<1>4. /\ Len(g) = a + 1
      /\ \A i \in 1..a : g[i] = f[i]
      /\ g[a + 1] = rec
  BY <1>1, AppendProperties
<1> HIDE DEF q, g
<1>5. (a + 1) - (b + 1) = a - b /\ a - b \in 0..a /\ b + 1 \in 0..(a + 1)
  BY <1>2
<1>6. ASSUME NEW i \in 1..(b + 1) PROVE q[i] = g[(a + 1) - (b + 1) + i]
  <2>1. CASE i \in 1..b
    <3>1. a - b + i \in 1..a
      BY <1>2, <2>1
    <3> QED
      BY <1>2, <1>3, <1>4, <1>5, <2>1, <3>1
  <2>2. CASE i = b + 1
    <3>1. a - b + i = a + 1
      BY <2>2
    <3> QED
      BY <1>3, <1>4, <1>5, <2>2, <3>1
  <2> QED
    BY <2>1, <2>2
<1>7. Suffix(q, g)
  BY <1>3, <1>4, <1>5, <1>6 DEF Suffix
<1> QED
  BY <1>1, <1>3, <1>4, <1>5, <1>7 DEF q, g

\* NewReader reads the HDR.
LEMMA OpenReads == ASSUME IInv, Open PROVE IInv'
<1>1. CASE OpenErr(file) = "nil"
  <2>1. /\ state = "new" /\ state' = "open" /\ rd' = NewReader(file) /\ file' = file
        /\ delivered' = <<>> /\ failed' = FALSE
    BY <1>1 DEF Open, IInv
  <2>2. file \in Seq(RecordPool) /\ file # <<>> /\ Head(file) = Hdr
    BY <1>1 DEF IInv, OpenErr, AtEOF
  <2>3. /\ Len(file) \in Nat \ {0} /\ Head(file) = file[1]
        /\ Tail(file) = SubSeq(file, 1 + 1, Len(file))
    BY <2>2, LenProperties, EmptySeq, TailIsSubSeq
  <2>4. Suffix(file, file)
    BY <2>2, <2>3 DEF Suffix
  <2>5. Suffix(Tail(file), file) /\ Len(file) - Len(Tail(file)) = 1
    <3>1. 1 \in 0..Len(file)
      BY <2>3
    <3>2. Suffix(Tail(file), file) /\ Len(Tail(file)) = Len(file) - 1
      BY <2>2, <2>3, <2>4, <3>1, SuffixLeft
    <3> QED
      BY <2>3, <3>2
  <2>6. Account(file, 0, NoManifest, 0, <<>>, TRUE)
    <3>1. Prefix(file, 0) = <<>> /\ ReservedUpTo(file, 0) = {}
      BY DEF Prefix, ReservedUpTo
    <3>2. AccountAt(file, 0, 1, NoManifest, 0, <<>>, TRUE)
      BY <3>1, DeliverableEmpty, FS_EmptySet DEF AccountAt, Clean
    <3>3. 1 \in 1..(0 + 1)
      OBVIOUS
    <3> QED
      BY <3>2, <3>3 DEF Account
  <2>7. Account(file, 1, NoManifest, 0, <<>>, TRUE)
    <3>1. 0 \in 0..(Len(file) - 1) /\ file[0 + 1] = Hdr /\ 0 + 1 = 1
      BY <2>2, <2>3
    <3>2. Hdr # Reserved /\ ~ManifestAt(Hdr) /\ ~Decodable(Hdr)
      BY DEF Hdr, Reserved, ManifestAt, Decodable, IsManifest, IsChunk
    <3>3. Account(file, 0 + 1, NoManifest, 0, <<>>, TRUE)
      BY <2>2, <2>6, <3>1, <3>2, StepOther
    <3> QED
      BY <3>1, <3>3
  <2>8. /\ DOMAIN NewReader(file) = ReaderFields /\ NewReader(file).r = Tail(file)
        /\ NewReader(file).manifest = NoManifest /\ NewReader(file).skipped = 0
        /\ NewReader(file).done = FALSE
    BY DEF NewReader, ReaderFields
  <2>9. At(file, NewReader(file), <<>>, TRUE)
    BY <2>5, <2>7, <2>8 DEF At
  <2>10. At(file', rd', delivered', ~failed')
    BY <2>1, <2>9, AccountWeaker
  <2> QED
    BY <2>1, <2>2, <2>8, <2>10 DEF IInv
<1>2. CASE OpenErr(file) # "nil"
  BY <1>2 DEF Open, IInv
<1> QED
  BY <1>1, <1>2

\* A Reader that is done answers io.EOF and stays as it is; another goes on.
LEMMA CallNextReads == ASSUME IInv, CallNext PROVE IInv'
<1> DEFINE n == Next(rd)
<1>1. /\ state = "open" /\ state' = "open" /\ file' = file
      /\ rd' = n.rd /\ err' = n.err /\ delivered' = delivered \o n.chunk
      /\ failed' = (failed \/ n.err \notin {"nil", "EOF"})
  BY DEF CallNext
<1>2. At(file, rd, delivered, ~failed) /\ file \in Seq(RecordPool)
  BY <1>1 DEF IInv
<1>3. CASE rd.done
  <2>1. n = [rd |-> rd, err |-> "EOF", chunk |-> <<>>]
    BY <1>3 DEF Next
  <2>2. delivered \o <<>> = delivered
    <3>1. delivered \in Seq(RecordPool)
      BY <1>2, DeliveredSeq
    <3> QED
      BY <3>1, ConcatEmptySeq
  <2>3. rd' = rd /\ err' = "EOF" /\ delivered' = delivered /\ (failed' => failed)
    <3>1. n.rd = rd /\ n.err = "EOF" /\ n.chunk = <<>>
      BY <2>1
    <3> HIDE DEF n
    <3>2. failed' => failed
      BY <1>1, <3>1
    <3> QED
      BY <1>1, <2>2, <3>1, <3>2
  <2>4. At(file', rd', delivered', ~failed')
    BY <1>1, <1>2, <2>3, AccountWeaker
  <2> QED
    BY <1>1, <1>2, <2>3, <2>4 DEF IInv
<1>4. CASE ~rd.done
  <2>1. rd.done = FALSE
    BY <1>4 DEF IInv
  <2>2. CallLeaves(file, n, delivered, ~failed)
    BY <1>2, <2>1, NextLeaves
  <2> HIDE DEF n
  <2>3. At(file', rd', delivered', ~failed')
    BY <1>1, <2>2, AccountWeaker DEF CallLeaves
  <2> QED
    BY <1>1, <1>2, <2>2, <2>3 DEF IInv, CallLeaves
<1> QED
  BY <1>3, <1>4

\* What is appended to the stream changes nothing of what has been read.
LEMMA GrowReads == ASSUME IInv, Grow PROVE IInv'
<1>1. PICK rec \in RecordPool : /\ file' = Append(file, rec)
                                /\ rd' = [rd EXCEPT !.r = Append(@, rec)]
  BY DEF Grow
<1>2. /\ state = "open" /\ state' = state /\ err' = err
      /\ delivered' = delivered /\ failed' = failed
  BY DEF Grow
<1>3. file \in Seq(RecordPool) /\ At(file, rd, delivered, ~failed)
  BY <1>2 DEF IInv
<1>4. /\ DOMAIN rd' = ReaderFields /\ rd'.r = Append(rd.r, rec)
      /\ rd'.manifest = rd.manifest /\ rd'.skipped = rd.skipped /\ rd'.done = rd.done
  BY <1>1, <1>3 DEF At, ReaderFields
<1>5. /\ Suffix(Append(rd.r, rec), Append(file, rec))
      /\ Len(Append(file, rec)) - Len(Append(rd.r, rec)) = Len(file) - Len(rd.r)
      /\ Len(file) - Len(rd.r) \in 0..Len(file)
  BY <1>3, SuffixGrows DEF At
<1>6. \A i \in 1..Len(file) : file'[i] = file[i]
  BY <1>1, <1>3, AppendProperties
<1>7. Account(file', Len(file) - Len(rd.r), rd.manifest, rd.skipped, delivered, ~failed)
  <2>1. Len(file) \in Nat
    BY <1>3, LenProperties
  <2>2. PICK k \in 0..Len(file) : k = Len(file) - Len(rd.r)
    BY <1>5
  <2>3. k \in Nat /\ \A i \in 1..k : file'[i] = file[i]
    BY <1>6, <2>1
  <2>4. Account(file, k, rd.manifest, rd.skipped, delivered, ~failed)
    BY <1>3, <2>2 DEF At
  <2>5. Account(file', k, rd.manifest, rd.skipped, delivered, ~failed)
    BY <2>3, <2>4, AccountFrame
  <2> QED
    BY <2>2, <2>5
<1>8. At(file', rd', delivered', ~failed')
  BY <1>1, <1>2, <1>4, <1>5, <1>7 DEF At
<1>9. file' \in Seq(RecordPool)
  BY <1>1, <1>3, AppendProperties
<1> QED
  BY <1>2, <1>4, <1>8, <1>9 DEF IInv

\* Every step keeps the invariant.
LEMMA NextReads == IInv /\ [SessionNext \/ Grow]_vars => IInv'
<1> SUFFICES ASSUME IInv, [SessionNext \/ Grow]_vars PROVE IInv'
  OBVIOUS
<1>1. CASE UNCHANGED vars
  BY <1>1 DEF vars, IInv
<1> QED
  BY <1>1, OpenReads, CallNextReads, GrowReads DEF SessionNext

-----------------------------------------------------------------------------
\* What the Reader has delivered, counted and held is what the stream held so
\* far, in every state of a session.
THEOREM ReaderInvariant == Spec => []IInv
<1> QED
  BY InitReads, NextReads, PTL DEF Spec

\* However calls and errors interleave, the chunks delivered are the decodable
\* ones read so far that precede the MANIFEST, in file order; every reserved
\* record is counted; the MANIFEST held is the first one read
\* (reader.go:68-110).
THEOREM ReaderDeliversInOrder == Spec => []DeliversInOrder
<1>1. ASSUME IInv, state = "open" PROVE DeliversInOrder
  <2> DEFINE k == Len(file) - Len(rd.r)
             c == Consumed
  <2>1. file \in Seq(RecordPool) /\ At(file, rd, delivered, ~failed)
    BY <1>1 DEF IInv
  <2>2. k \in 0..Len(file) /\ Len(file) \in Nat
    BY <2>1, LenProperties DEF At, Suffix
  <2>3. c = Prefix(file, k)
    BY <2>1, <2>2, PrefixIsSubSeq DEF Consumed
  <2>4. Account(file, k, rd.manifest, rd.skipped, delivered, ~failed)
    BY <2>1 DEF At
  <2> HIDE DEF k, c
  <2>5. PICK m \in 1..(k + 1) :
          AccountAt(file, k, m, rd.manifest, rd.skipped, delivered, ~failed)
    BY <2>4 DEF Account
  <2>6. c \in Seq(RecordPool) /\ Len(c) = k /\ DOMAIN c = 1..k
    BY <2>1, <2>2, <2>3, PrefixSeq
  <2>7. \A i \in 1..k : c[i] = file[i]
    BY <2>3 DEF Prefix
  <2>8. FirstManifest(c) = m
    <3> DEFINE at == {i \in DOMAIN c : IsManifest(c[i]) /\ c[i].ok}
    <3>1. \A i \in at : m <= i
      BY <2>2, <2>5, <2>6, <2>7 DEF AccountAt, ManifestAt
    <3>2. CASE m <= k
      <4>1. m \in at
        BY <2>5, <2>6, <2>7, <3>2 DEF AccountAt, ManifestAt
      <4>2. at \subseteq Nat
        BY <2>6
      <4> HIDE DEF at
      <4>3. \A i \in at : (\A j \in at : i <= j) <=> i = m
        BY <3>1, <4>1, <4>2
      <4>4. (CHOOSE i \in at : \A j \in at : i <= j) = m
        BY <4>1, <4>3
      <4> QED
        BY <4>1, <4>4 DEF FirstManifest, at
    <3>3. CASE ~(m <= k)
      <4>1. at = {} /\ m = k + 1
        BY <2>2, <2>6, <3>1, <3>3
      <4> QED
        BY <2>6, <4>1 DEF FirstManifest
    <3> QED
      BY <3>2, <3>3
  <2>9. SubSeq(c, 1, m - 1) = Prefix(file, m - 1)
    <3>1. m - 1 \in 0..Len(c) /\ \A i \in 1..(m - 1) : i \in 1..k
      BY <2>2, <2>6
    <3>2. SubSeq(c, 1, m - 1) = Prefix(c, m - 1)
      BY <2>6, <3>1, PrefixIsSubSeq
    <3> QED
      BY <2>7, <3>1, <3>2 DEF Prefix
  <2>10. ReservedIn(c) = ReservedUpTo(file, k)
    BY <2>6, <2>7 DEF ReservedIn, ReservedUpTo
  <2>11. rd.manifest = IF m <= Len(c) THEN c[m] ELSE NoManifest
    BY <2>5, <2>6, <2>7 DEF AccountAt
  <2>12. /\ delivered = Deliverable(SubSeq(c, 1, m - 1))
         /\ rd.skipped = Cardinality(ReservedIn(c))
    BY <2>5, <2>9, <2>10 DEF AccountAt
  <2> QED
    BY <2>8, <2>11, <2>12 DEF DeliversInOrder, c
<1>2. IInv => DeliversInOrder
  BY <1>1 DEF DeliversInOrder
<1> QED
  BY <1>2, ReaderInvariant, PTL

\* io.EOF with no error before it means a whole file: HDR, CHUNKs, one
\* MANIFEST, reserved records anywhere, and every chunk delivered
\* (reader.go:65-67, RECONCILIATION E4).
THEOREM ReaderCleanEOF == Spec => []CleanEOFMeansWholeFile
<1>1. ASSUME IInv, rd.done, ~failed PROVE CleanEOFMeansWholeFile
  <2> DEFINE k == Len(file) - Len(rd.r)
             c == Consumed
  <2>1. /\ file \in Seq(RecordPool) /\ At(file, rd, delivered, ~failed)
        /\ rd.manifest # NoManifest
    BY <1>1 DEF IInv
  <2>2. k \in 0..Len(file) /\ Len(file) \in Nat
    BY <2>1, LenProperties DEF At, Suffix
  <2>3. c = Prefix(file, k)
    BY <2>1, <2>2, PrefixIsSubSeq DEF Consumed
  <2>4. Account(file, k, rd.manifest, rd.skipped, delivered, ~failed)
    BY <2>1 DEF At
  <2> HIDE DEF k, c
  <2>5. PICK m \in 1..(k + 1) :
          AccountAt(file, k, m, rd.manifest, rd.skipped, delivered, ~failed)
    BY <2>4 DEF Account
  <2>6. m <= k /\ rd.manifest = file[m]
    BY <2>1, <2>5 DEF AccountAt
  <2>7. delivered = Deliverable(c) /\ DOMAIN c = 1..k
    BY <1>1, <2>1, <2>2, <2>3, <2>5, PrefixSeq DEF AccountAt, Clean
  <2>8. \A i \in DOMAIN c \ {1, m} : file[i] = Reserved \/ (i < m /\ Decodable(file[i]))
    BY <1>1, <2>2, <2>5, <2>7 DEF AccountAt, Clean
  <2>9. m \in DOMAIN c
    BY <2>2, <2>6, <2>7
  <2> QED
    BY <2>6, <2>7, <2>8, <2>9 DEF CleanEOFMeansWholeFile, c
<1>2. IInv => CleanEOFMeansWholeFile
  BY <1>1 DEF CleanEOFMeansWholeFile
<1> QED
  BY <1>2, ReaderInvariant, PTL

\* Once Next has returned io.EOF it returns nothing else and reads nothing
\* more, whatever is appended to the stream (reader.go:69-71).
THEOREM ReaderEOFIsFinal == Spec => EOFIsFinal
<1> DEFINE Final == rd.done => /\ file' = file => rd' = rd
                               /\ err' = "EOF" /\ delivered' = delivered
<1>1. ASSUME IInv, [SessionNext \/ Grow]_vars PROVE [Final]_vars
  <2> SUFFICES ASSUME rd.done PROVE Final \/ UNCHANGED vars
    OBVIOUS
  <2>1. /\ state = "open" /\ err = "EOF" /\ file \in Seq(RecordPool)
        /\ At(file, rd, delivered, ~failed)
    BY <1>1 DEF IInv
  <2>2. CASE Open
    BY <2>1, <2>2 DEF Open
  <2>3. CASE CallNext
    <3> DEFINE n == Next(rd)
    <3>1. n = [rd |-> rd, err |-> "EOF", chunk |-> <<>>]
      BY DEF Next
    <3>2. n.rd = rd /\ n.err = "EOF" /\ n.chunk = <<>>
      BY <3>1
    <3>3. rd' = n.rd /\ err' = n.err /\ delivered' = delivered \o n.chunk
      BY <2>3 DEF CallNext
    <3> HIDE DEF n
    <3>4. delivered \o <<>> = delivered
      <4>1. delivered \in Seq(RecordPool)
        BY <2>1, DeliveredSeq
      <4> QED
        BY <4>1, ConcatEmptySeq
    <3> QED
      BY <3>2, <3>3, <3>4
  <2>4. CASE Grow
    <3>1. PICK rec \in RecordPool : file' = Append(file, rec)
      BY <2>4 DEF Grow
    <3>2. file' # file
      <4>1. Len(file') = Len(file) + 1 /\ Len(file) \in Nat
        BY <2>1, <3>1, AppendProperties, LenProperties
      <4>2. Len(file) + 1 # Len(file)
        BY <4>1
      <4> QED
        BY <4>1, <4>2
    <3>3. err' = err /\ delivered' = delivered
      BY <2>4 DEF Grow
    <3> QED
      BY <2>1, <3>2, <3>3
  <2> QED
    BY <1>1, <2>2, <2>3, <2>4 DEF SessionNext
<1>2. IInv /\ [SessionNext \/ Grow]_vars => [Final]_vars
  BY <1>1
<1> QED
  BY <1>2, ReaderInvariant, PTL DEF Spec, EOFIsFinal
=============================================================================
