------------------------------ MODULE FileLife ------------------------------
(***************************************************************************)
(* The way of a file: a Writer seals it, it is kept and moved, and it is   *)
(* read by Verify, Lookup, LookupProof and a Snapshot.  Between the two a  *)
(* file may be damaged (records lost, repeated, swapped, cut off, changed) *)
(* or be the work of another implementation that uses the latitude of the  *)
(* format (other sequence numbers, chunks without entries, reserved        *)
(* records, another order in the manifest).                                *)
(***************************************************************************)
EXTENDS Snapshot

CONSTANTS EntryCaps, MaxFaults,   \* of the Writer
          Garbled,                \* a value no Writer is given: a damaged one
          Unwritten,              \* keys no Writer is given, but a caller asks for
          MaxChanges              \* bound on the changes made to a sealed file

ASSUME GarbledAssumption == Garbled \in Values /\ Unwritten \subseteq Keys

VARIABLES sw, accepted, err, root,   \* the Writer's
          file, changes

W == INSTANCE Writer WITH
       Keys          <- Keys \ Unwritten,
       KeyBytes      <- [k \in Keys \ Unwritten |-> KeyBytes[k]],
       Values        <- Values \ {Garbled},
       ValueBytes    <- [v \in Values \ {Garbled} |-> ValueBytes[v]],
       BadNamespaces <- {}, ByteCaps <- {1000}, Summaries <- {"utf8"},
       MaxRecordSize <- 10000

vars == <<sw, accepted, err, root, file, changes>>

Init == W!Init /\ file = <<>> /\ changes = 0

Write == /\ file = <<>>
         /\ W!Next
         /\ UNCHANGED <<file, changes>>

\* A file is taken from a Writer that has returned a root.  One with a torn
\* record inside is left out: where its reader goes on is up to the bytes.
Ship == /\ file = <<>>
        /\ root # W!NoRoot
        /\ \A i \in DOMAIN sw.w : sw.w[i] # Torn
        /\ file' = sw.w
        /\ UNCHANGED <<sw, accepted, err, root, changes>>

Change(f) == /\ file # <<>> /\ changes < MaxChanges
             /\ \A i \in 1..(Len(f) - 1) : f[i] # Torn
             /\ f # file
             /\ file' = f
             /\ changes' = changes + 1
             /\ UNCHANGED <<sw, accepted, err, root>>

-----------------------------------------------------------------------------
\* Damage to whole records.
Lose     == \E i \in DOMAIN file : Change(RemoveAt(file, i))
Repeat   == \E i \in DOMAIN file : Change(InsertAt(file, i, file[i]))
Swap     == \E i \in 1..(Len(file) - 1) :
              Change([file EXCEPT ![i] = file[i + 1], ![i + 1] = file[i]])
CutOff   == \E n \in 0..(Len(file) - 1) :
              Change(SubSeq(file, 1, n)) \/ Change(Append(SubSeq(file, 1, n), Torn))
Insert   == \E i \in 1..(Len(file) + 1), rec \in {Reserved, Delta} :
              Change(InsertAt(file, i, rec))

\* Damage inside a chunk: a value, the footer hash, or the entry count that
\* makes it undecodable.
ChunkAt  == {i \in DOMAIN file : IsChunk(file[i])}
GarbleValue == \E i \in ChunkAt : \E j \in DOMAIN file[i].entries :
                 Change([file EXCEPT ![i].entries[j].value = Garbled])
GarbleHash  == \E i \in ChunkAt : Change([file EXCEPT ![i].hash = NoDigest])
GarbleCount == \E i \in ChunkAt : Change([file EXCEPT ![i].ok = FALSE])

\* A chunk with another key length, or another name as well, in which the same
\* bytes of the entries are divided otherwise; its hash stays the right one.
Redivided(c, ns, n) ==
  LET same(e, d) == /\ KeyLength[d.key] = n
                    /\ EntryBytes(ns, d.key, d.value) = EntryBytes(c.ns, e.key, e.value)
      possible == \A j \in DOMAIN c.entries : \E d \in Entries : same(c.entries[j], d)
  IN  IF ~possible THEN c
      ELSE [c EXCEPT !.ns = ns, !.keyLen = n,
                     !.entries = [j \in DOMAIN @ |-> CHOOSE d \in Entries : same(@[j], d)]]

Redivide == \E i \in ChunkAt, ns \in Namespaces, n \in Range(KeyLength) :
              Change([file EXCEPT ![i] = Redivided(@, ns, n)])

\* Damage inside the manifest, and the order of its list, which is free.
ManifestAt == {i \in DOMAIN file : IsManifest(file[i])}
GarbleTotals == \E i \in ManifestAt :
                  \/ Change([file EXCEPT ![i].totalEntries = @ + 1])
                  \/ Change([file EXCEPT ![i].totalChunks = @ + 1])
                  \/ Change([file EXCEPT ![i].rootHash = NoDigest])
                  \/ Change([file EXCEPT ![i].ok = FALSE])
GarbleInfos == \E i \in ManifestAt : \E j \in DOMAIN file[i].namespaces :
                 \/ Change([file EXCEPT ![i].namespaces[j].entriesCount = @ + 1])
                 \/ Change([file EXCEPT ![i].namespaces[j].digest = NoDigest])
                 \/ \E ns \in Namespaces : Change([file EXCEPT ![i].namespaces[j].name = ns])
                 \/ Change([file EXCEPT ![i].namespaces = RemoveAt(@, j)])
                 \/ Change([file EXCEPT ![i].namespaces = Append(@, @[j])])
ReverseInfos == \E i \in ManifestAt : Change([file EXCEPT ![i].namespaces = Reverse(@)])

\* Another implementation's choices: sequence numbers from 1, and a chunk
\* without entries behind another, counted in its manifest.
NumberFromOne == Change([i \in DOMAIN file |->
                   IF IsChunk(file[i]) THEN [file[i] EXCEPT !.seq = @ + 1] ELSE file[i]])

EmptyChunk == \E i \in ChunkAt :
  LET c == file[i]
      renumbered == [j \in DOMAIN file |->
        IF j > i /\ IsChunk(file[j]) /\ file[j].ns = c.ns
          THEN [file[j] EXCEPT !.seq = @ + 1]
        ELSE IF IsManifest(file[j])
          THEN [file[j] EXCEPT
                  !.totalChunks = @ + 1,
                  !.namespaces = [k \in DOMAIN @ |->
                    IF @[k].name = c.ns THEN [@[k] EXCEPT !.chunksCount = @ + 1] ELSE @[k]]]
        ELSE file[j]]
  IN  Change(InsertAt(renumbered, i + 1, Chunk(c.seq + 1, c.ns, c.keyLen, <<>>)))

Damage  == \/ Lose \/ Repeat \/ Swap \/ CutOff \/ Insert
           \/ GarbleValue \/ GarbleHash \/ GarbleCount \/ Redivide
           \/ GarbleTotals \/ GarbleInfos
Foreign == ReverseInfos \/ NumberFromOne \/ EmptyChunk

FileNext == Write \/ Ship \/ Damage \/ Foreign

Spec == Init /\ [][FileNext]_vars
-----------------------------------------------------------------------------
\* What a well-formed file is, said of the file as a whole rather than as a
\* tally (RECONCILIATION #9, #11, E3, E4; verify.go:23-36).
RecordsInSequence(f) ==
  /\ f # <<>> /\ f[1] = Hdr
  /\ \E m \in DOMAIN f :
       /\ IsManifest(f[m]) /\ f[m].ok
       /\ \A i \in DOMAIN f \ {1, m} :
            f[i] = Reserved \/ (IsChunk(f[i]) /\ f[i].ok /\ i < m)

InOrder(f) ==
  LET c == ChunksOf(f)
  IN  /\ \A i, j \in DOMAIN c : i < j => W!ChunksOrdered(c[i], c[j])
      /\ \A i \in DOMAIN c : \A a, b \in DOMAIN c[i].entries :
           a < b => c[i].entries[a].key < c[i].entries[b].key

ManifestOf(f) == f[CHOOSE i \in DOMAIN f : IsManifest(f[i])]

CountsRight(f) ==
  LET m == ManifestOf(f)
      names == {c.ns : c \in {f[i] : i \in {j \in DOMAIN f : IsChunk(f[j])}}}
      listed == [i \in DOMAIN m.namespaces |-> m.namespaces[i].name]
      in(seq, ns) == Len(SelectSeq(seq, LAMBDA x : x.ns = ns))
  IN  /\ m.totalEntries = Len(EntriesOf(f))
      /\ m.totalChunks = Len(ChunksOf(f))
      /\ \A i, j \in DOMAIN listed : i # j => listed[i] # listed[j]
      /\ {listed[i] : i \in DOMAIN listed} = names
      /\ \A i \in DOMAIN listed :
           /\ m.namespaces[i].entriesCount = in(EntriesOf(f), listed[i])
           /\ m.namespaces[i].chunksCount = in(ChunksOf(f), listed[i])

HashesRight(f) ==
  \A i \in DOMAIN f : IsChunk(f[i]) => f[i].hash = ComputeHash(f[i].ns, f[i].entries)

RootsRight(f) ==
  LET m == ManifestOf(f)
      byName == SortSeq(m.namespaces, LAMBDA a, b : a.name < b.name)
      leaves(ns) == LeavesOf(SelectSeq(ChunksOf(f), LAMBDA c : c.ns = ns))
  IN  /\ \A i \in DOMAIN m.namespaces :
           m.namespaces[i].digest = Root(TreeOf(leaves(m.namespaces[i].name)))
      /\ m.rootHash = GlobalRoot(byName)

WellFormed(f, level) ==
  /\ RecordsInSequence(f) /\ InOrder(f) /\ CountsRight(f)
  /\ level >= Chunks => HashesRight(f)
  /\ level >= Full => RootsRight(f)

\* Verify accepts at each level exactly the files that are well formed at it:
\* nothing it should catch slips through its running tally, and no file that
\* uses the latitude of the format is refused (verify.go:47-180).
VerifyMeansWellFormed ==
  file # <<>> =>
    \A level \in Levels : Verify(file, level).err = "nil" <=> WellFormed(file, level)

\* A file the Writer sealed passes Verify at every level, whatever writes
\* failed on the way, and Verify recomputes the root that Close returned.
SealedVerifies ==
  file # <<>> /\ changes = 0 =>
    /\ \A level \in Levels : Verify(file, level).err = "nil"
    /\ Verify(file, Full).root = root

\* The root pins the bytes that were hashed: a changed file that passes Verify at
\* VerifyFull with the root that Close returned holds as many entries as were
\* taken in, each of the same name, key and value in a row (hash.go:44-50).  It
\* is the entry taken in where it has the same name and length of key; that the
\* length of a chunk's keys is still what was written nobody checks
\* (entry.go:63-65, verify.go:82-178).
RootPinsBytes ==
  LET v   == Verify(file, Full)
      log == EntriesOf(file)
  IN  file # <<>> /\ v.err = "nil" /\ v.root = root =>
        /\ HashedBytes(log) = HashedBytes(accepted)
        /\ \A i \in DOMAIN log :
             /\ log[i].ns = accepted[i].ns
             /\ KeyLength[log[i].key] = KeyLength[accepted[i].key]
             => log[i] = accepted[i]

-----------------------------------------------------------------------------
Expected(ns, key) ==
  LET log == EntriesOf(file)
      at  == {i \in DOMAIN log : log[i].ns = ns /\ log[i].key = key}
  IN  IF at = {} THEN NotFound
      ELSE [err |-> "nil", value |-> log[CHOOSE i \in at : TRUE].value]

Answer(a) == [err |-> a.err, value |-> a.value]
Verified == file # <<>> /\ Verify(file, Full).err = "nil"

Convinces(p, ns, key, value) ==
  VerifyProof(ManifestOf(file).rootHash, ns, key, value, p.proof) = "nil"

\* The proof convinces of the entry's bytes and of no others.  Another value,
\* key or name that changes the bytes is refused, and among keys of the
\* declared length in the proved namespace only the entry itself is accepted.
\* The bytes alone do not tell where the name, the key and the value end
\* (RECONCILIATION #5).
ProofBindsBytes(p, ns, key) ==
  \A ns2 \in Namespaces, key2 \in Keys, value2 \in Values :
    LET convinces == Convinces(p, ns2, key2, value2)
    IN  /\ convinces <=> EntryBytes(ns2, key2, value2) = EntryBytes(ns, key, p.value)
        /\ ns2 = ns /\ KeyLength[key2] = KeyLength[key] /\ convinces =>
             key2 = key /\ value2 = p.value

ProofAnswers(p, ns, key) ==
  /\ Answer(p) = Expected(ns, key)
  /\ p.err = "nil" => ProofBindsBytes(p, ns, key)

\* On a verified file the streaming queries answer what the file holds, early
\* exit or not, and LookupProof's proof convinces VerifyProof, under the root
\* of the manifest, of the entry it was made for and of no other bytes
\* (lookup.go:24-139, proof.go:56-72).
LookupAnswers ==
  Verified => \A ns \in Namespaces, key \in Keys :
    /\ Lookup(file, ns, key) = Expected(ns, key)
    /\ ProofAnswers(LookupProof(file, ns, key), ns, key)

\* A Snapshot over a verified file gives the same answers and the same proofs
\* as the stream, for a file whose last record is its MANIFEST.
SnapshotAnswers(s) ==
  /\ s.err = "nil"
  /\ \A ns \in Namespaces, key \in Keys :
       /\ Get(s, ns, key) = Expected(ns, key)
       /\ Prove(s, ns, key) = LookupProof(file, ns, key)

HasEmptyChunk(f) == \E i \in DOMAIN f : IsChunk(f[i]) /\ f[i].entries = <<>>

SnapshotAgrees ==
  Verified /\ IsManifest(Last(file)) /\ ~HasEmptyChunk(file) =>
    SnapshotAnswers(OpenSnapshot(file))

\* The claim of snapshot.go:253-256, for every file that Verify accepts.
GetReturnsStoredValue ==
  Verified /\ IsManifest(Last(file)) =>
    \A ns \in Namespaces, key \in Keys :
      Get(OpenSnapshot(file), ns, key) = Expected(ns, key)

\* Prove does not need Verify to have run: whatever the damage, a proof it
\* hands out leads from the value it returns to the manifest's root, and under
\* the genuine root name, key and value have in a row the bytes of an entry that
\* was stored; they are that entry if name and length of key are its own
\* (snapshot.go:321-347, hash.go:44-50).
SoundProof(p, ns, key, rootHash) ==
  p.err = "nil" =>
    /\ VerifyProof(rootHash, ns, key, p.value, p.proof) = "nil"
    /\ rootHash = root =>
         \E i \in DOMAIN accepted :
            LET e == accepted[i]
            IN  /\ EntryBytes(e.ns, e.key, e.value) = EntryBytes(ns, key, p.value)
                /\ e.ns = ns /\ KeyLength[e.key] = KeyLength[key] =>
                     e = [ns |-> ns, key |-> key, value |-> p.value]

SoundSnapshot(s) ==
  s.err = "nil" =>
    \A ns \in Namespaces, key \in Keys :
      SoundProof(Prove(s, ns, key), ns, key, s.manifest.rootHash)

ProveIsSound == file # <<>> => SoundSnapshot(OpenSnapshot(file))
=============================================================================
