# go-scls in TLA+

go-scls reads, writes and verifies SCLS files: Cardano ledger state exported as
one file `HDR, (CHUNK)*, MANIFEST`. Entries `(namespace, key, value)` are sorted
and cut into chunks; the manifest holds counts, a Merkle root per namespace and
a root over the namespaces, from which inclusion proofs are made. This
directory models the library, the codecs and the registry under `cardano/`, and
the commands `scls diff` and `scls proof`. TLC checks the models on small
instances; TLAPS proves theorems about the Writer, the Reader, the Merkle tree
and its proofs, `scls diff` and the Registry for all values of the constants.

Run from this directory:

    tlc -config MCWriter.cfg MCWriter      # any run listed in PROJECT.json
    tlapm WriterProofs.tla                 # and every other *Proofs.tla
    tlapm SeqLemmas.tla
    tlapm SeqFold.tla

## 1. The system

| Part | State | Operations | Used by |
|---|---|---|---|
| Records (`wire`, `header`, `entry`, `chunk`, `manifest`) | none | encode and decode one record | all below |
| Merkle tree (`hash`, `merkle`) | stack of subtrees, one per level | `Add`, `Root` | Writer, Verify, proofs |
| Proofs (`proof`) | none | `provePath`, `VerifyProof`, binary form | LookupProof, Prove, callers |
| Writer (`writer`) | sink, pending chunk, namespace and totals, manifest so far, `closed` | `NewWriter`, `AddEntry`, `Close` | exporters |
| Reader (`reader`) | stream position, `manifest`, `done` | `NewReader`, `Next`, `Manifest` | Verify, Lookup, diff |
| Verify (`verify`) | a tally during one call | three levels | callers, `scls verify` |
| Lookup (`lookup`) | none | `Lookup`, `LookupProof` over a stream | `scls get`, `scls proof` |
| Snapshot (`snapshot`) | index, immutable after `Open` | `Open`, `Get`, `Prove` over a seekable file | callers |
| ReadManifest (`manifest_locate`) | none | finds the manifest from the end | `scls info`, `ls`, `diff` |
| Registry (`cardano/registry`) | map behind an RWMutex | `Register`, `Lookup`, `Namespaces` | decoders, several goroutines |
| Codecs (`cardano/codec`, `namespaces`, `namespace_keys`) | none | keys to and from fixed-width bytes | Registry's users |
| CBOR (`cardano/cbor`) | none | `Unmarshal`, `Marshal`, canonical only | stake pools, payloads |
| Stake pools (`cardano/stake_pool`) | none | payload to and from CBOR | payload codecs |
| `scls diff` (`cmd/scls/diff`) | two entry cursors | digests compared, streams joined | users |
| `scls proof` (`cmd/scls/proof`) | a proof file | `generate`, `verify` | users |
| Other commands (`cmd/scls`) | none | flags, output | users |

What is hard in it:

- **Writer.** Every call can fail halfway and be repeated. The pending chunk,
  the totals and the manifest's list must stay in step with the bytes that
  reached the sink. What makes it correct: nothing lost, repeated or reordered;
  sequence numbers dense; counts and roots those of the log; one manifest, last.
- **Reader.** It is called again after errors and after EOF, and the stream may
  grow. Correct: chunks in order and once, a clean EOF only at the end of a
  whole file, one manifest.
- **Verify.** A running tally has to decide a property of the whole file.
- **Bytes in a row.** Chunks, leaves and roots hash name, key and value run together
  (`hash.go:44-50`), and nobody checks a chunk's `len_key`, which divides them. What a
  digest may claim is the bytes; which keys and values they are, only where keys have
  the length they were written with.
- **Merkle tree.** An incremental algorithm replaces the recursive tree, and
  `provePath` replays it for one leaf, at every size.
- **Lookup, Snapshot.** Early exits and a binary search lean on orders that a
  damaged file need not have.
- **Registry.** Concurrent calls, a map that is made lazily, a copy taken entry
  by entry.
- **Diff.** A merge-join over streams that are chunked differently and break.
- **Bytes of a file.** A record is two writes without a rollback, and a retried
  record follows the torn one. Reader goes by lengths from the front,
  ReadManifest and Open by an offset from the end; the three must agree.
- **Proof files.** The envelope names its own root, so it always agrees with
  itself; what it convinces of depends on the pinned root and on its having one form.
- **CBOR, keys, stake pools.** Encoder and decoder are separate code and must
  agree on one canonical form, at its boundaries: widths, orders, optional parts.

`PROJECT.json` lists each hazard at its line with the properties that cover it.

## 2. The modules

    Bytes          bytes.Compare
     |- Cbor       Unmarshal and Marshal  <- CborInputs (every input)
     |   |- StakePool                payloads of stake pools
     |- KeyCodecs                    typed keys
         LedgerEntry = StakePool + KeyCodecs + CborInputs: an entry through its codecs
    Merkle         digests, tree, provePath  <- MerkleTree (every sequence of leaves)
     |- ProofForm  binary proof, envelope    <- ProofFile (MerkleTree, then a proof file)
     |                                           MerkleProofs (extends ProofFile),
     |                                           ProofFileProofs (extends MerkleProofs)
     |- Container  records, sizes, hashes of chunks (also extends Bytes)
         |- Writer          -> OrderedLog (what it promises);  WriterProofs
         |- Reader          <- ReaderSession (a caller and a growing stream);
             |                                                 ReaderSessionProofs
             |- Verify
             |   |- Lookup
             |   |   |- Snapshot
             |   |       |- FileLife   Writer -> file -> damage -> Verify, queries
             |   |- Diff                                       DiffProofs
             |- Wire                 the bytes of every record (Reader by INSTANCE)
                 |- Locate           ReadManifest and Open on bytes
                     |- Framing      writes that break off, retries, damage
    Registry       -> NamespaceSet (what it promises);  RegistryProofs

    SeqLemmas      induction over numbers, sequences    <- all *Proofs but Registry's
     |- SeqFold    what a fold computes, for any operator (by INSTANCE)

`MC*.tla` hold the definitions of the instances, `MC*.cfg` the constants.

**Container** has the records as TLA+ records with the fields of the Go structs.
`ok` says whether the payload decodes; `Torn` is the fragment that a failed
write or a cut leaves behind. Names and keys are numbers in their byte order,
and the constants `NamespaceBytes`, `KeyBytes`, `ValueBytes` give their bytes,
because `EntryDigest` hashes the bytes run together and sizes count them.
`blake2b` is an injective term of the bytes it is given: no collisions, and
nothing else assumed. Header fields other than its being a header, `slotNo`, tool
name and comment are left out; of the summary only whether it is valid UTF-8
remains, since that decides whether `Close` fails.

**Writer.** The variable `sw` has the fields of the Go struct under their names,
and `sw.w` is what reached the sink. `accepted` is the history of the entries
that `AddEntry` kept; `err` and `root` are what the last call returned.
`AddRejected`, `AddBlocked` and `AddAccepted` are the three ways of `AddEntry`
(refused before anything changed; stopped by the flush of the old namespace;
taken), `CloseRejected`, `CloseBlocked` and `Close` those of `Close`. A write
succeeds, fails with nothing written, or leaves a torn record. The caller may
make any call after any result.

**OrderedLog** is the abstract promise: an ascending log, open until it is
sealed or abandoned. The Writer implements it under the mapping
`log <- what the chunks of the sink hold, then the pending entries`.

**Reader** has `Next` as an operator from a Reader to what it returns, one
disjunct per early return of the loop; **ReaderSession** runs it over every
sequence of records that may still grow, with calls after errors and EOF.

**Verify**, **Lookup** and **Snapshot** are functions of a file, as in the code:
folds over what `Next` returns, with the code's order of checks. **FileLife**
composes them with the Writer. A file is shipped once `Close` returned a root;
then up to `MaxChanges` changes happen: damage (records lost, repeated, swapped,
cut, altered; the bytes of a chunk divided otherwise into name, key and value under
the same hash) or choices open to another implementation (sequence numbers from 1,
chunks without entries, manifest list in another order). Files in which a torn
record stands inside are not shipped: where a reader goes on behind it is decided
by bytes, which this grain does not have. Framing has it.

**Wire** has the bytes of a record and their decoding, in the code's order of
checks, and runs `Reader!Next` over what they decode to. A 32-bit number is `Width`
digits in base `Base`, so that a damaged length can be every number that matters;
a 64-bit number, a digest and the magic are one byte each. Names are ASCII, and
any other byte is invalid UTF-8, which makes a damaged name fail as in the code.

**Locate** is `ReadManifest` and `Open` on these bytes: the offset at the end, the
bounds it is held against, the walk over the records, and the header of each chunk
from a probe or else from the whole record.

**Framing** writes such a file: `NewWriter`, `Flush` and `Close` send a record, and
`FlushFails` or a failing `Close` leave any part of it in the sink, none and all of
it included. A flush is retried, with further entries if the caller adds some;
`Close` is not, as a caller has no reason to. The file may then be changed: a byte,
a cut, a record added. In every state, which stands for a crash there, all readers
are asked what they see. A digest is a byte that names what was hashed; a byte
that names nothing is a wrong digest.

**ProofForm** has the binary proof and both envelopes as sequences of cells. A cell
is an integer or a whole digest, since what matters is where fields begin and end;
reading an integer inside a digest is refused (in the code it gives a flag, a
count or a fold that leads to no root). JSON is a list of named fields, the
last of a name counting; its white space is left out.

**ProofFile** continues MerkleTree: at any size a proof of an entry is generated in
either form, then damaged or rewritten (also by someone who computes a fitting
root), and given to `scls proof verify` with and without a pin. `parts` holds the
leaves of every namespace of the file that was proved; those of the other namespaces
come from the constant `Neighbours`.

**StakePool** is the payload codec over the values of Cbor. A map is the function
from its field names, since Cbor settles order and duplicates; a Go pointer is a
sequence of at most one value; a decoder is a predicate of what it accepts and an
operator for what it makes of it. All refusals are one sentinel, as in the code.
**KeyCodecs** has one operator per key codec and the table of namespaces. In both the
sizes (28, 32, 96...) are constants.

**LedgerEntry** takes an entry through its codecs: key bytes arrive one by one,
payload bytes likewise, or a typed pool is filled in, encoded, altered and decoded.

**Registry** has one action per access of the map or the mutex, by any number of
goroutines. `announced` and `reading` are the RWMutex with Go's rule that a
waiting `Lock` keeps later readers out and `Unlock` lets the waiting ones in.
**NamespaceSet** is the abstract promise: each call takes effect at one moment
between its start and its answer.

**Diff** has one action per turn of `fillDetailed`'s loop; `advance` and
`refill` are the entry cursor over `Reader`; `refill` turns `readChunk` as often
as the stream has records and once more, which is as often as the code's loop can.
`Held` and `Differences` say, apart from the join, what a file holds and how two differ.

**Cbor** is `Unmarshal` and `Marshal` on sequences of bytes with recursive
operators. Integers are held as their significant bytes, so 64-bit arguments
need no arithmetic. **CborInputs** feeds them every input over an alphabet.

Definitions marked as *slips* in comments (for instance `flushChunkClearedFirst`)
are used by no specification. Each is a plausible mistake; with it in place of the
definition it names, TLC finds one of the properties violated. `PROJECT.json`
pairs them under `mutants`.

## 3. What is checked

| Run | Shows | Bounds, and why they suffice |
|---|---|---|
| `merkle_proofs` | The stack computes the recursively split tree; paths lead to its root within the depth bound; different sequences have different roots. A proof file arrives in both forms, has one accepted form, and under a pinned root binds an entry's bytes | two leaf values, 9 leaves: every shape of the stack up to one past a power of two; proofs in trees of up to 3 leaves, alone or between two namespaces: paths of 0, 1 and 2 steps on both sides; 2 changes, as the second may hide the first |
| `writer` | Nothing lost, repeated, reordered; counts, sequence numbers; one manifest, with the counts, list and roots of all that was taken in; an oversize chunk ends all writing; refinement of `OrderedLog` | 2 namespaces, 3 keys of two lengths, a cap of 2 entries, with or without one of bytes that a long value reaches alone (chunks of one and of two entries; a cap of 1 only flushes as that does), a record limit that two long values pass, 2 failed or torn writes: a failure and a failed retry, and a failure at either end of a namespace change |
| `chunk_caps` (violation) | A chunk can exceed its cap of bytes by more than one entry | an entry that fills a chunk, 1 failed write |
| `reader` | Delivery, clean EOF, first manifest, EOF final, end reached | 5 records of every type: a manifest with one record of any kind before and two behind it |
| `reader_manifest_early`, `reader_eof_after_error` (violations) | What `Manifest()` and a second `Next` give after an error | 3 records |
| `file` | `Verify` accepts exactly the well-formed files at each level; sealed files pass; the root pins the bytes of each entry. On verified files `Lookup`, `LookupProof`, `Get`, `Prove` agree with the contents and a proof convinces of its entry's bytes only; `Prove` is sound on damaged files | 2 namespaces x 3 written keys of one byte in chunks of two, three keys of two bytes that are only asked for or arise by damage, bytes of names, keys and values that run into each other (1\|2\|11, 1\|21\|1 and 12\|1\|1), one failed write, 2 changes: a chunk divided otherwise, and a manifest or a neighbour changed to fit |
| `get_empty_chunk` (violation) | `Get` misses a stored key behind a chunk without entries | 1 foreign choice |
| `framing` | Unsealed bytes pass for a file only by a MANIFEST that stands in a value; what checks has the bytes that were written; all readers agree; the probe's size changes nothing | 4 entries in 2 namespaces, one with a value that ends in a MANIFEST record, chunks that do and that do not fit a record, 2 faults (failed writes or, once sealed, one change), every byte as the place of a break or a cut, damaged bytes that are a count, a longer length of a key, a digit or garbage; probes below, at and above the length of a header |
| `registry` | Races, first registration, linearizability, deadlock, every call returns | 2 goroutines, which can wait for each other in each role, from nil, zero and filled registries, with every kind of invalid namespace |
| `diff` | For verified files a namespace is called added, removed or unchanged exactly if it is, unchanged meaning the same bytes, and with keys of one length the same entries; for files in order the changes shown are the differences, each once and ascending; nothing from a broken stream | all pairs of contents of 2 namespaces, each with keys of one byte or with one of two bytes, and 2 values, which run into each other (1\|21 and 12\|1), in two chunkings; a verified file of a chunk without entries, and ten damaged files, one of which is in order but has a wrong digest |
| `ledger_entry` | Only canonical CBOR is accepted, both sides agree on maps and nesting; keys have one form and numbered keys keep their order; stake pools survive encoding, and only what `EncodeStakePool` writes is accepted | 14 bytes that meet every branch of a head, 5 bytes of payload (a map of two entries, a 4-byte argument), nesting limit of 2; keys up to one byte too long; a pool with two owners and delegators, 144 relays of which most do not fit their kind, and two steps: a setting and a change, or two changes |

What a few of them say, in more words:

- `FileIsLog`: the chunks in the sink followed by the pending entries are the
  entries `AddEntry` kept, whatever failed. Among these is a call that returned
  an error although its entry was kept (`writer.go:154`); with `FileOrdered`
  a caller that repeats it is refused and stores nothing twice.
- `VerifyMeansWellFormed` compares the tally of `Verify` with a definition that
  looks at the file as a whole: an equivalence, so neither too lax nor too strict.
- `SnapshotAgrees` excludes files with chunks without entries, because
  `get_empty_chunk` shows that the claim fails there; everything else that Verify
  accepts and that ends in its manifest is included.
- `RootPinsBytes`: a changed file that passes `VerifyFull` under the root that `Close`
  returned has, entry by entry, the bytes that were taken in. That these are the same
  keys and values is claimed only for entries whose name and length of key are the
  written ones: a chunk whose `len_key` was changed passes with other keys and values.
- `ProveIsSound` needs no verified file: whatever the damage, a proof that is handed
  out is valid, and under the genuine root its name, key and value have in a row the
  bytes of a stored entry, with the same exception.
- `UnsealedIsRefused`: before the last byte of the manifest, what a crash or a failed
  write leaves is not taken for a file, unless a value holds the bytes of a whole
  MANIFEST record. `ReadManifest` takes the bytes exactly if a write broke off right
  behind such a record; Reader and `Open` only after a failed write of entries among
  which is such a value, when the retried write stands behind the torn one.
- `CheckedIsWritten`: if a file with torn records inside is sealed after all, or a
  byte of a sealed file changed, the checks of `VerifyChunks` pass only if its entries
  have the bytes that were written, in order, and they are the entries that were
  written where lengths of keys are.
- `ReportIsExact`: the same for the digests `scls diff` compares. Unchanged is exact
  for the bytes; where the keys of a namespace have one length in both files, it is
  exact for the entries.
- `ManifestSeals`: where a MANIFEST stands, and what it says, compared with the log
  and with what stands in the sink before it.
- `ReadersAgree`: where Reader and `Open` both take the bytes they see the same
  chunks and manifest, and `ReadManifest` the same manifest. What `ReadManifest` finds when
  a reserved record comes last is not claimed, nor that Reader takes what `Open`
  does: `Open` skips a second HDR, which Reader refuses. Chunks without entries and
  namespaces that are not contiguous are left out where `Open` refuses or
  misplaces them.
- `PinnedProofBinds` speaks of the bytes of name, key and value run together, which
  is what is hashed: a proof file whose bytes are divided otherwise is accepted.
- `AcceptedPayloadIsCanonical` covers everything that decodes: nothing is dropped on
  the way, and whatever decodes can be encoded.
- `KeysHaveOneForm` claims the order only of keys with numbers. Selectors of
  `gov_pparams` are words, whose order is not that of the typed constants.
- `DepthAgrees`: the nesting limits of `Marshal` and `Unmarshal` are the same,
  around every accepted item.

### Deadlock

Checked for the Writer and the Registry. `CHECK_DEADLOCK FALSE` stands where the
model ends of itself: the bound on leaves, bytes, records or changes is reached,
or `scls diff` has rendered its report.

### Fairness

- `reader`: weak fairness of the next step. `Verify` and every loop over a Reader
  go on calling `Next`, and the stream grows only up to `MaxRecords`.
- `registry`: weak fairness of each goroutine's steps inside a call (the
  Go scheduler preempts), and strong fairness of `Lock` (a `sync.Mutex` that a
  goroutine has waited for long enough is handed to it). Nothing obliges a
  goroutine to start a call.

### Where the code and its comments disagree

1. `writer.go:44-46` says a chunk exceeds its cap of bytes by at most one entry. After a
   failed flush `AddEntry` takes further entries, so it can be more (`chunk_caps`).
2. `reader.go:62` says `Manifest()` is non-nil only after io.EOF. It is set when
   the record is read, also if an error follows (`reader_manifest_early`).
3. `reader.go:65-66` says io.EOF means a clean end. After `ErrTruncatedRecord` a
   second call returns io.EOF (`reader_eof_after_error`). A caller that stops at the
   first error is safe (`CleanEOFMeansWholeFile`).
4. `snapshot.go:253` promises the stored value in a file that passed Verify. A chunk
   without entries passes, and is indexed under bytes of its footer
   (`get_empty_chunk`). The Writer of this repository never emits one.

5. `manifest_locate.go:32-37` says the manifest must be the file's last record and that
   failing to locate it is `ErrMissingManifest`. A file that broke off inside a CHUNK, right behind bytes of a value
   that are a MANIFEST record, is accepted. `UnsealedIsRefused` states exactly when; the
   states in which it happens are among those the run `framing` visits.
6. `chunk.go:34-35` says that the length of keys is fixed for a namespace. No reader
   checks it, neither between chunks nor against what was hashed. This is the condition
   in `RootPinsBytes`, `ProveIsSound`, `CheckedIsWritten` and `ReportIsExact`.

## 4. What is proved

All theorems are about the specifications that TLC runs, for every value of the
constants under the assumptions named with them. Those assumptions say what the
code's types say (keys are byte strings, caps are numbers, files are sequences of
records, a leaf is an entry's digest); TLC evaluates each on the instances.

**Induction.** What the code computes by a loop the models compute by a fold. The
library states induction with an operator as parameter, which the provers cannot
instantiate; `SeqLemmas` states it for a set of numbers (`NatInduct`,
`BoundedInduct`), by the least number outside of it. `SeqFold` proves, for any
operator given by INSTANCE, that `FoldLeft` and `FoldRight` are the last of a run
of partial results (`FoldRuns`, `FoldRightRuns`); an invariant of the run is then
an induction on numbers.

**Writer: order** (`WriterProofs`, any namespaces, keys, values, caps and any
number of failed writes):

- `WriterTypes`: `TypeOK`, including that every chunk carries its entries' hash.
- `WriterLogAscends`: `AcceptedAscend`, the order of the log.
- `WriterFileOrdered`: `FileOrdered`, which says that and that every chunk in the
  sink is sound and the chunks are ordered as Verify demands.

The order properties are not inductive: that the next chunk fits behind the last
depends on what is pending and on what may still be added. The inductive invariant
(`WriterInvariant`) says that pending entries, written chunks and the log all lie
behind the Writer's *position*, its current namespace, sequence number and last
key; that the pending keys ascend and have the namespace's length; and that before
the first entry nothing is pending. Each action is one step of the proof, and the
lemmas on `flushChunk`, `startNamespace` and `takeEntry` say what each keeps.

**Writer: accounts** (`WriterProofs`):

- `WriterFileIsLog`, `WriterCountsMatchLog`, `WriterManifestSeals`: what is in the
  sink, pending, counted, listed and sealed is the log, after any failures.
- `WriterOversizeTerminal`: the action property `OversizeIsTerminal`.
- `WriterRefinesOrderedLog`: `RefinesOrderedLog`. Initial states map to initial
  ones, and each of `AddAccepted`, `Close` and the blocked and rejected calls maps
  to one step of OrderedLog or to none. It rests on `FileIsLog`, `AcceptedAscend`
  and `ManifestSeals`.

`FileIsLog` alone is inductive, but the counts are not: that the manifest lists
each namespace once needs that a finished namespace is smaller than the current
one, that its entry is right needs that the current root and count are those of the
current namespace's part of the log, that a returned root means a sealed sink needs
that nothing is sealed while the Writer is open, and that a sealed manifest lists the
namespaces in order, each once, needs that its list has ascended all along
(`ListAscends`); that it goes on saying what the log holds, that nothing is taken in
behind it (`SealsOnly`). `WriterLogInvariant`
is the conjunction: the content of sink and pending chunk, the totals, the
current namespace's part, the infos listed, the names that have been started, and
the sealing.

**Reader** (`ReaderSessionProofs`, any records, a stream that grows to any length at
any time, calls in any number after anything):

- `ReaderDeliversInOrder`, `ReaderCleanEOF`: the invariants of that name;
  `ReaderEOFIsFinal`: the action property.

The invariant (`ReaderInvariant`) is an account of what was read: the position, the
place of the first MANIFEST before it if there is one, the chunks delivered as
those before that place, `manifest` and `done` as what that place implies, and as
long as the caller has seen no error, that the records read were in their places. A
stream that grows leaves all of it untouched, as it speaks only of what was read.

**Merkle tree** (`MerkleProofs`, any leaves, any number of them):

- `StackIsSplitTree`, and from it `MerkleRootIsSplitRoot`: the stack of `Add`,
  finalised by `Root`, computes the tree that is split at the largest power of two.
- `PathLeadsToRoot`, `MerklePathsReachRoot`: the path of every leaf leads to
  the root in at most ceil(log2 n) steps.
- `RootCommits`, `MerkleCommitsToLeaves`: the root determines the leaves.
- `VerifiedIsCommitted`: soundness of `VerifyProof` under a file's root. No paths,
  however made, lead there from a leaf that is not one of the file's.
- `ProvedIsVerified`: completeness. The proof of any entry is accepted; the
  limit of 1024 steps is not reached by trees of up to 2^1024 leaves.

The invariant behind the first three is `Stack`: after k leaves the stack holds, from
left to right, the roots of full trees over consecutive parts of the leaves, of
strictly decreasing depth, and `e[j]` is where the j-th ends. `Add` carries it
through a stack from the right (`CarryStack`), for which a part may only be followed
by what is smaller or can be merged (`Fits`). From the depths follows that what lies
behind a part is at most as large (`StackWidths`), so the merges of `Root` split where
`SplitPoint` does, as there is one power of two between n/2 and n
(`SplitAtPower`). For the replay the entry that contains the leaf is marked, and
either the path leads to it or nothing has been recorded (`MarkedUpTo`). Soundness
walks down the split tree along the path from its end: a leaf is not an inner node
(`LeafIsNoNode`), and a node has one left and one right part (`NodeParts`). That is
where blake2b being injective is used, and nowhere else.

**Proof files** (`ProofFileProofs`, any bytes of names, keys and values, any
namespaces and entries, any number of changes to the file):

- `GeneratedProofArrives`: `ProofArrives`. The path of an entry is read back from its
  cells (`PathsRead`), the fields of the envelope from theirs (`EnvelopeRead`), and
  what they hold is accepted by `ProvedIsVerified`.
- `PinnedProofIsOfAnEntry`: `PinnedProofBinds`, from `VerifiedIsCommitted`: the entry
  may be another namespace's, whose bytes in a row are the same.
- `AcceptedFormIsWritten`: `AcceptedFormIsTheOnlyOne`. What is read and written again
  is the cells that were read, for the steps of a path (`StepsReadBack`), a field
  (`FieldReadBack`), the envelope and the proof.

The inductive invariant (`ProofFileInvariant`) says that every cell that counts is a
natural number and every text a sequence of such cells or digests (`RawTyped`),
which each kind of change keeps, since otherwise a length could be anything; and that
until the first change the file is what `scls proof generate` writes for one entry of
`parts` (`AsWritten`). The assumptions are that names, keys and values are bytes,
that a leaf is the digest of its entry, and that nothing has more than 2^1024 parts,
which the code calls far above any legitimate depth (`proof.go:128-131`).

**`scls diff`** (`DiffProofs`, any two files of typed chunks, any order of the join):

- `DiffNoBrokenReport`: `NoReportFromBrokenStream`.
- `OrderedFile`: a file that Verify accepts at its first level is read to its end,
  and its entries ascend strictly by namespace and key, across chunks and across
  chunks without entries.
- `DiffChangesExact`: `ChangesAreExact`. Of two such files the changes shown are the
  differences, each once and in ascending order, however either is cut into chunks.

The first invariant (`DiffInvariant`) puts a Reader that reads the whole file beside
each cursor: what remains of it is what remains for that Reader, and a cursor that
reports an error or the end shares it with that Reader. `advance` and `refill` keep it
whatever the join asks for.

For the second a file is laid out as the calls of `Next` that read it (`Reading`),
and an entry is a *place*, chunk and index. What Verify's tally knows after k chunks
(`TallyKeeps`: the names before are no greater, the last key is no less than any of
the namespace) makes the places ascend. `refill` finds the next chunk that is wanted
and has entries, or the end (`RefillMoves`), so that a cursor goes from one wanted
place to the next (`AdvanceGoesOn`), or, by entries, leaves exactly its item behind
(`AdvanceTracks`). The report alone is not inductive. `DiffJoinInvariant` adds that no
entry is behind one cursor and not behind the other (`Level`) and that a row shows the
differences that are behind both (`Shown`). Each turn of the join settles one name and
key (`Overtakes`, `Meets`), under which the files differ by what the turn emits
(`DifferenceAt`); where both cursors are over, everything is settled. That rows of
one name have one status is all that is needed of the manifests, so digests that lie
change which namespaces are compared and not what is shown of them.

**Registry** (`RegistryProofs`, any set of goroutines, finite or not, any offered
namespaces):

- `RegistryInvariant` with `RegistryMapIsSafe`: mutual exclusion of writers and
  readers, from the fields of the mutex and the positions of the goroutines.
- `RegistryFirstStays`: `FirstRegistrationStays`.
- `RegistryLinearizable`: `Linearizable`, the refinement of `NamespaceSet`. It needs
  a second invariant: what a goroutine inside `Namespaces` has copied so far are
  namespaces of the map, each once, so that the sorted copy is the map at the
  moment of `Sort`; and nobody can have inserted since it took the lock.

**Only model-checked:** liveness (`CallsReturn`, `ReadsToTheEnd`), which the prover
does not do; the queries and Verify (`FileLife`), the bytes of files (`Framing`)
and `ReportIsExact`, for which is missing that digests over equal rows of bytes are
equal, and only they, in any number of chunks;
`AcceptedIsCanonical` and the other properties of the codecs, which rest on the
RECURSIVE operators of Cbor, out of the prover's reach.

## 5. What is not modelled, and why

- Sizes of real files: 32-bit lengths, 28-byte hashes and the like are scaled down
  by constants; that a number fits its width is checked at the scaled boundary.
- The Go types of keys and payloads other than a codec's own, which are refused at
  once, signed Go integers in CBOR, and the capacity reserved in advance.
- Bytes of a MANIFEST that only several broken writes make together: in `framing`
  such bytes stand in one value.
- A Writer whose `Close` is called again, at the grain of bytes: Writer has it at
  the grain of records.
- The other commands (`get`, `info`, `ls`, `verify`): flags, opening files, calls of
  the library and printing. The rendering of `diff`.
- Concurrency outside the Registry: Writer and Reader are for one goroutine, a
  Snapshot does not change after `Open`.
- A file that is replaced while `scls diff` runs: the command makes no promise
  about it.

## 6. Plan

Done, in this order: Merkle, Container, Writer with OrderedLog, Reader, Verify,
Lookup and Snapshot with FileLife, WriterProofs, Registry with NamespaceSet and
RegistryProofs, Diff, Cbor, Wire with Locate and Framing, ProofForm with ProofFile,
KeyCodecs and StakePool with LedgerEntry, SeqLemmas with SeqFold,
ReaderSessionProofs, DiffProofs, MerkleProofs, ProofFileProofs.

Next, proofs:

1. `SealedVerifies`, from what is proved of the Writer's sink and, in `DiffProofs`,
   of Verify's tally.
2. Framing: that a record read back is the record written, for every width.
3. `ReportIsExact`, from `RootCommits` and the rows of bytes (`HashedBytes`).
