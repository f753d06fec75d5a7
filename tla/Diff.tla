-------------------------------- MODULE Diff --------------------------------
(***************************************************************************)
(* cmd/scls/diff.go: scls diff [--detailed] old new.  The namespaces are   *)
(* compared by the digests in the two manifests; with --detailed the two   *)
(* entry streams are joined in lockstep, one buffered chunk per side.      *)
(***************************************************************************)
EXTENDS Verify

CONSTANT Inputs    \* the files the command may be given

ASSUME InputsAssumption ==
  \A file \in Inputs :
    /\ file \in Seq({file[i] : i \in DOMAIN file})
    /\ \A i \in DOMAIN file :
         IsChunk(file[i]) => file[i].ns \in Namespaces /\ file[i].entries \in Seq(Entries)

VARIABLES old, new, detailed,   \* the command's arguments
          pc,                   \* "start", "prime", "join", "rendered" or "failed"
          report,               \* the diffReport
          oldC, newC            \* the entryCursors

vars == <<old, new, detailed, pc, report, oldC, newC>>

\* ReadManifest, as far as records go: the last one has to be a MANIFEST.
ReadManifest(file) ==
  IF IsManifest(Last(file)) /\ Last(file).ok
  THEN [err |-> "nil", manifest |-> Last(file)]
  ELSE [err |-> "ErrMissingManifest", manifest |-> NoManifest]

\* loadManifest: the header first, then the trailing manifest.
loadManifest(file) == IF OpenErr(file) # "nil"
                      THEN [err |-> OpenErr(file), manifest |-> NoManifest]
                      ELSE ReadManifest(file)

-----------------------------------------------------------------------------
\* indexNS, a name listed twice counting as it is listed last; the zero
\* NamespaceInfo under the names that are not listed.
NoInfo == NamespaceInfo(0, 0, 0, NoDigest)
indexNS(m) ==
  [ns \in Namespaces |->
     LET at == {i \in DOMAIN m.namespaces : m.namespaces[i].name = ns}
     IN  IF at = {} THEN NoInfo
         ELSE m.namespaces[CHOOSE i \in at : \A j \in at : j <= i]]

unionSorted(o, n) ==
  SetToSortSeq({ns \in Namespaces : o[ns] # NoInfo \/ n[ns] # NoInfo}, <)

StatusByCount(o, n) ==                          \* a slip: the digests are not compared
  IF n = NoInfo THEN "removed"
  ELSE IF o = NoInfo THEN "added"
  ELSE IF o.entriesCount = n.entriesCount THEN "unchanged" ELSE "changed"

Status(o, n) == IF n = NoInfo THEN "removed"
                ELSE IF o = NoInfo THEN "added"
                ELSE IF o.digest = n.digest THEN "unchanged" ELSE "changed"

buildDiff(oldM, newM) ==
  LET o == indexNS(oldM)
      n == indexNS(newM)
      names == unionSorted(o, n)
  IN  [i \in DOMAIN names |->
         [name       |-> names[i],
          status     |-> Status(o[names[i]], n[names[i]]),
          oldEntries |-> o[names[i]].entriesCount,
          newEntries |-> n[names[i]].entriesCount,
          keyChanges |-> <<>>]]

Want(rep) == {rep[i].name : i \in {j \in DOMAIN rep : rep[j].status # "unchanged"}}

-----------------------------------------------------------------------------
\* entryCursor
NoItem == [ns |-> 0, key |-> 0, value |-> 0]
newEntryCursor(file) == [sr |-> NewReader(file), buf |-> <<>>, ns |-> 0,
                         cur |-> NoItem, ok |-> FALSE, err |-> "nil"]

\* One turn of the loop of advance: Next, if nothing is buffered and the
\* reader has not ended.
readChunk(c, want) ==
  LET n == Next(c.sr)
  IN  IF ~c.ok \/ c.buf # <<>> THEN c
      ELSE IF n.err # "nil"
        THEN [c EXCEPT !.sr = n.rd, !.ok = FALSE,
                       !.err = IF n.err = "EOF" THEN "nil" ELSE n.err]
      ELSE IF n.chunk[1].ns \in want /\ n.chunk[1].entries # <<>>
        THEN [c EXCEPT !.sr = n.rd, !.ns = n.chunk[1].ns, !.buf = n.chunk[1].entries]
      ELSE [c EXCEPT !.sr = n.rd]

\* The loop: until a chunk of a wanted namespace has entries, or the reader
\* ends, which it does within as many turns as there are records and one.
refill(c, want) ==
  FoldLeft(readChunk, [c EXCEPT !.ok = TRUE], [turn \in 1..(Len(c.sr.r) + 1) |-> want])

\* Slip: the error of a stream that breaks is lost with its cursor.
advanceSilently(c, want) ==
  LET f == IF c.buf = <<>> THEN refill(c, want) ELSE [c EXCEPT !.ok = TRUE]
  IN  IF ~f.ok THEN [f EXCEPT !.err = "nil"]
      ELSE [f EXCEPT !.cur = [ns |-> f.ns, key |-> f.buf[1].key, value |-> f.buf[1].value],
                     !.buf = Tail(@)]

advance(c, want) ==
  LET f == IF c.err # "nil" THEN [c EXCEPT !.ok = FALSE]
           ELSE IF c.buf = <<>> THEN refill(c, want) ELSE [c EXCEPT !.ok = TRUE]
  IN  IF ~f.ok THEN f
      ELSE [f EXCEPT !.cur = [ns |-> f.ns, key |-> f.buf[1].key, value |-> f.buf[1].value],
                     !.buf = Tail(@)]

-----------------------------------------------------------------------------
Init == /\ old \in Inputs /\ new \in Inputs /\ detailed \in BOOLEAN
        /\ pc = "start"
        /\ report = <<>>
        /\ oldC = [ok |-> FALSE] /\ newC = [ok |-> FALSE]

Fail == pc' = "failed" /\ UNCHANGED <<report, oldC, newC>>

\* The two manifests, and the report by digests; without --detailed, and if
\* nothing has changed, that is all.
Load ==
  /\ pc = "start"
  /\ LET o == loadManifest(old)
         n == loadManifest(new)
         rep == buildDiff(o.manifest, n.manifest)
     IN  \/ (o.err # "nil" \/ n.err # "nil") /\ Fail
         \/ /\ o.err = "nil" /\ n.err = "nil"
            /\ report' = rep
            /\ pc' = IF detailed /\ Want(rep) # {} THEN "prime" ELSE "rendered"
            /\ UNCHANGED <<oldC, newC>>
  /\ UNCHANGED <<old, new, detailed>>

\* Both cursors are opened and advanced to their first item, the old one first.
Prime ==
  /\ pc = "prime"
  /\ LET o == advance(newEntryCursor(old), Want(report))
         n == advance(newEntryCursor(new), Want(report))
     IN  \/ (o.err # "nil" \/ n.err # "nil") /\ Fail
         \/ /\ o.err = "nil" /\ n.err = "nil"
            /\ oldC' = o /\ newC' = n
            /\ pc' = "join"
            /\ UNCHANGED report
  /\ UNCHANGED <<old, new, detailed>>

\* Slip: the namespaces are not compared.
ItemBeforeByKey(o, n) == o.key < n.key

\* compareItems(o, n) < 0
ItemBefore(o, n) == o.ns < n.ns \/ (o.ns = n.ns /\ o.key < n.key)

emit(ns, op, key) ==
  report' = [i \in DOMAIN report |->
               IF report[i].name = ns
               THEN [report[i] EXCEPT !.keyChanges = Append(@, [op |-> op, key |-> key])]
               ELSE report[i]]

OldOnly == oldC.ok /\ (newC.ok => ItemBefore(oldC.cur, newC.cur))
NewOnly == newC.ok /\ (oldC.ok => ItemBefore(newC.cur, oldC.cur))

JoinOld == /\ pc = "join" /\ OldOnly
           /\ emit(oldC.cur.ns, "-", oldC.cur.key)
           /\ oldC' = advance(oldC, Want(report))
           /\ UNCHANGED <<old, new, detailed, pc, newC>>

JoinNew == /\ pc = "join" /\ NewOnly
           /\ emit(newC.cur.ns, "+", newC.cur.key)
           /\ newC' = advance(newC, Want(report))
           /\ UNCHANGED <<old, new, detailed, pc, oldC>>

JoinBoth == /\ pc = "join" /\ oldC.ok /\ newC.ok /\ ~OldOnly /\ ~NewOnly
            /\ IF oldC.cur.value # newC.cur.value
               THEN emit(oldC.cur.ns, "~", oldC.cur.key) ELSE UNCHANGED report
            /\ oldC' = advance(oldC, Want(report))
            /\ newC' = advance(newC, Want(report))
            /\ UNCHANGED <<old, new, detailed, pc>>

\* Both streams have stopped; an error of either is the result.
Finish == /\ pc = "join" /\ ~oldC.ok /\ ~newC.ok
          /\ pc' = IF oldC.err # "nil" \/ newC.err # "nil" THEN "failed" ELSE "rendered"
          /\ UNCHANGED <<old, new, detailed, report, oldC, newC>>

DiffNext == Load \/ Prime \/ JoinOld \/ JoinNew \/ JoinBoth \/ Finish

Spec == Init /\ [][DiffNext]_vars
-----------------------------------------------------------------------------
\* What a file holds, and under which names and keys.
Held(file) ==
  UNION {Range(Located(file[i].ns, file[i].entries)) :
           i \in {j \in DOMAIN file : IsChunk(file[j])}}

Has(file, ns, key) == \E e \in Held(file) : e.ns = ns /\ e.key = key

\* How the files differ in a namespace.
Differences(ns) ==
  {[op |-> "-", key |-> key] : key \in {k \in Keys : Has(old, ns, k) /\ ~Has(new, ns, k)}}
  \cup
  {[op |-> "+", key |-> key] : key \in {k \in Keys : ~Has(old, ns, k) /\ Has(new, ns, k)}}
  \cup
  {[op |-> "~", key |-> key] :
     key \in {k \in Keys : \E o \in Held(old), n \in Held(new) :
                 /\ o.ns = ns /\ n.ns = ns /\ o.key = k /\ n.key = k
                 /\ o.value # n.value}}

Verified(file) == Verify(file, Full).err = "nil"
Ordered(file)  == Verify(file, Structure).err = "nil"

\* The names a file has chunks of, what was hashed under a name, and whether the
\* keys under a name have one length, in both files.
Names(file)       == {file[i].ns : i \in {j \in DOMAIN file : IsChunk(file[j])}}
Hashed(file, ns)  == HashedBytes(SelectSeq(EntriesOf(file), LAMBDA e : e.ns = ns))
OneKeyLength(ns)  == \A d, e \in Held(old) \cup Held(new) :
                       d.ns = ns /\ e.ns = ns => KeyLength[d.key] = KeyLength[e.key]

\* For two verified files the report has a row for every namespace that has
\* chunks in either, and it says by the manifests alone that one is new, gone, or
\* unchanged, which leaves it out of the join.  Unchanged is a namespace in which
\* name, key and value of each entry have the same bytes in a row, which is all
\* that is hashed (diff.go:79-123, hash.go:44-50); and if all its keys have one
\* length, as a namespace's should, that is one with the same entries.
ReportIsExact ==
  pc = "rendered" /\ Verified(old) /\ Verified(new) =>
    /\ {report[i].name : i \in DOMAIN report} = Names(old) \cup Names(new)
    /\ \A i \in DOMAIN report :
         LET ns     == report[i].name
             inBoth == ns \in Names(old) \cap Names(new)
         IN  /\ report[i].status = "added"   <=> ns \notin Names(old)
             /\ report[i].status = "removed" <=> ns \notin Names(new)
             /\ report[i].status = "unchanged" <=>
                  inBoth /\ Hashed(old, ns) = Hashed(new, ns)
             /\ inBoth /\ OneKeyLength(ns) =>
                  (report[i].status = "unchanged" <=> Differences(ns) = {})

\* For two files in order, whatever their digests say, the changes shown under
\* a namespace are the differences and nothing else: the keys removed, added and
\* changed, each once and in ascending order, however the entries are cut into
\* chunks and wherever either file ends; none are shown without --detailed or
\* under a namespace said to be unchanged (diff.go:125-187).
ChangesAreExact ==
  pc = "rendered" /\ Ordered(old) /\ Ordered(new) =>
    \A i \in DOMAIN report :
      LET changes == report[i].keyChanges
      IN  /\ Range(changes) = IF detailed /\ report[i].status # "unchanged"
                              THEN Differences(report[i].name) ELSE {}
          /\ \A a, b \in DOMAIN changes : a < b => changes[a].key < changes[b].key

\* No report is rendered from a stream that broke: what follows a damaged or
\* missing record is not shown as removed or added (diff.go:184-187).
NoReportFromBrokenStream ==
  pc = "rendered" /\ detailed /\ Want(report) # {} =>
    ReadAll(old).err = "EOF" /\ ReadAll(new).err = "EOF"
=============================================================================
