------------------------------- MODULE MCDiff -------------------------------
(***************************************************************************)
(* Instances of Diff: every content of two namespaces with a short and a   *)
(* long value under keys of one byte or of two, the bytes of which run      *)
(* into each other (1|21 and 12|1), cut into chunks of one and of two      *)
(* entries as a Writer seals them; and such files with a chunk without     *)
(* entries, with a reserved record, without a trailing manifest, with a    *)
(* chunk that cannot be decoded or is out of place, or with a value that   *)
(* the digests do not know of.                                             *)
(***************************************************************************)
EXTENDS Diff

MCNamespaceBytes == [n \in Namespaces |-> <<n>>]
MCKeyBytes       == <<<<1>>, <<1, 2>>, <<3>>>>
MCValueBytes     == <<<<1>>, <<2, 1>>>>

\* The keys of a namespace have one length.
MCShort == {k \in Keys : KeyLength[k] = 1}
MCContents ==
  {c \in [Namespaces \X Keys -> Values \cup {0}] :
     \A ns \in Namespaces : \/ \A k \in MCShort : c[ns, k] = 0
                            \/ \A k \in Keys \ MCShort : c[ns, k] = 0}

MCEntries(contents, ns) ==
  LET keys == SetToSortSeq({k \in Keys : contents[ns, k] # 0}, <)
  IN  [i \in DOMAIN keys |-> [key |-> keys[i], value |-> contents[ns, keys[i]]]]

MCChunks(contents, ns, cap) ==
  LET all == MCEntries(contents, ns)
      n   == (Len(all) + cap - 1) \div cap
  IN  [i \in 1..n |-> Chunk(i - 1, ns, KeyLength[all[1].key],
                            SubSeq(all, (i - 1) * cap + 1, Min({Len(all), i * cap})))]

MCSealed(contents, cap) ==
  LET names == SetToSortSeq({ns \in Namespaces : MCEntries(contents, ns) # <<>>}, <)
      chunks == FlattenSeq([i \in DOMAIN names |-> MCChunks(contents, names[i], cap)])
      info(ns) == NamespaceInfo(ns, Len(MCEntries(contents, ns)),
                                Len(MCChunks(contents, ns, cap)),
                                Root(TreeOf([i \in DOMAIN MCEntries(contents, ns) |->
                                  EntryDigest(ns, MCEntries(contents, ns)[i].key,
                                                  MCEntries(contents, ns)[i].value)])))
      infos == [i \in DOMAIN names |-> info(names[i])]
  IN  <<Hdr>> \o chunks
        \o <<Manifest(FoldLeft(LAMBDA n, x : n + x.entriesCount, 0, infos),
                      Len(chunks), GlobalRoot(infos), infos)>>

MCFiles == {MCSealed(contents, cap) : contents \in MCContents, cap \in {1, 2}}

\* One file with every way to go wrong.
MCFull == MCSealed([p \in Namespaces \X Keys |-> IF p[2] \in MCShort THEN 1 ELSE 0], 1)
MCDamaged == {Append(MCFull, Torn), Append(MCFull, Reserved), InsertAt(MCFull, 2, Reserved),
              InsertAt(MCFull, 2, Torn),
              [MCFull EXCEPT ![2].ok = FALSE], [MCFull EXCEPT ![4].ok = FALSE],
              [MCFull EXCEPT ![2].entries[1].value = 2],
              InsertAt(MCFull, 4, Last(MCFull)), Front(MCFull), Tail(MCFull)}

\* Another writer's file, of a namespace without entries.
MCHollow == LET info == NamespaceInfo(1, 0, 1, Root(EmptyTree))
            IN  <<Hdr, Chunk(0, 1, 1, <<>>), Manifest(0, 1, GlobalRoot(<<info>>), <<info>>)>>

MCInputs == MCFiles \cup MCDamaged \cup {MCHollow}
=============================================================================
