---------------------------- MODULE MCProofFile ----------------------------
(***************************************************************************)
(* An instance of ProofFile: two entries whose bytes differ in the value,  *)
(* a name of two bytes, and a file of one namespace or of three.           *)
(***************************************************************************)
EXTENDS ProofFile

MCNamespace == <<Num(1), Num(2)>>

MCLeaf(value) == EntryDigestOf(MCNamespace, <<Num(1)>>, <<Num(value)>>)
MCLeaves      == {MCLeaf(0), MCLeaf(1)}
MCEntryOf     == [leaf \in MCLeaves |->
                    [key |-> <<Num(1)>>, value |-> <<IF leaf = MCLeaf(0) THEN Num(0) ELSE Num(1)>>]]

MCOther(n)    == EntryDigestOf(<<Num(n)>>, <<Num(n)>>, <<Num(n)>>)
MCElsewhere   == {MCOther(3), MCOther(4)}
MCNeighbours  == {[before |-> <<>>, after |-> <<>>],
                  [before |-> <<<<MCOther(3)>>>>, after |-> <<<<MCOther(4)>>>>]}
=============================================================================
