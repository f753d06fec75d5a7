----------------------------- MODULE MCFileLife -----------------------------
(***************************************************************************)
(* Instances of FileLife.  The digest of no entries starts with the bytes  *)
(* of a key in the middle (it is 0x83..., the keys around it are ordinary  *)
(* ones).  In the second set of bytes keys are one and two bytes long, and *)
(* what is written can be divided otherwise: 1|2|11, 1|21|1 and 12|1|1     *)
(* have the same bytes in a row.                                           *)
(***************************************************************************)
EXTENDS FileLife

MCNamespaceBytes == [n \in Namespaces |-> <<n>>]
MCKeyBytes       == [k \in Keys |-> <<k>>]
MCValueBytes     == [v \in Values |-> <<v>>]

MCRunningNamespaceBytes == [n \in Namespaces |-> IF n = 2 THEN <<1, 2>> ELSE <<n>>]
MCRunningKeyBytes       == <<<<1>>, <<1, 1>>, <<2>>, <<2, 1>>, <<4>>, <<4, 1>>>>
MCRunningValueBytes     == [v \in Values |-> IF v = Garbled THEN <<1>> ELSE <<1, 1>>]

\* Once a file is shipped its Writer takes no further step.
MCView == IF file = <<>> THEN vars ELSE <<accepted, root, file, changes>>
=============================================================================
