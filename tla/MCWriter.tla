------------------------------ MODULE MCWriter ------------------------------
(***************************************************************************)
(* Instances of Writer: two namespaces, two keys of one length and one of  *)
(* another, and values of which one fills a chunk by bytes.                *)
(***************************************************************************)
EXTENDS Writer

MCNamespaceBytes == [n \in Namespaces |-> <<n>>]
MCKeyBytes       == [k \in Keys |-> IF k = 3 THEN <<2, 1>> ELSE <<k>>]
MCValueBytes     == [v \in Values |-> IF v = 2 THEN [i \in 1..9 |-> 2] ELSE <<v>>]
=============================================================================
