------------------------------- MODULE Bytes -------------------------------
(***************************************************************************)
(* Byte strings, as sequences of naturals.                                 *)
(***************************************************************************)
EXTENDS Integers, Sequences

\* bytes.Compare(a, b) < 0
BytesBefore(a, b) ==
  \E n \in DOMAIN b :
     /\ n <= Len(a) + 1
     /\ \A i \in 1..(n - 1) : a[i] = b[i]
     /\ n <= Len(a) => a[n] < b[n]
=============================================================================
