----------------------------- MODULE SeqLemmas -----------------------------
(***************************************************************************)
(* Facts about numbers and sequences that the proofs of several components *)
(* need: induction, and sequences whose elements have no common type.      *)
(*                                                                         *)
(* The library states induction with an operator as the parameter, which   *)
(* the backends cannot instantiate.  Here the property is a set: of the    *)
(* naturals outside of it there would be a least one.                      *)
(***************************************************************************)
EXTENDS Integers, Sequences, SequenceTheorems, WellFoundedInduction, TLAPS

\* A set of naturals with 0 and the successor of each of its members is Nat.
LEMMA NatInduct ==
  ASSUME NEW S \in SUBSET Nat, 0 \in S, \A n \in S : n + 1 \in S
  PROVE  S = Nat
<1> DEFINE T == Nat \ S
           R == OpToRel(<, Nat)
<1>1. IsWellFoundedOn(R, Nat)
  BY NatLessThanWellFounded
<1>2. SUFFICES ASSUME T # {} PROVE FALSE
  OBVIOUS
<1>3. PICK m \in T : \A y \in T : ~(<<y, m>> \in R)
  <2>1. T \subseteq Nat
    OBVIOUS
  <2> HIDE DEF R, T
  <2> QED
    BY <1>1, <1>2, <2>1, WFMin
<1>4. m # 0 /\ m \in Nat
  OBVIOUS
<1>5. m - 1 \in Nat /\ m - 1 < m
  BY <1>4
<1>6. <<m - 1, m>> \in R
  <2>1. <<m - 1, m>> \in Nat \X Nat
    BY <1>4, <1>5
  <2> QED
    BY <1>4, <1>5, <2>1 DEF OpToRel
<1>7. m - 1 \in S
  BY <1>3, <1>5, <1>6
<1>8. (m - 1) + 1 \in S
  BY <1>7
<1> QED
  BY <1>4, <1>8

\* The same up to a bound.
LEMMA BoundedInduct ==
  ASSUME NEW n \in Nat, NEW S, 0 \in S, \A k \in 0..(n - 1) : k \in S => k + 1 \in S
  PROVE  \A k \in 0..n : k \in S
<1> DEFINE T == {k \in Nat : k <= n => k \in S}
<1>1. T \in SUBSET Nat /\ 0 \in T
  OBVIOUS
<1>2. \A k \in T : k + 1 \in T
  OBVIOUS
<1>3. T = Nat
  <2> HIDE DEF T
  <2> QED
    BY <1>1, <1>2, NatInduct
<1> QED
  BY <1>3

-----------------------------------------------------------------------------
\* A sequence whose elements need not be of one set given in advance.
IsSeq(w) == w \in Seq({w[i] : i \in DOMAIN w})

\* Appending one element to such a sequence, element by element.
LEMMA Extension ==
  ASSUME NEW w, NEW rec, IsSeq(w)
  PROVE  /\ IsSeq(w \o <<rec>>)
         /\ Len(w) \in Nat /\ DOMAIN w = 1..Len(w)
         /\ DOMAIN (w \o <<rec>>) = 1..(Len(w) + 1)
         /\ \A i \in 1..Len(w) : (w \o <<rec>>)[i] = w[i]
         /\ (w \o <<rec>>)[Len(w) + 1] = rec
<1> DEFINE R == {w[i] : i \in DOMAIN w}
           S == R \cup {rec}
           v == w \o <<rec>>
<1>1. w \in Seq(S)
  <2>1. R \subseteq S
    OBVIOUS
  <2> QED
    BY <2>1, SeqMonotonic DEF IsSeq
<1>2. <<rec>> \in Seq(S) /\ Len(<<rec>>) = 1 /\ <<rec>>[1] = rec
  OBVIOUS
<1>3. Len(w) \in Nat /\ DOMAIN w = 1..Len(w)
  BY <1>1, LenProperties
<1>4. /\ v \in Seq(S) /\ Len(v) = Len(w) + 1
      /\ \A i \in 1..(Len(w) + 1) : v[i] = IF i <= Len(w) THEN w[i] ELSE <<rec>>[i - Len(w)]
  <2> HIDE DEF S
  <2> QED
    BY <1>1, <1>2, ConcatProperties
<1>5. v \in [1..(Len(w) + 1) -> S]
  BY <1>4, LenProperties
<1>9. DOMAIN v = 1..(Len(w) + 1)
  BY <1>5
<1>6. IsSeq(v)
  <2> DEFINE T == {v[i] : i \in DOMAIN v}
  <2>1. v \in [1..(Len(w) + 1) -> T]
    BY <1>5
  <2>2. Len(w) + 1 \in Nat
    BY <1>3
  <2>3. v \in UNION {[1..n -> T] : n \in Nat}
    BY <2>1, <2>2
  <2>4. v \in Seq(T)
    BY <2>3, SeqDef
  <2> QED
    BY <2>4 DEF IsSeq
<1>7. \A i \in 1..Len(w) : v[i] = w[i]
  BY <1>3, <1>4
<1>8. v[Len(w) + 1] = rec
  BY <1>2, <1>3, <1>4
<1> QED
  BY <1>3, <1>6, <1>7, <1>8, <1>9

\* The same for Append.
LEMMA Appended ==
  ASSUME NEW w, NEW rec, IsSeq(w)
  PROVE  /\ IsSeq(Append(w, rec))
         /\ Len(w) \in Nat /\ DOMAIN w = 1..Len(w)
         /\ DOMAIN Append(w, rec) = 1..(Len(w) + 1)
         /\ \A i \in 1..Len(w) : Append(w, rec)[i] = w[i]
         /\ Append(w, rec)[Len(w) + 1] = rec
<1> DEFINE S == {w[i] : i \in DOMAIN w}
<1>1. w \in Seq(S)
  BY DEF IsSeq
<1> HIDE DEF S
<1>2. Append(w, rec) = w \o <<rec>>
  BY <1>1
<1> QED
  BY <1>2, Extension

\* One element in front of such a sequence.
LEMMA Prepended ==
  ASSUME NEW w, NEW rec, IsSeq(w)
  PROVE  /\ IsSeq(<<rec>> \o w)
         /\ DOMAIN (<<rec>> \o w) = 1..(Len(w) + 1)
         /\ (<<rec>> \o w)[1] = rec
         /\ \A i \in 1..Len(w) : (<<rec>> \o w)[i + 1] = w[i]
<1> DEFINE R == {w[i] : i \in DOMAIN w}
           S == R \cup {rec}
           v == <<rec>> \o w
           n == Len(w)
<1>1. w \in Seq(S)
  <2>1. R \subseteq S
    OBVIOUS
  <2> QED
    BY <2>1, SeqMonotonic DEF IsSeq
<1>2. <<rec>> \in Seq(S) /\ Len(<<rec>>) = 1 /\ <<rec>>[1] = rec
  OBVIOUS
<1>3. n \in Nat
  BY <1>1, LenProperties
<1>4. /\ v \in Seq(S) /\ Len(v) = 1 + n
      /\ \A i \in 1..(1 + n) : v[i] = IF i <= 1 THEN <<rec>>[i] ELSE w[i - 1]
  <2> HIDE DEF S
  <2> QED
    BY <1>1, <1>2, ConcatProperties
<1> HIDE DEF v, n
<1>5. v \in [1..(n + 1) -> S] /\ n + 1 \in Nat
  <2>1. 1 + n = n + 1
    BY <1>3
  <2> QED
    BY <1>3, <1>4, <2>1, LenProperties
<1>6. IsSeq(v)
  <2> DEFINE T == {v[i] : i \in DOMAIN v}
  <2>1. v \in [1..(n + 1) -> T]
    BY <1>5
  <2>2. v \in UNION {[1..k -> T] : k \in Nat}
    BY <1>5, <2>1
  <2> QED
    BY <2>2, SeqDef DEF IsSeq
<1>7. v[1] = rec
  BY <1>2, <1>3, <1>4
<1>8. \A i \in 1..n : v[i + 1] = w[i]
  BY <1>3, <1>4
<1> QED
  BY <1>5, <1>6, <1>7, <1>8 DEF v, n
=============================================================================
