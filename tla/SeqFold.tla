------------------------------ MODULE SeqFold ------------------------------
(***************************************************************************)
(* FoldLeft and FoldRight of SequencesExt, for any operator op: the        *)
(* equations by which they may be unfolded.  A module whose definition is  *)
(* a fold takes an INSTANCE of this one with its operator, so that the     *)
(* theorems hold of that operator.                                         *)
(*                                                                         *)
(* SequencesExt defines both by a recursive function on the sets of        *)
(* indices.  That it exists is shown by induction on the length.           *)
(***************************************************************************)
EXTENDS SequencesExt, SeqLemmas

CONSTANT op(_, _)

Fold(base, s) == FoldLeft(op, base, s)

\* The function on the index sets that FoldLeft is defined by.
Iterates(it, base, s, D) ==
  it = [t \in SUBSET D |->
          IF t = {} THEN base ELSE op(it[t \ {Max(t)}], s[Max(t)])]

\* Above the last index there is nothing.
LEMMA MaxOfInterval ==
  ASSUME NEW n \in Nat, NEW t \in SUBSET (1..(n + 1)), n + 1 \in t
  PROVE  Max(t) = n + 1
<1>1. \A y \in t : n + 1 >= y
  OBVIOUS
<1>2. \A x \in t : (\A y \in t : x >= y) => x = n + 1
  OBVIOUS
<1>3. Max(t) \in t /\ \A y \in t : Max(t) >= y
  BY <1>1, Zenon DEF Max
<1> QED
  BY <1>2, <1>3

\* A set of indices has a greatest member: by induction on the bound.
LEMMA MaxIn ==
  ASSUME NEW n \in Nat, NEW t \in SUBSET (1..n), t # {}
  PROVE  Max(t) \in t
<1> DEFINE S == {k \in Nat : \A u \in SUBSET (1..k) : u # {} => Max(u) \in u}
<1>1. 0 \in S
  <2>1. 1..0 = {}
    OBVIOUS
  <2>2. \A u \in SUBSET (1..0) : u = {}
    BY <2>1
  <2> QED
    BY <2>2
<1>2. ASSUME NEW k \in S PROVE k + 1 \in S
  <2> SUFFICES ASSUME NEW u \in SUBSET (1..(k + 1)), u # {} PROVE Max(u) \in u
    OBVIOUS
  <2>1. CASE k + 1 \in u
    BY <2>1, MaxOfInterval
  <2>2. CASE k + 1 \notin u
    <3>1. u \in SUBSET (1..k)
      BY <2>2
    <3> QED
      BY <3>1
  <2> QED
    BY <2>1, <2>2
<1>3. S = Nat
  <2>1. S \in SUBSET Nat
    OBVIOUS
  <2> HIDE DEF S
  <2> QED
    BY <1>1, <1>2, <2>1, NatInduct
<1> QED
  BY <1>3

\* The function that FoldLeft chooses exists.
LEMMA IterateExists ==
  ASSUME NEW base, NEW s, NEW n \in Nat
  PROVE  \E it : Iterates(it, base, s, 1..n)
<1> DEFINE S == {k \in Nat : \E it : Iterates(it, base, s, 1..k)}
<1>1. 0 \in S
  <2> DEFINE it == [t \in SUBSET (1..0) |-> base]
  <2>1. 1..0 = {}
    OBVIOUS
  <2>2. \A t \in SUBSET (1..0) : t = {}
    BY <2>1
  <2>3. Iterates(it, base, s, 1..0)
    BY <2>2 DEF Iterates
  <2> QED
    BY <2>3
<1>2. ASSUME NEW k \in S PROVE k + 1 \in S
  <2>1. PICK it : Iterates(it, base, s, 1..k)
    OBVIOUS
  <2> DEFINE D == 1..(k + 1)
             new == [t \in SUBSET D |->
                       IF k + 1 \in t THEN op(it[t \ {k + 1}], s[k + 1]) ELSE it[t]]
  <2>2. ASSUME NEW t \in SUBSET D
        PROVE  new[t] = IF t = {} THEN base ELSE op(new[t \ {Max(t)}], s[Max(t)])
    <3>1. CASE k + 1 \in t
      <4>1. Max(t) = k + 1
        BY <3>1, MaxOfInterval
      <4>2. t \ {k + 1} \in SUBSET D /\ k + 1 \notin t \ {k + 1}
        OBVIOUS
      <4>3. new[t \ {k + 1}] = it[t \ {k + 1}]
        BY <4>2
      <4>4. new[t] = op(it[t \ {k + 1}], s[k + 1])
        BY <3>1
      <4> QED
        BY <3>1, <4>1, <4>3, <4>4
    <3>2. CASE k + 1 \notin t
      <4>1. t \in SUBSET (1..k)
        BY <3>2
      <4>2. it[t] = IF t = {} THEN base ELSE op(it[t \ {Max(t)}], s[Max(t)])
        BY <2>1, <4>1 DEF Iterates
      <4>3. t # {} => Max(t) \in t
        BY <4>1, MaxIn
      <4>4. t \ {Max(t)} \in SUBSET D /\ k + 1 \notin t \ {Max(t)}
        BY <3>2
      <4>5. new[t \ {Max(t)}] = it[t \ {Max(t)}]
        BY <4>4
      <4>6. new[t] = it[t]
        BY <3>2
      <4> HIDE DEF new
      <4> QED
        BY <4>2, <4>5, <4>6
    <3> QED
      BY <3>1, <3>2
  <2>3. new = [t \in SUBSET D |-> new[t]]
    OBVIOUS
  <2>4. Iterates(new, base, s, D)
    <3> HIDE DEF new, D
    <3> QED
      BY <2>2, <2>3 DEF Iterates
  <2> QED
    BY <2>4
<1>3. S = Nat
  <2>1. S \in SUBSET Nat
    OBVIOUS
  <2> HIDE DEF S
  <2> QED
    BY <1>1, <1>2, <2>1, NatInduct
<1> QED
  BY <1>3

\* FoldLeft is that function, at the whole domain.
LEMMA FoldUnfold ==
  ASSUME NEW base, NEW s
  PROVE  Fold(base, s) = (CHOOSE it : Iterates(it, base, s, DOMAIN s))[DOMAIN s]
BY DEF Fold, FoldLeft, MapThenFoldSet, Iterates

\* The partial results of a fold.
Runs(r, s, n) == \A i \in 1..n : r[i] = op(r[i - 1], s[i])

FoldRun(base, s, n) == \E r : r[0] = base /\ Runs(r, s, n) /\ Fold(base, s) = r[n]

\* A fold is the last of its partial results.
LEMMA FoldRuns ==
  ASSUME NEW base, NEW s, NEW n \in Nat, DOMAIN s = 1..n
  PROVE  FoldRun(base, s, n)
<1> DEFINE it == CHOOSE it : Iterates(it, base, s, DOMAIN s)
           r == [i \in 0..n |-> it[1..i]]
<1>1. Iterates(it, base, s, 1..n)
  BY IterateExists
<1>2. Fold(base, s) = it[1..n]
  BY FoldUnfold
<1> HIDE DEF it
<1>3. r[0] = base
  <2>1. 1..0 = {} /\ 1..0 \in SUBSET (1..n)
    OBVIOUS
  <2> QED
    BY <1>1, <2>1 DEF Iterates
<1>4. ASSUME NEW i \in 1..n
      PROVE  r[i] = op(r[i - 1], s[i])
  <2>1. 1..i \in SUBSET (1..n) /\ 1..i # {} /\ (1..i) \ {i} = 1..(i - 1)
    <3>1. \A j \in 1..i : j \in 1..n
      OBVIOUS
    <3>2. i \in 1..i
      OBVIOUS
    <3>3. ASSUME NEW j
          PROVE  j \in (1..i) \ {i} <=> j \in 1..(i - 1)
      OBVIOUS
    <3> QED
      BY <3>1, <3>2, <3>3
  <2>2. Max(1..i) = i
    <3>1. i - 1 \in Nat /\ 1..i \in SUBSET (1..((i - 1) + 1)) /\ (i - 1) + 1 \in 1..i
      OBVIOUS
    <3>2. Max(1..i) = (i - 1) + 1
      BY <3>1, MaxOfInterval
    <3> QED
      BY <3>2
  <2>3. it[1..i] = op(it[1..(i - 1)], s[i])
    BY <1>1, <2>1, <2>2 DEF Iterates
  <2> QED
    BY <2>3
<1>5. r[n] = it[1..n]
  OBVIOUS
<1> HIDE DEF r
<1>6. Runs(r, s, n)
  BY <1>4 DEF Runs
<1> QED
  BY <1>2, <1>3, <1>5, <1>6 DEF FoldRun

\* The partial results are determined.
LEMMA RunsAgree ==
  ASSUME NEW s, NEW q, NEW r, NEW n \in Nat,
         q[0] = r[0],
         Runs(q, s, n), Runs(r, s, n)
  PROVE  q[n] = r[n]
<1> DEFINE S == {k \in 0..n : q[k] = r[k]}
<1>1. 0 \in S
  OBVIOUS
<1>2. ASSUME NEW k \in 0..(n - 1), k \in S PROVE k + 1 \in S
  <2>1. k + 1 \in 1..n /\ (k + 1) - 1 = k
    OBVIOUS
  <2>2. /\ q[k + 1] = op(q[(k + 1) - 1], s[k + 1])
        /\ r[k + 1] = op(r[(k + 1) - 1], s[k + 1])
    BY <2>1 DEF Runs
  <2>3. q[k] = r[k]
    BY <1>2
  <2>4. q[k + 1] = r[k + 1]
    BY <2>1, <2>2, <2>3
  <2> QED
    BY <2>1, <2>4
<1>3. n \in S
  <2> HIDE DEF S
  <2> QED
    BY <1>1, <1>2, BoundedInduct
<1> QED
  BY <1>3

\* The fold of the empty sequence.
THEOREM FoldEmpty == ASSUME NEW base PROVE Fold(base, <<>>) = base
<1>1. DOMAIN <<>> = 1..0 /\ 0 \in Nat
  OBVIOUS
<1>2. FoldRun(base, <<>>, 0)
  BY <1>1, FoldRuns
<1> QED
  BY <1>2 DEF FoldRun

\* One element more is one application of op more.
LEMMA FoldExtend ==
  ASSUME NEW base, NEW s, NEW t, NEW x, NEW n \in Nat, DOMAIN s = 1..n,
         DOMAIN t = 1..(n + 1), \A i \in 1..n : t[i] = s[i], t[n + 1] = x
  PROVE  Fold(base, t) = op(Fold(base, s), x)
<1>0. n + 1 \in Nat
  OBVIOUS
<1>1. PICK q : q[0] = base /\ Runs(q, s, n) /\ Fold(base, s) = q[n]
  <2>1. FoldRun(base, s, n)
    BY FoldRuns, Zenon
  <2> QED
    BY <2>1 DEF FoldRun
<1>2. PICK r : r[0] = base /\ Runs(r, t, n + 1) /\ Fold(base, t) = r[n + 1]
  BY <1>0, FoldRuns DEF FoldRun
<1>3. Runs(r, s, n)
  BY <1>2 DEF Runs
<1>4. q[n] = r[n]
  <2>1. q[0] = r[0]
    BY <1>1, <1>2
  <2> QED
    BY <1>1, <1>3, <2>1, RunsAgree
<1>5. r[n + 1] = op(r[(n + 1) - 1], t[n + 1]) /\ (n + 1) - 1 = n
  BY <1>2 DEF Runs
<1> QED
  BY <1>1, <1>2, <1>4, <1>5

\* The fold of a sequence and one element more.
THEOREM FoldAppend ==
  ASSUME NEW base, NEW S, NEW s \in Seq(S), NEW x \in S
  PROVE  Fold(base, Append(s, x)) = op(Fold(base, s), x)
<1> DEFINE t == Append(s, x)
           n == Len(s)
<1>1. /\ n \in Nat /\ DOMAIN s = 1..n /\ DOMAIN t = 1..(n + 1)
      /\ \A i \in 1..n : t[i] = s[i]
      /\ t[n + 1] = x
  OBVIOUS
<1> HIDE DEF t, n
<1>2. Fold(base, t) = op(Fold(base, s), x)
  BY <1>1, FoldExtend
<1> QED
  BY <1>2 DEF t

\* The same for a sequence whose elements have no common type.
THEOREM FoldSnoc ==
  ASSUME NEW base, NEW s, NEW x, IsSeq(s)
  PROVE  Fold(base, s \o <<x>>) = op(Fold(base, s), x)
<1> DEFINE t == s \o <<x>>
           n == Len(s)
<1>1. /\ n \in Nat /\ DOMAIN s = 1..n /\ DOMAIN t = 1..(n + 1)
      /\ \A i \in 1..n : t[i] = s[i]
      /\ t[n + 1] = x
  BY Extension
<1> HIDE DEF t, n
<1>2. Fold(base, t) = op(Fold(base, s), x)
  BY <1>1, FoldExtend
<1> QED
  BY <1>2 DEF t

-----------------------------------------------------------------------------
(***************************************************************************)
(* FoldRight, from the last element to the first.                          *)
(***************************************************************************)
FoldR(s, base) == FoldRight(op, s, base)

IteratesRight(it, base, s, D) ==
  it = [t \in SUBSET D |->
          IF t = {} THEN base ELSE op(s[Min(t)], it[t \ {Min(t)}])]

\* Below the first index there is nothing.
LEMMA MinOfInterval ==
  ASSUME NEW m \in Nat, NEW n \in Nat, NEW t \in SUBSET (m..n), m \in t
  PROVE  Min(t) = m
<1>1. \A y \in t : m =< y
  OBVIOUS
<1>2. \A x \in t : (\A y \in t : x =< y) => x = m
  OBVIOUS
<1>3. Min(t) \in t /\ \A y \in t : Min(t) =< y
  BY <1>1, Zenon DEF Min
<1> QED
  BY <1>2, <1>3

\* A set of indices has a least member.
LEMMA MinIn ==
  ASSUME NEW n \in Nat, NEW m \in 0..n, NEW t \in SUBSET ((n - m + 1)..n), t # {}
  PROVE  Min(t) \in t
<1> DEFINE S == {k \in Nat : k <= n =>
                   \A u \in SUBSET ((n - k + 1)..n) : u # {} => Min(u) \in u}
<1>1. 0 \in S
  <2>1. (n - 0 + 1)..n = {}
    OBVIOUS
  <2>2. \A u \in SUBSET ((n - 0 + 1)..n) : u = {}
    BY <2>1
  <2> QED
    BY <2>2
<1>2. ASSUME NEW k \in S PROVE k + 1 \in S
  <2> SUFFICES ASSUME k + 1 <= n,
                      NEW u \in SUBSET ((n - (k + 1) + 1)..n), u # {}
               PROVE Min(u) \in u
    OBVIOUS
  <2>0. n - (k + 1) + 1 = n - k /\ n - k \in Nat
    OBVIOUS
  <2>1. CASE n - k \in u
    <3>1. u \in SUBSET ((n - k)..n)
      BY <2>0
    <3> QED
      BY <2>0, <2>1, <3>1, MinOfInterval
  <2>2. CASE n - k \notin u
    <3>1. u \in SUBSET ((n - k + 1)..n)
      BY <2>0, <2>2
    <3>2. k <= n
      OBVIOUS
    <3> QED
      BY <3>1, <3>2
  <2> QED
    BY <2>1, <2>2
<1>3. S = Nat
  <2>1. S \in SUBSET Nat
    OBVIOUS
  <2> HIDE DEF S
  <2> QED
    BY <1>1, <1>2, <2>1, NatInduct
<1>4. m \in S
  <2>1. m \in Nat
    OBVIOUS
  <2> HIDE DEF S
  <2> QED
    BY <1>3, <2>1
<1>5. m <= n
  OBVIOUS
<1> QED
  BY <1>4, <1>5

\* The function that FoldRight chooses exists.
LEMMA IterateRightExists ==
  ASSUME NEW base, NEW s, NEW n \in Nat
  PROVE  \E it : IteratesRight(it, base, s, 1..n)
<1> DEFINE S == {k \in Nat : k <= n => \E it : IteratesRight(it, base, s, (n - k + 1)..n)}
<1>1. 0 \in S
  <2> DEFINE D == (n - 0 + 1)..n
             it == [t \in SUBSET D |-> base]
  <2>1. D = {}
    OBVIOUS
  <2>2. \A t \in SUBSET D : t = {}
    BY <2>1
  <2>3. IteratesRight(it, base, s, D)
    BY <2>2 DEF IteratesRight
  <2> QED
    BY <2>3
<1>2. ASSUME NEW k \in S PROVE k + 1 \in S
  <2> SUFFICES ASSUME k + 1 <= n
               PROVE  \E it : IteratesRight(it, base, s, (n - (k + 1) + 1)..n)
    OBVIOUS
  <2> DEFINE m == n - k
             D == m..n
             E == (m + 1)..n
  <2>0. n - (k + 1) + 1 = m /\ m \in Nat /\ n - k + 1 = m + 1 /\ k \in 0..n
    OBVIOUS
  <2>1. PICK it : IteratesRight(it, base, s, E)
    BY <2>0
  <2> HIDE DEF m
  <2> DEFINE new == [t \in SUBSET D |->
                       IF m \in t THEN op(s[m], it[t \ {m}]) ELSE it[t]]
  <2>2. ASSUME NEW t \in SUBSET D
        PROVE  new[t] = IF t = {} THEN base ELSE op(s[Min(t)], new[t \ {Min(t)}])
    <3>1. CASE m \in t
      <4>1. Min(t) = m
        <5>1. m \in Nat /\ t \in SUBSET (m..n) /\ m \in t
          BY <2>0, <3>1
        <5> QED
          BY <5>1, MinOfInterval, Zenon
      <4>2. t \ {m} \in SUBSET D /\ m \notin t \ {m}
        OBVIOUS
      <4>3. new[t \ {m}] = it[t \ {m}]
        BY <4>2
      <4>4. new[t] = op(s[m], it[t \ {m}])
        BY <3>1
      <4> QED
        BY <3>1, <4>1, <4>3, <4>4
    <3>2. CASE m \notin t
      <4>1. t \in SUBSET E
        BY <2>0, <3>2
      <4>2. it[t] = IF t = {} THEN base ELSE op(s[Min(t)], it[t \ {Min(t)}])
        BY <2>1, <4>1 DEF IteratesRight
      <4>3. t # {} => Min(t) \in t
        BY <2>0, <4>1, MinIn DEF m
      <4>4. t \ {Min(t)} \in SUBSET D /\ m \notin t \ {Min(t)}
        BY <3>2
      <4>5. new[t \ {Min(t)}] = it[t \ {Min(t)}]
        BY <4>4
      <4>6. new[t] = it[t]
        BY <3>2
      <4> HIDE DEF new
      <4> QED
        BY <4>2, <4>5, <4>6
    <3> QED
      BY <3>1, <3>2
  <2>3. new = [t \in SUBSET D |-> new[t]]
    OBVIOUS
  <2>4. IteratesRight(new, base, s, D)
    <3> HIDE DEF new, D
    <3> QED
      BY <2>2, <2>3 DEF IteratesRight
  <2> QED
    BY <2>0, <2>4
<1>3. S = Nat
  <2>1. S \in SUBSET Nat
    OBVIOUS
  <2> HIDE DEF S
  <2> QED
    BY <1>1, <1>2, <2>1, NatInduct
<1>4. n \in S /\ n - n + 1 = 1
  BY <1>3
<1> QED
  BY <1>4

\* FoldRight is that function, at the whole domain.
LEMMA FoldRightUnfold ==
  ASSUME NEW base, NEW s
  PROVE  FoldR(s, base) = (CHOOSE it : IteratesRight(it, base, s, DOMAIN s))[DOMAIN s]
BY DEF FoldR, FoldRight, MapThenFoldSet, IteratesRight

\* The partial results of a fold from the right.
RunsRight(r, s, n) == \A i \in 1..n : r[i] = op(s[i], r[i + 1])

FoldRightRun(base, s, n) ==
  \E r : r[n + 1] = base /\ RunsRight(r, s, n) /\ FoldR(s, base) = r[1]

\* A fold from the right is the first of its partial results.
THEOREM FoldRightRuns ==
  ASSUME NEW base, NEW s, NEW n \in Nat, DOMAIN s = 1..n
  PROVE  FoldRightRun(base, s, n)
<1> DEFINE it == CHOOSE it : IteratesRight(it, base, s, DOMAIN s)
           r == [i \in 1..(n + 1) |-> it[i..n]]
<1>1. IteratesRight(it, base, s, 1..n)
  BY IterateRightExists
<1>2. FoldR(s, base) = it[1..n]
  BY FoldRightUnfold
<1> HIDE DEF it
<1>3. r[n + 1] = base
  <2>1. (n + 1)..n = {} /\ (n + 1)..n \in SUBSET (1..n)
    OBVIOUS
  <2> QED
    BY <1>1, <2>1 DEF IteratesRight
<1>4. ASSUME NEW i \in 1..n
      PROVE  r[i] = op(s[i], r[i + 1])
  <2>1. i..n \in SUBSET (1..n) /\ i..n # {} /\ (i..n) \ {i} = (i + 1)..n
    <3>1. \A j \in i..n : j \in 1..n
      OBVIOUS
    <3>2. i \in i..n
      OBVIOUS
    <3>3. ASSUME NEW j
          PROVE  j \in (i..n) \ {i} <=> j \in (i + 1)..n
      OBVIOUS
    <3> QED
      BY <3>1, <3>2, <3>3
  <2>2. Min(i..n) = i
    <3>1. i \in Nat /\ i..n \in SUBSET (i..n) /\ i \in i..n
      OBVIOUS
    <3> QED
      BY <3>1, MinOfInterval
  <2>3. it[i..n] = op(s[i], it[(i + 1)..n])
    BY <1>1, <2>1, <2>2 DEF IteratesRight
  <2> QED
    BY <2>3
<1>5. r[1] = it[1..n]
  OBVIOUS
<1> HIDE DEF r
<1>6. RunsRight(r, s, n)
  BY <1>4 DEF RunsRight
<1> QED
  BY <1>2, <1>3, <1>5, <1>6 DEF FoldRightRun
=============================================================================
