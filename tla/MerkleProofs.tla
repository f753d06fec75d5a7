---------------------------- MODULE MerkleProofs ----------------------------
(***************************************************************************)
(* The Merkle tree for any number of leaves: the stack of subtrees         *)
(* computes the recursively split tree, the path of every leaf leads to    *)
(* its root and is short, and the root determines the leaves.              *)
(***************************************************************************)
EXTENDS ProofFile, SeqLemmas, TLAPS

DoubleFold == INSTANCE SeqFold WITH op <- LAMBDA p, i : 2 * p
TreeFold   == INSTANCE SeqFold WITH op <- Add
CarryFold  == INSTANCE SeqFold WITH
  op <- LAMBDA a, top : IF Len(top) = 1 /\ top[1].depth = a.depth
                          THEN <<Merge(a, top[1])>>
                          ELSE <<a>> \o top
MergeFold  == INSTANCE SeqFold WITH op <- Merge
PathFold   == INSTANCE SeqFold WITH
  op <- LAMBDA acc, s : IF s.left THEN nodeDigest(s.sibling, acc) ELSE nodeDigest(acc, s.sibling)
ReplayFold == INSTANCE SeqFold WITH op <- ReplayAdd
ReplayCarryFold == INSTANCE SeqFold WITH
  op <- LAMBDA a, acc : IF Len(acc.stack) = 1 /\ acc.stack[1].depth = a.depth
                          THEN [stack |-> <<Tagged(a, acc.stack[1])>>,
                                path  |-> acc.path \o Step(a, acc.stack[1])]
                          ELSE [acc EXCEPT !.stack = <<a>> \o @]
PromoteFold == INSTANCE SeqFold WITH
  op <- LAMBDA a, acc : [top  |-> Tagged(a, acc.top), path |-> acc.path \o Step(a, acc.top)]

-----------------------------------------------------------------------------
(***************************************************************************)
(* Powers of two.                                                          *)
(***************************************************************************)
UpTo(d) == [i \in 1..d |-> i]

\* Pow2 is a fold.
LEMMA Pow2IsFold == \A d : Pow2(d) = DoubleFold!Fold(1, UpTo(d))
BY DEF Pow2, UpTo, FoldLeft, MapThenFoldSet, Max,
       DoubleFold!Fold, DoubleFold!FoldLeft, DoubleFold!MapThenFoldSet, DoubleFold!Max

\* 2^0
LEMMA Pow2Zero == Pow2(0) = 1
<1>1. UpTo(0) = <<>>
  BY DEF UpTo
<1> QED
  BY <1>1, Pow2IsFold, DoubleFold!FoldEmpty

\* 2^(d + 1)
LEMMA Pow2Next == \A d \in Nat : Pow2(d + 1) = 2 * Pow2(d)
<1> TAKE d \in Nat
<1>1. /\ DOMAIN UpTo(d) = 1..d /\ DOMAIN UpTo(d + 1) = 1..(d + 1)
      /\ \A i \in 1..d : UpTo(d + 1)[i] = UpTo(d)[i]
      /\ UpTo(d + 1)[d + 1] = d + 1
  BY DEF UpTo
<1>2. DoubleFold!Fold(1, UpTo(d + 1)) = 2 * DoubleFold!Fold(1, UpTo(d))
  BY <1>1, DoubleFold!FoldExtend
<1> QED
  BY <1>2, Pow2IsFold

\* A power of two is a number above its exponent.
LEMMA Pow2Type == \A d \in Nat : Pow2(d) \in Nat /\ Pow2(d) > d
<1> DEFINE S == {d \in Nat : Pow2(d) \in Nat /\ Pow2(d) > d}
<1>1. 0 \in S
  BY Pow2Zero
<1>2. \A d \in S : d + 1 \in S
  BY Pow2Next
<1>3. S = Nat
  <2>1. S \in SUBSET Nat
    OBVIOUS
  <2> HIDE DEF S
  <2> QED
    BY <1>1, <1>2, <2>1, NatInduct
<1> QED
  BY <1>3

\* It is positive.
LEMMA Pow2Positive == \A d \in Nat : Pow2(d) \in Nat /\ Pow2(d) > 0
<1> TAKE d \in Nat
<1> QED
  BY Pow2Type

\* Powers of two double at least from one to another.
LEMMA Pow2Grows == \A a \in Nat, c \in Nat : a < c => 2 * Pow2(a) <= Pow2(c)
<1> SUFFICES ASSUME NEW a \in Nat PROVE \A c \in Nat : a < c => 2 * Pow2(a) <= Pow2(c)
  OBVIOUS
<1> DEFINE S == {c \in Nat : a < c => 2 * Pow2(a) <= Pow2(c)}
<1>1. 0 \in S
  OBVIOUS
<1>2. ASSUME NEW c \in S PROVE c + 1 \in S
  <2>1. /\ Pow2(c + 1) = 2 * Pow2(c) /\ Pow2(c) \in Nat /\ Pow2(a) \in Nat
        /\ c \in Nat /\ (a < c => 2 * Pow2(a) <= Pow2(c))
    BY Pow2Next, Pow2Type
  <2>2. CASE a < c
    BY <2>1, <2>2
  <2>3. CASE a = c
    BY <2>1, <2>3
  <2>4. CASE a > c
    BY <2>1, <2>4
  <2> QED
    BY <2>1, <2>2, <2>3, <2>4
<1>3. S = Nat
  <2>1. S \in SUBSET Nat
    OBVIOUS
  <2> HIDE DEF S
  <2> QED
    BY <1>1, <1>2, <2>1, NatInduct
<1> QED
  BY <1>3

-----------------------------------------------------------------------------
(***************************************************************************)
(* Where the leaves are split.                                             *)
(***************************************************************************)
IsSplit(n, k) == /\ k \in 1..(n - 1)
                 /\ \E d \in 0..n : k = Pow2(d)
                 /\ 2 * k >= n

\* From two leaves on there is such a place.
LEMMA SplitExists == \A n \in Nat : \E k : IsSplit(n + 2, k)
<1> DEFINE S == {n \in Nat : \E k : IsSplit(n + 2, k)}
<1>1. 0 \in S
  <2>1. IsSplit(0 + 2, 1)
    BY Pow2Zero DEF IsSplit
  <2> QED
    BY <2>1
<1>2. ASSUME NEW n \in S PROVE n + 1 \in S
  <2>1. n \in Nat
    OBVIOUS
  <2>2. PICK k : IsSplit(n + 2, k)
    OBVIOUS
  <2>3. PICK d \in 0..(n + 2) : k = Pow2(d)
    BY <2>2 DEF IsSplit
  <2>4. k \in 1..(n + 1) /\ 2 * k >= n + 2
    BY <2>1, <2>2 DEF IsSplit
  <2>5. CASE 2 * k >= n + 3
    <3>1. IsSplit((n + 1) + 2, k)
      BY <2>1, <2>3, <2>4, <2>5 DEF IsSplit
    <3> QED
      BY <2>1, <3>1
  <2>6. CASE 2 * k = n + 2
    <3>1. Pow2(d + 1) = 2 * k
      BY <2>1, <2>3, Pow2Next
    <3>2. d + 1 \in 0..((n + 1) + 2)
      BY <2>1
    <3>3. IsSplit((n + 1) + 2, 2 * k)
      BY <2>1, <2>4, <2>6, <3>1, <3>2 DEF IsSplit
    <3> QED
      BY <2>1, <3>3
  <2> QED
    BY <2>1, <2>4, <2>5, <2>6
<1>3. S = Nat
  <2>1. S \in SUBSET Nat
    OBVIOUS
  <2> HIDE DEF S
  <2> QED
    BY <1>1, <1>2, <2>1, NatInduct
<1> QED
  BY <1>3

\* SplitPoint is that place.
LEMMA SplitIs == \A n \in Nat : n >= 2 => IsSplit(n, SplitPoint(n))
<1> SUFFICES ASSUME NEW n \in Nat, n >= 2 PROVE IsSplit(n, SplitPoint(n))
  OBVIOUS
<1>1. n - 2 \in Nat /\ (n - 2) + 2 = n
  OBVIOUS
<1>2. \E k : IsSplit(n, k)
  BY <1>1, SplitExists
<1> QED
  BY <1>2, Zenon DEF IsSplit, SplitPoint

\* It is the one power of two between half the number and the number.
LEMMA SplitAtPower ==
  ASSUME NEW n \in Nat, NEW d \in Nat, Pow2(d) < n, n <= 2 * Pow2(d)
  PROVE  SplitPoint(n) = Pow2(d)
<1>1. Pow2(d) \in Nat /\ Pow2(d) >= 1
  BY Pow2Type
<1>2. n >= 2
  BY <1>1
<1>3. IsSplit(n, SplitPoint(n))
  BY <1>2, SplitIs
<1>4. PICK c \in 0..n : SplitPoint(n) = Pow2(c)
  BY <1>3 DEF IsSplit
<1>5. Pow2(c) \in 1..(n - 1) /\ 2 * Pow2(c) >= n
  BY <1>3, <1>4 DEF IsSplit
<1>6. c < d => 2 * Pow2(c) <= Pow2(d)
  BY Pow2Grows
<1>7. d < c => 2 * Pow2(d) <= Pow2(c)
  BY Pow2Grows
<1>8. c = d
  BY <1>1, <1>5, <1>6, <1>7
<1> QED
  BY <1>4, <1>8

-----------------------------------------------------------------------------
(***************************************************************************)
(* The recursively split tree: the function that SplitRoot is defined by   *)
(* exists, as it asks only for smaller trees.                              *)
(***************************************************************************)
SplitAt(root, n, i) == LET k == SplitPoint(n) IN nodeDigest(root[k][i], root[n - k][i + k])

Splits(root, s, m) ==
  root = [n \in 1..m |->
            [i \in 1..(Len(s) - n + 1) |-> IF n = 1 THEN s[i] ELSE SplitAt(root, n, i)]]

\* It exists up to every size.
LEMMA SplitsExists == ASSUME NEW s, NEW m \in Nat PROVE \E root : Splits(root, s, m)
<1> DEFINE S == {k \in Nat : \E root : Splits(root, s, k)}
<1>1. 0 \in S
  <2> DEFINE root == [n \in 1..0 |-> [i \in 1..(Len(s) - n + 1) |-> s[i]]]
  <2>1. \A g : root = [n \in 1..0 |-> [i \in 1..(Len(s) - n + 1) |->
                                         IF n = 1 THEN s[i] ELSE SplitAt(g, n, i)]]
    OBVIOUS
  <2>2. Splits(root, s, 0)
    BY <2>1, Zenon DEF Splits
  <2> QED
    BY <2>2
<1>2. ASSUME NEW k \in S PROVE k + 1 \in S
  <2>1. k \in Nat
    OBVIOUS
  <2>2. PICK root : Splits(root, s, k)
    OBVIOUS
  <2> DEFINE last == [i \in 1..(Len(s) - (k + 1) + 1) |->
                        IF k + 1 = 1 THEN s[i] ELSE SplitAt(root, k + 1, i)]
             new == [n \in 1..(k + 1) |-> IF n = k + 1 THEN last ELSE root[n]]
  <2>3. \A n \in 1..k : new[n] = root[n]
    BY <2>1
  <2>4. new[k + 1] = last
    BY <2>1
  <2>5. ASSUME NEW n \in 1..(k + 1), n # 1, NEW i
        PROVE  SplitAt(new, n, i) = SplitAt(root, n, i)
    <3>1. IsSplit(n, SplitPoint(n)) /\ n \in Nat
      BY <2>1, <2>5, SplitIs
    <3>2. SplitPoint(n) \in 1..k /\ n - SplitPoint(n) \in 1..k
      BY <2>1, <3>1 DEF IsSplit
    <3> HIDE DEF new
    <3> QED
      BY <2>3, <3>2 DEF SplitAt
  <2>6. ASSUME NEW n \in 1..(k + 1)
        PROVE  new[n] = [i \in 1..(Len(s) - n + 1) |->
                           IF n = 1 THEN s[i] ELSE SplitAt(new, n, i)]
    <3> HIDE DEF new
    <3>1. \A i : n # 1 => SplitAt(new, n, i) = SplitAt(root, n, i)
      BY <2>5
    <3>2. new[n] = [i \in 1..(Len(s) - n + 1) |->
                      IF n = 1 THEN s[i] ELSE SplitAt(root, n, i)]
      <4>1. CASE n = k + 1
        BY <2>4, <4>1
      <4>2. CASE n # k + 1
        <5>1. n \in 1..k
          BY <2>1, <4>2
        <5> QED
          BY <2>2, <2>3, <5>1 DEF Splits
      <4> QED
        BY <4>1, <4>2
    <3> QED
      BY <3>1, <3>2
  <2>7. Splits(new, s, k + 1)
    <3>1. new = [n \in 1..(k + 1) |-> new[n]]
      OBVIOUS
    <3> HIDE DEF new
    <3> QED
      BY <2>6, <3>1 DEF Splits
  <2> QED
    BY <2>1, <2>7
<1>3. S = Nat
  <2>1. S \in SUBSET Nat
    OBVIOUS
  <2> HIDE DEF S
  <2> QED
    BY <1>1, <1>2, <2>1, NatInduct
<1> QED
  BY <1>3

\* The root of the n leaves of s from position i on.
Sub(s, i, n) == (CHOOSE root : Splits(root, s, Len(s)))[n][i]

\* SplitRoot is that of all of them.
LEMMA SplitRootIs == \A s : SplitRoot(s) = IF s = <<>> THEN EmptyRoot ELSE Sub(s, 1, Len(s))
BY DEF SplitRoot, Sub, Splits, SplitAt

\* One leaf is its own root; more are split in two.
LEMMA SubSplits ==
  ASSUME NEW s, Len(s) \in Nat, NEW n \in 1..Len(s), NEW i \in 1..(Len(s) - n + 1)
  PROVE  /\ n = 1 => Sub(s, i, n) = s[i]
         /\ n # 1 => LET k == SplitPoint(n)
                     IN  Sub(s, i, n) = nodeDigest(Sub(s, i, k), Sub(s, i + k, n - k))
<1> DEFINE root == CHOOSE root : Splits(root, s, Len(s))
<1>1. Splits(root, s, Len(s))
  BY SplitsExists
<1>2. \A m, j : Sub(s, j, m) = root[m][j]
  BY DEF Sub
<1> HIDE DEF root
<1>3. root[n] = [j \in 1..(Len(s) - n + 1) |-> IF n = 1 THEN s[j] ELSE SplitAt(root, n, j)]
  BY <1>1 DEF Splits
<1>4. root[n][i] = IF n = 1 THEN s[i] ELSE SplitAt(root, n, i)
  BY <1>3
<1> QED
  BY <1>2, <1>4 DEF SplitAt

\* Two neighbouring trees make one, if the left one is the larger power of two.
LEMMA SubJoins ==
  ASSUME NEW s, Len(s) \in Nat, NEW lo \in Nat, NEW d \in Nat, NEW right \in Nat \ {0},
         right <= Pow2(d), lo + Pow2(d) + right <= Len(s)
  PROVE  Sub(s, lo + 1, Pow2(d) + right)
           = nodeDigest(Sub(s, lo + 1, Pow2(d)), Sub(s, lo + Pow2(d) + 1, right))
<1> DEFINE k == Pow2(d)
           n == k + right
<1>1. k \in Nat /\ k > 0
  BY Pow2Type
<1>2. n \in Nat /\ k < n /\ n <= 2 * k /\ n # 1 /\ n - k = right
      /\ n \in 1..Len(s) /\ lo + 1 \in 1..(Len(s) - n + 1) /\ (lo + 1) + k = lo + k + 1
  <2>1. right <= k /\ lo + k + right <= Len(s)
    OBVIOUS
  <2> HIDE DEF k
  <2>2. n \in Nat /\ k < n /\ n <= 2 * k /\ n # 1 /\ n - k = right
    BY <1>1, <2>1
  <2>3. n \in 1..Len(s) /\ lo + 1 \in 1..(Len(s) - n + 1)
    BY <1>1, <2>1
  <2>4. (lo + 1) + k = lo + k + 1
    BY <1>1
  <2> QED
    BY <2>2, <2>3, <2>4
<1>3. SplitPoint(n) = k
  BY <1>2, SplitAtPower
<1> HIDE DEF k, n
<1>4. Sub(s, lo + 1, n) = nodeDigest(Sub(s, lo + 1, k), Sub(s, (lo + 1) + k, n - k))
  BY <1>2, <1>3, SubSplits
<1> QED
  BY <1>2, <1>4 DEF k, n

-----------------------------------------------------------------------------
(***************************************************************************)
(* The stack holds, from left to right, the roots of full trees over the   *)
(* leaves behind lo and up to hi, ever smaller ones; e[j] is where the     *)
(* j-th ends.                                                              *)
(***************************************************************************)
Stack(s, t, e, lo, hi) ==
  /\ IsSeq(t) /\ lo \in Nat
  /\ e[0] = lo /\ e[Len(t)] = hi
  /\ \A j \in 1..Len(t) :
       /\ t[j].depth \in Nat /\ e[j - 1] \in Nat
       /\ e[j] = e[j - 1] + Pow2(t[j].depth)
       /\ t[j].hash = Sub(s, e[j - 1] + 1, Pow2(t[j].depth))
  /\ \A j \in 1..(Len(t) - 1) : t[j + 1].depth < t[j].depth

Stacked(s, t, lo, hi) == \E e : Stack(s, t, e, lo, hi)

\* A stack that may stand to the right of a tree of depth d: merging them, or
\* not, keeps the order.
Fits(t, d) == /\ Len(t) >= 1
              /\ t[1].depth <= d
              /\ Len(t) > 1 => t[1].depth < d

\* One tree alone is a stack.
LEMMA OneStacked ==
  ASSUME NEW s, NEW b, NEW lo \in Nat, b.depth \in Nat,
         b.hash = Sub(s, lo + 1, Pow2(b.depth))
  PROVE  Stacked(s, <<b>>, lo, lo + Pow2(b.depth)) /\ Len(<<b>>) = 1 /\ <<b>>[1] = b
<1> DEFINE t == <<b>>
           e == [j \in 0..1 |-> IF j = 0 THEN lo ELSE lo + Pow2(b.depth)]
<1>1. IsSeq(t) /\ Len(t) = 1 /\ t[1] = b
  <2>1. t \in Seq({b}) /\ DOMAIN t = {1} /\ t[1] = b /\ Len(t) = 1
    OBVIOUS
  <2>2. {t[i] : i \in DOMAIN t} = {b}
    BY <2>1
  <2> QED
    BY <2>1, <2>2 DEF IsSeq
<1>2. e[0] = lo /\ e[1] = lo + Pow2(b.depth)
  OBVIOUS
<1> HIDE DEF t, e
<1>3. Stack(s, t, e, lo, lo + Pow2(b.depth))
  <2>1. \A j \in 1..Len(t) : j = 1 /\ j - 1 = 0
    BY <1>1
  <2>2. 1..(Len(t) - 1) = {}
    BY <1>1
  <2> QED
    BY <1>1, <1>2, <2>1, <2>2 DEF Stack
<1> QED
  BY <1>1, <1>3 DEF Stacked, t

\* What a new leaf makes of one tree of the stack and of the stack to its
\* right: the two are merged to b, or the tree is put in front.
Meet(a, top) == Len(top) = 1 /\ top[1].depth = a.depth

Carried(a, top, b) == IF Meet(a, top) THEN <<b>> ELSE <<a>> \o top

\* Either is a stack again, and putting a tree in front leaves the others where
\* they were.
LEMMA CarryStack ==
  ASSUME NEW s, Len(s) \in Nat, NEW a, NEW lo \in Nat, NEW top, NEW b, NEW hi \in 0..Len(s),
         a.depth \in Nat, a.hash = Sub(s, lo + 1, Pow2(a.depth)),
         NEW e, Stack(s, top, e, lo + Pow2(a.depth), hi), Fits(top, a.depth),
         b.depth = a.depth + 1, b.hash = nodeDigest(a.hash, top[1].hash)
  PROVE  /\ \E g : /\ Stack(s, Carried(a, top, b), g, lo, hi)
                   /\ ~Meet(a, top) => \A j \in 1..(Len(top) + 1) : g[j] = e[j - 1]
         /\ \A d \in Nat : d > a.depth => Fits(Carried(a, top, b), d)
<1> DEFINE d == a.depth
           w == Pow2(d)
           r == Carried(a, top, b)
<1>d. d \in Nat
  OBVIOUS
<1>0. w \in Nat /\ w > 0
  BY <1>d, Pow2Positive, Zenon
<1>1. Stack(s, top, e, lo + w, hi)
  OBVIOUS
<1>2. Len(top) \in Nat /\ Len(top) >= 1
  BY <1>1, LenProperties DEF Stack, IsSeq, Fits
<1>3. /\ IsSeq(top) /\ e[0] = lo + w /\ e[Len(top)] = hi
      /\ top[1].depth \in Nat
      /\ e[1] = lo + w + Pow2(top[1].depth)
      /\ top[1].hash = Sub(s, lo + w + 1, Pow2(top[1].depth))
  <2>1. 1 \in 1..Len(top) /\ 1 - 1 = 0
    BY <1>2
  <2> QED
    BY <1>1, <2>1 DEF Stack
<1>4. CASE Meet(a, top)
  <2>1. r = <<b>>
    BY <1>4 DEF Carried
  <2>2. b.depth = d + 1 /\ b.hash = nodeDigest(a.hash, top[1].hash)
    OBVIOUS
  <2>3. Pow2(d + 1) = w + w
    <3> HIDE DEF d
    <3> QED
      BY <1>d, <1>0, Pow2Next
  <2>4. hi = lo + w + w
    BY <1>3, <1>4 DEF Meet
  <2>5. Sub(s, lo + 1, w + w) = nodeDigest(Sub(s, lo + 1, w), Sub(s, lo + w + 1, w))
    BY <1>0, <2>4, SubJoins
  <2> HIDE DEF r
  <2>6. b.hash = Sub(s, lo + 1, Pow2(b.depth))
    BY <1>3, <1>4, <2>2, <2>3, <2>5 DEF Meet
  <2>7. b.depth \in Nat /\ lo + Pow2(b.depth) = hi
    BY <1>0, <2>2, <2>3, <2>4
  <2>8. Stacked(s, r, lo, hi) /\ Len(r) = 1 /\ r[1] = b
    BY <2>1, <2>6, <2>7, OneStacked
  <2> QED
    BY <1>4, <2>2, <2>8 DEF Fits, Stacked, r
<1>5. CASE ~Meet(a, top)
  <2>1. r = <<a>> \o top
    BY <1>5 DEF Carried
  <2>2. top[1].depth < d
    <3>1. top[1].depth <= d /\ (Len(top) > 1 => top[1].depth < d)
      BY DEF Fits
    <3>2. \A x \in Nat, n \in Nat : x <= d /\ (n > 1 => x < d) /\ n >= 1 /\ ~(n = 1 /\ x = d) => x < d
      <4> HIDE DEF d
      <4> QED
        BY <1>d
    <3> QED
      BY <1>2, <1>3, <1>5, <3>1, <3>2, Zenon DEF Meet
  <2> DEFINE m == Len(top)
             g == [j \in 0..(m + 1) |-> IF j = 0 THEN lo ELSE e[j - 1]]
  <2>3. /\ IsSeq(r) /\ DOMAIN r = 1..(m + 1) /\ r[1] = a
        /\ \A j \in 1..m : r[j + 1] = top[j]
    BY <1>3, <2>1, Prepended
  <2>4. m \in Nat /\ m >= 1
    BY <1>2
  <2>5. Len(r) = m + 1
    <3>1. Len(r) \in Nat /\ DOMAIN r = 1..Len(r)
      BY <2>3, LenProperties DEF IsSeq
    <3> QED
      BY <2>3, <2>4, <3>1
  <2>6. g[0] = lo /\ \A j \in 1..(m + 1) : g[j] = e[j - 1]
    BY <2>4
  <2> HIDE DEF m, g, r, d, w
  <2>7. ASSUME NEW j \in 1..(m + 1)
        PROVE  /\ r[j].depth \in Nat /\ g[j - 1] \in Nat
               /\ g[j] = g[j - 1] + Pow2(r[j].depth)
               /\ r[j].hash = Sub(s, g[j - 1] + 1, Pow2(r[j].depth))
    <3>1. CASE j = 1
      BY <1>3, <2>3, <2>4, <2>6, <3>1 DEF d, w
    <3>2. CASE j # 1
      <4>1. j - 1 \in 1..m /\ (j - 1) + 1 = j /\ j - 1 \in 1..(m + 1)
        BY <2>4, <3>2
      <4>2. r[j] = top[j - 1] /\ g[j] = e[j - 1] /\ g[j - 1] = e[(j - 1) - 1]
        BY <2>3, <2>6, <4>1
      <4> QED
        BY <1>1, <4>1, <4>2 DEF Stack, m
    <3> QED
      BY <3>1, <3>2
  <2>8. ASSUME NEW j \in 1..((m + 1) - 1) PROVE r[j + 1].depth < r[j].depth
    <3>1. CASE j = 1
      BY <2>2, <2>3, <2>4, <3>1 DEF d
    <3>2. CASE j # 1
      <4>1. j - 1 \in 1..(m - 1) /\ (j - 1) + 1 = j /\ j \in 1..m /\ j - 1 \in 1..m
        BY <2>4, <3>2
      <4>2. r[j] = top[j - 1] /\ r[j + 1] = top[j]
        BY <2>3, <4>1
      <4> QED
        BY <1>1, <4>1, <4>2 DEF Stack, m
    <3> QED
      BY <3>1, <3>2
  <2>9. g[m + 1] = hi
    BY <1>3, <2>4, <2>6 DEF m
  <2>10. Stack(s, r, g, lo, hi)
    BY <2>3, <2>5, <2>6, <2>7, <2>8, <2>9 DEF Stack
  <2>11. \A c \in Nat : c > d => Fits(r, c)
    BY <2>3, <2>4, <2>5 DEF Fits, d
  <2> QED
    BY <2>6, <2>10, <2>11 DEF r, d, m
<1> QED
  BY <1>4, <1>5

\* Add carries a new leaf through the whole stack.
LEMMA AddStacked ==
  ASSUME NEW s, Len(s) \in Nat, NEW k \in 0..(Len(s) - 1), NEW t, Stacked(s, t, 0, k)
  PROVE  Stacked(s, Add(t, s[k + 1]), 0, k + 1)
<1> DEFINE b == [depth |-> 0, hash |-> s[k + 1]]
           base == <<b>>
           m == Len(t)
<1>1. PICK e : Stack(s, t, e, 0, k)
  BY DEF Stacked
<1>2. m \in Nat /\ DOMAIN t = 1..m
  BY <1>1, LenProperties DEF Stack, IsSeq
<1>3. k \in Nat /\ k + 1 \in 0..Len(s) /\ 1 \in 1..Len(s) /\ k + 1 \in 1..(Len(s) - 1 + 1)
  OBVIOUS
<1>4. Stacked(s, base, k, k + 1) /\ Len(base) = 1 /\ base[1] = b
  <2>1. b.depth = 0 /\ b.hash = s[k + 1] /\ Pow2(b.depth) = 1
    BY Pow2Zero
  <2>2. Sub(s, k + 1, 1) = s[k + 1]
    BY <1>3, SubSplits
  <2> HIDE DEF b
  <2>3. /\ b.depth \in Nat /\ k + Pow2(b.depth) = k + 1
        /\ b.hash = Sub(s, k + 1, Pow2(b.depth))
    BY <2>1, <2>2
  <2>4. Stacked(s, <<b>>, k, k + Pow2(b.depth)) /\ Len(<<b>>) = 1 /\ <<b>>[1] = b
    BY <1>3, <2>3, OneStacked
  <2> QED
    BY <2>3, <2>4
<1>5. Add(t, s[k + 1]) = CarryFold!FoldR(t, base)
  BY DEF Add, FoldRight, MapThenFoldSet, Min,
         CarryFold!FoldR, CarryFold!FoldRight, CarryFold!MapThenFoldSet, CarryFold!Min
<1>6. b.depth = 0
  OBVIOUS
<1> HIDE DEF b, base, m
<1>7. PICK r : /\ r[m + 1] = base
               /\ \A i \in 1..m : r[i] = Carried(t[i], r[i + 1], Merge(t[i], r[i + 1][1]))
               /\ CarryFold!FoldR(t, base) = r[1]
  <2>1. CarryFold!FoldRightRun(base, t, m)
    BY <1>2, CarryFold!FoldRightRuns, Zenon
  <2> QED
    BY <2>1 DEF CarryFold!FoldRightRun, CarryFold!RunsRight, Carried, Meet
<1> DEFINE Carries(i) == /\ Stacked(s, r[i], e[i - 1], k + 1)
                         /\ i > 1 => Fits(r[i], t[i - 1].depth)
           S == {j \in 0..m : Carries((m - j) + 1)}
<1>8. 0 \in S
  <2>1. (m - 0) + 1 = m + 1 /\ (m + 1) - 1 = m
    BY <1>2
  <2>2. e[m] = k
    BY <1>1 DEF Stack, m
  <2>3. Stacked(s, r[m + 1], e[(m + 1) - 1], k + 1)
    BY <1>4, <1>7, <2>1, <2>2
  <2>4. ASSUME m + 1 > 1 PROVE Fits(r[m + 1], t[(m + 1) - 1].depth)
    <3>1. m \in 1..m
      BY <1>2, <2>4
    <3>2. t[m].depth \in Nat
      BY <1>1, <3>1 DEF Stack, m
    <3>3. Len(r[m + 1]) = 1 /\ r[m + 1][1].depth = 0
      BY <1>4, <1>6, <1>7
    <3> QED
      BY <2>1, <3>2, <3>3 DEF Fits
  <2> QED
    BY <1>2, <2>1, <2>3, <2>4
<1>9. ASSUME NEW j \in 0..(m - 1), j \in S PROVE j + 1 \in S
  <2> DEFINE i == m - j
  <2>1. i \in 1..m /\ (m - (j + 1)) + 1 = i /\ i + 1 > 1 /\ (i + 1) - 1 = i /\ j + 1 \in 0..m
    BY <1>2
  <2>2. Stacked(s, r[i + 1], e[i], k + 1) /\ Fits(r[i + 1], t[i].depth)
    <3>1. Carries(i + 1)
      BY <1>9
    <3> HIDE DEF i
    <3> QED
      BY <2>1, <3>1
  <2> HIDE DEF i
  <2>3. /\ t[i].depth \in Nat /\ e[i - 1] \in Nat
        /\ e[i] = e[i - 1] + Pow2(t[i].depth)
        /\ t[i].hash = Sub(s, e[i - 1] + 1, Pow2(t[i].depth))
    BY <1>1, <2>1 DEF Stack, m
  <2> DEFINE b1 == Merge(t[i], r[i + 1][1])
  <2>4. r[i] = Carried(t[i], r[i + 1], b1)
    BY <1>7, <2>1
  <2>5. /\ Stacked(s, r[i], e[i - 1], k + 1)
        /\ \A d \in Nat : d > t[i].depth => Fits(r[i], d)
    <3>1. PICK f : Stack(s, r[i + 1], f, e[i - 1] + Pow2(t[i].depth), k + 1)
      BY <2>2, <2>3 DEF Stacked
    <3>2. b1.depth = t[i].depth + 1 /\ b1.hash = nodeDigest(t[i].hash, r[i + 1][1].hash)
      BY DEF Merge
    <3> HIDE DEF b1
    <3>3. \E g : Stack(s, Carried(t[i], r[i + 1], b1), g, e[i - 1], k + 1)
      BY <1>3, <2>2, <2>3, <3>1, <3>2, CarryStack
    <3>4. \A d \in Nat : d > t[i].depth => Fits(Carried(t[i], r[i + 1], b1), d)
      BY <1>3, <2>2, <2>3, <3>1, <3>2, CarryStack
    <3> QED
      BY <2>4, <3>3, <3>4 DEF Stacked
  <2>6. ASSUME i > 1 PROVE Fits(r[i], t[i - 1].depth)
    <3>1. i - 1 \in 1..(m - 1) /\ (i - 1) + 1 = i /\ i - 1 \in 1..m
      BY <1>2, <2>1, <2>6
    <3>2. t[i].depth < t[i - 1].depth /\ t[i - 1].depth \in Nat
      BY <1>1, <3>1 DEF Stack, m
    <3> QED
      BY <2>3, <2>5, <3>2
  <2>7. Carries(i)
    BY <2>5, <2>6
  <2> QED
    BY <2>1, <2>7
<1>10. m \in S
  <2> HIDE DEF S
  <2> QED
    BY <1>2, <1>8, <1>9, BoundedInduct
<1>11. Stacked(s, r[1], e[0], k + 1)
  <2>1. (m - m) + 1 = 1 /\ 1 - 1 = 0
    BY <1>2
  <2> QED
    BY <1>10, <2>1
<1> QED
  BY <1>1, <1>5, <1>7, <1>11 DEF Stack

\* The empty stack.
LEMMA NoneStacked == \A s : Stacked(s, EmptyTree, 0, 0)
<1> TAKE s
<1> DEFINE e == [j \in 0..0 |-> 0]
<1>1. IsSeq(<<>>) /\ Len(<<>>) = 0 /\ e[0] = 0 /\ 1..0 = {} /\ 1..(0 - 1) = {}
  <2>1. <<>> \in Seq({<<>>[i] : i \in DOMAIN <<>>}) /\ Len(<<>>) = 0
    BY EmptySeq
  <2> QED
    BY <2>1 DEF IsSeq
<1> HIDE DEF e
<1>2. Stack(s, <<>>, e, 0, 0)
  BY <1>1 DEF Stack
<1> QED
  BY <1>2 DEF Stacked, EmptyTree

\* TreeOf stacks all of its leaves.
LEMMA TreeStacked ==
  ASSUME NEW s, NEW n \in Nat, DOMAIN s = 1..n, Len(s) = n
  PROVE  Stacked(s, TreeOf(s), 0, n)
<1>1. TreeOf(s) = TreeFold!Fold(EmptyTree, s)
  BY DEF TreeOf, FoldLeft, MapThenFoldSet, Max,
         TreeFold!Fold, TreeFold!FoldLeft, TreeFold!MapThenFoldSet, TreeFold!Max
<1>2. PICK r : /\ r[0] = EmptyTree
               /\ \A i \in 1..n : r[i] = Add(r[i - 1], s[i])
               /\ TreeFold!Fold(EmptyTree, s) = r[n]
  <2>1. TreeFold!FoldRun(EmptyTree, s, n)
    BY TreeFold!FoldRuns, Zenon
  <2> QED
    BY <2>1 DEF TreeFold!FoldRun, TreeFold!Runs
<1> DEFINE S == {k \in 0..n : Stacked(s, r[k], 0, k)}
<1>3. 0 \in S
  BY <1>2, NoneStacked
<1>4. ASSUME NEW k \in 0..(n - 1), k \in S PROVE k + 1 \in S
  <2>1. k + 1 \in 1..n /\ (k + 1) - 1 = k /\ k + 1 \in 0..n
    OBVIOUS
  <2>2. r[k + 1] = Add(r[k], s[k + 1])
    BY <1>2, <2>1
  <2>3. Stacked(s, r[k + 1], 0, k + 1)
    BY <1>4, <2>2, AddStacked
  <2> QED
    BY <2>1, <2>3
<1>5. n \in S
  <2>1. n \in 0..n
    OBVIOUS
  <2> HIDE DEF S
  <2> QED
    BY <1>3, <1>4, <2>1, BoundedInduct
<1> QED
  BY <1>1, <1>2, <1>5

-----------------------------------------------------------------------------
(***************************************************************************)
(* Root merges the stack from the right.                                   *)
(***************************************************************************)
RootRun(t, r) == /\ r[Len(t)] = t[Len(t)]
                 /\ \A i \in 1..(Len(t) - 1) : r[i] = Merge(t[i], r[i + 1])
                 /\ Root(t) = r[1].hash

\* All but the last tree of a stack.
LEMMA FrontOf ==
  ASSUME NEW t, IsSeq(t), t # <<>>
  PROVE  /\ Len(t) \in Nat /\ Len(t) >= 1 /\ DOMAIN t = 1..Len(t)
         /\ DOMAIN Front(t) = 1..(Len(t) - 1)
         /\ \A i \in 1..(Len(t) - 1) : Front(t)[i] = t[i]
         /\ Last(t) = t[Len(t)]
<1> DEFINE S == {t[i] : i \in DOMAIN t}
           n == Len(t)
<1>1. t \in Seq(S) /\ n \in Nat /\ DOMAIN t = 1..n
  BY LenProperties DEF IsSeq
<1>2. n >= 1
  BY <1>1, EmptySeq
<1>3. \A i \in 1..(n - 1) : t[i] \in S
  BY <1>1, <1>2
<1> HIDE DEF S
<1>4. 1 \in Nat /\ n - 1 \in Nat /\ (n - 1) - 1 + 1 = n - 1
  BY <1>1, <1>2
<1>5. /\ SubSeq(t, 1, n - 1) \in Seq(S)
      /\ Len(SubSeq(t, 1, n - 1)) = IF 1 <= n - 1 THEN (n - 1) - 1 + 1 ELSE 0
      /\ \A i \in 1..((n - 1) - 1 + 1) : SubSeq(t, 1, n - 1)[i] = t[1 + i - 1]
  BY <1>1, <1>3, <1>4, SubSeqProperties
<1> DEFINE f == SubSeq(t, 1, n - 1)
<1> HIDE DEF n, f
<1>6. Len(f) = n - 1
  BY <1>1, <1>2, <1>4, <1>5 DEF f
<1>7. DOMAIN f = 1..(n - 1)
  BY <1>5, <1>6, LenProperties DEF f
<1>8. \A i \in 1..(n - 1) : f[i] = t[i]
  <2> TAKE i \in 1..(n - 1)
  <2>1. 1 + i - 1 = i
    BY <1>1
  <2> QED
    BY <1>4, <1>5, <2>1 DEF f
<1>9. Front(t) = f /\ Last(t) = t[n]
  BY DEF Front, Last, f, n
<1> QED
  BY <1>1, <1>2, <1>7, <1>8, <1>9 DEF n

\* It does so tree by tree.
LEMMA RootRuns ==
  ASSUME NEW t, IsSeq(t), t # <<>>
  PROVE  \E r : RootRun(t, r)
<1> DEFINE n == Len(t) - 1
<1>1. /\ n \in Nat /\ Len(t) = n + 1 /\ DOMAIN Front(t) = 1..n
      /\ \A i \in 1..n : Front(t)[i] = t[i]
      /\ Last(t) = t[Len(t)]
  BY FrontOf
<1> HIDE DEF n
<1>2. Root(t) = MergeFold!FoldR(Front(t), Last(t)).hash
  <2>1. \A f, x : FoldRight(Merge, f, x) = MergeFold!FoldR(f, x)
    BY DEF FoldRight, MapThenFoldSet, Min,
           MergeFold!FoldR, MergeFold!FoldRight, MergeFold!MapThenFoldSet, MergeFold!Min
  <2> QED
    BY <2>1 DEF Root, EmptyTree
<1>3. PICK r : /\ r[n + 1] = Last(t)
               /\ \A i \in 1..n : r[i] = Merge(Front(t)[i], r[i + 1])
               /\ MergeFold!FoldR(Front(t), Last(t)) = r[1]
  <2>1. MergeFold!FoldRightRun(Last(t), Front(t), n)
    BY <1>1, MergeFold!FoldRightRuns, Zenon
  <2> QED
    BY <2>1 DEF MergeFold!FoldRightRun, MergeFold!RunsRight
<1>4. Len(t) - 1 = n
  BY <1>1
<1>5. RootRun(t, r)
  BY <1>1, <1>2, <1>3, <1>4 DEF RootRun
<1> QED
  BY <1>5

\* What the trees from the i-th on hold is less than two of its size.
LEMMA StackWidths ==
  ASSUME NEW s, NEW t, NEW e, NEW n \in Nat, Stack(s, t, e, 0, n), t # <<>>
  PROVE  \A i \in 1..Len(t) :
           /\ e[i - 1] \in Nat /\ e[i] \in Nat /\ e[i] <= n
           /\ n < e[i - 1] + 2 * Pow2(t[i].depth)
           /\ i < Len(t) => e[i] < n /\ n - e[i] <= Pow2(t[i].depth)
<1> DEFINE m == Len(t)
           Wide(i) == /\ e[i - 1] \in Nat /\ e[i] \in Nat /\ e[i] <= n
                      /\ n < e[i - 1] + 2 * Pow2(t[i].depth)
                      /\ i < m => e[i] < n /\ n - e[i] <= Pow2(t[i].depth)
<1>1. m \in Nat /\ m >= 1
  BY FrontOf DEF Stack
<1>2. e[m] = n
  BY DEF Stack
<1>3. \A i \in 1..m : /\ t[i].depth \in Nat /\ e[i - 1] \in Nat
                      /\ e[i] = e[i - 1] + Pow2(t[i].depth)
  BY DEF Stack
<1>4. \A i \in 1..(m - 1) : t[i + 1].depth < t[i].depth
  BY DEF Stack
<1>5. \A i \in 1..m : Pow2(t[i].depth) \in Nat /\ Pow2(t[i].depth) > 0
  BY <1>3, Pow2Positive
<1> HIDE DEF m
<1> DEFINE S == {j \in 0..(m - 1) : Wide(m - j)}
<1>6. 0 \in S
  <2>1. m - 0 = m /\ m \in 1..m /\ ~(m < m) /\ 0 \in 0..(m - 1)
    BY <1>1
  <2>2. \A x, w \in Nat : n = x + w /\ w > 0 => n <= n /\ n < x + 2 * w
    OBVIOUS
  <2>3. Wide(m)
    BY <1>2, <1>3, <1>5, <2>1, <2>2
  <2> QED
    BY <2>1, <2>3
<1>7. ASSUME NEW j \in 0..((m - 1) - 1), j \in S PROVE j + 1 \in S
  <2> DEFINE i == m - (j + 1)
  <2>1. /\ i \in 1..(m - 1) /\ i \in 1..m /\ i + 1 \in 1..m /\ (i + 1) - 1 = i
        /\ i < m /\ j + 1 \in 0..(m - 1) /\ m - j = i + 1
    BY <1>1
  <2>2. Wide(i + 1)
    BY <1>7, <2>1
  <2> HIDE DEF i
  <2>3. /\ e[i] \in Nat /\ e[i + 1] \in Nat /\ e[i + 1] <= n
        /\ n < e[i] + 2 * Pow2(t[i + 1].depth)
        /\ e[i + 1] = e[i] + Pow2(t[i + 1].depth)
    BY <1>3, <2>1, <2>2
  <2>4. 2 * Pow2(t[i + 1].depth) <= Pow2(t[i].depth)
    BY <1>3, <1>4, <2>1, Pow2Grows
  <2>5. e[i - 1] \in Nat /\ e[i] = e[i - 1] + Pow2(t[i].depth)
    BY <1>3, <2>1
  <2>6. /\ Pow2(t[i].depth) \in Nat /\ Pow2(t[i + 1].depth) \in Nat
        /\ Pow2(t[i + 1].depth) > 0
    BY <1>5, <2>1
  <2>7. \A w, v, x, y, z \in Nat :
           /\ y = x + w /\ z = y + v /\ z <= n /\ n < y + 2 * v /\ v > 0 /\ 2 * v <= w
           => y < n /\ y <= n /\ n < x + 2 * w /\ n - y <= w
    OBVIOUS
  <2>8. /\ e[i] < n /\ e[i] <= n /\ n < e[i - 1] + 2 * Pow2(t[i].depth)
        /\ n - e[i] <= Pow2(t[i].depth)
    <3>1. PICK w \in Nat : w = Pow2(t[i].depth)
      BY <2>6
    <3>2. PICK v \in Nat : v = Pow2(t[i + 1].depth)
      BY <2>6
    <3>3. PICK x \in Nat, y \in Nat, z \in Nat : x = e[i - 1] /\ y = e[i] /\ z = e[i + 1]
      BY <2>3, <2>5
    <3>4. y = x + w /\ z = y + v /\ z <= n /\ n < y + 2 * v /\ v > 0 /\ 2 * v <= w
      BY <2>3, <2>4, <2>5, <2>6, <3>1, <3>2, <3>3
    <3>5. y < n /\ y <= n /\ n < x + 2 * w /\ n - y <= w
      BY <2>7, <3>4
    <3> QED
      BY <3>1, <3>3, <3>5
  <2>9. Wide(i)
    BY <2>3, <2>5, <2>8
  <2> QED
    BY <2>1, <2>9 DEF i
<1>8. \A j \in 0..(m - 1) : j \in S
  <2>1. m - 1 \in Nat
    BY <1>1
  <2> HIDE DEF S
  <2> QED
    BY <1>6, <1>7, <2>1, BoundedInduct
<1>9. ASSUME NEW i \in 1..m PROVE Wide(i)
  <2>1. m - i \in 0..(m - 1) /\ m - (m - i) = i
    BY <1>1
  <2>2. m - i \in S
    BY <1>8, <2>1
  <2> HIDE DEF Wide
  <2> QED
    BY <2>1, <2>2
<1> QED
  BY <1>9 DEF m

\* Merging a stack from the right gives the root of all leaves.
LEMMA MergedStack ==
  ASSUME NEW s, Len(s) \in Nat, NEW t, t # <<>>, NEW e, Stack(s, t, e, 0, Len(s)),
         NEW r, r[Len(t)].hash = t[Len(t)].hash,
         \A i \in 1..(Len(t) - 1) : r[i].hash = nodeDigest(t[i].hash, r[i + 1].hash)
  PROVE  r[1].hash = Sub(s, 1, Len(s))
<1> DEFINE m == Len(t)
           n == Len(s)
<1>1. Stack(s, t, e, 0, n)
  OBVIOUS
<1>2. /\ r[m].hash = t[m].hash
      /\ \A i \in 1..(m - 1) : r[i].hash = nodeDigest(t[i].hash, r[i + 1].hash)
  OBVIOUS
<1>3. m \in Nat /\ m >= 1
  BY <1>1, FrontOf DEF Stack
<1> HIDE DEF m, n
<1>4. n \in Nat
  BY DEF n
<1>5. \A i \in 1..m : /\ t[i].depth \in Nat
                      /\ e[i] = e[i - 1] + Pow2(t[i].depth)
                      /\ t[i].hash = Sub(s, e[i - 1] + 1, Pow2(t[i].depth))
  BY <1>1 DEF Stack, m
<1>6. \A i \in 1..m : /\ e[i - 1] \in Nat /\ e[i] \in Nat
                      /\ i < m => e[i] < n /\ n - e[i] <= Pow2(t[i].depth)
  BY <1>1, <1>4, StackWidths DEF m
<1>7. e[m] = n /\ e[0] = 0
  BY <1>1 DEF Stack, m
<1> DEFINE Merged(i) == r[i].hash = Sub(s, e[i - 1] + 1, n - e[i - 1])
           S == {j \in 0..(m - 1) : Merged(m - j)}
<1>8. 0 \in S
  <2>1. m - 0 = m /\ m \in 1..m /\ 0 \in 0..(m - 1)
    BY <1>3
  <2>2. r[m].hash = t[m].hash
    BY <1>2
  <2>3. e[m - 1] \in Nat /\ n = e[m - 1] + Pow2(t[m].depth) /\ Pow2(t[m].depth) \in Nat
    BY <1>5, <1>6, <1>7, <2>1, Pow2Positive
  <2>4. n - e[m - 1] = Pow2(t[m].depth)
    BY <2>3
  <2>5. Merged(m)
    BY <1>5, <2>1, <2>2, <2>4
  <2> QED
    BY <2>1, <2>5
<1>9. ASSUME NEW j \in 0..((m - 1) - 1), j \in S PROVE j + 1 \in S
  <2> DEFINE i == m - (j + 1)
             d == t[i].depth
             w == Pow2(d)
             lo == e[i - 1]
             right == n - e[i]
  <2>1. /\ i \in 1..(m - 1) /\ i \in 1..m /\ (i + 1) - 1 = i
        /\ i < m /\ j + 1 \in 0..(m - 1) /\ m - j = i + 1
    BY <1>3
  <2>2. Merged(i + 1)
    BY <1>9, <2>1
  <2> HIDE DEF i
  <2>3. r[i + 1].hash = Sub(s, e[i] + 1, right)
    BY <2>1, <2>2
  <2>4. r[i].hash = nodeDigest(t[i].hash, r[i + 1].hash)
    BY <1>2, <2>1
  <2>5. d \in Nat /\ e[i] = lo + w /\ t[i].hash = Sub(s, lo + 1, w)
    BY <1>5, <2>1
  <2>6. lo \in Nat /\ e[i] \in Nat /\ e[i] < n /\ right <= w
    BY <1>6, <2>1
  <2>7. w \in Nat
    BY <2>5, Pow2Positive
  <2> HIDE DEF d, lo
  <2>8. right \in Nat \ {0} /\ lo + w + right <= n /\ n - lo = w + right
    <3> HIDE DEF w
    <3> QED
      BY <1>4, <2>5, <2>6, <2>7
  <2> HIDE DEF right
  <2>9. Sub(s, lo + 1, w + right) = nodeDigest(Sub(s, lo + 1, w), Sub(s, lo + w + 1, right))
    BY <1>4, <2>5, <2>6, <2>8, SubJoins DEF n
  <2>10. Merged(i)
    BY <2>3, <2>4, <2>5, <2>8, <2>9 DEF lo
  <2> QED
    BY <2>1, <2>10 DEF i
<1>10. m - 1 \in S
  <2>1. m - 1 \in Nat /\ m - 1 \in 0..(m - 1)
    BY <1>3
  <2> HIDE DEF S
  <2> QED
    BY <1>8, <1>9, <2>1, BoundedInduct
<1>11. Merged(1)
  <2>1. m - (m - 1) = 1
    BY <1>3
  <2> QED
    BY <1>10, <2>1
<1>12. 1 - 1 = 0 /\ 0 + 1 = 1 /\ n - 0 = n
  BY <1>4
<1>13. r[1].hash = Sub(s, 1, n)
  BY <1>7, <1>11, <1>12
<1> QED
  BY <1>13 DEF n

\* So does Root.
LEMMA RootStacked ==
  ASSUME NEW s, Len(s) \in Nat, NEW t, Stacked(s, t, 0, Len(s)), t # <<>>
  PROVE  Root(t) = Sub(s, 1, Len(s))
<1>1. PICK e : Stack(s, t, e, 0, Len(s))
  BY DEF Stacked
<1>2. PICK r : RootRun(t, r)
  BY <1>1, RootRuns DEF Stack
<1>3. r[Len(t)].hash = t[Len(t)].hash
  BY <1>2 DEF RootRun
<1>4. ASSUME NEW i \in 1..(Len(t) - 1)
      PROVE  r[i].hash = nodeDigest(t[i].hash, r[i + 1].hash)
  <2>1. r[i] = Merge(t[i], r[i + 1])
    BY <1>2 DEF RootRun
  <2> QED
    BY <2>1 DEF Merge
<1>5. r[1].hash = Sub(s, 1, Len(s))
  BY <1>1, <1>3, <1>4, MergedStack
<1> QED
  BY <1>2, <1>5 DEF RootRun

\* A stack is empty only if it holds no leaf.
LEMMA StackEmpty ==
  ASSUME NEW s, NEW t, NEW n \in Nat, Stacked(s, t, 0, n)
  PROVE  t = <<>> <=> n = 0
<1>1. PICK e : Stack(s, t, e, 0, n)
  BY DEF Stacked
<1>2. CASE t = <<>>
  <2>1. Len(t) = 0
    BY <1>2, EmptySeq
  <2> QED
    BY <1>1, <1>2, <2>1 DEF Stack
<1>3. CASE t # <<>>
  <2>1. 1 \in 1..Len(t) /\ 1 - 1 = 0
    BY <1>1, <1>3, FrontOf DEF Stack
  <2>2. e[0] = 0 /\ e[1] = e[0] + Pow2(t[1].depth) /\ t[1].depth \in Nat
    BY <1>1, <2>1 DEF Stack
  <2>3. e[1] > 0
    BY <2>2, Pow2Positive
  <2>4. e[1] <= n
    BY <1>1, <1>3, <2>1, StackWidths
  <2> QED
    BY <1>3, <2>2, <2>3, <2>4, Pow2Positive
<1> QED
  BY <1>2, <1>3

\* For every sequence of leaves the stack, finalised by Root, computes the root
\* of the recursively split tree (merkle.go:22-67).
THEOREM StackIsSplitTree ==
  ASSUME NEW S, NEW s \in Seq(S)
  PROVE  Root(TreeOf(s)) = SplitRoot(s)
<1> DEFINE n == Len(s)
           t == TreeOf(s)
<1>1. n \in Nat /\ DOMAIN s = 1..n
  BY LenProperties
<1>2. Stacked(s, t, 0, n)
  BY <1>1, TreeStacked
<1>3. t = <<>> <=> n = 0
  BY <1>1, <1>2, StackEmpty
<1>4. s = <<>> <=> n = 0
  BY EmptySeq
<1> HIDE DEF t
<1>5. CASE s = <<>>
  BY <1>3, <1>4, <1>5, SplitRootIs DEF Root, EmptyTree, t
<1>6. CASE s # <<>>
  <2>1. Root(t) = Sub(s, 1, n)
    BY <1>1, <1>2, <1>3, <1>4, <1>6, RootStacked
  <2> QED
    BY <1>6, <2>1, SplitRootIs DEF t
<1> QED
  BY <1>5, <1>6

-----------------------------------------------------------------------------
(***************************************************************************)
(* provePath replays the tree with one leaf marked.                        *)
(***************************************************************************)
Leads(x, path, b) == FoldPath(x, path) = b.hash /\ Len(path) \in 0..b.depth

\* A path without steps leads nowhere else.
LEMMA FoldPathNone == \A x : FoldPath(x, <<>>) = x
<1> TAKE x
<1>1. FoldPath(x, <<>>) = PathFold!Fold(x, <<>>)
  BY DEF FoldPath, FoldLeft, MapThenFoldSet, Max,
         PathFold!Fold, PathFold!FoldLeft, PathFold!MapThenFoldSet, PathFold!Max
<1> QED
  BY <1>1, PathFold!FoldEmpty

\* A step more goes to the parent.
LEMMA FoldPathStep ==
  ASSUME NEW x, NEW path, NEW step, IsSeq(path)
  PROVE  FoldPath(x, path \o <<step>>)
           = IF step.left THEN nodeDigest(step.sibling, FoldPath(x, path))
                          ELSE nodeDigest(FoldPath(x, path), step.sibling)
<1>1. \A q : FoldPath(x, q) = PathFold!Fold(x, q)
  BY DEF FoldPath, FoldLeft, MapThenFoldSet, Max,
         PathFold!Fold, PathFold!FoldLeft, PathFold!MapThenFoldSet, PathFold!Max
<1>2. PathFold!Fold(x, path \o <<step>>)
        = IF step.left THEN nodeDigest(step.sibling, PathFold!Fold(x, path))
                       ELSE nodeDigest(PathFold!Fold(x, path), step.sibling)
  BY PathFold!FoldSnoc DEF IsSeq, PathFold!IsSeq
<1> QED
  BY <1>1, <1>2, Zenon

\* The step that merging two trees records leads on to the merged one, whichever
\* of the two holds the leaf; if neither does, none is recorded.
LEMMA StepLeads ==
  ASSUME NEW x, NEW a, NEW b, NEW path, IsSeq(path),
         a.depth \in Nat, b.depth \in 0..a.depth,
         a.contains \in BOOLEAN, b.contains \in BOOLEAN,
         a.contains => Leads(x, path, a), b.contains => Leads(x, path, b)
  PROVE  /\ IsSeq(path \o Step(a, b))
         /\ a.contains \/ b.contains => Leads(x, path \o Step(a, b), Tagged(a, b))
         /\ ~(a.contains \/ b.contains) => path \o Step(a, b) = path
<1> DEFINE q == path \o Step(a, b)
           c == Tagged(a, b)
<1>1. c.depth = a.depth + 1 /\ c.hash = nodeDigest(a.hash, b.hash)
  BY DEF Tagged
<1>2. ASSUME NEW step, Step(a, b) = <<step>>
      PROVE  IsSeq(q) /\ (Len(path) \in 0..a.depth => Len(q) \in 0..c.depth)
  <2>1. /\ IsSeq(path \o <<step>>) /\ Len(path) \in Nat
        /\ DOMAIN (path \o <<step>>) = 1..(Len(path) + 1)
    BY Extension
  <2> HIDE DEF c
  <2>2. IsSeq(q) /\ DOMAIN q = 1..(Len(path) + 1)
    BY <1>2, <2>1
  <2> HIDE DEF q
  <2>3. Len(q) = Len(path) + 1
    <3>1. Len(q) \in Nat /\ DOMAIN q = 1..Len(q)
      BY <2>2, LenProperties DEF IsSeq
    <3> QED
      BY <2>1, <2>2, <3>1
  <2> QED
    BY <1>1, <2>1, <2>2, <2>3
<1>3. CASE a.contains
  <2> DEFINE step == [sibling |-> b.hash, left |-> FALSE]
  <2>1. Step(a, b) = <<step>> /\ step.left = FALSE /\ step.sibling = b.hash
    BY <1>3 DEF Step
  <2> HIDE DEF step
  <2>2. FoldPath(x, q) = nodeDigest(FoldPath(x, path), b.hash)
    BY <2>1, FoldPathStep
  <2> HIDE DEF c, q
  <2> QED
    BY <1>1, <1>2, <1>3, <2>1, <2>2 DEF Leads, c, q
<1>4. CASE ~a.contains /\ b.contains
  <2> DEFINE step == [sibling |-> a.hash, left |-> TRUE]
  <2>1. Step(a, b) = <<step>> /\ step.left = TRUE /\ step.sibling = a.hash
    BY <1>4 DEF Step
  <2> HIDE DEF step
  <2>2. FoldPath(x, q) = nodeDigest(a.hash, FoldPath(x, path))
    BY <2>1, FoldPathStep
  <2>3. Len(path) \in 0..a.depth
    BY <1>4 DEF Leads
  <2> HIDE DEF c, q
  <2> QED
    BY <1>1, <1>2, <1>4, <2>1, <2>2, <2>3 DEF Leads, c, q
<1>5. CASE ~a.contains /\ ~b.contains
  <2>1. Step(a, b) = <<>>
    BY <1>5 DEF Step
  <2>2. path \o <<>> = path
    BY ConcatEmptySeq DEF IsSeq
  <2> QED
    BY <1>5, <2>1, <2>2
<1> QED
  BY <1>3, <1>4, <1>5

-----------------------------------------------------------------------------
\* A tree over the leaves behind lo and up to hi is marked if the leaf at index
\* is one of them, and then the path leads to it.
Marked(x, index, path, b, lo, hi) ==
  /\ b.contains \in BOOLEAN
  /\ b.contains <=> lo < index /\ index <= hi
  /\ b.contains => Leads(x, path, b)

MarkedStack(s, index, u, path, e) ==
  \A j \in 1..Len(u) : Marked(s[index], index, path, u[j], e[j - 1], e[j])

\* A stack grows from left to right.
LEMMA StackGrows ==
  ASSUME NEW s, NEW t, NEW e, NEW lo, NEW hi \in Nat, Stack(s, t, e, lo, hi), Len(t) = 1
  PROVE  e[0] <= e[1] /\ e[0] = lo /\ e[1] = hi
<1>1. 1 \in 1..Len(t) /\ 1 - 1 = 0
  OBVIOUS
<1>2. t[1].depth \in Nat /\ e[0] \in Nat /\ e[1] = e[0] + Pow2(t[1].depth)
  BY <1>1 DEF Stack
<1>3. Pow2(t[1].depth) \in Nat
  BY <1>2, Pow2Positive
<1> QED
  BY <1>2, <1>3 DEF Stack

\* One tree met on the way, by the marked stack and its path.
CarriedPath(a, top, p) == IF Meet(a, top) THEN p \o Step(a, top[1]) ELSE p

MarkedUpTo(s, index, u, path, lo, hi) ==
  \E g : Stack(s, u, g, lo, hi) /\ MarkedStack(s, index, u, path, g)

Meets(s, index, a, lo, mid, hi, path, top, p) ==
  /\ Len(s) \in Nat /\ index \in Nat /\ lo \in Nat /\ hi \in 0..Len(s)
  /\ a.depth \in Nat /\ mid = lo + Pow2(a.depth) /\ a.hash = Sub(s, lo + 1, Pow2(a.depth))
  /\ IsSeq(path) /\ Marked(s[index], index, path, a, lo, mid)
  /\ Fits(top, a.depth) /\ IsSeq(p) /\ MarkedUpTo(s, index, top, p, mid, hi)
  /\ index <= mid \/ index > hi => p = path

CarriesOn(s, index, r, q, lo, hi, path, depth) ==
  /\ MarkedUpTo(s, index, r, q, lo, hi)
  /\ \A d \in Nat : d > depth => Fits(r, d)
  /\ IsSeq(q)
  /\ index <= lo \/ index > hi => q = path

\* Where the marked stack meets a tree, it carries on as one.
LEMMA CarryMarked ==
  ASSUME NEW s, NEW index, NEW a, NEW lo, NEW mid, NEW hi, NEW path, NEW top, NEW p,
         Meets(s, index, a, lo, mid, hi, path, top, p)
  PROVE  CarriesOn(s, index, Carried(a, top, Tagged(a, top[1])), CarriedPath(a, top, p),
                   lo, hi, path, a.depth)
<1>a. /\ Len(s) \in Nat /\ index \in Nat /\ lo \in Nat /\ hi \in 0..Len(s) /\ hi \in Nat
      /\ a.depth \in Nat /\ mid = lo + Pow2(a.depth) /\ a.hash = Sub(s, lo + 1, Pow2(a.depth))
      /\ IsSeq(path) /\ Marked(s[index], index, path, a, lo, mid)
      /\ Fits(top, a.depth) /\ IsSeq(p)
      /\ index <= mid \/ index > hi => p = path
  BY DEF Meets
<1>b. PICK e : Stack(s, top, e, mid, hi) /\ MarkedStack(s, index, top, p, e)
  BY DEF Meets, MarkedUpTo
<1> DEFINE x == s[index]
           w == Pow2(a.depth)
           b == Tagged(a, top[1])
           r == Carried(a, top, b)
           q == CarriedPath(a, top, p)
<1>0. r = Carried(a, top, b) /\ q = IF Meet(a, top) THEN p \o Step(a, top[1]) ELSE p
  BY DEF CarriedPath
<1> HIDE DEF r, q
<1>1. b.depth = a.depth + 1 /\ b.hash = nodeDigest(a.hash, top[1].hash)
      /\ b.contains = (a.contains \/ top[1].contains)
  BY DEF Tagged
<1> HIDE DEF b
<1>2. /\ \E g : /\ Stack(s, r, g, lo, hi)
                /\ ~Meet(a, top) => \A j \in 1..(Len(top) + 1) : g[j] = e[j - 1]
      /\ \A d \in Nat : d > a.depth => Fits(r, d)
  <2>1. /\ \E g : /\ Stack(s, Carried(a, top, b), g, lo, hi)
                  /\ ~Meet(a, top) => \A j \in 1..(Len(top) + 1) : g[j] = e[j - 1]
        /\ \A d \in Nat : d > a.depth => Fits(Carried(a, top, b), d)
    BY <1>a, <1>b, <1>1, CarryStack
  <2> QED
    BY <1>0, <2>1, Zenon
<1>3. PICK g : /\ Stack(s, r, g, lo, hi)
               /\ ~Meet(a, top) => \A j \in 1..(Len(top) + 1) : g[j] = e[j - 1]
  BY <1>2
<1>4. Len(top) \in Nat /\ Len(top) >= 1 /\ DOMAIN top = 1..Len(top)
  BY <1>a, <1>b, LenProperties DEF Stack, IsSeq, Fits
<1>5. w \in Nat /\ w > 0
  BY <1>a, Pow2Positive
<1>6. /\ top[1].depth \in Nat /\ top[1].depth <= a.depth
      /\ e[0] = lo + w /\ e[Len(top)] = hi
      /\ \A j \in 1..Len(top) : e[j - 1] \in Nat
  <2>1. 1 \in 1..Len(top)
    BY <1>4
  <2> QED
    BY <1>a, <1>b, <1>4, <2>1 DEF Stack, Fits
<1>7. Marked(x, index, path, a, lo, lo + w)
  BY <1>a
<1>8. index <= lo + w \/ index > hi => p = path
  BY <1>a
<1>9. \A j \in 1..Len(top) : Marked(x, index, p, top[j], e[j - 1], e[j])
  BY <1>b DEF MarkedStack
<1>10. a.contains => Leads(x, p, a)
  BY <1>7, <1>8 DEF Marked
<1>11. CASE Meet(a, top)
  <2>1. Len(top) = 1 /\ r = <<b>> /\ q = p \o Step(a, top[1])
    BY <1>0, <1>11 DEF Meet, Carried
  <2>2. Marked(x, index, p, top[1], lo + w, hi)
    BY <1>6, <1>9, <2>1
  <2>3. Len(r) = 1 /\ r[1] = b
    BY <2>1
  <2>4. g[0] = lo /\ g[1] = hi
    <3> QED
      BY <1>3, <2>3 DEF Stack
  <2>5. /\ IsSeq(q)
        /\ a.contains \/ top[1].contains => Leads(x, q, b)
        /\ ~(a.contains \/ top[1].contains) => q = p
    <3>1. a.contains \in BOOLEAN /\ top[1].contains \in BOOLEAN
      BY <1>7, <2>2 DEF Marked
    <3>2. top[1].contains => Leads(x, p, top[1])
      BY <2>2 DEF Marked
    <3>3. top[1].depth \in 0..a.depth
      BY <1>a, <1>6
    <3> QED
      BY <1>a, <1>10, <2>1, <3>1, <3>2, <3>3, StepLeads DEF b
  <2>6. b.contains \in BOOLEAN /\ (b.contains <=> a.contains \/ top[1].contains)
    BY <1>1
  <2>7. lo + w <= hi
    BY <1>a, <1>b, <1>6, <2>1, StackGrows
  <2>8. b.contains <=> lo < index /\ index <= hi
    <3>1. a.contains <=> lo < index /\ index <= lo + w
      BY <1>7 DEF Marked
    <3>2. top[1].contains <=> lo + w < index /\ index <= hi
      BY <2>2 DEF Marked
    <3>3. (lo < index /\ index <= lo + w) \/ (lo + w < index /\ index <= hi)
            <=> lo < index /\ index <= hi
      BY <1>a, <1>5, <2>7
    <3> QED
      BY <2>6, <3>1, <3>2, <3>3
  <2>9. Marked(x, index, q, b, lo, hi)
    BY <2>5, <2>6, <2>8 DEF Marked
  <2>10. MarkedStack(s, index, r, q, g)
    <3>1. \A j \in 1..Len(r) : j = 1 /\ j - 1 = 0
      BY <2>3
    <3> QED
      BY <2>3, <2>4, <2>9, <3>1 DEF MarkedStack
  <2>11. index <= lo \/ index > hi => q = path
    <3>1. ASSUME index <= lo \/ index > hi PROVE q = path
      <4>1. ~(lo < index /\ index <= hi)
        BY <1>a, <3>1
      <4>2. q = p
        BY <2>5, <2>6, <2>8, <4>1
      <4>3. index <= lo + w \/ index > hi
        BY <1>a, <1>5, <3>1
      <4> QED
        BY <1>8, <4>2, <4>3
    <3> QED
      BY <3>1
  <2> QED
    BY <1>2, <1>3, <2>5, <2>10, <2>11 DEF CarriesOn, MarkedUpTo, b, q, r
<1>12. CASE ~Meet(a, top)
  <2>1. r = <<a>> \o top /\ q = p
    BY <1>0, <1>12 DEF Carried
  <2>2. /\ IsSeq(r) /\ DOMAIN r = 1..(Len(top) + 1) /\ r[1] = a
        /\ \A j \in 1..Len(top) : r[j + 1] = top[j]
    BY <1>b, <2>1, Prepended DEF Stack
  <2>3. Len(r) = Len(top) + 1
    <3>1. Len(r) \in Nat /\ DOMAIN r = 1..Len(r)
      BY <2>2, LenProperties DEF IsSeq
    <3> QED
      BY <1>4, <2>2, <3>1
  <2>4. g[0] = lo /\ \A j \in 1..(Len(top) + 1) : g[j] = e[j - 1]
    BY <1>3, <1>12 DEF Stack
  <2>5. ASSUME NEW j \in 1..Len(r) PROVE Marked(x, index, q, r[j], g[j - 1], g[j])
    <3>1. CASE j = 1
      <4>1. g[j - 1] = lo /\ g[j] = lo + w /\ r[j] = a
        BY <1>4, <1>6, <2>2, <2>4, <3>1
      <4> QED
        BY <1>7, <1>10, <2>1, <4>1 DEF Marked
    <3>2. CASE j # 1
      <4>1. j - 1 \in 1..Len(top) /\ (j - 1) + 1 = j /\ j - 1 \in 1..(Len(top) + 1)
            /\ j \in 1..(Len(top) + 1)
        BY <1>4, <2>3, <3>2
      <4>2. r[j] = top[j - 1] /\ g[j] = e[j - 1] /\ g[j - 1] = e[(j - 1) - 1]
        BY <2>2, <2>4, <4>1
      <4> QED
        BY <1>9, <2>1, <4>1, <4>2
    <3> QED
      BY <3>1, <3>2
  <2>6. MarkedStack(s, index, r, q, g)
    BY <2>5 DEF MarkedStack
  <2>7. index <= lo \/ index > hi => q = path
    <3>1. index <= lo \/ index > hi => index <= lo + w \/ index > hi
      BY <1>a, <1>5
    <3> QED
      BY <1>8, <2>1, <3>1
  <2> QED
    BY <1>a, <1>2, <1>3, <2>1, <2>6, <2>7 DEF CarriesOn, MarkedUpTo, b, q, r
<1> QED
  BY <1>11, <1>12

-----------------------------------------------------------------------------
\* The replay after k leaves, of which the one at index is marked.
Replayed(s, index, st, k) ==
  /\ st = [stack |-> st.stack, path |-> st.path]
  /\ IsSeq(st.path)
  /\ index > k => st.path = <<>>
  /\ MarkedUpTo(s, index, st.stack, st.path, 0, k)

\* The mark on a leaf, and the path from a leaf to itself.
LEMMA LeafMarked ==
  ASSUME NEW s, NEW index \in Nat, NEW k \in Nat, NEW path, index > k => path = <<>>
  PROVE  Marked(s[index], index, path,
                [depth |-> 0, hash |-> s[k + 1], contains |-> k + 1 = index], k, k + 1)
<1> DEFINE b == [depth |-> 0, hash |-> s[k + 1], contains |-> k + 1 = index]
<1>1. b.contains \in BOOLEAN /\ b.depth = 0 /\ b.hash = s[k + 1]
  OBVIOUS
<1>2. b.contains <=> k + 1 = index
  OBVIOUS
<1> HIDE DEF b
<1>3. k + 1 = index <=> k < index /\ index <= k + 1
  OBVIOUS
<1>4. ASSUME b.contains PROVE Leads(s[index], path, b)
  <2>1. k + 1 = index /\ path = <<>>
    BY <1>2, <1>4
  <2>2. Len(path) = 0
    BY <2>1, EmptySeq
  <2>3. FoldPath(s[index], path) = b.hash
    BY <1>1, <2>1, FoldPathNone
  <2> QED
    BY <1>1, <2>2, <2>3 DEF Leads
<1>5. Marked(s[index], index, path, b, k, k + 1)
  BY <1>1, <1>2, <1>3, <1>4 DEF Marked
<1> QED
  BY <1>5 DEF b

\* ReplayAdd carries the mark and the path along with a new leaf.
LEMMA AddReplayed ==
  ASSUME NEW s, Len(s) \in Nat, NEW k \in 0..(Len(s) - 1), NEW index \in 1..Len(s),
         NEW st, Replayed(s, index, st, k)
  PROVE  Replayed(s, index,
                  ReplayAdd(st, [depth |-> 0, hash |-> s[k + 1], contains |-> k + 1 = index]),
                  k + 1)
<1> DEFINE b == [depth |-> 0, hash |-> s[k + 1], contains |-> k + 1 = index]
           base == [stack |-> <<b>>, path |-> st.path]
           t == st.stack
           path == st.path
           x == s[index]
           m == Len(t)
<1>1. PICK e : Stack(s, t, e, 0, k) /\ MarkedStack(s, index, t, path, e)
  BY DEF Replayed, MarkedUpTo
<1>2. m \in Nat /\ DOMAIN t = 1..m
  BY <1>1, LenProperties DEF Stack, IsSeq
<1>3. k \in Nat /\ k + 1 \in 0..Len(s) /\ index \in Nat /\ k + 1 \in 1..(Len(s) - 1 + 1)
      /\ 1 \in 1..Len(s)
  OBVIOUS
<1>4. IsSeq(path) /\ (index > k => path = <<>>)
  BY DEF Replayed
<1>5. b.depth = 0 /\ b.hash = s[k + 1]
  OBVIOUS
<1>6. Marked(x, index, path, b, k, k + 1)
  BY <1>3, <1>4, LeafMarked
<1> HIDE DEF b
<1>7. Stacked(s, <<b>>, k, k + 1) /\ Len(<<b>>) = 1 /\ <<b>>[1] = b
  <2>1. Pow2(b.depth) = 1
    BY <1>5, Pow2Zero
  <2>2. Sub(s, k + 1, 1) = s[k + 1]
    BY <1>3, SubSplits
  <2>3. /\ b.depth \in Nat /\ k + Pow2(b.depth) = k + 1
        /\ b.hash = Sub(s, k + 1, Pow2(b.depth))
    BY <1>5, <2>1, <2>2
  <2>4. Stacked(s, <<b>>, k, k + Pow2(b.depth)) /\ Len(<<b>>) = 1 /\ <<b>>[1] = b
    BY <1>3, <2>3, OneStacked
  <2> QED
    BY <2>3, <2>4
<1>8. ReplayAdd(st, b) = ReplayCarryFold!FoldR(t, base)
  BY DEF ReplayAdd, FoldRight, MapThenFoldSet, Min,
         ReplayCarryFold!FoldR, ReplayCarryFold!FoldRight, ReplayCarryFold!MapThenFoldSet,
         ReplayCarryFold!Min
<1>9. base.stack = <<b>> /\ base.path = path /\ base = [stack |-> base.stack, path |-> base.path]
  OBVIOUS
<1> HIDE DEF base, m, t, path
<1>10. PICK r : /\ r[m + 1] = base
                /\ \A i \in 1..m :
                     r[i] = IF Meet(t[i], r[i + 1].stack)
                              THEN [stack |-> <<Tagged(t[i], r[i + 1].stack[1])>>,
                                    path  |-> r[i + 1].path \o Step(t[i], r[i + 1].stack[1])]
                              ELSE [r[i + 1] EXCEPT !.stack = <<t[i]>> \o @]
                /\ ReplayCarryFold!FoldR(t, base) = r[1]
  <2>1. ReplayCarryFold!FoldRightRun(base, t, m)
    BY <1>2, ReplayCarryFold!FoldRightRuns, Zenon
  <2> QED
    BY <2>1 DEF ReplayCarryFold!FoldRightRun, ReplayCarryFold!RunsRight, Meet
<1> DEFINE Carries(i) ==
             /\ r[i] = [stack |-> r[i].stack, path |-> r[i].path]
             /\ IsSeq(r[i].path)
             /\ index <= e[i - 1] \/ index > k + 1 => r[i].path = path
             /\ MarkedUpTo(s, index, r[i].stack, r[i].path, e[i - 1], k + 1)
             /\ i > 1 => Fits(r[i].stack, t[i - 1].depth)
           S == {j \in 0..m : Carries((m - j) + 1)}
<1>11. 0 \in S
  <2>1. (m - 0) + 1 = m + 1 /\ (m + 1) - 1 = m
    BY <1>2
  <2>2. e[m] = k
    BY <1>1 DEF Stack, m
  <2>3. PICK f : Stack(s, <<b>>, f, k, k + 1)
    BY <1>7 DEF Stacked
  <2>4. f[0] = k /\ f[1] = k + 1
    BY <1>7, <2>3 DEF Stack
  <2>5. MarkedStack(s, index, <<b>>, path, f)
    <3>1. \A j \in 1..Len(<<b>>) : j = 1 /\ j - 1 = 0
      BY <1>7
    <3> QED
      BY <1>6, <1>7, <2>4, <3>1 DEF MarkedStack
  <2>6. ASSUME m + 1 > 1 PROVE Fits(r[m + 1].stack, t[(m + 1) - 1].depth)
    <3>1. m \in 1..m
      BY <1>2, <2>6
    <3>2. t[m].depth \in Nat
      BY <1>1, <3>1 DEF Stack, m
    <3> QED
      <4>1. r[m + 1].stack = <<b>> /\ t[(m + 1) - 1] = t[m]
        BY <1>9, <1>10, <2>1
      <4>2. Fits(<<b>>, t[m].depth)
        BY <1>5, <1>7, <3>2 DEF Fits
      <4> QED
        BY <4>1, <4>2
  <2>7. Carries(m + 1)
    BY <1>4, <1>9, <1>10, <2>1, <2>2, <2>3, <2>5, <2>6 DEF MarkedUpTo
  <2> QED
    BY <1>2, <2>1, <2>7
<1>12. ASSUME NEW j \in 0..(m - 1), j \in S PROVE j + 1 \in S
  <2> DEFINE i == m - j
  <2>1. i \in 1..m /\ (m - (j + 1)) + 1 = i /\ i + 1 > 1 /\ (i + 1) - 1 = i /\ j + 1 \in 0..m
    BY <1>2
  <2>2. Carries(i + 1)
    BY <1>12
  <2> HIDE DEF i
  <2>3. /\ t[i].depth \in Nat /\ e[i - 1] \in Nat
        /\ e[i] = e[i - 1] + Pow2(t[i].depth)
        /\ t[i].hash = Sub(s, e[i - 1] + 1, Pow2(t[i].depth))
    BY <1>1, <2>1 DEF Stack, m
  <2>4. Marked(x, index, path, t[i], e[i - 1], e[i])
    BY <1>1, <2>1 DEF MarkedStack, m
  <2> DEFINE top == r[i + 1].stack
             p == r[i + 1].path
             q == CarriedPath(t[i], top, p)
             u == Carried(t[i], top, Tagged(t[i], top[1]))
  <2>5. /\ r[i + 1] = [stack |-> top, path |-> p] /\ IsSeq(p) /\ Fits(top, t[i].depth)
        /\ index <= e[i] \/ index > k + 1 => p = path
    BY <2>1, <2>2
  <2>6. MarkedUpTo(s, index, top, p, e[i], k + 1)
    BY <2>1, <2>2
  <2>7. r[i] = [stack |-> u, path |-> q]
    <3> HIDE DEF top, p
    <3>1. r[i] = IF Meet(t[i], top)
                   THEN [stack |-> <<Tagged(t[i], top[1])>>, path |-> p \o Step(t[i], top[1])]
                   ELSE [[stack |-> top, path |-> p] EXCEPT !.stack = <<t[i]>> \o @]
      BY <1>10, <2>1, <2>5 DEF top, p
    <3> QED
      BY <3>1 DEF Carried, CarriedPath
  <2>8. u = r[i].stack /\ q = r[i].path
    <3> HIDE DEF u, q
    <3> QED
      BY <2>7
  <2> HIDE DEF top, p
  <2>9. Marked(s[index], index, path, t[i], e[i - 1], e[i])
    BY <2>4
  <2> HIDE DEF x
  <2>10. /\ MarkedUpTo(s, index, u, q, e[i - 1], k + 1)
         /\ \A d \in Nat : d > t[i].depth => Fits(u, d)
         /\ IsSeq(q)
         /\ index <= e[i - 1] \/ index > k + 1 => q = path
    <3>1. Meets(s, index, t[i], e[i - 1], e[i], k + 1, path, top, p)
      BY <1>3, <1>4, <2>3, <2>5, <2>6, <2>9 DEF Meets
    <3>2. CarriesOn(s, index, u, q, e[i - 1], k + 1, path, t[i].depth)
      BY <3>1, CarryMarked
    <3> QED
      BY <3>2 DEF CarriesOn
  <2> HIDE DEF u, q
  <2>11. ASSUME i > 1 PROVE Fits(u, t[i - 1].depth)
    <3>1. i - 1 \in 1..(m - 1) /\ (i - 1) + 1 = i /\ i - 1 \in 1..m
      BY <1>2, <2>1, <2>11
    <3>2. t[i].depth < t[i - 1].depth /\ t[i - 1].depth \in Nat
      BY <1>1, <3>1 DEF Stack, m
    <3> QED
      BY <2>3, <2>10, <3>2
  <2>12. Carries(i)
    BY <2>7, <2>8, <2>10, <2>11
  <2> QED
    BY <2>1, <2>12
<1>13. Carries(1)
  <2>1. (m - m) + 1 = 1 /\ m \in 0..m
    BY <1>2
  <2>2. m \in S
    <3> HIDE DEF S
    <3> QED
      BY <1>2, <1>11, <1>12, <2>1, BoundedInduct
  <2> QED
    BY <2>1, <2>2
<1>14. e[0] = 0 /\ 1 - 1 = 0
  BY <1>1 DEF Stack
<1>15. ASSUME index > k + 1 PROVE r[1].path = <<>>
  <2>1. index > k
    BY <1>3, <1>15
  <2> QED
    BY <1>4, <1>13, <1>15, <2>1
<1>16. Replayed(s, index, r[1], k + 1)
  BY <1>13, <1>14, <1>15 DEF Replayed
<1> QED
  BY <1>8, <1>10, <1>16 DEF b

\* So it does with all leaves, of which the one at index is marked.
MarkedLeaves(s, index) ==
  [i \in DOMAIN s |-> [depth |-> 0, hash |-> s[i], contains |-> i = index]]

\* ReplayAdd, leaf by leaf, gives the marked stack of all of them.
LEMMA LeavesReplayed ==
  ASSUME NEW s, NEW n \in Nat, DOMAIN s = 1..n, Len(s) = n, NEW index \in 1..n
  PROVE  Replayed(s, index, FoldLeft(ReplayAdd, [stack |-> <<>>, path |-> <<>>],
                                     MarkedLeaves(s, index)), n)
<1> DEFINE base == [stack |-> <<>>, path |-> <<>>]
           subs == MarkedLeaves(s, index)
<1>1. FoldLeft(ReplayAdd, base, subs) = ReplayFold!Fold(base, subs)
  BY DEF FoldLeft, MapThenFoldSet, Max,
         ReplayFold!Fold, ReplayFold!FoldLeft, ReplayFold!MapThenFoldSet, ReplayFold!Max
<1>2. /\ DOMAIN subs = 1..n
      /\ \A i \in 1..n : subs[i] = [depth |-> 0, hash |-> s[i], contains |-> i = index]
  BY DEF MarkedLeaves
<1>3. base.stack = <<>> /\ base.path = <<>> /\ base = [stack |-> base.stack, path |-> base.path]
  OBVIOUS
<1> HIDE DEF base, subs
<1>4. PICK r : /\ r[0] = base
               /\ \A i \in 1..n : r[i] = ReplayAdd(r[i - 1], subs[i])
               /\ ReplayFold!Fold(base, subs) = r[n]
  <2>1. ReplayFold!FoldRun(base, subs, n)
    BY <1>2, ReplayFold!FoldRuns, Zenon
  <2> QED
    BY <2>1 DEF ReplayFold!FoldRun, ReplayFold!Runs
<1> DEFINE S == {k \in 0..n : Replayed(s, index, r[k], k)}
<1>5. 0 \in S
  <2>1. Len(<<>>) = 0 /\ IsSeq(<<>>)
    <3>1. <<>> \in Seq({<<>>[i] : i \in DOMAIN <<>>}) /\ Len(<<>>) = 0
      BY EmptySeq
    <3> QED
      BY <3>1 DEF IsSeq
  <2>2. PICK e : Stack(s, <<>>, e, 0, 0)
    BY NoneStacked DEF Stacked, EmptyTree
  <2>3. MarkedStack(s, index, <<>>, <<>>, e)
    BY <2>1 DEF MarkedStack
  <2>4. Replayed(s, index, base, 0)
    BY <1>3, <2>1, <2>2, <2>3 DEF Replayed, MarkedUpTo
  <2> QED
    BY <1>4, <2>4
<1>6. ASSUME NEW k \in 0..(n - 1), k \in S PROVE k + 1 \in S
  <2>1. k + 1 \in 1..n /\ (k + 1) - 1 = k /\ k + 1 \in 0..n
    OBVIOUS
  <2>2. r[k + 1] = ReplayAdd(r[k], [depth |-> 0, hash |-> s[k + 1], contains |-> k + 1 = index])
    BY <1>2, <1>4, <2>1
  <2>3. Replayed(s, index, r[k + 1], k + 1)
    BY <1>6, <2>2, AddReplayed
  <2> QED
    BY <2>1, <2>3
<1>7. n \in S
  <2>1. n \in 0..n
    OBVIOUS
  <2> HIDE DEF S
  <2> QED
    BY <1>5, <1>6, <2>1, BoundedInduct
<1> QED
  BY <1>1, <1>4, <1>7 DEF base, subs

-----------------------------------------------------------------------------
\* ReplayRoot merges the marked stack from the right, tree by tree.
PromoteRun(st, r) ==
  /\ r[Len(st.stack)] = [top |-> st.stack[Len(st.stack)], path |-> st.path]
  /\ \A i \in 1..(Len(st.stack) - 1) :
       r[i] = [top  |-> Tagged(st.stack[i], r[i + 1].top),
               path |-> r[i + 1].path \o Step(st.stack[i], r[i + 1].top)]
  /\ ReplayRoot(st) = r[1]

\* That is how it does it.
LEMMA PromoteRuns ==
  ASSUME NEW st, IsSeq(st.stack), st.stack # <<>>
  PROVE  \E r : PromoteRun(st, r)
<1> DEFINE t == st.stack
           n == Len(t) - 1
           base == [top |-> Last(t), path |-> st.path]
<1>1. /\ n \in Nat /\ Len(t) = n + 1 /\ DOMAIN Front(t) = 1..n
      /\ \A i \in 1..n : Front(t)[i] = t[i]
      /\ Last(t) = t[Len(t)]
  BY FrontOf
<1>2. ReplayRoot(st) = PromoteFold!FoldR(Front(t), base)
  BY DEF ReplayRoot, FoldRight, MapThenFoldSet, Min,
         PromoteFold!FoldR, PromoteFold!FoldRight, PromoteFold!MapThenFoldSet, PromoteFold!Min
<1> HIDE DEF n, t, base
<1>3. PICK r : /\ r[n + 1] = base
               /\ \A i \in 1..n : r[i] = [top  |-> Tagged(Front(t)[i], r[i + 1].top),
                                          path |-> r[i + 1].path \o Step(Front(t)[i], r[i + 1].top)]
               /\ PromoteFold!FoldR(Front(t), base) = r[1]
  <2>1. PromoteFold!FoldRightRun(base, Front(t), n)
    BY <1>1, PromoteFold!FoldRightRuns, Zenon
  <2> QED
    BY <2>1 DEF PromoteFold!FoldRightRun, PromoteFold!RunsRight
<1>4. Len(t) - 1 = n
  BY <1>1
<1>5. PromoteRun(st, r)
  BY <1>1, <1>2, <1>3, <1>4 DEF PromoteRun, t, base
<1> QED
  BY <1>5

\* The path that it completes leads to the root of all leaves, in no more steps
\* than the deepest tree is high and, if there are others, one.
LEMMA RootReplayed ==
  ASSUME NEW s, NEW n \in Nat, Len(s) = n, NEW index \in 1..n,
         NEW st, Replayed(s, index, st, n)
  PROVE  LET t == st.stack
             q == ReplayRoot(st).path
         IN  /\ IsSeq(q) /\ FoldPath(s[index], q) = Sub(s, 1, n)
             /\ Len(t) >= 1
             /\ Len(q) \in 0..(t[1].depth + (IF Len(t) = 1 THEN 0 ELSE 1))
<1> DEFINE t == st.stack
           path == st.path
           x == s[index]
           m == Len(t)
<1>1. PICK e : Stack(s, t, e, 0, n) /\ MarkedStack(s, index, t, path, e)
  BY DEF Replayed, MarkedUpTo
<1>2. t # <<>>
  <2>1. Stacked(s, t, 0, n)
    BY <1>1 DEF Stacked
  <2> HIDE DEF t
  <2> QED
    BY <2>1, StackEmpty
<1>3. IsSeq(t) /\ IsSeq(path)
  BY <1>1 DEF Replayed, Stack
<1>4. PICK r : PromoteRun(st, r)
  BY <1>2, <1>3, PromoteRuns
<1>5. m \in Nat /\ m >= 1
  BY <1>2, <1>3, FrontOf
<1>6. /\ r[m] = [top |-> t[m], path |-> path]
      /\ \A i \in 1..(m - 1) : r[i] = [top  |-> Tagged(t[i], r[i + 1].top),
                                       path |-> r[i + 1].path \o Step(t[i], r[i + 1].top)]
      /\ ReplayRoot(st) = r[1]
  BY <1>4 DEF PromoteRun
<1> HIDE DEF t, path, m
<1>7. e[m] = n /\ e[0] = 0
  BY <1>1 DEF Stack, m
<1>8. \A i \in 1..m : e[i - 1] \in Nat /\ e[i] \in Nat /\ e[i] <= n /\ e[i - 1] <= e[i]
  <2> TAKE i \in 1..m
  <2>1. e[i - 1] \in Nat /\ e[i] \in Nat /\ e[i] <= n
    BY <1>1, <1>2, StackWidths DEF m
  <2>2. t[i].depth \in Nat /\ e[i] = e[i - 1] + Pow2(t[i].depth)
    BY <1>1 DEF Stack, m
  <2>3. Pow2(t[i].depth) \in Nat
    BY <2>2, Pow2Positive
  <2> QED
    BY <2>1, <2>2, <2>3
<1>9. \A i \in 1..m : Marked(x, index, path, t[i], e[i - 1], e[i]) /\ t[i].depth \in Nat
  BY <1>1 DEF MarkedStack, Stack, m
<1>10. \A i \in 1..(m - 1) : t[i + 1].depth < t[i].depth
  BY <1>1 DEF Stack, m
<1> DEFINE Promoted(i) ==
             /\ IsSeq(r[i].path)
             /\ r[i].top.depth = t[i].depth + (IF i = m THEN 0 ELSE 1)
             /\ Marked(x, index, r[i].path, r[i].top, e[i - 1], n)
             /\ ~r[i].top.contains => r[i].path = path
           S == {j \in 0..(m - 1) : Promoted(m - j)}
<1>11. 0 \in S
  <2>1. m - 0 = m /\ m \in 1..m /\ 0 \in 0..(m - 1)
    BY <1>5
  <2>2. r[m].top = t[m] /\ r[m].path = path
    BY <1>6
  <2>3. t[m].depth \in Nat /\ t[m].depth + 0 = t[m].depth
    BY <1>9, <2>1
  <2>4. Marked(x, index, path, t[m], e[m - 1], n)
    BY <1>7, <1>9, <2>1
  <2>5. Promoted(m)
    BY <1>3, <2>2, <2>3, <2>4
  <2> QED
    BY <2>1, <2>5
<1>12. ASSUME NEW j \in 0..((m - 1) - 1), j \in S PROVE j + 1 \in S
  <2> DEFINE i == m - (j + 1)
             a == t[i]
             b == r[i + 1].top
             p == r[i + 1].path
             c == Tagged(a, b)
             q == p \o Step(a, b)
  <2>1. /\ i \in 1..(m - 1) /\ i \in 1..m /\ (i + 1) - 1 = i /\ i + 1 \in 1..m
        /\ i # m /\ j + 1 \in 0..(m - 1) /\ m - j = i + 1
    BY <1>5
  <2>2. Promoted(i + 1)
    BY <1>12, <2>1
  <2> HIDE DEF i
  <2>3. r[i].top = c /\ r[i].path = q
    <3>1. r[i] = [top |-> c, path |-> q]
      BY <1>6, <2>1
    <3> HIDE DEF c, q
    <3> QED
      BY <3>1
  <2>4. c.depth = a.depth + 1 /\ c.contains = (a.contains \/ b.contains)
    BY DEF Tagged
  <2>5. Marked(x, index, path, a, e[i - 1], e[i]) /\ a.depth \in Nat
    BY <1>9, <2>1
  <2>6. IsSeq(p) /\ Marked(x, index, p, b, e[i], n) /\ (~b.contains => p = path)
    BY <2>1, <2>2
  <2>7. b.depth \in 0..a.depth
    <3>1. t[i + 1].depth \in Nat /\ t[i + 1].depth < a.depth
      BY <1>9, <1>10, <2>1
    <3>2. b.depth = t[i + 1].depth + (IF i + 1 = m THEN 0 ELSE 1)
      BY <2>2
    <3> HIDE DEF a, b
    <3>3. b.depth = t[i + 1].depth \/ b.depth = t[i + 1].depth + 1
      BY <3>1, <3>2
    <3> QED
      BY <2>5, <3>1, <3>3
  <2>8. e[i - 1] \in Nat /\ e[i] \in Nat /\ e[i - 1] <= e[i] /\ e[i] <= n
    BY <1>8, <2>1
  <2> HIDE DEF a, b, p, c, q
  <2>9. a.contains => ~b.contains
    BY <2>5, <2>6, <2>8 DEF Marked
  <2>10. a.contains => Leads(x, p, a)
    BY <2>5, <2>6, <2>9 DEF Marked
  <2>11. /\ IsSeq(q)
         /\ a.contains \/ b.contains => Leads(x, q, c)
         /\ ~(a.contains \/ b.contains) => q = p
    <3>1. a.contains \in BOOLEAN /\ b.contains \in BOOLEAN /\ (b.contains => Leads(x, p, b))
      BY <2>5, <2>6 DEF Marked
    <3> QED
      BY <2>5, <2>6, <2>7, <2>10, <3>1, StepLeads DEF c, q
  <2>12. c.contains \in BOOLEAN /\ (c.contains <=> a.contains \/ b.contains)
    BY <2>4
  <2>13. c.contains <=> e[i - 1] < index /\ index <= n
    <3>1. a.contains <=> e[i - 1] < index /\ index <= e[i]
      BY <2>5 DEF Marked
    <3>2. b.contains <=> e[i] < index /\ index <= n
      BY <2>6 DEF Marked
    <3>3. (e[i - 1] < index /\ index <= e[i]) \/ (e[i] < index /\ index <= n)
            <=> e[i - 1] < index /\ index <= n
      BY <2>8
    <3> QED
      BY <2>12, <3>1, <3>2, <3>3
  <2>14. Marked(x, index, q, c, e[i - 1], n)
    BY <2>11, <2>12, <2>13 DEF Marked
  <2>15. Promoted(i)
    BY <2>1, <2>3, <2>4, <2>6, <2>11, <2>12, <2>14 DEF a
  <2> QED
    BY <2>1, <2>15 DEF i
<1>13. Promoted(1)
  <2>1. m - (m - 1) = 1 /\ m - 1 \in 0..(m - 1) /\ m - 1 \in Nat
    BY <1>5
  <2>2. m - 1 \in S
    <3> HIDE DEF S
    <3> QED
      BY <1>11, <1>12, <2>1, BoundedInduct
  <2> QED
    BY <2>1, <2>2
<1>14. Leads(x, r[1].path, r[1].top)
  <2>1. Marked(x, index, r[1].path, r[1].top, 0, n)
    BY <1>7, <1>13
  <2> QED
    BY <2>1 DEF Marked
<1>15. r[1].top.hash = Sub(s, 1, n)
  <2> DEFINE h == [i \in 1..m |-> r[i].top]
  <2>1. h[m].hash = t[m].hash
    BY <1>5, <1>6
  <2>2. ASSUME NEW i \in 1..(m - 1) PROVE h[i].hash = nodeDigest(t[i].hash, h[i + 1].hash)
    <3>1. i \in 1..m /\ i + 1 \in 1..m
      BY <1>5
    <3>2. r[i].top = Tagged(t[i], r[i + 1].top)
      <4> DEFINE c == Tagged(t[i], r[i + 1].top)
                 q == r[i + 1].path \o Step(t[i], r[i + 1].top)
      <4>1. r[i] = [top |-> c, path |-> q]
        BY <1>6
      <4> HIDE DEF c, q
      <4>2. r[i].top = c
        BY <4>1
      <4> QED
        BY <4>2 DEF c
    <3> QED
      BY <3>1, <3>2 DEF Tagged
  <2>3. h[1] = r[1].top
    BY <1>5
  <2> HIDE DEF h
  <2> QED
    BY <1>1, <1>2, <2>1, <2>2, <2>3, MergedStack DEF m
<1>16. t[1].depth \in Nat
  BY <1>5, <1>9
<1>17. r[1].top.depth = t[1].depth + (IF m = 1 THEN 0 ELSE 1)
  BY <1>5, <1>13
<1> QED
  BY <1>5, <1>6, <1>13, <1>14, <1>15, <1>17 DEF Leads, t, m

\* For every sequence of leaves and every one of them, the path that provePath
\* returns leads from it to the root, in at most as many steps as the number of
\* leaves has doublings (proof.go:80-124).
THEOREM PathLeadsToRoot ==
  ASSUME NEW S, NEW s \in Seq(S), NEW i \in DOMAIN s
  PROVE  /\ IsSeq(provePath(s, i))
         /\ FoldPath(s[i], provePath(s, i)) = Root(TreeOf(s))
         /\ ShortFor(Len(s), provePath(s, i))
<1> DEFINE n == Len(s)
           st == FoldLeft(ReplayAdd, [stack |-> <<>>, path |-> <<>>], MarkedLeaves(s, i))
           t == st.stack
           q == provePath(s, i)
           d == t[1].depth
<1>1. n \in Nat /\ DOMAIN s = 1..n /\ i \in 1..n /\ Len(s) = n
  BY LenProperties
<1>2. s # <<>>
  BY <1>1, EmptySeq
<1>3. q = ReplayRoot(st).path
  BY <1>2 DEF provePath, MarkedLeaves
<1>4. Replayed(s, i, st, n)
  <2> HIDE DEF n
  <2> QED
    BY <1>1, LeavesReplayed
<1> HIDE DEF st
<1>5. /\ IsSeq(ReplayRoot(st).path) /\ FoldPath(s[i], ReplayRoot(st).path) = Sub(s, 1, n)
      /\ Len(t) >= 1
      /\ Len(ReplayRoot(st).path) \in 0..(d + (IF Len(t) = 1 THEN 0 ELSE 1))
  <2> HIDE DEF n
  <2> QED
    BY <1>1, <1>4, RootReplayed
<1>6. Root(TreeOf(s)) = Sub(s, 1, n)
  BY <1>2, StackIsSplitTree, SplitRootIs
<1>7. PICK e : Stack(s, t, e, 0, n)
  BY <1>4 DEF Replayed, MarkedUpTo
<1> HIDE DEF t, q, n
<1>8. Len(t) \in Nat /\ t # <<>>
  <2>1. Len(t) \in Nat /\ Len(<<>>) = 0
    BY <1>7, LenProperties, EmptySeq DEF Stack, IsSeq
  <2> QED
    BY <1>5, <2>1
<1>9. /\ d \in Nat /\ e[0] = 0 /\ e[1] = e[0] + Pow2(d)
      /\ Len(t) = 1 => e[1] = n
  <2>1. 1 \in 1..Len(t) /\ 1 - 1 = 0
    BY <1>5, <1>8
  <2> QED
    BY <1>7, <2>1 DEF Stack
<1>10. Len(t) > 1 => Pow2(d) < n /\ n - Pow2(d) <= Pow2(d)
  <2>1. 1 \in 1..Len(t)
    BY <1>5, <1>8
  <2>2. /\ e[1] \in Nat
        /\ 1 < Len(t) => e[1] < n /\ n - e[1] <= Pow2(t[1].depth)
    BY <1>1, <1>7, <1>8, <2>1, StackWidths
  <2>3. Pow2(d) \in Nat
    BY <1>9, Pow2Positive
  <2> HIDE DEF d
  <2>4. e[1] = Pow2(d)
    BY <1>9, <2>3
  <2> QED
    BY <1>8, <2>2, <2>4 DEF d
<1> HIDE DEF d
<1>11. Pow2(d) \in Nat /\ Pow2(d) > d
  BY <1>9, Pow2Type
<1>12. CASE Len(t) = 1
  <2>1. n = Pow2(d) /\ d \in 0..n /\ Len(q) <= d
    BY <1>1, <1>3, <1>5, <1>9, <1>11, <1>12
  <2>2. d = 0 \/ Pow2(d - 1) < n
    <3>1. SUFFICES ASSUME d # 0 PROVE Pow2(d - 1) < n
      OBVIOUS
    <3>2. d - 1 \in Nat /\ (d - 1) + 1 = d
      BY <1>9, <3>1
    <3>3. Pow2(d) = 2 * Pow2(d - 1) /\ Pow2(d - 1) \in Nat /\ Pow2(d - 1) > 0
      BY <3>2, Pow2Next, Pow2Positive
    <3> QED
      BY <2>1, <3>3
  <2> QED
    BY <1>3, <1>5, <1>6, <2>1, <2>2 DEF ShortFor, n, q
<1>13. CASE Len(t) # 1
  <2>1. Pow2(d) < n /\ n - Pow2(d) <= Pow2(d) /\ Len(q) <= d + 1
    <3>1. Len(t) > 1
      <4>1. \A x \in Nat : x >= 1 /\ x # 1 => x > 1
        OBVIOUS
      <4> QED
        BY <1>5, <1>8, <1>13, <4>1, Zenon
    <3>2. Len(q) \in 0..(d + 1)
      BY <1>3, <1>5, <1>13
    <3>3. Len(q) <= d + 1
      BY <1>9, <3>2
    <3> QED
      BY <1>10, <3>1, <3>3
  <2>2. Pow2(d + 1) = 2 * Pow2(d)
    BY <1>9, Pow2Next
  <2>3. d + 1 \in 0..n /\ (d + 1) - 1 = d /\ Pow2(d + 1) >= n
    BY <1>1, <1>9, <1>11, <2>1, <2>2
  <2> QED
    BY <1>3, <1>5, <1>6, <2>1, <2>3 DEF ShortFor, n, q
<1> QED
  BY <1>12, <1>13

-----------------------------------------------------------------------------
(***************************************************************************)
(* The split tree determines its leaves: a leaf is no inner node, and an   *)
(* inner node has one left and one right part.                             *)
(***************************************************************************)
IsLeaf(h) == \E bytes : h = <<"leaf", bytes>> \/ \E kind : h = <<"leaf", kind, bytes>>

\* A leaf is not the digest of two parts.
LEMMA LeafIsNoNode == \A h, a, b : IsLeaf(h) => h # nodeDigest(a, b) /\ h # EmptyRoot
<1> TAKE h, a, b
<1>1. <<"node", a, b>>[1] = "node" /\ <<"empty">>[1] = "empty"
  OBVIOUS
<1>2. \A bytes : <<"leaf", bytes>>[1] = "leaf"
  OBVIOUS
<1>3. \A kind, bytes : <<"leaf", kind, bytes>>[1] = "leaf"
  OBVIOUS
<1>4. IsLeaf(h) => h[1] = "leaf"
  BY <1>2, <1>3 DEF IsLeaf
<1>5. "leaf" # "node" /\ "leaf" # "empty"
  OBVIOUS
<1> QED
  BY <1>1, <1>4, <1>5 DEF nodeDigest, EmptyRoot

\* A node is not the empty root.
LEMMA NodeIsNotEmpty == \A a, b : nodeDigest(a, b) # EmptyRoot
<1> TAKE a, b
<1>1. <<"node", a, b>>[1] = "node" /\ <<"empty">>[1] = "empty" /\ "node" # "empty"
  OBVIOUS
<1> QED
  BY <1>1 DEF nodeDigest, EmptyRoot

\* The parts of a node are its own.
LEMMA NodeParts ==
  ASSUME NEW a, NEW b, NEW c, NEW d, nodeDigest(a, b) = nodeDigest(c, d)
  PROVE  a = c /\ b = d
<1>1. <<"node", a, b>>[2] = a /\ <<"node", a, b>>[3] = b
  OBVIOUS
<1>2. <<"node", c, d>>[2] = c /\ <<"node", c, d>>[3] = d
  OBVIOUS
<1> QED
  BY <1>1, <1>2 DEF nodeDigest

\* Where a tree of two or more leaves is split.
LEMMA SplitTwo ==
  ASSUME NEW n \in Nat, n > 1
  PROVE  /\ SplitPoint(n) \in 1..(n - 1) /\ n - SplitPoint(n) \in 1..(n - 1)
         /\ SplitPoint(n) \in Nat
<1>1. IsSplit(n, SplitPoint(n))
  BY SplitIs
<1>2. SplitPoint(n) \in 1..(n - 1)
  BY <1>1 DEF IsSplit
<1> QED
  BY <1>2

\* Equal roots of parts of two sequences: the parts are equal.
SameLeaves(s, i, t, j, n) == \A x \in 0..(n - 1) : s[i + x] = t[j + x]

Decides(s, t, n) ==
  \A i \in 1..(Len(s) - n + 1), m \in 1..Len(t) : \A j \in 1..(Len(t) - m + 1) :
    Sub(s, i, n) = Sub(t, j, m) => m = n /\ SameLeaves(s, i, t, j, n)

\* The root of a part decides its leaves and how many there are.
LEMMA SubDecides ==
  ASSUME NEW s, Len(s) \in Nat, NEW t, Len(t) \in Nat,
         \A i \in 1..Len(s) : IsLeaf(s[i]), \A i \in 1..Len(t) : IsLeaf(t[i])
  PROVE  \A n \in 1..Len(s) : Decides(s, t, n)
<1> DEFINE N == Len(s)
           S == {k \in 0..N : \A n \in 1..k : Decides(s, t, n)}
<1>1. 0 \in S
  OBVIOUS
<1>2. ASSUME NEW k \in 0..(N - 1), k \in S PROVE k + 1 \in S
  <2> DEFINE n == k + 1
  <2>1. n \in 1..N /\ n \in 0..N /\ \A c \in 1..k : Decides(s, t, c)
    BY <1>2
  <2>2. ASSUME NEW i \in 1..(N - n + 1), NEW m \in 1..Len(t), NEW j \in 1..(Len(t) - m + 1),
               Sub(s, i, n) = Sub(t, j, m)
        PROVE  m = n /\ SameLeaves(s, i, t, j, n)
    <3>1. /\ n = 1 => Sub(s, i, n) = s[i]
          /\ n # 1 => Sub(s, i, n) = nodeDigest(Sub(s, i, SplitPoint(n)),
                                                Sub(s, i + SplitPoint(n), n - SplitPoint(n)))
      BY <2>1, SubSplits
    <3>2. /\ m = 1 => Sub(t, j, m) = t[j]
          /\ m # 1 => Sub(t, j, m) = nodeDigest(Sub(t, j, SplitPoint(m)),
                                                Sub(t, j + SplitPoint(m), m - SplitPoint(m)))
      BY SubSplits
    <3>3. CASE n = 1
      <4>1. i \in 1..N
        BY <2>1
      <4>2. IsLeaf(s[i])
        BY <4>1
      <4>3. m = 1
        BY <2>2, <3>1, <3>2, <3>3, <4>2, LeafIsNoNode
      <4>4. SameLeaves(s, i, t, j, n)
        <5>1. s[i] = t[j]
          BY <2>2, <3>1, <3>2, <3>3, <4>3
        <5>2. \A x \in 0..(n - 1) : x = 0 /\ i + x = i /\ j + x = j
          BY <2>1, <3>3
        <5> QED
          BY <5>1, <5>2 DEF SameLeaves
      <4> QED
        BY <3>3, <4>3, <4>4
    <3>4. CASE n # 1
      <4>1. m # 1
        <5>1. j \in 1..Len(t)
          OBVIOUS
        <5>2. IsLeaf(t[j])
          BY <5>1
        <5> QED
          BY <2>2, <3>1, <3>2, <3>4, <5>2, LeafIsNoNode
      <4> DEFINE a == SplitPoint(n)
                 b == SplitPoint(m)
      <4>2. a \in 1..k /\ n - a \in 1..k /\ a \in Nat
        BY <2>1, <3>4, SplitTwo
      <4>3. b \in 1..(m - 1) /\ m - b \in 1..(m - 1) /\ b \in Nat
        BY <4>1, SplitTwo
      <4>4. /\ Sub(s, i, a) = Sub(t, j, b)
            /\ Sub(s, i + a, n - a) = Sub(t, j + b, m - b)
        BY <2>2, <3>1, <3>2, <3>4, <4>1, NodeParts
      <4> HIDE DEF a, b, n
      <4>5. Decides(s, t, a) /\ Decides(s, t, n - a)
        BY <2>1, <4>2
      <4>6. b = a /\ SameLeaves(s, i, t, j, a)
        <5>1. i \in 1..(Len(s) - a + 1) /\ b \in 1..Len(t) /\ j \in 1..(Len(t) - b + 1)
          BY <2>1, <4>2, <4>3 DEF n
        <5> QED
          BY <4>4, <4>5, <5>1 DEF Decides
      <4>7. m - b = n - a /\ SameLeaves(s, i + a, t, j + b, n - a)
        <5>1. /\ i + a \in 1..(Len(s) - (n - a) + 1) /\ m - b \in 1..Len(t)
              /\ j + b \in 1..(Len(t) - (m - b) + 1)
          BY <2>1, <4>2, <4>3 DEF n
        <5> QED
          BY <4>4, <4>5, <5>1 DEF Decides
      <4>8. m = n
        BY <2>1, <4>2, <4>3, <4>6, <4>7 DEF n
      <4>9. ASSUME NEW x \in 0..(n - 1) PROVE s[i + x] = t[j + x]
        <5>1. CASE x < a
          <6>1. x \in 0..(a - 1)
            BY <4>2, <5>1
          <6> QED
            BY <4>6, <6>1 DEF SameLeaves
        <5>2. CASE ~(x < a)
          <6>1. x - a \in 0..((n - a) - 1) /\ (i + a) + (x - a) = i + x /\ (j + b) + (x - a) = j + x
            BY <2>1, <4>2, <4>6, <5>2 DEF n
          <6> QED
            BY <4>7, <6>1 DEF SameLeaves
        <5> QED
          BY <5>1, <5>2
      <4> QED
        BY <4>8, <4>9 DEF SameLeaves
    <3> QED
      BY <3>3, <3>4
  <2>3. Decides(s, t, n)
    BY <2>2 DEF Decides
  <2>4. \A c \in 1..n : Decides(s, t, c)
    <3>1. \A c \in 1..n : c \in 1..k \/ c = n
      BY <2>1
    <3> HIDE DEF n
    <3> QED
      BY <2>1, <2>3, <3>1
  <2> QED
    BY <2>1, <2>4
<1>3. N \in S
  <2>1. N \in Nat /\ N \in 0..N
    OBVIOUS
  <2> HIDE DEF S
  <2> QED
    BY <1>1, <1>2, <2>1, BoundedInduct
<1> QED
  BY <1>3

\* Two sequences of leaves with the same root are the same: no leaf can be
\* dropped, repeated, moved or replaced (merkle.go:22-30).
THEOREM RootCommits ==
  ASSUME NEW S, NEW s \in Seq(S), NEW t \in Seq(S), \A h \in S : IsLeaf(h),
         Root(TreeOf(s)) = Root(TreeOf(t))
  PROVE  s = t
<1>1. Len(s) \in Nat /\ DOMAIN s = 1..Len(s) /\ Len(t) \in Nat /\ DOMAIN t = 1..Len(t)
  BY LenProperties
<1>2. \A i \in 1..Len(s) : IsLeaf(s[i])
  BY <1>1, ElementOfSeq
<1>3. \A i \in 1..Len(t) : IsLeaf(t[i])
  BY <1>1, ElementOfSeq
<1>4. SplitRoot(s) = SplitRoot(t)
  BY StackIsSplitTree
<1>5. ASSUME NEW q, Len(q) \in Nat, \A i \in 1..Len(q) : IsLeaf(q[i]), Len(q) > 0
      PROVE  Sub(q, 1, Len(q)) # EmptyRoot
  <2>1. Len(q) \in 1..Len(q) /\ 1 \in 1..(Len(q) - Len(q) + 1) /\ 1 \in 1..Len(q)
    BY <1>5
  <2>2. /\ Len(q) = 1 => Sub(q, 1, Len(q)) = q[1]
        /\ Len(q) # 1 => \E a, b : Sub(q, 1, Len(q)) = nodeDigest(a, b)
    <3>1. /\ Len(q) = 1 => Sub(q, 1, Len(q)) = q[1]
          /\ Len(q) # 1 => LET k == SplitPoint(Len(q))
                            IN  Sub(q, 1, Len(q)) = nodeDigest(Sub(q, 1, k), Sub(q, 1 + k, Len(q) - k))
      BY <1>5, <2>1, SubSplits
    <3> QED
      BY <3>1, Zenon
  <2>3. IsLeaf(q[1])
    BY <1>5, <2>1
  <2> QED
    BY <2>2, <2>3, LeafIsNoNode, NodeIsNotEmpty
<1>6. CASE s = <<>> \/ t = <<>>
  <2>1. s = <<>> => Len(s) = 0
    BY EmptySeq
  <2>2. t = <<>> => Len(t) = 0
    BY EmptySeq
  <2>3. s # <<>> => Len(s) > 0
    BY <1>1, EmptySeq
  <2>4. t # <<>> => Len(t) > 0
    BY <1>1, EmptySeq
  <2> QED
    BY <1>1, <1>2, <1>3, <1>4, <1>5, <1>6, <2>1, <2>2, <2>3, <2>4, SplitRootIs
<1>7. CASE s # <<>> /\ t # <<>>
  <2>1. Len(s) \in 1..Len(s) /\ 1 \in 1..(Len(s) - Len(s) + 1)
    BY <1>1, <1>7, EmptySeq
  <2>2. Len(t) \in 1..Len(t) /\ 1 \in 1..(Len(t) - Len(t) + 1)
    BY <1>1, <1>7, EmptySeq
  <2>3. Sub(s, 1, Len(s)) = Sub(t, 1, Len(t))
    BY <1>4, <1>7, SplitRootIs
  <2>4. Decides(s, t, Len(s))
    BY <1>1, <1>2, <1>3, <2>1, SubDecides
  <2>5. Len(t) = Len(s) /\ SameLeaves(s, 1, t, 1, Len(s))
    BY <2>1, <2>2, <2>3, <2>4 DEF Decides
  <2>6. ASSUME NEW i \in 1..Len(s) PROVE s[i] = t[i]
    <3>1. i - 1 \in 0..(Len(s) - 1) /\ 1 + (i - 1) = i
      BY <1>1
    <3> QED
      BY <2>5, <3>1 DEF SameLeaves
  <2> QED
    BY <1>1, <2>5, <2>6, SeqEqual
<1> QED
  BY <1>6, <1>7

-----------------------------------------------------------------------------
(***************************************************************************)
(* What VerifyProof accepts, of all the proofs there can be.               *)
(***************************************************************************)
\* A path that leads from a leaf to a root starts at one of the root's leaves,
\* whoever made it.
THEOREM PathBinds ==
  ASSUME NEW S, NEW s \in Seq(S), \A h \in S : IsLeaf(h),
         NEW x, IsLeaf(x), NEW path, IsSeq(path),
         FoldPath(x, path) = Root(TreeOf(s))
  PROVE  \E i \in DOMAIN s : s[i] = x
<1> DEFINE L == Len(path)
           N == Len(s)
<1>1. N \in Nat /\ DOMAIN s = 1..N /\ \A i \in 1..N : IsLeaf(s[i])
  BY LenProperties, ElementOfSeq
<1>2. L \in Nat /\ DOMAIN path = 1..L
  BY LenProperties DEF IsSeq
<1>3. FoldPath(x, path) = PathFold!Fold(x, path)
  BY DEF FoldPath, FoldLeft, MapThenFoldSet, Max,
         PathFold!Fold, PathFold!FoldLeft, PathFold!MapThenFoldSet, PathFold!Max
<1> HIDE DEF L, N
<1>4. PICK r : /\ r[0] = x
               /\ \A k \in 1..L : r[k] = IF path[k].left
                                           THEN nodeDigest(path[k].sibling, r[k - 1])
                                           ELSE nodeDigest(r[k - 1], path[k].sibling)
               /\ PathFold!Fold(x, path) = r[L]
  <2>1. PathFold!FoldRun(x, path, L)
    BY <1>2, PathFold!FoldRuns, Zenon
  <2> QED
    BY <2>1 DEF PathFold!FoldRun, PathFold!Runs
<1> DEFINE Binds(k) == \A n \in 1..N : \A i \in 1..(N - n + 1) :
                         r[k] = Sub(s, i, n) => \E j \in 1..N : s[j] = x
           T == {k \in 0..L : Binds(k)}
<1>5. \A n \in 1..N : \A i \in 1..(N - n + 1) :
        /\ n = 1 => Sub(s, i, n) = s[i]
        /\ n # 1 => Sub(s, i, n) = nodeDigest(Sub(s, i, SplitPoint(n)),
                                              Sub(s, i + SplitPoint(n), n - SplitPoint(n)))
  BY <1>1, SubSplits DEF N
<1>6. 0 \in T
  <2>1. ASSUME NEW n \in 1..N, NEW i \in 1..(N - n + 1), r[0] = Sub(s, i, n)
        PROVE  \E j \in 1..N : s[j] = x
    <3>1. n = 1
      BY <1>4, <1>5, <2>1, LeafIsNoNode
    <3>2. s[i] = x /\ i \in 1..N
      BY <1>1, <1>4, <1>5, <2>1, <3>1
    <3> QED
      BY <3>2
  <2> QED
    BY <1>2, <2>1
<1>7. ASSUME NEW k \in 0..(L - 1), k \in T PROVE k + 1 \in T
  <2>1. k + 1 \in 1..L /\ (k + 1) - 1 = k /\ k + 1 \in 0..L
    BY <1>2
  <2>2. PICK sibling : \/ r[k + 1] = nodeDigest(sibling, r[k])
                       \/ r[k + 1] = nodeDigest(r[k], sibling)
    <3>1. r[k + 1] = IF path[k + 1].left THEN nodeDigest(path[k + 1].sibling, r[k])
                                         ELSE nodeDigest(r[k], path[k + 1].sibling)
      BY <1>4, <2>1
    <3> QED
      BY <3>1, Zenon
  <2>3. ASSUME NEW n \in 1..N, NEW i \in 1..(N - n + 1), r[k + 1] = Sub(s, i, n)
        PROVE  \E j \in 1..N : s[j] = x
    <3>1. n # 1
      <4>1. SUFFICES ASSUME n = 1 PROVE FALSE
        OBVIOUS
      <4>2. i \in 1..N
        BY <1>1, <4>1
      <4>3. r[k + 1] = s[i] /\ IsLeaf(s[i])
        BY <1>1, <1>5, <2>3, <4>1, <4>2
      <4> QED
        BY <2>2, <4>3, LeafIsNoNode
    <3> DEFINE a == SplitPoint(n)
    <3>2. a \in 1..(n - 1) /\ n - a \in 1..(n - 1) /\ a \in Nat
      BY <1>1, <3>1, SplitTwo
    <3>3. Sub(s, i, n) = nodeDigest(Sub(s, i, a), Sub(s, i + a, n - a))
      BY <1>5, <3>1
    <3> HIDE DEF a
    <3>4. r[k] = Sub(s, i, a) \/ r[k] = Sub(s, i + a, n - a)
      BY <2>2, <2>3, <3>3, NodeParts
    <3>5. /\ a \in 1..N /\ i \in 1..(N - a + 1)
          /\ n - a \in 1..N /\ i + a \in 1..(N - (n - a) + 1)
      BY <1>1, <3>2
    <3>6. Binds(k)
      BY <1>7
    <3> QED
      BY <3>4, <3>5, <3>6
  <2>4. Binds(k + 1)
    BY <2>3
  <2> QED
    BY <2>1, <2>4
<1>8. Binds(L)
  <2>1. L \in 0..L
    BY <1>2
  <2>2. L \in T
    <3> HIDE DEF T
    <3> QED
      BY <1>2, <1>6, <1>7, <2>1, BoundedInduct
  <2> QED
    BY <2>2
<1>9. r[L] = SplitRoot(s)
  BY <1>3, <1>4, StackIsSplitTree
<1>10. CASE s = <<>>
  <2>1. r[L] = EmptyRoot
    BY <1>9, <1>10, SplitRootIs
  <2>2. CASE L = 0
    BY <1>4, <2>1, <2>2, LeafIsNoNode
  <2>3. CASE L # 0
    <3>1. L \in 1..L
      BY <1>2, <2>3
    <3>2. \E a, b : r[L] = nodeDigest(a, b)
      <4>1. r[L] = IF path[L].left THEN nodeDigest(path[L].sibling, r[L - 1])
                                   ELSE nodeDigest(r[L - 1], path[L].sibling)
        BY <1>4, <3>1
      <4> QED
        BY <4>1, Zenon
    <3> QED
      BY <2>1, <3>2, NodeIsNotEmpty
  <2> QED
    BY <2>2, <2>3
<1>11. CASE s # <<>>
  <2>1. N \in 1..N /\ 1 \in 1..(N - N + 1)
    BY <1>1, <1>11, EmptySeq DEF N
  <2>2. r[L] = Sub(s, 1, N)
    BY <1>9, <1>11, SplitRootIs DEF N
  <2> QED
    BY <1>1, <1>8, <2>1, <2>2
<1> QED
  BY <1>10, <1>11

-----------------------------------------------------------------------------
\* Of the global tree over the namespaces' trees (merkle.go:69-84) the leaves are
\* marked as leaves, each has its own root, and they are a sequence.
LEMMA GlobalLeavesOf ==
  ASSUME NEW ps, IsSeq(ps)
  PROVE  /\ DOMAIN GlobalLeaves(ps) = DOMAIN ps
         /\ GlobalLeaves(ps) \in Seq({NamespaceLeafDigest(Root(TreeOf(ps[i]))) : i \in DOMAIN ps})
         /\ \A i \in DOMAIN ps : GlobalLeaves(ps)[i] = NamespaceLeafDigest(Root(TreeOf(ps[i])))
<1> DEFINE R == {NamespaceLeafDigest(Root(TreeOf(ps[i]))) : i \in DOMAIN ps}
           g == GlobalLeaves(ps)
<1>1. DOMAIN ps = 1..Len(ps) /\ Len(ps) \in Nat
  BY LenProperties DEF IsSeq
<1>2. g \in [1..Len(ps) -> R]
  BY <1>1 DEF GlobalLeaves
<1>3. g \in UNION {[1..n -> R] : n \in Nat}
  BY <1>1, <1>2
<1>4. g \in Seq(R)
  BY <1>3, SeqDef
<1> QED
  BY <1>4 DEF GlobalLeaves

\* Soundness of VerifyProof (proof.go:133-158): under the root of a file, no
\* leaf is accepted that is not one of an entry of one of its namespaces,
\* whatever the paths of the proof are.
THEOREM VerifiedIsCommitted ==
  ASSUME NEW S, \A h \in S : IsLeaf(h),
         NEW ps \in Seq(Seq(S)), NEW leaf, IsLeaf(leaf),
         NEW proof, IsSeq(proof.nsPath), IsSeq(proof.globalPath),
         VerifyLeaf(GlobalRoot(ps), leaf, proof) = "nil"
  PROVE  \E i \in DOMAIN ps : \E j \in DOMAIN ps[i] : ps[i][j] = leaf
<1> DEFINE root == FoldPath(leaf, proof.nsPath)
           g == GlobalLeaves(ps)
           R == {NamespaceLeafDigest(Root(TreeOf(ps[i]))) : i \in DOMAIN ps}
<1>1. FoldPath(NamespaceLeafDigest(root), proof.globalPath) = Root(TreeOf(g))
  BY DEF VerifyLeaf, GlobalRoot
<1>2. IsSeq(ps)
  <2>1. ps \in [1..Len(ps) -> Seq(S)] /\ Len(ps) \in Nat
    BY LenProperties
  <2>2. ps \in [1..Len(ps) -> {ps[i] : i \in DOMAIN ps}]
    BY <2>1
  <2>3. ps \in UNION {[1..n -> {ps[i] : i \in DOMAIN ps}] : n \in Nat}
    BY <2>1, <2>2
  <2> QED
    BY <2>3, SeqDef DEF IsSeq
<1>3. /\ g \in Seq(R) /\ DOMAIN g = DOMAIN ps
      /\ \A i \in DOMAIN ps : g[i] = NamespaceLeafDigest(Root(TreeOf(ps[i])))
  BY <1>2, GlobalLeavesOf
<1>4. \A h : IsLeaf(NamespaceLeafDigest(h))
  BY DEF IsLeaf, NamespaceLeafDigest
<1>5. \A h \in R : IsLeaf(h)
  BY <1>4
<1> HIDE DEF g, R, root
<1>6. PICK i \in DOMAIN g : g[i] = NamespaceLeafDigest(root)
  BY <1>1, <1>3, <1>4, <1>5, PathBinds
<1>7. i \in DOMAIN ps /\ ps[i] \in Seq(S)
  <2>1. DOMAIN ps = 1..Len(ps)
    BY LenProperties
  <2> QED
    BY <1>3, <2>1, ElementOfSeq
<1>8. Root(TreeOf(ps[i])) = root
  <2>1. NamespaceLeafDigest(Root(TreeOf(ps[i]))) = NamespaceLeafDigest(root)
    BY <1>3, <1>6, <1>7
  <2>2. \A h : <<"leaf", "root", h>>[3] = h
    OBVIOUS
  <2> QED
    BY <2>1, <2>2 DEF NamespaceLeafDigest
<1>9. FoldPath(leaf, proof.nsPath) = Root(TreeOf(ps[i]))
  BY <1>8 DEF root
<1>10. \E j \in DOMAIN ps[i] : ps[i][j] = leaf
  <2> DEFINE s == ps[i]
  <2>1. s \in Seq(S) /\ FoldPath(leaf, proof.nsPath) = Root(TreeOf(s))
    BY <1>7, <1>9
  <2> HIDE DEF s
  <2>2. \E j \in DOMAIN s : s[j] = leaf
    BY <2>1, PathBinds
  <2> QED
    BY <2>2 DEF s
<1> QED
  BY <1>7, <1>10

\* A short path is within the limit of the format, for any number of leaves
\* that could be counted (proof.go:131).
LEMMA PathWithinLimit ==
  ASSUME NEW n \in Nat, NEW path, ShortFor(n, path), n <= Pow2(maxProofSteps), Len(path) \in Nat
  PROVE  ~(Len(path) > maxProofSteps)
<1>1. PICK d \in 0..n : Pow2(d) >= n /\ (d = 0 \/ Pow2(d - 1) < n) /\ Len(path) <= d
  BY DEF ShortFor
<1>2. maxProofSteps \in Nat
  BY DEF maxProofSteps
<1> HIDE DEF maxProofSteps
<1>3. d <= maxProofSteps
  <2>1. SUFFICES ASSUME d > maxProofSteps PROVE FALSE
    BY <1>2
  <2>2. d # 0 /\ d - 1 \in Nat /\ d - 1 >= maxProofSteps
    BY <1>2, <2>1
  <2>3. Pow2(d - 1) < Pow2(maxProofSteps) /\ Pow2(d - 1) \in Nat /\ Pow2(maxProofSteps) \in Nat
    <3>1. Pow2(d - 1) < n
      BY <1>1, <2>2
    <3>2. Pow2(d - 1) \in Nat /\ Pow2(maxProofSteps) \in Nat
      BY <1>2, <2>2, Pow2Positive
    <3> QED
      BY <3>1, <3>2
  <2>4. CASE d - 1 = maxProofSteps
    BY <2>3, <2>4
  <2>5. CASE maxProofSteps < d - 1
    <3>1. 2 * Pow2(maxProofSteps) <= Pow2(d - 1)
      BY <1>2, <2>2, <2>5, Pow2Grows
    <3> QED
      BY <2>3, <3>1
  <2> QED
    BY <1>2, <2>2, <2>4, <2>5
<1> QED
  BY <1>1, <1>2, <1>3

\* Completeness of VerifyProof (proof.go:29-78, 133-158): the proof that is
\* made of any entry of any namespace is accepted under the root of the file.
THEOREM ProvedIsVerified ==
  ASSUME NEW S, NEW ps \in Seq(Seq(S)), NEW i \in DOMAIN ps, NEW j \in DOMAIN ps[i],
         Len(ps) <= Pow2(maxProofSteps), Len(ps[i]) <= Pow2(maxProofSteps)
  PROVE  VerifyLeaf(GlobalRoot(ps), ps[i][j],
                    [nsPath     |-> provePath(ps[i], j),
                     globalPath |-> provePath(GlobalLeaves(ps), i)]) = "nil"
<1> DEFINE s == ps[i]
           g == GlobalLeaves(ps)
           p == provePath(s, j)
           q == provePath(g, i)
           R == {NamespaceLeafDigest(Root(TreeOf(ps[k]))) : k \in DOMAIN ps}
<1>1. DOMAIN ps = 1..Len(ps) /\ Len(ps) \in Nat /\ s \in Seq(S)
  BY LenProperties, ElementOfSeq
<1>2. IsSeq(ps)
  <2>1. ps \in [1..Len(ps) -> {ps[k] : k \in DOMAIN ps}]
    BY LenProperties
  <2>2. ps \in UNION {[1..n -> {ps[k] : k \in DOMAIN ps}] : n \in Nat}
    BY <1>1, <2>1
  <2> QED
    BY <2>2, SeqDef DEF IsSeq
<1>3. /\ g \in Seq(R) /\ DOMAIN g = DOMAIN ps
      /\ g[i] = NamespaceLeafDigest(Root(TreeOf(s)))
  BY <1>2, GlobalLeavesOf
<1> HIDE DEF s, g, R
<1>4. IsSeq(p) /\ FoldPath(s[j], p) = Root(TreeOf(s)) /\ ShortFor(Len(s), p)
  BY <1>1, PathLeadsToRoot DEF s
<1>5. IsSeq(q) /\ FoldPath(g[i], q) = Root(TreeOf(g)) /\ ShortFor(Len(g), q)
  BY <1>3, PathLeadsToRoot
<1>6. Len(s) \in Nat /\ Len(g) \in Nat /\ Len(g) = Len(ps) /\ Len(s) <= Pow2(maxProofSteps)
  <2>1. Len(s) \in Nat /\ Len(g) \in Nat /\ DOMAIN g = 1..Len(g)
    BY <1>1, <1>3, LenProperties
  <2> QED
    BY <1>1, <1>3, <2>1 DEF s
<1>7. ~(Len(p) > maxProofSteps) /\ ~(Len(q) > maxProofSteps)
  <2>1. Len(p) \in Nat /\ Len(q) \in Nat
    BY <1>4, <1>5, LenProperties DEF IsSeq
  <2> QED
    BY <1>4, <1>5, <1>6, <2>1, PathWithinLimit
<1> HIDE DEF p, q
<1>8. VerifyLeaf(Root(TreeOf(g)), s[j], [nsPath |-> p, globalPath |-> q]) = "nil"
  <2> DEFINE proof == [nsPath |-> p, globalPath |-> q]
  <2>1. proof.nsPath = p /\ proof.globalPath = q
    OBVIOUS
  <2> HIDE DEF proof
  <2>2. VerifyLeaf(Root(TreeOf(g)), s[j], proof) = "nil"
    BY <1>3, <1>4, <1>5, <1>7, <2>1 DEF VerifyLeaf
  <2> QED
    BY <2>2 DEF proof
<1> QED
  BY <1>8 DEF GlobalRoot, s, g, p, q

-----------------------------------------------------------------------------
(***************************************************************************)
(* The tree that grows is the tree of its leaves.                          *)
(***************************************************************************)
MInv == leaves \in Seq(Leaves) /\ tree = TreeOf(leaves)

\* A leaf more is Add once more.
LEMMA TreeOfAppend ==
  ASSUME NEW S, NEW s \in Seq(S), NEW leaf \in S
  PROVE  TreeOf(Append(s, leaf)) = Add(TreeOf(s), leaf)
<1>1. \A q : TreeOf(q) = TreeFold!Fold(EmptyTree, q)
  BY DEF TreeOf, FoldLeft, MapThenFoldSet, Max,
         TreeFold!Fold, TreeFold!FoldLeft, TreeFold!MapThenFoldSet, TreeFold!Max
<1> QED
  BY <1>1, TreeFold!FoldAppend

\* At the start there is no leaf.
LEMMA InitGrown == Init => MInv
<1>1. TreeOf(<<>>) = EmptyTree
  BY TreeFold!FoldEmpty
     DEF TreeOf, FoldLeft, MapThenFoldSet, Max,
         TreeFold!Fold, TreeFold!FoldLeft, TreeFold!MapThenFoldSet, TreeFold!Max
<1> QED
  BY <1>1 DEF Init, MInv

\* Adding leaves keeps it.
LEMMA NextGrown == MInv /\ [Next]_vars => MInv'
<1> SUFFICES ASSUME MInv, [Next]_vars PROVE MInv'
  OBVIOUS
<1>1. CASE Next
  <2>1. PICK leaf \in Leaves : tree' = Add(tree, leaf) /\ leaves' = Append(leaves, leaf)
    BY <1>1 DEF Next, AddLeaf
  <2>2. leaves' \in Seq(Leaves) /\ tree' = TreeOf(leaves')
    BY <2>1, TreeOfAppend, AppendProperties DEF MInv
  <2> QED
    BY <2>2 DEF MInv
<1>2. CASE UNCHANGED vars
  BY <1>2 DEF vars, MInv
<1> QED
  BY <1>1, <1>2

\* The tree is that of its leaves, and proofs and what is done to them leave it
\* alone.
THEOREM MerkleInvariant == ProofSpec => []MInv
<1>1. ProofInit => MInv
  BY InitGrown DEF ProofInit
<1>2. MInv /\ [ProofNext]_pvars => MInv'
  <2> SUFFICES ASSUME MInv, [ProofNext]_pvars PROVE MInv'
    OBVIOUS
  <2>1. [Next]_vars
    BY DEF ProofNext, pvars, Grow, Generate, Sent, Alter, DamageCell, CutShort, AddBehind,
           Rewrite, LoseField, GiveField, vars
  <2> QED
    BY <2>1, NextGrown
<1> QED
  BY <1>1, <1>2, PTL DEF ProofSpec

\* The incremental stack computes the root of the recursively split tree
\* (merkle.go:36-67), for any leaves and however many.
THEOREM MerkleRootIsSplitRoot == ProofSpec => []RootIsSplitRoot
<1>1. MInv => RootIsSplitRoot
  BY StackIsSplitTree DEF MInv, RootIsSplitRoot
<1> QED
  BY <1>1, MerkleInvariant, PTL

\* The path of every leaf of the growing tree leads to its root and is short
\* (proof.go:80-124).
THEOREM MerklePathsReachRoot == ProofSpec => []PathsReachRoot
<1>1. MInv => PathsReachRoot
  BY PathLeadsToRoot DEF MInv, PathsReachRoot
<1> QED
  BY <1>1, MerkleInvariant, PTL

\* The root of the growing tree commits to all of its leaves and their order
\* (merkle.go:22-30).
THEOREM MerkleCommitsToLeaves == ProofSpec => []CommitsToLeaves
<1>1. \A leaf \in Leaves : IsLeaf(leaf)
  BY LeavesAssumption DEF IsLeaf, EntryDigestOf
<1>2. ASSUME MInv PROVE CommitsToLeaves
  <2>1. SUFFICES ASSUME NEW other \in BoundedSeq(Leaves, MaxLeaves),
                        Root(TreeOf(other)) = Root(tree)
                 PROVE  other = leaves
    BY DEF CommitsToLeaves, RootBindsLeaves
  <2>2. other \in Seq(Leaves)
    <3>1. PICK m \in 0..MaxLeaves : other \in [1..m -> Leaves]
      BY DEF BoundedSeq, SeqOf
    <3>2. m \in Nat
      OBVIOUS
    <3>3. other \in UNION {[1..k -> Leaves] : k \in Nat}
      BY <3>1, <3>2
    <3> QED
      BY <3>3, SeqDef
  <2> QED
    BY <1>1, <1>2, <2>1, <2>2, RootCommits DEF MInv
<1> QED
  BY <1>2, MerkleInvariant, PTL
=============================================================================
