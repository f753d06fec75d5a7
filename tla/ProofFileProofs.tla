-------------------------- MODULE ProofFileProofs --------------------------
(***************************************************************************)
(* The proof file for any number of leaves and any namespaces around them, *)
(* whatever is done to the file: a proof that reaches its reader as it was *)
(* generated is accepted; what is accepted under the root of a file is one *)
(* of that file's entries; and a binary envelope has one written form.     *)
(* The proofs go along the cells of the file: each field is found where it *)
(* was put, and what is read, written again, gives the cells that were     *)
(* read.                                                                   *)
(***************************************************************************)
EXTENDS MerkleProofs

-----------------------------------------------------------------------------
(***************************************************************************)
(* A proof as it is written: the siblings of a path are digests.           *)
(***************************************************************************)
IsStep(s) == /\ s = [sibling |-> s.sibling, left |-> s.left]
             /\ IsDigest(s.sibling)
             /\ s.left \in BOOLEAN

Clean(path) == IsSeq(path) /\ \A i \in 1..Len(path) : IsStep(path[i])

CleanReplay(st) == /\ st = [stack |-> st.stack, path |-> st.path]
                   /\ IsSeq(st.stack)
                   /\ \A i \in 1..Len(st.stack) : IsDigest(st.stack[i].hash)
                   /\ Clean(st.path)

\* A node is a digest, and so is a leaf.
LEMMA NodeIsDigest == \A a, b : IsDigest(nodeDigest(a, b))
<1> TAKE a, b
<1>1. <<"node", a, b>>[1] = "node"
  OBVIOUS
<1> QED
  BY <1>1 DEF IsDigest, nodeDigest

\* Leaves are marked as such.
LEMMA LeafIsDigest == \A h : IsLeaf(h) => IsDigest(h)
<1> TAKE h
<1>1. \A bytes : <<"leaf", bytes>>[1] = "leaf"
  OBVIOUS
<1>2. \A kind, bytes : <<"leaf", kind, bytes>>[1] = "leaf"
  OBVIOUS
<1> QED
  BY <1>1, <1>2 DEF IsLeaf, IsDigest

\* The empty sequence has a type.
LEMMA NoneIsSeq == IsSeq(<<>>) /\ Len(<<>>) = 0
<1>1. <<>> \in Seq({<<>>[i] : i \in DOMAIN <<>>}) /\ Len(<<>>) = 0
  BY EmptySeq
<1> QED
  BY <1>1 DEF IsSeq

\* A path stays clean with the step of a merge.
LEMMA StepKeepsClean ==
  ASSUME NEW path, Clean(path), NEW a, NEW b, IsDigest(a.hash), IsDigest(b.hash)
  PROVE  Clean(path \o Step(a, b))
<1>1. IsSeq(path) /\ path \in Seq({path[i] : i \in DOMAIN path})
  BY DEF Clean, IsSeq
<1>2. ASSUME NEW step, IsStep(step)
      PROVE  Clean(path \o <<step>>)
  <2> DEFINE v == path \o <<step>>
  <2>1. /\ IsSeq(v) /\ Len(path) \in Nat /\ DOMAIN v = 1..(Len(path) + 1)
        /\ \A i \in 1..Len(path) : v[i] = path[i]
        /\ v[Len(path) + 1] = step
    BY <1>1, Extension
  <2>2. DOMAIN v = 1..Len(v) /\ Len(v) \in Nat
    BY <2>1, LenProperties DEF IsSeq
  <2> HIDE DEF v
  <2>3. Len(v) = Len(path) + 1
    BY <2>1, <2>2
  <2>4. ASSUME NEW i \in 1..Len(v) PROVE IsStep(v[i])
    <3>1. CASE i = Len(path) + 1
      BY <1>2, <2>1, <3>1
    <3>2. CASE i \in 1..Len(path)
      BY <2>1, <3>2 DEF Clean
    <3> QED
      BY <2>1, <2>3, <3>1, <3>2
  <2>5. Clean(v)
    BY <2>1, <2>4 DEF Clean
  <2> QED
    BY <2>5 DEF v
<1>3. path \o <<>> = path
  BY <1>1, ConcatEmptySeq
<1>4. CASE a.contains
  <2> DEFINE step == [sibling |-> b.hash, left |-> FALSE]
  <2>1. step.sibling = b.hash /\ step.left = FALSE
    OBVIOUS
  <2>2. Step(a, b) = <<step>>
    BY <1>4 DEF Step
  <2>3. step = [sibling |-> step.sibling, left |-> step.left]
    OBVIOUS
  <2> HIDE DEF step
  <2>4. IsStep(step)
    BY <2>1, <2>3 DEF IsStep
  <2> QED
    BY <1>2, <2>2, <2>4
<1>5. CASE ~a.contains /\ b.contains
  <2> DEFINE step == [sibling |-> a.hash, left |-> TRUE]
  <2>1. step.sibling = a.hash /\ step.left = TRUE
    OBVIOUS
  <2>2. Step(a, b) = <<step>>
    BY <1>5 DEF Step
  <2>3. step = [sibling |-> step.sibling, left |-> step.left]
    OBVIOUS
  <2> HIDE DEF step
  <2>4. IsStep(step)
    BY <2>1, <2>3 DEF IsStep
  <2> QED
    BY <1>2, <2>2, <2>4
<1>6. CASE ~a.contains /\ ~b.contains
  BY <1>3, <1>6 DEF Step
<1> QED
  BY <1>4, <1>5, <1>6

\* One carry of ReplayAdd leaves digests behind.
ReplayCarry(a, acc) == IF Len(acc.stack) = 1 /\ acc.stack[1].depth = a.depth
                         THEN [stack |-> <<Tagged(a, acc.stack[1])>>,
                               path  |-> acc.path \o Step(a, acc.stack[1])]
                         ELSE [acc EXCEPT !.stack = <<a>> \o @]

\* So does carrying it up the stack.
LEMMA CarryKeepsClean ==
  ASSUME NEW a, IsDigest(a.hash), NEW acc, CleanReplay(acc)
  PROVE  CleanReplay(ReplayCarry(a, acc))
<1>1. CASE Len(acc.stack) = 1 /\ acc.stack[1].depth = a.depth
  <2> DEFINE b == Tagged(a, acc.stack[1])
             st == [stack |-> <<b>>, path |-> acc.path \o Step(a, acc.stack[1])]
  <2>1. IsDigest(acc.stack[1].hash)
    BY <1>1 DEF CleanReplay
  <2>2. b.hash = nodeDigest(a.hash, acc.stack[1].hash)
    BY DEF Tagged
  <2>3. IsDigest(b.hash)
    BY <2>2, NodeIsDigest
  <2>4. Clean(acc.path \o Step(a, acc.stack[1]))
    BY <2>1, StepKeepsClean DEF CleanReplay
  <2>5. st.stack = <<b>> /\ st.path = acc.path \o Step(a, acc.stack[1])
    OBVIOUS
  <2> HIDE DEF b
  <2>6. IsSeq(<<b>>) /\ Len(<<b>>) = 1 /\ <<b>>[1] = b
    <3>1. <<b>> \in Seq({<<b>>[i] : i \in DOMAIN <<b>>})
      OBVIOUS
    <3> QED
      BY <3>1 DEF IsSeq
  <2>7. CleanReplay(st)
    BY <2>3, <2>4, <2>5, <2>6 DEF CleanReplay
  <2> QED
    BY <1>1, <2>7 DEF b, ReplayCarry
<1>2. CASE ~(Len(acc.stack) = 1 /\ acc.stack[1].depth = a.depth)
  <2> DEFINE s == acc.stack
             v == <<a>> \o s
             st == [acc EXCEPT !.stack = <<a>> \o @]
  <2>1. acc = [stack |-> s, path |-> acc.path] /\ IsSeq(s)
    BY DEF CleanReplay
  <2>2. st = [stack |-> v, path |-> acc.path]
    <3>1. \A p, q, z : [[stack |-> p, path |-> q] EXCEPT !.stack = z] = [stack |-> z, path |-> q]
      OBVIOUS
    <3>2. st = [acc EXCEPT !.stack = v]
      OBVIOUS
    <3> HIDE DEF s, v, st
    <3> QED
      BY <2>1, <3>1, <3>2, Zenon
  <2>3. st.stack = v /\ st.path = acc.path
    BY <2>2
  <2>4. /\ IsSeq(v) /\ DOMAIN v = 1..(Len(s) + 1) /\ v[1] = a
        /\ \A i \in 1..Len(s) : v[i + 1] = s[i]
    BY <2>1, Prepended
  <2>5. Len(s) \in Nat /\ Len(v) \in Nat /\ DOMAIN v = 1..Len(v)
    BY <2>1, <2>4, LenProperties DEF IsSeq
  <2> HIDE DEF v
  <2>6. \A i \in 1..Len(s) : IsDigest(s[i].hash)
    BY DEF CleanReplay
  <2> HIDE DEF s
  <2>7. Len(v) = Len(s) + 1
    BY <2>4, <2>5
  <2>8. ASSUME NEW i \in 1..Len(v) PROVE IsDigest(v[i].hash)
    <3>1. CASE i = 1
      BY <2>4, <3>1
    <3>2. CASE i # 1
      <4>1. i - 1 \in 1..Len(s) /\ (i - 1) + 1 = i
        BY <2>5, <2>7, <3>2
      <4> QED
        BY <2>4, <2>6, <4>1
    <3> QED
      BY <3>1, <3>2
  <2>9. Clean(acc.path)
    BY DEF CleanReplay
  <2>10. CleanReplay(st)
    BY <2>2, <2>3, <2>4, <2>8, <2>9 DEF CleanReplay
  <2> QED
    BY <1>2, <2>10 DEF ReplayCarry
<1> QED
  BY <1>1, <1>2

\* ReplayAdd carries from the top of the stack down.
LEMMA AddKeepsClean ==
  ASSUME NEW st, CleanReplay(st), NEW sub, IsDigest(sub.hash)
  PROVE  CleanReplay(ReplayAdd(st, sub))
<1> DEFINE t == st.stack
           n == Len(t)
           base == [stack |-> <<sub>>, path |-> st.path]
<1>1. IsSeq(t) /\ n \in Nat /\ DOMAIN t = 1..n /\ \A i \in 1..n : IsDigest(t[i].hash)
  BY LenProperties DEF CleanReplay, IsSeq
<1>2. ReplayAdd(st, sub) = ReplayCarryFold!FoldR(t, base)
  BY DEF ReplayAdd, FoldRight, MapThenFoldSet, Min,
         ReplayCarryFold!FoldR, ReplayCarryFold!FoldRight,
         ReplayCarryFold!MapThenFoldSet, ReplayCarryFold!Min
<1>3. CleanReplay(base)
  <2>1. base.stack = <<sub>> /\ base.path = st.path
    OBVIOUS
  <2>2. IsSeq(<<sub>>) /\ Len(<<sub>>) = 1 /\ <<sub>>[1] = sub
    <3>1. <<sub>> \in Seq({<<sub>>[i] : i \in DOMAIN <<sub>>})
      OBVIOUS
    <3> QED
      BY <3>1 DEF IsSeq
  <2> QED
    BY <2>1, <2>2 DEF CleanReplay
<1> HIDE DEF n, t, base
<1>4. PICK r : /\ r[n + 1] = base
               /\ \A i \in 1..n : r[i] = ReplayCarry(t[i], r[i + 1])
               /\ ReplayCarryFold!FoldR(t, base) = r[1]
  <2>1. ReplayCarryFold!FoldRightRun(base, t, n)
    BY <1>1, ReplayCarryFold!FoldRightRuns, Zenon
  <2> QED
    BY <2>1 DEF ReplayCarryFold!FoldRightRun, ReplayCarryFold!RunsRight, ReplayCarry
<1> DEFINE T == {k \in 0..n : CleanReplay(r[n + 1 - k])}
<1>5. 0 \in T
  BY <1>1, <1>3, <1>4
<1>6. ASSUME NEW k \in 0..(n - 1), k \in T PROVE k + 1 \in T
  <2>1. n - k \in 1..n /\ (n - k) + 1 = n + 1 - k /\ n + 1 - (k + 1) = n - k /\ k + 1 \in 0..n
    BY <1>1
  <2> DEFINE i == n - k
  <2>2. i \in 1..n /\ CleanReplay(r[i + 1]) /\ IsDigest(t[i].hash)
    BY <1>1, <1>6, <2>1
  <2> HIDE DEF i
  <2>3. CleanReplay(r[i])
    BY <1>4, <2>2, CarryKeepsClean
  <2> QED
    BY <2>1, <2>3 DEF i
<1>7. n \in T
  <2>1. n \in 0..n
    BY <1>1
  <2> HIDE DEF T
  <2> QED
    BY <1>1, <1>5, <1>6, <2>1, BoundedInduct
<1>8. CleanReplay(r[1])
  <2>1. n + 1 - n = 1
    BY <1>1
  <2> QED
    BY <1>7, <2>1
<1> QED
  BY <1>2, <1>4, <1>8

\* ReplayRoot adds the promotions to the path.
LEMMA RootKeepsClean ==
  ASSUME NEW st, CleanReplay(st), st.stack # <<>>
  PROVE  Clean(ReplayRoot(st).path)
<1> DEFINE t == st.stack
           n == Len(t)
<1>1. PICK r : PromoteRun(st, r)
  BY PromoteRuns DEF CleanReplay
<1>2. IsSeq(t) /\ n \in Nat /\ n >= 1 /\ \A i \in 1..n : IsDigest(t[i].hash)
  BY FrontOf DEF CleanReplay
<1>3. /\ r[n] = [top |-> t[n], path |-> st.path]
      /\ \A i \in 1..(n - 1) : r[i] = [top  |-> Tagged(t[i], r[i + 1].top),
                                       path |-> r[i + 1].path \o Step(t[i], r[i + 1].top)]
      /\ ReplayRoot(st) = r[1]
  BY <1>1 DEF PromoteRun
<1> HIDE DEF n, t
<1> DEFINE Good(acc) == IsDigest(acc.top.hash) /\ Clean(acc.path)
           T == {k \in 0..(n - 1) : Good(r[n - k])}
<1>4. 0 \in T
  <2>1. r[n].top = t[n] /\ r[n].path = st.path
    BY <1>3
  <2>2. n \in 1..n /\ n - 0 = n /\ 0 \in 0..(n - 1)
    BY <1>2
  <2>3. Clean(st.path)
    BY DEF CleanReplay
  <2> QED
    BY <1>2, <2>1, <2>2, <2>3
<1>5. ASSUME NEW k \in 0..((n - 1) - 1), k \in T PROVE k + 1 \in T
  <2> DEFINE i == n - (k + 1)
  <2>1. i \in 1..(n - 1) /\ i + 1 = n - k /\ k + 1 \in 0..(n - 1) /\ i \in 1..n
    BY <1>2
  <2>2. Good(r[i + 1])
    BY <1>5, <2>1
  <2> HIDE DEF i
  <2>3. IsDigest(t[i].hash)
    BY <1>2, <2>1
  <2> DEFINE b == r[i + 1].top
  <2>4. r[i].top = Tagged(t[i], b) /\ r[i].path = r[i + 1].path \o Step(t[i], b)
    <3>1. r[i] = [top |-> Tagged(t[i], b), path |-> r[i + 1].path \o Step(t[i], b)]
      BY <1>3, <2>1
    <3>2. \A x, y, z : z = [top |-> x, path |-> y] => z.top = x /\ z.path = y
      OBVIOUS
    <3> DEFINE x == Tagged(t[i], b)
               y == r[i + 1].path \o Step(t[i], b)
    <3>3. r[i] = [top |-> x, path |-> y]
      BY <3>1
    <3> HIDE DEF b, x, y
    <3>4. r[i].top = x /\ r[i].path = y
      BY <3>2, <3>3
    <3> QED
      BY <3>4 DEF x, y
  <2>5. IsDigest(b.hash) /\ Clean(r[i + 1].path)
    BY <2>2
  <2> HIDE DEF b
  <2>6. Tagged(t[i], b).hash = nodeDigest(t[i].hash, b.hash)
    BY DEF Tagged
  <2>7. Good(r[i])
    BY <2>3, <2>4, <2>5, <2>6, NodeIsDigest, StepKeepsClean
  <2> QED
    BY <2>1, <2>7 DEF i
<1>6. n - 1 \in T
  <2>1. n - 1 \in 0..(n - 1) /\ n - 1 \in Nat
    BY <1>2
  <2> HIDE DEF T
  <2> QED
    BY <1>4, <1>5, <2>1, BoundedInduct
<1>7. Good(r[1])
  <2>1. n - (n - 1) = 1
    BY <1>2
  <2> QED
    BY <1>6, <2>1
<1> QED
  BY <1>3, <1>7

\* The siblings of a path that provePath returns are digests, if the leaves are.
LEMMA PathIsClean ==
  ASSUME NEW S, NEW s \in Seq(S), NEW i \in DOMAIN s, \A h \in S : IsLeaf(h)
  PROVE  Clean(provePath(s, i))
<1> DEFINE n == Len(s)
           base == [stack |-> <<>>, path |-> <<>>]
           subs == MarkedLeaves(s, i)
           st == FoldLeft(ReplayAdd, base, subs)
<1>1. n \in Nat /\ DOMAIN s = 1..n /\ i \in 1..n /\ s # <<>>
  BY LenProperties, EmptySeq
<1>2. provePath(s, i) = ReplayRoot(st).path
  BY <1>1 DEF provePath, MarkedLeaves
<1>3. st = ReplayFold!Fold(base, subs)
  BY DEF FoldLeft, MapThenFoldSet, Max,
         ReplayFold!Fold, ReplayFold!FoldLeft, ReplayFold!MapThenFoldSet, ReplayFold!Max
<1>4. /\ DOMAIN subs = 1..n
      /\ \A j \in 1..n : subs[j].hash = s[j]
  BY <1>1 DEF MarkedLeaves
<1>5. CleanReplay(base)
  <2>1. base.stack = <<>> /\ base.path = <<>>
    OBVIOUS
  <2> QED
    BY <2>1, NoneIsSeq DEF CleanReplay, Clean
<1>6. st.stack # <<>>
  <2>1. Replayed(s, i, st, n)
    <3> HIDE DEF n
    <3>1. Len(s) = n
      BY DEF n
    <3> QED
      BY <1>1, <3>1, LeavesReplayed
  <2>2. Len(st.stack) >= 1
    <3> HIDE DEF n, st
    <3>1. Len(s) = n
      BY DEF n
    <3> QED
      BY <1>1, <2>1, <3>1, RootReplayed
  <2> QED
    BY <2>2, NoneIsSeq
<1>7. \A j \in 1..n : IsDigest(s[j])
  BY <1>1, ElementOfSeq, LeafIsDigest
<1> HIDE DEF n, base, subs, st
<1>8. PICK r : /\ r[0] = base
               /\ \A j \in 1..n : r[j] = ReplayAdd(r[j - 1], subs[j])
               /\ ReplayFold!Fold(base, subs) = r[n]
  <2>1. ReplayFold!FoldRun(base, subs, n)
    BY <1>1, <1>4, ReplayFold!FoldRuns, Zenon
  <2> QED
    BY <2>1 DEF ReplayFold!FoldRun, ReplayFold!Runs
<1> DEFINE T == {k \in 0..n : CleanReplay(r[k])}
<1>9. 0 \in T
  BY <1>1, <1>5, <1>8
<1>10. ASSUME NEW k \in 0..(n - 1), k \in T PROVE k + 1 \in T
  <2>1. k + 1 \in 1..n /\ (k + 1) - 1 = k /\ k + 1 \in 0..n
    BY <1>1
  <2>2. r[k + 1] = ReplayAdd(r[k], subs[k + 1]) /\ IsDigest(subs[k + 1].hash)
    BY <1>4, <1>7, <1>8, <2>1
  <2>3. CleanReplay(r[k + 1])
    BY <1>10, <2>2, AddKeepsClean
  <2> QED
    BY <2>1, <2>3
<1>11. n \in T
  <2>1. n \in 0..n
    BY <1>1
  <2> HIDE DEF T
  <2> QED
    BY <1>1, <1>9, <1>10, <2>1, BoundedInduct
<1>12. CleanReplay(st)
  BY <1>3, <1>8, <1>11
<1> QED
  BY <1>2, <1>6, <1>12, RootKeepsClean

-----------------------------------------------------------------------------
(***************************************************************************)
(* What is written is read.                                                *)
(***************************************************************************)
\* Two sequences in a row, element by element.
LEMMA Joined ==
  ASSUME NEW v, NEW w, IsSeq(v), IsSeq(w)
  PROVE  /\ IsSeq(v \o w)
         /\ Len(v) \in Nat /\ Len(w) \in Nat /\ Len(v \o w) = Len(v) + Len(w)
         /\ DOMAIN (v \o w) = 1..(Len(v) + Len(w))
         /\ \A i \in 1..Len(v) : (v \o w)[i] = v[i]
         /\ \A i \in 1..Len(w) : (v \o w)[Len(v) + i] = w[i]
<1> DEFINE R == {v[i] : i \in DOMAIN v}
           Q == {w[i] : i \in DOMAIN w}
           S == R \cup Q
           u == v \o w
<1>1. v \in Seq(S) /\ w \in Seq(S)
  <2>1. R \subseteq S /\ Q \subseteq S
    OBVIOUS
  <2>2. v \in Seq(R) /\ w \in Seq(Q)
    BY DEF IsSeq
  <2> HIDE DEF R, Q, S
  <2> QED
    BY <2>1, <2>2, SeqMonotonic
<1> HIDE DEF R, Q, S
<1>2. /\ u \in Seq(S) /\ Len(u) = Len(v) + Len(w)
      /\ \A i \in 1..(Len(v) + Len(w)) : u[i] = IF i <= Len(v) THEN v[i] ELSE w[i - Len(v)]
  BY <1>1, ConcatProperties
<1>3. Len(v) \in Nat /\ Len(w) \in Nat
  BY <1>1, LenProperties
<1> HIDE DEF u
<1>4. DOMAIN u = 1..(Len(v) + Len(w))
  BY <1>2, LenProperties
<1>5. IsSeq(u)
  <2> DEFINE T == {u[i] : i \in DOMAIN u}
             n == Len(v) + Len(w)
  <2>1. n \in Nat /\ u \in [1..n -> S]
    BY <1>2, <1>3, LenProperties
  <2>2. u \in [1..n -> T]
    BY <1>4, <2>1
  <2>3. u \in UNION {[1..k -> T] : k \in Nat}
    BY <2>1, <2>2
  <2> QED
    BY <2>3, SeqDef DEF IsSeq
<1>6. \A i \in 1..Len(v) : u[i] = v[i]
  BY <1>2, <1>3
<1>7. \A i \in 1..Len(w) : u[Len(v) + i] = w[i]
  <2> TAKE i \in 1..Len(w)
  <2>1. Len(v) + i \in 1..(Len(v) + Len(w)) /\ ~(Len(v) + i <= Len(v)) /\ (Len(v) + i) - Len(v) = i
    BY <1>3
  <2> QED
    BY <1>2, <2>1
<1> QED
  BY <1>2, <1>3, <1>4, <1>5, <1>6, <1>7 DEF u

\* What stands in two sequences in a row stands in one of them.
LEMMA JoinedFrom ==
  ASSUME NEW v, NEW w, IsSeq(v), IsSeq(w), NEW i \in DOMAIN (v \o w)
  PROVE  \/ \E j \in DOMAIN v : (v \o w)[i] = v[j]
         \/ \E j \in DOMAIN w : (v \o w)[i] = w[j]
<1> DEFINE m == Len(v)
           n == Len(w)
           u == v \o w
<1>1. /\ m \in Nat /\ n \in Nat /\ DOMAIN u = 1..(m + n)
      /\ \A k \in 1..m : u[k] = v[k]
      /\ \A k \in 1..n : u[m + k] = w[k]
  BY Joined
<1>2. DOMAIN v = 1..m /\ DOMAIN w = 1..n
  BY LenProperties DEF IsSeq
<1>3. i \in DOMAIN u
  OBVIOUS
<1> HIDE DEF m, n, u
<1>4. CASE i <= m
  <2>1. i \in 1..m
    BY <1>1, <1>3, <1>4
  <2>2. u[i] = v[i]
    BY <1>1, <2>1
  <2> QED
    BY <1>2, <2>1, <2>2 DEF u
<1>5. CASE ~(i <= m)
  <2>1. i - m \in 1..n /\ m + (i - m) = i
    BY <1>1, <1>3, <1>5
  <2>2. u[i] = w[i - m]
    BY <1>1, <2>1
  <2> QED
    BY <1>2, <2>1, <2>2 DEF u
<1> QED
  BY <1>4, <1>5

\* A function on an interval from 1 on is a sequence.
LEMMA FunctionIsSeq ==
  ASSUME NEW n \in Nat, NEW f, f = [i \in 1..n |-> f[i]]
  PROVE  IsSeq(f) /\ Len(f) = n /\ DOMAIN f = 1..n
<1> DEFINE T == {f[i] : i \in DOMAIN f}
<1>1. DOMAIN f = 1..n
  <2> DEFINE g == [i \in 1..n |-> f[i]]
  <2>1. DOMAIN g = 1..n /\ f = g
    OBVIOUS
  <2> HIDE DEF g
  <2> QED
    BY <2>1
<1>2. f \in [1..n -> T]
  BY <1>1
<1>3. f \in UNION {[1..k -> T] : k \in Nat}
  BY <1>2
<1>4. f \in Seq(T)
  BY <1>3, SeqDef
<1>5. Len(f) \in Nat /\ DOMAIN f = 1..Len(f)
  BY <1>4, LenProperties
<1>6. Len(f) = n
  <2>1. 1..Len(f) = 1..n
    BY <1>1, <1>5
  <2>2. ASSUME NEW a \in Nat, NEW c \in Nat, a < c, 1..a = 1..c PROVE FALSE
    <3>1. c \in 1..c
      BY <2>2
    <3>2. c \in 1..a
      BY <2>2, <3>1, Zenon
    <3> QED
      BY <2>2, <3>2
  <2>3. ~(Len(f) < n) /\ ~(n < Len(f))
    BY <1>5, <2>1, <2>2
  <2> QED
    BY <1>5, <2>3
<1> QED
  BY <1>1, <1>4, <1>6 DEF IsSeq

\* One cell is a sequence.
LEMMA OneIsSeq == ASSUME NEW c PROVE IsSeq(<<c>>) /\ Len(<<c>>) = 1 /\ <<c>>[1] = c
<1>1. <<c>> \in Seq({<<c>>[i] : i \in DOMAIN <<c>>})
  OBVIOUS
<1> QED
  BY <1>1 DEF IsSeq

\* An integer is read as it was written.
LEMMA NumRead ==
  ASSUME NEW n
  PROVE  Num(n)[1] = "num" /\ Num(n)[2] = n
BY DEF Num

\* The count of a path and the flag and the sibling of each of its steps.
LEMMA StepsWritten ==
  ASSUME NEW path, Clean(path)
  PROVE  LET a == appendProofSteps(path)
             n == Len(path)
         IN  /\ IsSeq(a) /\ n \in Nat /\ Len(a) = 1 + 2 * n
             /\ a[1] = Num(n)
             /\ \A i \in 1..n : /\ a[2 * i] = Num(IF path[i].left THEN 1 ELSE 0)
                                /\ a[2 * i + 1] = path[i].sibling
<1> DEFINE n == Len(path)
           c == [cell \in 1..(2 * n) |->
                   LET step == path[(cell + 1) \div 2]
                   IN  IF cell % 2 = 1 THEN Num(IF step.left THEN 1 ELSE 0) ELSE step.sibling]
           a == <<Num(n)>> \o c
<1>1. n \in Nat
  BY LenProperties DEF Clean, IsSeq
<1>2. IsSeq(c) /\ Len(c) = 2 * n
  <2>1. c = [cell \in 1..(2 * n) |-> c[cell]] /\ 2 * n \in Nat
    BY <1>1
  <2> HIDE DEF c
  <2> QED
    BY <2>1, FunctionIsSeq
<1>3. \A i \in 1..n : /\ c[2 * i - 1] = Num(IF path[i].left THEN 1 ELSE 0)
                      /\ c[2 * i] = path[i].sibling
  <2> TAKE i \in 1..n
  <2>1. /\ 2 * i - 1 \in 1..(2 * n) /\ 2 * i \in 1..(2 * n)
        /\ ((2 * i - 1) + 1) \div 2 = i /\ (2 * i + 1) \div 2 = i
        /\ (2 * i - 1) % 2 = 1 /\ (2 * i) % 2 = 0
    BY <1>1
  <2>2. c[2 * i - 1] = IF (2 * i - 1) % 2 = 1
                         THEN Num(IF path[((2 * i - 1) + 1) \div 2].left THEN 1 ELSE 0)
                         ELSE path[((2 * i - 1) + 1) \div 2].sibling
    BY <2>1
  <2>3. c[2 * i] = IF (2 * i) % 2 = 1
                     THEN Num(IF path[(2 * i + 1) \div 2].left THEN 1 ELSE 0)
                     ELSE path[(2 * i + 1) \div 2].sibling
    BY <2>1
  <2> HIDE DEF c, n
  <2> QED
    BY <2>1, <2>2, <2>3
<1>4. appendProofSteps(path) = a
  BY DEF appendProofSteps
<1> HIDE DEF c, n
<1>5. IsSeq(<<Num(n)>>) /\ Len(<<Num(n)>>) = 1 /\ <<Num(n)>>[1] = Num(n)
  BY OneIsSeq
<1>6. /\ IsSeq(a) /\ Len(a) = 1 + 2 * n
      /\ \A i \in 1..1 : a[i] = <<Num(n)>>[i]
      /\ \A i \in 1..(2 * n) : a[1 + i] = c[i]
  <2> DEFINE h == <<Num(n)>>
  <2>1. /\ IsSeq(h \o c) /\ Len(h \o c) = Len(h) + Len(c)
        /\ \A i \in 1..Len(h) : (h \o c)[i] = h[i]
        /\ \A i \in 1..Len(c) : (h \o c)[Len(h) + i] = c[i]
    <3> HIDE DEF h
    <3>1. IsSeq(h)
      BY <1>5 DEF h
    <3> QED
      BY <1>2, <3>1, Joined
  <2> QED
    BY <1>2, <1>5, <2>1
<1> HIDE DEF a
<1>7. a[1] = Num(n)
  BY <1>5, <1>6
<1>8. \A i \in 1..n : /\ a[2 * i] = Num(IF path[i].left THEN 1 ELSE 0)
                      /\ a[2 * i + 1] = path[i].sibling
  <2> TAKE i \in 1..n
  <2>1. /\ 2 * i - 1 \in 1..(2 * n) /\ 2 * i \in 1..(2 * n)
        /\ 1 + (2 * i - 1) = 2 * i /\ 1 + 2 * i = 2 * i + 1
    BY <1>1
  <2>2. a[1 + (2 * i - 1)] = c[2 * i - 1] /\ a[1 + 2 * i] = c[2 * i]
    BY <1>6, <2>1
  <2> QED
    BY <1>3, <2>1, <2>2
<1> QED
  BY <1>1, <1>4, <1>6, <1>7, <1>8 DEF n

\* Where data go on as a path is written, it is read.
Continues(b, off, a) == /\ off \in Nat /\ Len(b) \in Nat /\ off + Len(a) <= Len(b)
                        /\ \A i \in 1..Len(a) : b[off + i] = a[i]

\* A path within the limit is read where it was written.
LEMMA StepsRead ==
  ASSUME NEW path, Clean(path), ~(Len(path) > maxProofSteps),
         NEW b, NEW off, Continues(b, off, appendProofSteps(path))
  PROVE  readProofSteps(b, off) = [err |-> "nil", steps |-> path,
                                   off |-> off + 1 + 2 * Len(path)]
<1> DEFINE n == Len(path)
           a == appendProofSteps(path)
<1>1. /\ n \in Nat /\ Len(a) = 1 + 2 * n
      /\ a[1] = Num(n)
      /\ \A i \in 1..n : /\ a[2 * i] = Num(IF path[i].left THEN 1 ELSE 0)
                         /\ a[2 * i + 1] = path[i].sibling
  BY StepsWritten
<1>2. \A i \in 1..n : IsDigest(path[i].sibling) /\ path[i].left \in BOOLEAN
  BY DEF Clean, IsStep
<1>3. /\ off \in Nat /\ Len(b) \in Nat /\ off + Len(a) <= Len(b)
      /\ \A i \in 1..Len(a) : b[off + i] = a[i]
  BY DEF Continues
<1> HIDE DEF n, a
<1>4. b[off + 1] = Num(n) /\ off < Len(b)
  BY <1>1, <1>3
<1>5. IsNum(b, off) /\ NumAt(b, off) = n
  BY <1>4, NumRead DEF IsNum, NumAt
<1>6. \A i \in 1..n : /\ b[off + 2 * i] = Num(IF path[i].left THEN 1 ELSE 0)
                      /\ b[off + 2 * i + 1] = path[i].sibling
  <2> TAKE i \in 1..n
  <2>1. /\ 2 * i \in 1..Len(a) /\ 2 * i + 1 \in 1..Len(a)
        /\ off + (2 * i + 1) = off + 2 * i + 1
    <3> DEFINE l == Len(a)
    <3>1. n \in Nat /\ off \in Nat /\ l = 1 + 2 * n
      BY <1>1, <1>3
    <3> HIDE DEF l
    <3>2. 2 * i \in 1..l /\ 2 * i + 1 \in 1..l
      BY <3>1
    <3>3. off + (2 * i + 1) = off + 2 * i + 1
      BY <3>1
    <3> QED
      BY <3>2, <3>3 DEF l
  <2> QED
    BY <1>1, <1>3, <2>1
<1>7. Num(0) # Num(1)
  <2>1. Num(0)[2] = 0 /\ Num(1)[2] = 1
    BY NumRead
  <2> QED
    BY <2>1
<1>8. \A i \in 1..n : /\ FlagRead(b[off + 2 * i]) /\ IsDigest(b[off + 2 * i + 1])
                      /\ (b[off + 2 * i] = Num(1)) = path[i].left
  <2> TAKE i \in 1..n
  <2>1. CASE path[i].left = TRUE
    BY <1>2, <1>6, <2>1 DEF FlagRead
  <2>2. CASE path[i].left = FALSE
    BY <1>2, <1>6, <1>7, <2>2 DEF FlagRead
  <2> QED
    BY <1>2, <2>1, <2>2
<1>9. off + 1 + 2 * n <= Len(b)
  BY <1>1, <1>3
<1> DEFINE read == [i \in 1..n |-> [sibling |-> b[off + 2 * i + 1],
                                     left    |-> b[off + 2 * i] = Num(1)]]
<1>10. readProofSteps(b, off) = [err |-> "nil", steps |-> read, off |-> off + 1 + 2 * n]
  <2>1. ~(off + 1 + 2 * n > Len(b)) /\ ~(n > maxProofSteps)
    BY <1>1, <1>3, <1>9 DEF n
  <2>2. ~(\E i \in 1..n : ~FlagRead(b[off + 2 * i]) \/ ~IsDigest(b[off + 2 * i + 1]))
    BY <1>8
  <2> QED
    BY <1>5, <2>1, <2>2, Zenon DEF readProofSteps
<1>11. read = path
  <2>1. DOMAIN path = 1..n /\ path = [i \in DOMAIN path |-> path[i]]
    <3>1. path \in Seq({path[i] : i \in DOMAIN path})
      BY DEF Clean, IsSeq
    <3>2. path \in [1..n -> {path[i] : i \in DOMAIN path}]
      BY <3>1, LenProperties DEF n
    <3> QED
      BY <3>2
  <2>2. \A i \in 1..n : path[i] = [sibling |-> path[i].sibling, left |-> path[i].left]
    BY DEF Clean, IsStep, n
  <2>3. \A i \in 1..n : [sibling |-> b[off + 2 * i + 1], left |-> b[off + 2 * i] = Num(1)] = path[i]
    BY <1>6, <1>8, <2>2
  <2>4. read = [i \in 1..n |-> path[i]]
    BY <2>3
  <2> QED
    BY <2>1, <2>4
<1> QED
  BY <1>10, <1>11 DEF n

\* Every cell of a written path is a digest or an integer.
Plain(b) == \A i \in DOMAIN b : IsDigest(b[i]) \/ \E k \in Nat : b[i] = Num(k)

\* The steps of a path are written in nothing else.
LEMMA StepsArePlain ==
  ASSUME NEW path, Clean(path)
  PROVE  Plain(appendProofSteps(path))
<1> DEFINE n == Len(path)
           d == appendProofSteps(path)
<1>1. /\ IsSeq(d) /\ n \in Nat /\ Len(d) = 1 + 2 * n /\ d[1] = Num(n)
      /\ \A j \in 1..n : /\ d[2 * j] = Num(IF path[j].left THEN 1 ELSE 0)
                         /\ d[2 * j + 1] = path[j].sibling
  BY StepsWritten
<1>2. \A j \in 1..n : IsDigest(path[j].sibling)
  BY DEF Clean, IsStep
<1> HIDE DEF n, d
<1>3. DOMAIN d = 1..(1 + 2 * n)
  BY <1>1, LenProperties DEF IsSeq
<1>4. ASSUME NEW i \in 1..(1 + 2 * n)
      PROVE  IsDigest(d[i]) \/ \E k \in Nat : d[i] = Num(k)
  <2>1. CASE i = 1
    BY <1>1, <2>1
  <2>2. CASE i # 1
    <3>1. PICK j \in 1..n : i = 2 * j \/ i = 2 * j + 1
      <4>1. ASSUME NEW k \in Nat, NEW j \in 1..(1 + 2 * k), j # 1
            PROVE  j \div 2 \in 1..k /\ (j = 2 * (j \div 2) \/ j = 2 * (j \div 2) + 1)
        BY <4>1
      <4> QED
        BY <1>1, <2>2, <4>1
    <3>2. (IF path[j].left THEN 1 ELSE 0) \in Nat
      OBVIOUS
    <3> QED
      BY <1>1, <1>2, <3>1, <3>2
  <2> QED
    BY <2>1, <2>2
<1> QED
  BY <1>3, <1>4 DEF Plain, d

\* Cells followed by cells are cells.
LEMMA PlainJoined ==
  ASSUME NEW v, NEW w, IsSeq(v), IsSeq(w), Plain(v), Plain(w)
  PROVE  Plain(v \o w)
<1> SUFFICES ASSUME NEW i \in DOMAIN (v \o w)
             PROVE  IsDigest((v \o w)[i]) \/ \E k \in Nat : (v \o w)[i] = Num(k)
  BY DEF Plain
<1>1. \/ \E j \in DOMAIN v : (v \o w)[i] = v[j]
      \/ \E j \in DOMAIN w : (v \o w)[i] = w[j]
  BY JoinedFrom
<1> QED
  BY <1>1 DEF Plain

\* What UnmarshalProofBinary makes of cells whose two paths are read.
LEMMA PathsUnmarshalled ==
  ASSUME NEW b, b # <<>>, b[1] = Num(proofBinaryVersion), NEW off, NEW x, NEW y,
         readProofSteps(b, 1) = [err |-> "nil", steps |-> x, off |-> off],
         readProofSteps(b, off) = [err |-> "nil", steps |-> y, off |-> Len(b)]
  PROVE  UnmarshalProofBinary(b) = [err |-> "nil", proof |-> [nsPath |-> x, globalPath |-> y]]
<1> DEFINE ns == readProofSteps(b, 1)
           global == readProofSteps(b, ns.off)
<1>1. \A u, v, z : z = [err |-> "nil", steps |-> u, off |-> v]
                     => z.err = "nil" /\ z.steps = u /\ z.off = v
  OBVIOUS
<1>2. ns.err = "nil" /\ ns.steps = x /\ ns.off = off
  BY <1>1
<1>3. global.err = "nil" /\ global.steps = y /\ global.off = Len(b)
  BY <1>1, <1>2
<1>4. UnmarshalProofBinary(b) =
        IF b = <<>> \/ b[1] # Num(proofBinaryVersion) THEN NotAProof
        ELSE IF ns.err # "nil" \/ global.err # "nil" \/ global.off # Len(b) THEN NotAProof
        ELSE [err |-> "nil", proof |-> [nsPath |-> ns.steps, globalPath |-> global.steps]]
  BY Zenon DEF UnmarshalProofBinary
<1> HIDE DEF ns, global
<1> QED
  BY <1>2, <1>3, <1>4, Zenon

\* UnmarshalProofBinary reads what MarshalBinary writes (proof.go:139-188).
LEMMA PathsRead ==
  ASSUME NEW p, NEW q, Clean(p), Clean(q),
         ~(Len(p) > maxProofSteps), ~(Len(q) > maxProofSteps)
  PROVE  LET b == <<Num(proofBinaryVersion)>> \o appendProofSteps(p) \o appendProofSteps(q)
         IN  /\ IsSeq(b) /\ Plain(b)
             /\ UnmarshalProofBinary(b)
                  = [err |-> "nil", proof |-> [nsPath |-> p, globalPath |-> q]]
<1> DEFINE v == <<Num(proofBinaryVersion)>>
           a == appendProofSteps(p)
           c == appendProofSteps(q)
           w == v \o a
           b == w \o c
           m == Len(p)
           n == Len(q)
<1>1. IsSeq(v) /\ Len(v) = 1 /\ v[1] = Num(proofBinaryVersion)
  BY OneIsSeq
<1>2. /\ IsSeq(a) /\ m \in Nat /\ Len(a) = 1 + 2 * m
      /\ IsSeq(c) /\ n \in Nat /\ Len(c) = 1 + 2 * n
  BY StepsWritten
<1>3. Plain(a) /\ Plain(c)
  BY StepsArePlain
<1>4. Plain(v)
  <2>1. DOMAIN v = 1..1
    BY <1>1, LenProperties DEF IsSeq
  <2>2. 1 \in Nat /\ v[1] = Num(1)
    BY <1>1 DEF proofBinaryVersion
  <2> HIDE DEF v
  <2> QED
    BY <2>1, <2>2 DEF Plain
<1> HIDE DEF v, a, c
<1>5. /\ IsSeq(w) /\ Len(w) = Len(v) + Len(a)
      /\ \A i \in 1..Len(v) : w[i] = v[i]
      /\ \A i \in 1..Len(a) : w[Len(v) + i] = a[i]
  <2>1. IsSeq(v) /\ IsSeq(a)
    BY <1>1, <1>2
  <2> QED
    BY <2>1, Joined
<1>6. Plain(w)
  BY <1>1, <1>2, <1>3, <1>4, PlainJoined
<1> HIDE DEF w
<1>7. /\ IsSeq(b) /\ Len(b) = Len(w) + Len(c)
      /\ \A i \in 1..Len(w) : b[i] = w[i]
      /\ \A i \in 1..Len(c) : b[Len(w) + i] = c[i]
  BY <1>2, <1>5, Joined
<1>8. Plain(b)
  BY <1>2, <1>3, <1>5, <1>6, PlainJoined
<1> HIDE DEF b
<1> DEFINE la == Len(a)
           lw == Len(w)
           lc == Len(c)
           lb == Len(b)
<1>9. /\ m \in Nat /\ n \in Nat /\ la = 1 + 2 * m /\ lc = 1 + 2 * n /\ lw = 1 + la /\ lb = lw + lc
  BY <1>1, <1>2, <1>5, <1>7
<1>10. /\ w[1] = v[1] /\ \A i \in 1..la : w[1 + i] = a[i]
       /\ \A i \in 1..lw : b[i] = w[i]
       /\ \A i \in 1..lc : b[lw + i] = c[i]
  BY <1>1, <1>5, <1>7
<1>11. Len(b) = lb /\ Len(a) = la /\ Len(c) = lc /\ ~(m > maxProofSteps) /\ ~(n > maxProofSteps)
  OBVIOUS
<1> HIDE DEF m, n, la, lw, lc, lb
<1>12. b[1] = Num(proofBinaryVersion) /\ b # <<>>
  <2>1. 1 \in 1..lw
    BY <1>9
  <2>2. lb # 0
    BY <1>9
  <2> QED
    BY <1>1, <1>10, <1>11, <2>1, <2>2, NoneIsSeq
<1>13. Continues(b, 1, a)
  <2>1. ASSUME NEW i \in 1..la PROVE b[1 + i] = a[i]
    <3>1. 1 + i \in 1..lw
      BY <1>9
    <3> QED
      BY <1>10, <3>1
  <2>2. 1 \in Nat /\ lb \in Nat /\ 1 + la <= lb
    BY <1>9
  <2> QED
    BY <1>11, <2>1, <2>2 DEF Continues
<1>14. Continues(b, lw, c)
  <2>1. lw \in Nat /\ lb \in Nat /\ lw + lc <= lb
    BY <1>9
  <2> QED
    BY <1>10, <1>11, <2>1 DEF Continues
<1>15. 1 + 1 + 2 * m = lw /\ lw + 1 + 2 * n = lb
  BY <1>9
<1>16. readProofSteps(b, 1) = [err |-> "nil", steps |-> p, off |-> lw]
  <2>1. readProofSteps(b, 1) = [err |-> "nil", steps |-> p, off |-> 1 + 1 + 2 * Len(p)]
    BY <1>13, StepsRead DEF a
  <2> QED
    BY <1>15, <2>1, Zenon DEF m
<1>17. readProofSteps(b, lw) = [err |-> "nil", steps |-> q, off |-> Len(b)]
  <2>1. readProofSteps(b, lw) = [err |-> "nil", steps |-> q, off |-> lw + 1 + 2 * Len(q)]
    BY <1>14, StepsRead DEF c
  <2> QED
    BY <1>11, <1>15, <2>1, Zenon DEF n
<1>18. UnmarshalProofBinary(b)
         = [err |-> "nil", proof |-> [nsPath |-> p, globalPath |-> q]]
  <2> DEFINE x == p
             y == q
  <2>1. /\ readProofSteps(b, 1) = [err |-> "nil", steps |-> x, off |-> lw]
        /\ readProofSteps(b, lw) = [err |-> "nil", steps |-> y, off |-> Len(b)]
    BY <1>16, <1>17
  <2> HIDE DEF x, y
  <2>2. UnmarshalProofBinary(b) = [err |-> "nil", proof |-> [nsPath |-> x, globalPath |-> y]]
    BY <1>12, <2>1, PathsUnmarshalled
  <2> QED
    BY <2>2 DEF x, y
<1> QED
  BY <1>7, <1>8, <1>18, Zenon DEF b, w, v, a, c

-----------------------------------------------------------------------------
(***************************************************************************)
(* The fields of a binary envelope.                                        *)
(***************************************************************************)
\* What lies between two positions of a sequence.
IsPart(u, b, m, n) == /\ IsSeq(u) /\ Len(u) = n - m + 1 /\ DOMAIN u = 1..(n - m + 1)
                      /\ \A i \in 1..(n - m + 1) : u[i] = b[m + i - 1]

\* SubSeq takes that part.
LEMMA PartOf ==
  ASSUME NEW b, NEW m \in Nat, NEW n \in Nat, 0 < m, m <= n + 1
  PROVE  IsPart(SubSeq(b, m, n), b, m, n)
<1> DEFINE S == {b[i] : i \in m..n}
           u == SubSeq(b, m, n)
           k == n - m + 1
<1>1. \A i \in m..n : b[i] \in S
  OBVIOUS
<1> HIDE DEF S
<1>2. /\ u \in Seq(S) /\ Len(u) = IF m <= n THEN n - m + 1 ELSE 0
      /\ \A i \in 1..(n - m + 1) : u[i] = b[m + i - 1]
  BY <1>1, SubSeqProperties
<1>3. k \in Nat /\ Len(u) = k
  BY <1>2
<1> HIDE DEF u
<1>4. u \in [1..k -> S] /\ DOMAIN u = 1..k
  BY <1>2, <1>3, LenProperties
<1>5. u = [i \in 1..k |-> u[i]]
  BY <1>4
<1> HIDE DEF k
<1>6. IsSeq(u)
  BY <1>3, <1>5, FunctionIsSeq
<1> QED
  BY <1>2, <1>3, <1>4, <1>6 DEF u, k, IsPart

\* Sequences with the same elements are the same.
LEMMA SameSeq ==
  ASSUME NEW v, NEW w, IsSeq(v), IsSeq(w), Len(v) = Len(w), \A i \in 1..Len(v) : v[i] = w[i]
  PROVE  v = w
<1>1. ASSUME NEW x, IsSeq(x) PROVE x = [i \in 1..Len(x) |-> x[i]]
  <2>1. x \in Seq({x[i] : i \in DOMAIN x})
    BY <1>1 DEF IsSeq
  <2>2. x \in [1..Len(x) -> {x[i] : i \in DOMAIN x}]
    BY <2>1, LenProperties
  <2> QED
    BY <2>2
<1>2. v = [i \in 1..Len(v) |-> v[i]] /\ w = [i \in 1..Len(v) |-> w[i]]
  BY <1>1
<1> QED
  BY <1>2

\* A field is its length and its cells.
LEMMA FramedIs ==
  ASSUME NEW f, IsSeq(f)
  PROVE  /\ IsSeq(Framed(f)) /\ Len(f) \in Nat /\ Len(Framed(f)) = 1 + Len(f)
         /\ Framed(f)[1] = Num(Len(f))
         /\ \A i \in 1..Len(f) : Framed(f)[1 + i] = f[i]
<1> DEFINE h == <<Num(Len(f))>>
<1>1. IsSeq(h) /\ Len(h) = 1 /\ h[1] = Num(Len(f))
  BY OneIsSeq
<1>2. Framed(f) = h \o f
  BY DEF Framed
<1> HIDE DEF h
<1>3. /\ IsSeq(h \o f) /\ Len(f) \in Nat /\ Len(h \o f) = Len(h) + Len(f)
      /\ \A i \in 1..Len(h) : (h \o f)[i] = h[i]
      /\ \A i \in 1..Len(f) : (h \o f)[Len(h) + i] = f[i]
  <2>1. IsSeq(h)
    BY <1>1
  <2> QED
    BY <2>1, Joined
<1> QED
  BY <1>1, <1>2, <1>3

\* b starts with u.
Starts(b, u) == /\ IsSeq(b) /\ IsSeq(u) /\ Len(b) \in Nat /\ Len(u) \in 0..Len(b)
                /\ \A i \in 1..Len(u) : b[i] = u[i]

\* What starts with a longer sequence starts with a shorter one.
LEMMA StartsShort ==
  ASSUME NEW b, NEW u, NEW w, IsSeq(u), IsSeq(w), Starts(b, u \o w)
  PROVE  Starts(b, u)
<1> DEFINE v == u \o w
<1>1. /\ Len(u) \in Nat /\ Len(w) \in Nat /\ Len(v) = Len(u) + Len(w)
      /\ \A i \in 1..Len(u) : v[i] = u[i]
  BY Joined
<1>2. IsSeq(b) /\ Len(b) \in Nat /\ Len(v) \in 0..Len(b) /\ \A i \in 1..Len(v) : b[i] = v[i]
  BY DEF Starts
<1> HIDE DEF v
<1> QED
  BY <1>1, <1>2 DEF Starts

\* A field is read where it was written.
LEMMA FieldRead ==
  ASSUME NEW b, NEW u, NEW f, IsSeq(u), IsSeq(f), Len(u) # 0, Starts(b, u \o Framed(f))
  PROVE  FieldEnd(b, Len(u)) = Len(u \o Framed(f)) /\ FieldIn(b, Len(u)) = f
<1> DEFINE n == Len(u)
           l == Len(f)
           w == Framed(f)
           v == u \o w
           m == Len(v)
<1>1. /\ IsSeq(w) /\ l \in Nat /\ Len(w) = 1 + l /\ w[1] = Num(l)
      /\ \A i \in 1..l : w[1 + i] = f[i]
  BY FramedIs
<1>3. IsSeq(b) /\ Len(b) \in Nat /\ m \in 0..Len(b) /\ \A i \in 1..m : b[i] = v[i]
  BY DEF Starts
<1> HIDE DEF w
<1>2. /\ n \in Nat /\ m = n + Len(w)
      /\ \A i \in 1..Len(w) : v[n + i] = w[i]
  BY <1>1, Joined
<1>4. n # 0
  OBVIOUS
<1> HIDE DEF n, l, v, m
<1>5. m = n + 1 + l
  BY <1>1, <1>2
<1>6. b[n + 1] = Num(l) /\ n < Len(b)
  <2>1. 1 \in 1..Len(w) /\ n + 1 \in 1..m /\ n < Len(b)
    BY <1>1, <1>2, <1>3, <1>5
  <2> QED
    BY <1>1, <1>2, <1>3, <2>1
<1>7. IsNum(b, n) /\ NumAt(b, n) = l
  BY <1>6, NumRead DEF IsNum, NumAt
<1>8. FieldEnd(b, n) = m
  <2>1. ~(n + 1 + l > Len(b)) /\ m = n + 1 + l
    BY <1>1, <1>2, <1>3, <1>5
  <2> QED
    BY <1>4, <1>7, <2>1 DEF FieldEnd
<1>9. FieldIn(b, n) = SubSeq(b, n + 2, m)
  BY <1>8 DEF FieldIn
<1> DEFINE s == SubSeq(b, n + 2, m)
<1>10. /\ IsSeq(s) /\ Len(s) = l
       /\ \A i \in 1..l : s[i] = b[n + 2 + i - 1]
  <2> DEFINE k == n + 2
  <2>1. k \in Nat /\ m \in Nat /\ 0 < k /\ k <= m + 1 /\ m - k + 1 = l
    BY <1>1, <1>2, <1>5
  <2> HIDE DEF k
  <2>2. IsPart(SubSeq(b, k, m), b, k, m)
    BY <2>1, PartOf
  <2> QED
    BY <2>1, <2>2 DEF k, IsPart
<1>11. \A i \in 1..l : s[i] = f[i]
  <2> TAKE i \in 1..l
  <2>1. /\ 1 + i \in 1..Len(w) /\ n + (1 + i) \in 1..m /\ n + 2 + i - 1 = n + (1 + i)
    BY <1>1, <1>2, <1>5
  <2>2. s[i] = b[n + (1 + i)]
    BY <1>10, <2>1
  <2> QED
    BY <1>1, <1>2, <1>3, <2>1, <2>2
<1>12. s = f
  <2> HIDE DEF s
  <2> QED
    BY <1>10, <1>11, SameSeq DEF l
<1> QED
  BY <1>8, <1>9, <1>12 DEF n, m, v, w

\* One field more is behind those before it.
LEMMA FieldBehind ==
  ASSUME NEW u, NEW f, IsSeq(u), IsSeq(f), Len(u) # 0
  PROVE  IsSeq(u \o Framed(f)) /\ Len(u \o Framed(f)) # 0 /\ Starts(u \o Framed(f), u)
<1> DEFINE w == Framed(f)
           v == u \o w
<1>1. IsSeq(w)
  BY FramedIs
<1> HIDE DEF w
<1>2. /\ IsSeq(v) /\ Len(u) \in Nat /\ Len(w) \in Nat /\ Len(v) = Len(u) + Len(w)
      /\ \A i \in 1..Len(u) : v[i] = u[i]
  BY <1>1, Joined
<1> HIDE DEF v
<1>3. Len(v) # 0 /\ Len(v) \in Nat /\ Len(u) \in 0..Len(v)
  BY <1>2
<1> QED
  BY <1>2, <1>3 DEF Starts, v, w

\* A sequence starts with itself.
LEMMA StartsWhole == ASSUME NEW b, IsSeq(b) PROVE Starts(b, b)
<1>1. Len(b) \in Nat
  BY LenProperties DEF IsSeq
<1> QED
  BY <1>1 DEF Starts

\* The fields of an envelope are read as they were written
\* (cmd/scls/proof.go:213-287).
LEMMA EnvelopeFieldsRead ==
  ASSUME NEW version, NEW ns, NEW key, NEW value, NEW root, NEW proof,
         IsSeq(ns), IsSeq(key), IsSeq(value), IsSeq(root), IsSeq(proof), validUtf8(ns)
  PROVE  LET b == <<proofMagic, Num(version)>> \o Framed(ns) \o Framed(key) \o Framed(value)
                                               \o Framed(root) \o Framed(proof)
         IN  /\ IsSeq(b) /\ b # <<>> /\ b[1] = proofMagic
             /\ unmarshalEnvelopeBinary(b)
                  = [err |-> "nil", env |-> Envelope(version, ns, key, value, root, proof)]
<1> DEFINE u0 == <<proofMagic, Num(version)>>
           u1 == u0 \o Framed(ns)
           u2 == u1 \o Framed(key)
           u3 == u2 \o Framed(value)
           u4 == u3 \o Framed(root)
           b  == u4 \o Framed(proof)
<1>1. IsSeq(u0) /\ Len(u0) = 2 /\ u0[1] = proofMagic /\ u0[2] = Num(version)
  <2>1. u0 \in Seq({u0[i] : i \in DOMAIN u0})
    OBVIOUS
  <2> QED
    BY <2>1 DEF IsSeq
<1> HIDE DEF u0
<1>2. IsSeq(u1) /\ Len(u1) # 0 /\ Starts(u1, u0)
  BY <1>1, FieldBehind
<1>3. IsSeq(u2) /\ Len(u2) # 0
  <2> HIDE DEF u1
  <2> QED
    BY <1>2, FieldBehind
<1>4. IsSeq(u3) /\ Len(u3) # 0
  <2> HIDE DEF u1, u2
  <2> QED
    BY <1>3, FieldBehind
<1>5. IsSeq(u4) /\ Len(u4) # 0
  <2> HIDE DEF u1, u2, u3
  <2> QED
    BY <1>4, FieldBehind
<1>6. IsSeq(b) /\ Len(b) # 0
  <2> HIDE DEF u1, u2, u3, u4
  <2> QED
    BY <1>5, FieldBehind
<1>7. Starts(b, b)
  <2> HIDE DEF b
  <2> QED
    BY <1>6, StartsWhole
<1>8. Starts(b, u4)
  <2> DEFINE w == Framed(proof)
  <2>1. IsSeq(w)
    BY FramedIs
  <2>2. Starts(b, u4 \o w)
    BY <1>7
  <2> HIDE DEF b, u4, w
  <2> QED
    BY <1>5, <2>1, <2>2, StartsShort
<1> HIDE DEF b
<1>9. Starts(b, u3)
  <2> DEFINE w == Framed(root)
  <2>1. IsSeq(w) /\ Starts(b, u3 \o w)
    BY <1>8, FramedIs
  <2> HIDE DEF u3, w
  <2> QED
    BY <1>4, <2>1, StartsShort
<1>10. Starts(b, u2)
  <2> DEFINE w == Framed(value)
  <2>1. IsSeq(w) /\ Starts(b, u2 \o w)
    BY <1>9, FramedIs
  <2> HIDE DEF u2, w
  <2> QED
    BY <1>3, <2>1, StartsShort
<1>11. Starts(b, u1)
  <2> DEFINE w == Framed(key)
  <2>1. IsSeq(w) /\ Starts(b, u1 \o w)
    BY <1>10, FramedIs
  <2> HIDE DEF u1, w
  <2> QED
    BY <1>2, <2>1, StartsShort
<1>12. Starts(b, u0)
  <2> DEFINE w == Framed(ns)
  <2>1. IsSeq(w) /\ Starts(b, u0 \o w)
    BY <1>11, FramedIs
  <2> HIDE DEF w
  <2> QED
    BY <1>1, <2>1, StartsShort
<1>13. /\ FieldEnd(b, Len(u0)) = Len(u1) /\ FieldIn(b, Len(u0)) = ns
       /\ FieldEnd(b, Len(u1)) = Len(u2) /\ FieldIn(b, Len(u1)) = key
       /\ FieldEnd(b, Len(u2)) = Len(u3) /\ FieldIn(b, Len(u2)) = value
       /\ FieldEnd(b, Len(u3)) = Len(u4) /\ FieldIn(b, Len(u3)) = root
       /\ FieldEnd(b, Len(u4)) = Len(b) /\ FieldIn(b, Len(u4)) = proof
  <2>1. FieldEnd(b, Len(u0)) = Len(u1) /\ FieldIn(b, Len(u0)) = ns
    <3>1. IsSeq(u0) /\ Len(u0) # 0 /\ Starts(b, u0 \o Framed(ns))
      BY <1>1, <1>11
    <3>2. FieldEnd(b, Len(u0)) = Len(u0 \o Framed(ns)) /\ FieldIn(b, Len(u0)) = ns
      BY <3>1, FieldRead
    <3> QED
      BY <3>2
  <2>2. FieldEnd(b, Len(u1)) = Len(u2) /\ FieldIn(b, Len(u1)) = key
    <3>1. Starts(b, u1 \o Framed(key))
      BY <1>10
    <3> HIDE DEF u1
    <3>2. FieldEnd(b, Len(u1)) = Len(u1 \o Framed(key)) /\ FieldIn(b, Len(u1)) = key
      BY <1>2, <3>1, FieldRead
    <3> QED
      BY <3>2
  <2>3. FieldEnd(b, Len(u2)) = Len(u3) /\ FieldIn(b, Len(u2)) = value
    <3>1. Starts(b, u2 \o Framed(value))
      BY <1>9
    <3> HIDE DEF u2
    <3>2. FieldEnd(b, Len(u2)) = Len(u2 \o Framed(value)) /\ FieldIn(b, Len(u2)) = value
      BY <1>3, <3>1, FieldRead
    <3> QED
      BY <3>2
  <2>4. FieldEnd(b, Len(u3)) = Len(u4) /\ FieldIn(b, Len(u3)) = root
    <3>1. Starts(b, u3 \o Framed(root))
      BY <1>8
    <3> HIDE DEF u3
    <3>2. FieldEnd(b, Len(u3)) = Len(u3 \o Framed(root)) /\ FieldIn(b, Len(u3)) = root
      BY <1>4, <3>1, FieldRead
    <3> QED
      BY <3>2
  <2>5. FieldEnd(b, Len(u4)) = Len(b) /\ FieldIn(b, Len(u4)) = proof
    <3>1. Starts(b, u4 \o Framed(proof)) /\ b = u4 \o Framed(proof)
      BY <1>7 DEF b
    <3> HIDE DEF u4
    <3>2. FieldEnd(b, Len(u4)) = Len(u4 \o Framed(proof)) /\ FieldIn(b, Len(u4)) = proof
      BY <1>5, <3>1, FieldRead
    <3> QED
      BY <3>1, <3>2
  <2> QED
    BY <2>1, <2>2, <2>3, <2>4, <2>5
<1>14. b[1] = proofMagic /\ b[2] = Num(version) /\ 1 < Len(b)
  <2>1. Len(b) \in Nat /\ 2 \in 0..Len(b) /\ \A i \in 1..2 : b[i] = u0[i]
    BY <1>1, <1>12 DEF Starts
  <2> QED
    BY <1>1, <2>1
<1>15. IsNum(b, 1) /\ NumAt(b, 1) = version
  BY <1>14, NumRead DEF IsNum, NumAt
<1> DEFINE l1 == Len(u1)
           l2 == Len(u2)
           l3 == Len(u3)
           l4 == Len(u4)
           l5 == Len(b)
<1>16. /\ FieldEnd(b, 2) = l1 /\ FieldEnd(b, l1) = l2 /\ FieldEnd(b, l2) = l3
       /\ FieldEnd(b, l3) = l4 /\ FieldEnd(b, l4) = l5 /\ l5 = Len(b) /\ l5 # 0
       /\ FieldIn(b, 2) = ns /\ FieldIn(b, l1) = key /\ FieldIn(b, l2) = value
       /\ FieldIn(b, l3) = root /\ FieldIn(b, l4) = proof
  <2>1. Len(b) # 0
    BY <1>6 DEF b
  <2> QED
    BY <1>1, <1>13, <2>1
<1> HIDE DEF l1, l2, l3, l4, l5
<1>17. unmarshalEnvelopeBinary(b)
         = [err |-> "nil", env |-> Envelope(version, ns, key, value, root, proof)]
  BY <1>15, <1>16 DEF unmarshalEnvelopeBinary, EndsThere
<1>18. IsSeq(b) /\ b # <<>>
  <2>1. IsSeq(b) /\ Len(b) # 0
    BY <1>6 DEF b
  <2> QED
    BY <2>1, NoneIsSeq
<1>19. b = <<proofMagic, Num(version)>> \o Framed(ns) \o Framed(key) \o Framed(value)
                                        \o Framed(root) \o Framed(proof)
  BY DEF b, u4, u3, u2, u1, u0
<1> QED
  BY <1>14, <1>17, <1>18, <1>19

\* Of some positions of a sequence one is the last.
LEMMA LastOf ==
  ASSUME NEW n \in Nat, NEW t \in SUBSET (1..n), t # {}
  PROVE  \E m \in t : \A y \in t : y <= m
<1> DEFINE S == {k \in Nat : \A u \in SUBSET (1..k) : u # {} => \E m \in u : \A y \in u : y <= m}
<1>1. S \in SUBSET Nat
  OBVIOUS
<1>2. 0 \in S
  <2>1. 1..0 = {}
    OBVIOUS
  <2> QED
    BY <2>1
<1>3. ASSUME NEW k \in S PROVE k + 1 \in S
  <2>1. k \in Nat /\ \A u \in SUBSET (1..k) : u # {} => \E m \in u : \A y \in u : y <= m
    OBVIOUS
  <2>2. ASSUME NEW u \in SUBSET (1..(k + 1)), u # {} PROVE \E m \in u : \A y \in u : y <= m
    <3>1. CASE k + 1 \in u
      <4>1. \A y \in u : y <= k + 1
        BY <2>1
      <4> QED
        BY <3>1, <4>1
    <3>2. CASE k + 1 \notin u
      <4>1. \A y \in 1..(k + 1) : y # k + 1 => y \in 1..k
        BY <2>1
      <4>2. u \in SUBSET (1..k)
        BY <3>2, <4>1
      <4> QED
        BY <2>1, <2>2, <4>2
    <3> QED
      BY <3>1, <3>2
  <2> QED
    BY <2>1, <2>2
<1>4. S = Nat
  <2> HIDE DEF S
  <2> QED
    BY <1>1, <1>2, <1>3, NatInduct
<1> QED
  BY <1>4

\* What json.Unmarshal makes of a field: the text of one that has its name, or
\* zero.
LEMMA JsonField ==
  ASSUME NEW fields, IsSeq(fields), NEW name \in DOMAIN NoEnvelope
  PROVE  \/ JsonEnvelope(fields)[name] = NoEnvelope[name]
         \/ \E i \in DOMAIN fields : /\ fields[i].name = name
                                     /\ JsonEnvelope(fields)[name] = fields[i].is
<1> DEFINE of == {i \in DOMAIN fields : fields[i].name = name}
           last == CHOOSE i \in of : \A j \in of : j <= i
<1>1. JsonEnvelope(fields)[name] = IF of = {} THEN NoEnvelope[name] ELSE fields[last].is
  BY DEF JsonEnvelope
<1>2. ASSUME of # {} PROVE last \in of
  <2>1. DOMAIN fields = 1..Len(fields) /\ Len(fields) \in Nat
    BY LenProperties DEF IsSeq
  <2>2. of \in SUBSET (1..Len(fields))
    BY <2>1
  <2> HIDE DEF of
  <2>3. \E i \in of : \A j \in of : j <= i
    BY <1>2, <2>1, <2>2, LastOf
  <2> QED
    BY <2>3
<1> HIDE DEF last
<1> QED
  BY <1>1, <1>2

\* The names of the fields are six, and the record has no other.
LEMMA SixNames ==
  /\ DOMAIN FieldNames = 1..6
  /\ DOMAIN NoEnvelope = {FieldNames[i] : i \in 1..6}
  /\ \A i, j \in 1..6 : FieldNames[i] = FieldNames[j] => i = j
<1>1. /\ DOMAIN FieldNames = 1..6
      /\ FieldNames[1] = "version" /\ FieldNames[2] = "namespace" /\ FieldNames[3] = "key"
      /\ FieldNames[4] = "value" /\ FieldNames[5] = "root" /\ FieldNames[6] = "proof"
  BY DEF FieldNames
<1>2. DOMAIN NoEnvelope = {"version", "namespace", "key", "value", "root", "proof"}
  BY DEF NoEnvelope, Envelope
<1>3. 1..6 = {1, 2, 3, 4, 5, 6}
  OBVIOUS
<1>4. DOMAIN NoEnvelope = {FieldNames[i] : i \in 1..6}
  BY <1>1, <1>2, <1>3
<1>5. \A i, j \in {1, 2, 3, 4, 5, 6} : FieldNames[i] = FieldNames[j] => i = j
  BY <1>1
<1> QED
  BY <1>1, <1>3, <1>4, <1>5

\* The JSON form is read as it was written.
LEMMA JsonRead ==
  ASSUME NEW version, NEW ns, NEW key, NEW value, NEW root, NEW proof
  PROVE  LET e == Envelope(version, ns, key, value, root, proof)
             fields == [i \in DOMAIN FieldNames |-> [name |-> FieldNames[i], is |-> e[FieldNames[i]]]]
         IN  JsonEnvelope(fields) = e
<1> DEFINE e == Envelope(version, ns, key, value, root, proof)
           fields == [i \in DOMAIN FieldNames |-> [name |-> FieldNames[i], is |-> e[FieldNames[i]]]]
<1>1. DOMAIN e = DOMAIN NoEnvelope /\ e = [name \in DOMAIN NoEnvelope |-> e[name]]
  <2>1. DOMAIN e = DOMAIN NoEnvelope
    BY DEF NoEnvelope, Envelope
  <2>2. e = [name \in DOMAIN e |-> e[name]]
    BY DEF Envelope
  <2> QED
    BY <2>1, <2>2
<1> HIDE DEF e
<1>2. DOMAIN fields = 1..6
  BY SixNames
<1>3. \A i \in 1..6 : fields[i].name = FieldNames[i] /\ fields[i].is = e[FieldNames[i]]
  <2> TAKE i \in 1..6
  <2>1. fields[i] = [name |-> FieldNames[i], is |-> e[FieldNames[i]]]
    BY SixNames
  <2> HIDE DEF fields
  <2> QED
    BY <2>1
<1> HIDE DEF fields
<1>4. ASSUME NEW name \in DOMAIN NoEnvelope
      PROVE  (IF {i \in DOMAIN fields : fields[i].name = name} = {} THEN NoEnvelope[name]
              ELSE fields[CHOOSE i \in {n \in DOMAIN fields : fields[n].name = name} :
                            \A j \in {n \in DOMAIN fields : fields[n].name = name} : j <= i].is)
             = e[name]
  <2>1. PICK k \in 1..6 : name = FieldNames[k]
    BY SixNames
  <2>2. {i \in DOMAIN fields : fields[i].name = name} = {k}
    BY <1>2, <1>3, <2>1, SixNames
  <2>3. (CHOOSE i \in {k} : \A j \in {k} : j <= i) = k
    OBVIOUS
  <2> QED
    BY <1>3, <2>1, <2>2, <2>3
<1>5. JsonEnvelope(fields) = [name \in DOMAIN NoEnvelope |-> e[name]]
  BY <1>4 DEF JsonEnvelope
<1>6. JsonEnvelope(fields) = e
  BY <1>1, <1>5
<1> QED
  BY <1>6 DEF fields, e

\* The root of leaves is a digest.
LEMMA RootIsDigest ==
  ASSUME NEW S, NEW s \in Seq(S), \A h \in S : IsLeaf(h)
  PROVE  IsDigest(Root(TreeOf(s)))
<1> DEFINE n == Len(s)
<1>1. n \in Nat /\ DOMAIN s = 1..n /\ \A i \in 1..n : IsLeaf(s[i])
  BY LenProperties, ElementOfSeq
<1>2. Root(TreeOf(s)) = IF s = <<>> THEN EmptyRoot ELSE Sub(s, 1, n)
  BY StackIsSplitTree, SplitRootIs
<1>3. CASE s = <<>>
  <2>1. <<"empty">>[1] = "empty"
    OBVIOUS
  <2> QED
    BY <1>2, <1>3, <2>1 DEF IsDigest, EmptyRoot
<1>4. CASE s # <<>>
  <2>1. n # 0
    BY <1>4, EmptySeq
  <2>2. n \in 1..n /\ 1 \in 1..(n - n + 1) /\ 1 \in 1..n
    BY <1>1, <2>1
  <2>3. Len(s) = n
    OBVIOUS
  <2> HIDE DEF n
  <2>4. /\ n = 1 => Sub(s, 1, n) = s[1]
        /\ n # 1 => LET k == SplitPoint(n)
                    IN  Sub(s, 1, n) = nodeDigest(Sub(s, 1, k), Sub(s, 1 + k, n - k))
    BY <1>1, <2>2, <2>3, SubSplits
  <2>5. IsDigest(s[1])
    BY <1>1, <2>2, LeafIsDigest
  <2> QED
    BY <1>2, <1>4, <2>4, <2>5, NodeIsDigest
<1> QED
  BY <1>3, <1>4

\* The envelope is read as it was written, in either form.
LEMMA EnvelopeRead ==
  ASSUME NEW ns, NEW key, NEW value, NEW root, NEW proof,
         IsSeq(ns), IsSeq(key), IsSeq(value), IsSeq(root), IsSeq(proof), validUtf8(ns),
         NEW format \in {"json", "binary"}
  PROVE  LET e == Envelope(proofEnvelopeVersion, ns, key, value, root, proof)
         IN  unmarshalEnvelope(marshalEnvelope(e, format)) = [err |-> "nil", env |-> e]
<1> DEFINE e == Envelope(proofEnvelopeVersion, ns, key, value, root, proof)
           r == [err |-> "nil", env |-> e]
<1>1. /\ e.version = proofEnvelopeVersion /\ e.namespace = ns /\ e.key = key
      /\ e.value = value /\ e.root = root /\ e.proof = proof
  BY DEF Envelope
<1>2. CASE format = "json"
  <2> DEFINE fields == [i \in DOMAIN FieldNames |-> [name |-> FieldNames[i], is |-> e[FieldNames[i]]]]
             raw0 == Json(fields)
  <2>1. JsonEnvelope(fields) = e
    BY JsonRead
  <2>2. marshalEnvelope(e, format) = raw0
    BY <1>2 DEF marshalEnvelope
  <2> HIDE DEF fields
  <2>3. raw0.form = "json" /\ raw0.fields = fields
    BY DEF Json
  <2>4. r.err = "nil" /\ r.env = e
    OBVIOUS
  <2> HIDE DEF raw0, e
  <2>5. unmarshalEnvelope(raw0) = r
    BY <1>1, <2>1, <2>3, <2>4 DEF unmarshalEnvelope
  <2> QED
    BY <2>2, <2>5 DEF e
<1>3. CASE format = "binary"
  <2> DEFINE b == <<proofMagic, Num(proofEnvelopeVersion)>> \o Framed(ns) \o Framed(key)
                    \o Framed(value) \o Framed(root) \o Framed(proof)
             raw0 == Binary(b)
  <2>1. b # <<>> /\ b[1] = proofMagic /\ unmarshalEnvelopeBinary(b) = r
    BY EnvelopeFieldsRead
  <2>2. marshalEnvelope(e, format) = raw0
    BY <1>1, <1>3 DEF marshalEnvelope, marshalEnvelopeBinary
  <2> HIDE DEF b
  <2>3. raw0.form = "binary" /\ raw0.cells = b
    BY DEF Binary
  <2>4. r.err = "nil" /\ r.env = e
    OBVIOUS
  <2> HIDE DEF raw0, e
  <2>5. unmarshalEnvelope(raw0) = r
    BY <1>1, <2>1, <2>3, <2>4 DEF unmarshalEnvelope
  <2> QED
    BY <2>2, <2>5 DEF e
<1> QED
  BY <1>2, <1>3

\* Digests and numbers are text.
LEMMA PlainDecodes == ASSUME NEW b, Plain(b) PROVE Decodes(b)
<1>1. Bad[1] = "bad" /\ "bad" # "num"
  BY DEF Bad
<1>2. \A c : IsDigest(c) => c # Bad
  BY <1>1 DEF IsDigest
<1>3. \A k : Num(k) # Bad
  BY <1>1, NumRead
<1> QED
  BY <1>2, <1>3 DEF Decodes, Plain

\* Bytes are text.
LEMMA BytesDecode == ASSUME NEW w \in Seq(ByteCells) PROVE Decodes(w) /\ IsSeq(w)
<1>1. Bad[1] = "bad" /\ "bad" # "num"
  BY DEF Bad
<1>2. \A k : Num(k) # Bad
  BY <1>1, NumRead
<1>3. \A i \in DOMAIN w : w[i] \in ByteCells
  BY LenProperties, ElementOfSeq
<1>4. IsSeq(w)
  <2>1. w \in [1..Len(w) -> ByteCells] /\ Len(w) \in Nat
    BY LenProperties
  <2>2. w = [i \in 1..Len(w) |-> w[i]]
    BY <2>1
  <2> QED
    BY <2>1, <2>2, FunctionIsSeq
<1> QED
  BY <1>2, <1>3, <1>4 DEF Decodes, ByteCells

\* A sequence over a set is a sequence.
LEMMA TypedIsSeq == ASSUME NEW S, NEW w \in Seq(S) PROVE IsSeq(w)
<1>1. w \in [1..Len(w) -> S] /\ Len(w) \in Nat
  BY LenProperties
<1>2. w = [i \in 1..Len(w) |-> w[i]]
  BY <1>1
<1> QED
  BY <1>1, <1>2, FunctionIsSeq

\* The proof of an entry in its envelope, as `scls proof generate` writes it.
Written(ps, i, j, ns, key, value, format) ==
  marshalEnvelope(
    Envelope(proofEnvelopeVersion, ns, key, value, <<GlobalRoot(ps)>>,
             MarshalBinary([nsPath     |-> provePath(ps[i], j),
                            globalPath |-> provePath(GlobalLeaves(ps), i)])), format)

\* Entry j of namespace i of a file that a path can be written for.
OfFile(S, ps, i, j) ==
  /\ \A h \in S : IsLeaf(h)
  /\ ps \in Seq(Seq(S)) /\ i \in DOMAIN ps /\ j \in DOMAIN ps[i]
  /\ Len(ps) <= Pow2(maxProofSteps) /\ Len(ps[i]) <= Pow2(maxProofSteps)

\* The bytes of an entry, whose digest is h.
BytesOf(ns, key, value, h) ==
  /\ ns \in Seq(ByteCells) /\ key \in Seq(ByteCells) /\ value \in Seq(ByteCells)
  /\ validUtf8(ns) /\ h = EntryDigestOf(ns, key, value)

\* The proof of an entry is written in digests and numbers, and is read back
\* (proof.go:133-188).
LEMMA ProofWritten ==
  ASSUME NEW S, NEW ps, NEW i, NEW j, OfFile(S, ps, i, j)
  PROVE  LET proof == [nsPath     |-> provePath(ps[i], j),
                       globalPath |-> provePath(GlobalLeaves(ps), i)]
             b     == MarshalBinary(proof)
         IN  /\ IsSeq(b) /\ Plain(b)
             /\ UnmarshalProofBinary(b) = [err |-> "nil", proof |-> proof]
             /\ VerifyLeaf(GlobalRoot(ps), ps[i][j], proof) = "nil"
<1> DEFINE s == ps[i]
           g == GlobalLeaves(ps)
           p == provePath(s, j)
           q == provePath(g, i)
           root == GlobalRoot(ps)
           proof == [nsPath |-> p, globalPath |-> q]
           b == MarshalBinary(proof)
           R == {NamespaceLeafDigest(Root(TreeOf(ps[k]))) : k \in DOMAIN ps}
<1>1. /\ \A h \in S : IsLeaf(h)
      /\ ps \in Seq(Seq(S)) /\ i \in DOMAIN ps /\ j \in DOMAIN ps[i]
      /\ Len(ps) <= Pow2(maxProofSteps) /\ Len(ps[i]) <= Pow2(maxProofSteps)
  BY DEF OfFile
<1>2. IsSeq(ps) /\ s \in Seq(S)
  <2>1. DOMAIN ps = 1..Len(ps)
    BY <1>1, LenProperties
  <2> QED
    BY <1>1, <2>1, ElementOfSeq, TypedIsSeq
<1>3. g \in Seq(R) /\ DOMAIN g = DOMAIN ps
  BY <1>2, GlobalLeavesOf
<1>4. \A h \in R : IsLeaf(h)
  <2>1. \A h : IsLeaf(NamespaceLeafDigest(h))
    BY DEF IsLeaf, NamespaceLeafDigest
  <2> QED
    BY <2>1
<1>5. VerifyLeaf(root, ps[i][j], proof) = "nil"
  BY <1>1, ProvedIsVerified
<1> HIDE DEF R
<1>6. Clean(p)
  <2>1. j \in DOMAIN s
    BY <1>1
  <2> HIDE DEF s
  <2> QED
    BY <1>1, <1>2, <2>1, PathIsClean
<1>7. Clean(q)
  <2>1. i \in DOMAIN g
    BY <1>1, <1>3
  <2> HIDE DEF g
  <2> QED
    BY <1>3, <1>4, <2>1, PathIsClean
<1> HIDE DEF s, g, p, q, root
<1>8. proof.nsPath = p /\ proof.globalPath = q
  OBVIOUS
<1>9. ~(Len(p) > maxProofSteps) /\ ~(Len(q) > maxProofSteps)
  <2> HIDE DEF proof
  <2> QED
    BY <1>5, <1>8 DEF VerifyLeaf
<1> DEFINE c == <<Num(proofBinaryVersion)>> \o appendProofSteps(p) \o appendProofSteps(q)
<1>10. /\ IsSeq(c) /\ Plain(c)
       /\ UnmarshalProofBinary(c) = [err |-> "nil", proof |-> proof]
  BY <1>6, <1>7, <1>9, PathsRead
<1>11. b = c
  BY <1>8 DEF MarshalBinary
<1> HIDE DEF c
<1>12. IsSeq(b) /\ Plain(b) /\ UnmarshalProofBinary(b) = [err |-> "nil", proof |-> proof]
  <2> HIDE DEF proof, b
  <2> QED
    BY <1>10, <1>11
<1> QED
  BY <1>5, <1>12 DEF b, proof, p, q, s, g, root

\* The proof in its envelope is accepted (cmd/scls/proof.go:93-148).
LEMMA WrittenIsAccepted ==
  ASSUME NEW S, NEW ps, NEW i, NEW j, OfFile(S, ps, i, j),
         NEW ns, NEW key, NEW value, BytesOf(ns, key, value, ps[i][j]),
         NEW format \in {"json", "binary"}, NEW pin, pin = NoPin \/ pin = <<GlobalRoot(ps)>>
  PROVE  ProofVerify(Written(ps, i, j, ns, key, value, format), pin) = "nil"
<1> DEFINE g == GlobalLeaves(ps)
           root == GlobalRoot(ps)
           proof == [nsPath |-> provePath(ps[i], j), globalPath |-> provePath(g, i)]
           b == MarshalBinary(proof)
<1>1. /\ ns \in Seq(ByteCells) /\ key \in Seq(ByteCells) /\ value \in Seq(ByteCells)
      /\ validUtf8(ns) /\ ps[i][j] = EntryDigestOf(ns, key, value)
  BY DEF BytesOf
<1>2. /\ IsSeq(b) /\ Plain(b)
      /\ UnmarshalProofBinary(b) = [err |-> "nil", proof |-> proof]
      /\ VerifyLeaf(root, ps[i][j], proof) = "nil"
  BY ProofWritten
<1>3. IsDigest(root)
  <2> DEFINE R == {NamespaceLeafDigest(Root(TreeOf(ps[k]))) : k \in DOMAIN ps}
  <2>1. IsSeq(ps)
    BY TypedIsSeq DEF OfFile
  <2>2. g \in Seq(R)
    BY <2>1, GlobalLeavesOf
  <2>3. \A h \in R : IsLeaf(h)
    <3>1. \A h : IsLeaf(NamespaceLeafDigest(h))
      BY DEF IsLeaf, NamespaceLeafDigest
    <3> QED
      BY <3>1
  <2>4. root = Root(TreeOf(g))
    BY DEF GlobalRoot
  <2> HIDE DEF R, g, root
  <2> QED
    BY <2>2, <2>3, <2>4, RootIsDigest
<1> HIDE DEF b, root, g
<1> DEFINE e == Envelope(proofEnvelopeVersion, ns, key, value, <<root>>, b)
<1>4. IsSeq(<<root>>) /\ Len(<<root>>) = 1 /\ <<root>>[1] = root
  BY OneIsSeq
<1>5. unmarshalEnvelope(marshalEnvelope(e, format)) = [err |-> "nil", env |-> e]
  BY <1>1, <1>2, <1>4, EnvelopeRead, BytesDecode
<1>6. /\ e.namespace = ns /\ e.key = key /\ e.value = value /\ e.root = <<root>> /\ e.proof = b
  BY DEF Envelope
<1> DEFINE raw0 == marshalEnvelope(e, format)
<1>7. raw0 = Written(ps, i, j, ns, key, value, format)
  BY DEF Written, root, b, g
<1> DEFINE u == unmarshalEnvelope(raw0)
           v == UnmarshalProofBinary(b)
<1>8. u.err = "nil" /\ u.env = e
  BY <1>5
<1>9. v.err = "nil" /\ v.proof = proof
  BY <1>2
<1>10. FieldsDecode(e) /\ Decodes(e.proof)
  <2>1. Decodes(e.key) /\ Decodes(e.value) /\ Decodes(e.proof)
    BY <1>1, <1>2, <1>6, BytesDecode, PlainDecodes
  <2>2. Len(e.root) = 1 /\ e.root[1] = root
    BY <1>4, <1>6
  <2> HIDE DEF e
  <2> QED
    BY <1>3, <2>1, <2>2 DEF FieldsDecode
<1>11. PinHolds(e, pin)
  BY <1>6 DEF PinHolds, root
<1>12. VerifyLeaf(e.root[1], EntryDigestOf(e.namespace, e.key, e.value), proof) = "nil"
  BY <1>1, <1>2, <1>4, <1>6
<1> HIDE DEF e, proof, raw0, u, v
<1>13. ProofVerify(raw0, pin) = "nil"
  <2>1. ProofVerify(raw0, pin) =
          IF u.err # "nil" THEN u.err
          ELSE IF ~FieldsDecode(u.env) THEN "invalid field"
          ELSE IF ~PinHolds(u.env, pin) THEN "root mismatch"
          ELSE IF ~Decodes(u.env.proof) THEN "invalid proof base64"
          ELSE IF UnmarshalProofBinary(u.env.proof).err # "nil"
            THEN UnmarshalProofBinary(u.env.proof).err
          ELSE VerifyLeaf(u.env.root[1], EntryDigestOf(u.env.namespace, u.env.key, u.env.value),
                          UnmarshalProofBinary(u.env.proof).proof)
    BY Zenon DEF ProofVerify, u
  <2>2. UnmarshalProofBinary(u.env.proof) = v
    BY <1>6, <1>8 DEF v
  <2> QED
    BY <1>8, <1>9, <1>10, <1>11, <1>12, <2>1, <2>2
<1> QED
  BY <1>7, <1>13

-----------------------------------------------------------------------------
(***************************************************************************)
(* What is read was written: the forms have no slack.                      *)
(***************************************************************************)
\* Whatever was done to a file, a cell that counts is a natural number.
IsCell(c) == c[1] = "num" => \E k \in Nat : c = Num(k)
Cells(b) == \A i \in DOMAIN b : IsCell(b[i])

\* Digests, numbers and text that is neither are cells.
LEMMA CellKinds ==
  /\ \A c : IsDigest(c) => IsCell(c)
  /\ \A k \in Nat : IsCell(Num(k))
  /\ IsCell(Bad) /\ IsCell(proofMagic)
<1>1. Bad[1] = "bad" /\ "bad" # "num" /\ proofMagic[1] = "magic" /\ "magic" # "num"
  BY DEF Bad, proofMagic
<1>2. \A c : IsDigest(c) => IsCell(c)
  BY DEF IsDigest, IsCell
<1>3. \A k \in Nat : IsCell(Num(k))
  BY DEF IsCell
<1> QED
  BY <1>1, <1>2, <1>3 DEF IsCell

\* The bytes of an accepted path are those of the path.
LEMMA StepsReadBack ==
  ASSUME NEW b, IsSeq(b), Cells(b), NEW off \in Nat,
         readProofSteps(b, off).err = "nil"
  PROVE  LET r == readProofSteps(b, off)
         IN  /\ Clean(r.steps) /\ r.off \in Nat
             /\ r.off = off + Len(appendProofSteps(r.steps))
             /\ Continues(b, off, appendProofSteps(r.steps))
<1> DEFINE n == NumAt(b, off)
           steps == [i \in 1..n |-> [sibling |-> b[off + 2 * i + 1], left |-> b[off + 2 * i] = Num(1)]]
<1>0. Len(b) \in Nat /\ DOMAIN b = 1..Len(b)
  BY LenProperties DEF IsSeq
<1>1. /\ IsNum(b, off) /\ ~(off + 1 + 2 * n > Len(b))
      /\ \A i \in 1..n : FlagRead(b[off + 2 * i]) /\ IsDigest(b[off + 2 * i + 1])
      /\ readProofSteps(b, off) = [err |-> "nil", steps |-> steps, off |-> off + 1 + 2 * n]
  <2>1. readProofSteps(b, off) =
          IF ~IsNum(b, off) \/ n > maxProofSteps \/ off + 1 + 2 * n > Len(b) THEN NoSteps
          ELSE IF \E i \in 1..n : ~FlagRead(b[off + 2 * i]) \/ ~IsDigest(b[off + 2 * i + 1])
            THEN NoSteps
          ELSE [err |-> "nil", steps |-> steps, off |-> off + 1 + 2 * n]
    BY Zenon DEF readProofSteps
  <2>2. NoSteps.err # "nil"
    BY DEF NoSteps
  <2> HIDE DEF steps, n
  <2> QED
    BY <2>1, <2>2
<1>2. n \in Nat /\ b[off + 1] = Num(n)
  <2>1. off < Len(b) /\ b[off + 1][1] = "num"
    BY <1>1 DEF IsNum
  <2>2. off + 1 \in DOMAIN b
    BY <1>0, <2>1
  <2>3. PICK k \in Nat : b[off + 1] = Num(k)
    BY <2>1, <2>2 DEF Cells, IsCell
  <2>4. n = k
    BY <2>3, NumRead DEF NumAt
  <2> QED
    BY <2>3, <2>4
<1> HIDE DEF n
<1>3. IsSeq(steps) /\ Len(steps) = n
  <2>1. steps = [i \in 1..n |-> steps[i]]
    OBVIOUS
  <2> HIDE DEF steps
  <2> QED
    BY <1>2, <2>1, FunctionIsSeq
<1>4. \A i \in 1..n : /\ steps[i].sibling = b[off + 2 * i + 1]
                      /\ steps[i].left = (b[off + 2 * i] = Num(1))
                      /\ steps[i] = [sibling |-> steps[i].sibling, left |-> steps[i].left]
  <2> TAKE i \in 1..n
  <2> DEFINE x == b[off + 2 * i + 1]
             y == (b[off + 2 * i] = Num(1))
  <2>1. steps[i] = [sibling |-> x, left |-> y]
    OBVIOUS
  <2> HIDE DEF steps, x, y
  <2>2. steps[i].sibling = x /\ steps[i].left = y
    BY <2>1
  <2>3. steps[i] = [sibling |-> steps[i].sibling, left |-> steps[i].left]
    BY <2>1, <2>2
  <2> QED
    BY <2>2, <2>3 DEF x, y
<1>5. \A i \in 1..n : (b[off + 2 * i] = Num(1)) \in BOOLEAN
  OBVIOUS
<1> HIDE DEF steps
<1>6. Clean(steps)
  <2>1. \A i \in 1..n : IsStep(steps[i])
    BY <1>1, <1>4, <1>5 DEF IsStep
  <2> QED
    BY <1>3, <2>1 DEF Clean
<1> DEFINE a == appendProofSteps(steps)
<1>7. /\ IsSeq(a) /\ Len(a) = 1 + 2 * n /\ a[1] = Num(n)
      /\ \A i \in 1..n : /\ a[2 * i] = Num(IF steps[i].left THEN 1 ELSE 0)
                         /\ a[2 * i + 1] = steps[i].sibling
  BY <1>3, <1>6, StepsWritten
<1> HIDE DEF a
<1>8. \A i \in 1..n : a[2 * i] = b[off + 2 * i] /\ a[2 * i + 1] = b[off + 2 * i + 1]
  <2> TAKE i \in 1..n
  <2>1. a[2 * i] = b[off + 2 * i]
    <3>1. CASE b[off + 2 * i] = Num(1)
      BY <1>4, <1>7, <3>1
    <3>2. CASE b[off + 2 * i] # Num(1)
      <4>1. b[off + 2 * i] = Num(0)
        BY <1>1, <3>2 DEF FlagRead
      <4>2. ~steps[i].left
        BY <1>4, <3>2
      <4> QED
        BY <1>7, <4>1, <4>2
    <3> QED
      BY <3>1, <3>2
  <2> QED
    BY <1>4, <1>7, <2>1
<1>9. ASSUME NEW i \in 1..(1 + 2 * n) PROVE b[off + i] = a[i]
  <2>1. CASE i = 1
    BY <1>2, <1>7, <2>1
  <2>2. CASE i # 1
    <3>1. PICK j \in 1..n : i = 2 * j \/ i = 2 * j + 1
      <4>1. ASSUME NEW k \in Nat, NEW j \in 1..(1 + 2 * k), j # 1
            PROVE  j \div 2 \in 1..k /\ (j = 2 * (j \div 2) \/ j = 2 * (j \div 2) + 1)
        BY <4>1
      <4> QED
        BY <1>2, <2>2, <4>1
    <3>2. off + (2 * j + 1) = off + 2 * j + 1
      OBVIOUS
    <3> QED
      BY <1>8, <3>1, <3>2
  <2> QED
    BY <2>1, <2>2
<1>10. Continues(b, off, a)
  <2> DEFINE l == Len(b)
  <2>1. l \in Nat /\ ~(off + 1 + 2 * n > l)
    BY <1>0, <1>1
  <2> HIDE DEF l
  <2>2. off + (1 + 2 * n) <= l
    BY <1>2, <2>1
  <2>3. off + Len(a) <= Len(b)
    BY <1>7, <2>2 DEF l
  <2>4. \A i \in 1..Len(a) : b[off + i] = a[i]
    BY <1>7, <1>9
  <2> QED
    BY <1>0, <2>3, <2>4 DEF Continues
<1> DEFINE r == readProofSteps(b, off)
<1>11. r.steps = steps /\ r.off = off + 1 + 2 * n
  <2> HIDE DEF r
  <2>1. r = [err |-> "nil", steps |-> steps, off |-> off + 1 + 2 * n]
    BY <1>1 DEF r
  <2> QED
    BY <2>1
<1>12. r.off \in Nat /\ r.off = off + Len(a)
  BY <1>2, <1>7, <1>11
<1> HIDE DEF r
<1>13. /\ Clean(r.steps) /\ r.off \in Nat
       /\ r.off = off + Len(appendProofSteps(r.steps))
       /\ Continues(b, off, appendProofSteps(r.steps))
  BY <1>6, <1>10, <1>11, <1>12 DEF a
<1> QED
  BY <1>13 DEF r

\* What goes on after the start is part of a longer start.
LEMMA StartsLonger ==
  ASSUME NEW b, NEW u, NEW w, Starts(b, u), IsSeq(w), Continues(b, Len(u), w)
  PROVE  Starts(b, u \o w) /\ Len(u \o w) = Len(u) + Len(w)
<1> DEFINE v == u \o w
           m == Len(u)
           n == Len(w)
           l == Len(b)
           k == Len(v)
<1>1. /\ IsSeq(v) /\ m \in Nat /\ n \in Nat /\ k = m + n
      /\ \A i \in 1..m : v[i] = u[i]
      /\ \A i \in 1..n : v[m + i] = w[i]
  BY Joined DEF Starts
<1>2. /\ IsSeq(b) /\ l \in Nat /\ m \in 0..l /\ \A i \in 1..m : b[i] = u[i]
      /\ m + n <= l /\ \A i \in 1..n : b[m + i] = w[i]
  BY DEF Starts, Continues
<1>3. Len(v) = k /\ Len(b) = l
  OBVIOUS
<1> HIDE DEF v, m, n, l, k
<1>4. ASSUME NEW i \in 1..k PROVE b[i] = v[i]
  <2>1. CASE i <= m
    <3>1. i \in 1..m
      BY <1>1, <2>1
    <3> QED
      BY <1>1, <1>2, <3>1
  <2>2. CASE ~(i <= m)
    <3>1. i - m \in 1..n /\ m + (i - m) = i
      BY <1>1, <2>2
    <3>2. b[m + (i - m)] = w[i - m] /\ v[m + (i - m)] = w[i - m]
      BY <1>1, <1>2, <3>1
    <3> QED
      BY <3>1, <3>2
  <2> QED
    BY <2>1, <2>2
<1>5. k \in 0..l
  BY <1>1, <1>2
<1>6. Starts(b, v)
  BY <1>1, <1>2, <1>3, <1>4, <1>5 DEF Starts
<1> QED
  BY <1>1, <1>3, <1>6 DEF v, m, n, k

\* A binary proof that is accepted is the one MarshalBinary gives, and its paths
\* are sequences of steps (proof.go:139-188).
LEMMA PathsReadBack ==
  ASSUME NEW b, IsSeq(b), Cells(b), UnmarshalProofBinary(b).err = "nil"
  PROVE  LET p == UnmarshalProofBinary(b).proof
         IN  MarshalBinary(p) = b /\ IsSeq(p.nsPath) /\ IsSeq(p.globalPath)
<1> DEFINE ns == readProofSteps(b, 1)
           global == readProofSteps(b, ns.off)
           u == UnmarshalProofBinary(b)
<1>1. /\ b # <<>> /\ b[1] = Num(proofBinaryVersion) /\ ns.err = "nil" /\ global.err = "nil"
      /\ global.off = Len(b)
      /\ u = [err |-> "nil", proof |-> [nsPath |-> ns.steps, globalPath |-> global.steps]]
  <2>1. u =
          IF b = <<>> \/ b[1] # Num(proofBinaryVersion) THEN NotAProof
          ELSE IF ns.err # "nil" \/ global.err # "nil" \/ global.off # Len(b) THEN NotAProof
          ELSE [err |-> "nil", proof |-> [nsPath |-> ns.steps, globalPath |-> global.steps]]
    BY Zenon DEF UnmarshalProofBinary
  <2>2. NotAProof.err # "nil"
    BY DEF NotAProof
  <2>3. u.err = "nil"
    OBVIOUS
  <2> HIDE DEF ns, global, u
  <2> QED
    BY <2>1, <2>2, <2>3
<1> DEFINE p == ns.steps
           q == global.steps
           proof == [nsPath |-> p, globalPath |-> q]
           a == appendProofSteps(p)
           c == appendProofSteps(q)
           v == <<Num(proofBinaryVersion)>>
           w == v \o a
<1>2. /\ Clean(p) /\ ns.off \in Nat /\ ns.off = 1 + Len(a) /\ Continues(b, 1, a)
  BY <1>1, StepsReadBack
<1>3. /\ Clean(q) /\ global.off = ns.off + Len(c) /\ Continues(b, ns.off, c)
  <2> DEFINE off == ns.off
  <2>1. off \in Nat /\ readProofSteps(b, off).err = "nil"
    BY <1>1, <1>2
  <2> HIDE DEF off
  <2>2. LET r == readProofSteps(b, off)
        IN  /\ Clean(r.steps) /\ r.off \in Nat
            /\ r.off = off + Len(appendProofSteps(r.steps))
            /\ Continues(b, off, appendProofSteps(r.steps))
    BY <2>1, StepsReadBack
  <2> QED
    BY <2>2 DEF off
<1>4. u.proof = proof
  <2> HIDE DEF u, proof
  <2> QED
    BY <1>1 DEF proof
<1>5. proof.nsPath = p /\ proof.globalPath = q
  OBVIOUS
<1> DEFINE off == ns.off
<1>6. off \in Nat /\ off = 1 + Len(a) /\ Len(b) = off + Len(c) /\ Continues(b, off, c)
  BY <1>1, <1>2, <1>3
<1> HIDE DEF ns, global, u, p, q, proof, off
<1>7. IsSeq(a) /\ IsSeq(c)
  BY <1>2, <1>3, StepsWritten
<1>8. IsSeq(v) /\ Len(v) = 1 /\ v[1] = Num(proofBinaryVersion)
  BY OneIsSeq
<1> HIDE DEF a, c, v
<1>9. Starts(b, v)
  <2>1. Len(b) \in Nat /\ Len(b) # 0
    <3>1. Len(b) \in Nat
      BY LenProperties DEF IsSeq
    <3> QED
      BY <1>1, <3>1, EmptySeq DEF IsSeq
  <2>2. 1 \in 0..Len(b)
    BY <2>1
  <2> QED
    BY <1>1, <1>8, <2>1, <2>2 DEF Starts
<1>10. Starts(b, w) /\ Len(w) = off
  <2>1. IsSeq(a) /\ Continues(b, Len(v), a)
    BY <1>2, <1>7, <1>8
  <2>2. Starts(b, v \o a) /\ Len(v \o a) = Len(v) + Len(a)
    BY <1>9, <2>1, StartsLonger
  <2> QED
    BY <1>6, <1>8, <2>2
<1> DEFINE x == w \o c
<1>11. Starts(b, x) /\ Len(x) = Len(b)
  <2> HIDE DEF w
  <2>1. Continues(b, Len(w), c)
    BY <1>6, <1>10
  <2>2. Starts(b, w \o c) /\ Len(w \o c) = Len(w) + Len(c)
    BY <1>7, <1>10, <2>1, StartsLonger
  <2> QED
    BY <1>6, <1>10, <2>2
<1> HIDE DEF w, x
<1>13. b = x
  BY <1>11, SameSeq DEF Starts
<1>14. MarshalBinary(proof) = x
  BY <1>5 DEF MarshalBinary, x, w, v, a, c
<1>15. IsSeq(p) /\ IsSeq(q)
  BY <1>2, <1>3 DEF Clean
<1> QED
  BY <1>4, <1>5, <1>13, <1>14, <1>15 DEF u

\* A field that is read is framed by its length where it is read.
LEMMA FieldReadBack ==
  ASSUME NEW b, Cells(b), NEW u, Starts(b, u), FieldEnd(b, Len(u)) # 0
  PROVE  LET f == FieldIn(b, Len(u))
         IN  /\ IsSeq(f) /\ Cells(f)
             /\ Starts(b, u \o Framed(f)) /\ Len(u \o Framed(f)) = FieldEnd(b, Len(u))
<1> DEFINE off == Len(u)
           k == NumAt(b, off)
           l == Len(b)
           end == FieldEnd(b, off)
           f == FieldIn(b, off)
           w == Framed(f)
<1>0. IsSeq(b) /\ l \in Nat /\ off \in 0..l /\ DOMAIN b = 1..l
  BY LenProperties DEF Starts, IsSeq
<1>1. IsNum(b, off) /\ ~(off + 1 + k > l) /\ end = off + 1 + k
  BY DEF FieldEnd
<1>2. k \in Nat /\ b[off + 1] = Num(k)
  <2>1. off < l /\ b[off + 1][1] = "num"
    BY <1>1 DEF IsNum
  <2>2. off + 1 \in DOMAIN b
    BY <1>0, <2>1
  <2>3. PICK n \in Nat : b[off + 1] = Num(n)
    BY <2>1, <2>2 DEF Cells, IsCell
  <2>4. k = n
    BY <2>3, NumRead DEF NumAt
  <2> QED
    BY <2>3, <2>4
<1>3. f = SubSeq(b, off + 2, end)
  BY DEF FieldIn
<1> HIDE DEF k, l, end, f
<1>4. IsSeq(f) /\ Len(f) = k /\ \A i \in 1..k : f[i] = b[off + 2 + i - 1]
  <2> DEFINE m == off + 2
  <2>1. m \in Nat /\ end \in Nat /\ 0 < m /\ m <= end + 1 /\ end - m + 1 = k
    BY <1>0, <1>1, <1>2
  <2>2. f = SubSeq(b, m, end)
    BY <1>3
  <2> HIDE DEF m
  <2>3. IsPart(SubSeq(b, m, end), b, m, end)
    BY <2>1, PartOf
  <2> QED
    BY <2>1, <2>2, <2>3 DEF m, IsPart
<1>5. /\ IsSeq(w) /\ Len(w) = 1 + k /\ w[1] = Num(k)
      /\ \A i \in 1..k : w[1 + i] = f[i]
  BY <1>4, FramedIs
<1> HIDE DEF w
<1>6. Cells(f)
  <2>1. DOMAIN f = 1..k
    BY <1>4, LenProperties DEF IsSeq
  <2>2. ASSUME NEW i \in 1..k PROVE IsCell(f[i])
    <3>1. off + 2 + i - 1 \in 1..l
      BY <1>0, <1>1, <1>2
    <3> QED
      BY <1>0, <1>4, <3>1 DEF Cells
  <2> QED
    BY <2>1, <2>2 DEF Cells
<1>7. Continues(b, off, w)
  <2>1. ASSUME NEW i \in 1..(1 + k) PROVE b[off + i] = w[i]
    <3>1. CASE i = 1
      BY <1>2, <1>5, <3>1
    <3>2. CASE i # 1
      <4>1. i - 1 \in 1..k /\ 1 + (i - 1) = i /\ off + 2 + (i - 1) - 1 = off + i
        BY <1>0, <1>2, <3>2
      <4>2. w[1 + (i - 1)] = f[i - 1] /\ f[i - 1] = b[off + 2 + (i - 1) - 1]
        BY <1>4, <1>5, <4>1
      <4> QED
        BY <4>1, <4>2
    <3> QED
      BY <3>1, <3>2
  <2>2. off \in Nat /\ l \in Nat /\ off + (1 + k) <= l
    BY <1>0, <1>1, <1>2
  <2>3. Len(w) = 1 + k /\ Len(b) = l
    BY <1>5 DEF l
  <2> HIDE DEF off
  <2>4. \A i \in 1..Len(w) : b[off + i] = w[i]
    BY <2>1, <2>3
  <2>5. off + Len(w) <= Len(b) /\ Len(b) \in Nat /\ off \in Nat
    BY <2>2, <2>3
  <2> QED
    BY <2>4, <2>5 DEF Continues
<1>8. Starts(b, u \o w) /\ Len(u \o w) = off + Len(w)
  BY <1>5, <1>7, StartsLonger
<1>9. Len(u \o w) = end
  <2>1. off + (1 + k) = end
    BY <1>0, <1>1, <1>2
  <2> QED
    BY <1>5, <1>8, <2>1
<1> QED
  BY <1>4, <1>6, <1>8, <1>9 DEF w, f, end

\* A binary envelope that is accepted is the one that marshalling gives
\* (cmd/scls/proof.go:213-287).
LEMMA EnvelopeReadBack ==
  ASSUME NEW b, IsSeq(b), Cells(b), b # <<>>, b[1] = proofMagic,
         unmarshalEnvelopeBinary(b).err = "nil"
  PROVE  LET e == unmarshalEnvelopeBinary(b).env
         IN  /\ marshalEnvelopeBinary(e) = b
             /\ e = Envelope(e.version, e.namespace, e.key, e.value, e.root, e.proof)
             /\ e.version \in Nat
             /\ IsSeq(e.namespace) /\ IsSeq(e.key) /\ IsSeq(e.value)
             /\ IsSeq(e.root) /\ IsSeq(e.proof)
             /\ Cells(e.namespace) /\ Cells(e.key) /\ Cells(e.value)
             /\ Cells(e.root) /\ Cells(e.proof)
<1> DEFINE l1 == FieldEnd(b, 2)
           l2 == FieldEnd(b, l1)
           l3 == FieldEnd(b, l2)
           l4 == FieldEnd(b, l3)
           l5 == FieldEnd(b, l4)
           r == unmarshalEnvelopeBinary(b)
           f1 == FieldIn(b, 2)
           f2 == FieldIn(b, l1)
           f3 == FieldIn(b, l2)
           f4 == FieldIn(b, l3)
           f5 == FieldIn(b, l4)
           version == NumAt(b, 1)
           e == Envelope(version, f1, f2, f3, f4, f5)
<1>1. IsNum(b, 1) /\ l5 # 0 /\ l5 = Len(b) /\ r = [err |-> "nil", env |-> e]
  <2>1. r = IF ~IsNum(b, 1) \/ l5 = 0 THEN [err |-> "truncated", env |-> NoEnvelope]
            ELSE IF ~validUtf8(f1) THEN [err |-> "not UTF-8", env |-> NoEnvelope]
            ELSE IF ~EndsThere(b, l5) THEN [err |-> "trailing", env |-> NoEnvelope]
            ELSE [err |-> "nil", env |-> e]
    BY Zenon DEF unmarshalEnvelopeBinary
  <2>2. r.err = "nil"
    OBVIOUS
  <2>3. \A err, env : [err |-> err, env |-> env].err = err
    OBVIOUS
  <2>4. "truncated" # "nil" /\ "not UTF-8" # "nil" /\ "trailing" # "nil"
    OBVIOUS
  <2> HIDE DEF r, e, l5, f1
  <2> QED
    BY <2>1, <2>2, <2>3, <2>4 DEF EndsThere
<1>2. l4 # 0 /\ l3 # 0 /\ l2 # 0 /\ l1 # 0
  <2>1. FieldEnd(b, 0) = 0
    BY DEF FieldEnd
  <2> QED
    BY <1>1, <2>1
<1>3. version \in Nat /\ b[2] = Num(version) /\ 1 < Len(b)
  <2>1. 1 < Len(b) /\ b[2][1] = "num"
    BY <1>1 DEF IsNum
  <2>2. 2 \in DOMAIN b
    BY <2>1, LenProperties DEF IsSeq
  <2>3. PICK n \in Nat : b[2] = Num(n)
    BY <2>1, <2>2 DEF Cells, IsCell
  <2>4. version = n
    BY <2>3, NumRead DEF NumAt
  <2> QED
    BY <2>1, <2>3, <2>4
<1> DEFINE u0 == <<proofMagic, Num(version)>>
           u1 == u0 \o Framed(f1)
           u2 == u1 \o Framed(f2)
           u3 == u2 \o Framed(f3)
           u4 == u3 \o Framed(f4)
           u5 == u4 \o Framed(f5)
<1>4. /\ e.version = version /\ e.namespace = f1 /\ e.key = f2 /\ e.value = f3
      /\ e.root = f4 /\ e.proof = f5
  BY DEF Envelope
<1>5. r.env = e
  <2> HIDE DEF r, e
  <2> QED
    BY <1>1
<1> HIDE DEF l1, l2, l3, l4, l5, r, version
<1>6. /\ l1 = FieldEnd(b, 2) /\ l2 = FieldEnd(b, l1) /\ l3 = FieldEnd(b, l2)
      /\ l4 = FieldEnd(b, l3) /\ l5 = FieldEnd(b, l4)
  BY DEF l1, l2, l3, l4, l5
<1> HIDE DEF f1, f2, f3, f4, f5
<1>7. /\ f1 = FieldIn(b, 2) /\ f2 = FieldIn(b, l1) /\ f3 = FieldIn(b, l2)
      /\ f4 = FieldIn(b, l3) /\ f5 = FieldIn(b, l4)
  BY DEF f1, f2, f3, f4, f5
<1>8. Starts(b, u0) /\ Len(u0) = 2
  <2>1. IsSeq(u0) /\ Len(u0) = 2 /\ u0[1] = proofMagic /\ u0[2] = Num(version)
    <3>1. u0 \in Seq({u0[i] : i \in DOMAIN u0})
      OBVIOUS
    <3> QED
      BY <3>1 DEF IsSeq
  <2> HIDE DEF u0
  <2>2. Len(b) \in Nat
    BY LenProperties DEF IsSeq
  <2>3. 2 \in 0..Len(b) /\ 1..2 = {1, 2}
    BY <1>3, <2>2
  <2> QED
    BY <1>3, <2>1, <2>2, <2>3 DEF Starts
<1> HIDE DEF u0, e
<1>9. Starts(b, u1) /\ Len(u1) = l1 /\ IsSeq(f1) /\ Cells(f1)
  BY <1>2, <1>6, <1>7, <1>8, FieldReadBack
<1> HIDE DEF u1
<1>10. Starts(b, u2) /\ Len(u2) = l2 /\ IsSeq(f2) /\ Cells(f2)
  BY <1>2, <1>6, <1>7, <1>9, FieldReadBack
<1> HIDE DEF u2
<1>11. Starts(b, u3) /\ Len(u3) = l3 /\ IsSeq(f3) /\ Cells(f3)
  BY <1>2, <1>6, <1>7, <1>10, FieldReadBack
<1> HIDE DEF u3
<1>12. Starts(b, u4) /\ Len(u4) = l4 /\ IsSeq(f4) /\ Cells(f4)
  BY <1>2, <1>6, <1>7, <1>11, FieldReadBack
<1> HIDE DEF u4
<1>13. Starts(b, u5) /\ Len(u5) = l5 /\ IsSeq(f5) /\ Cells(f5)
  BY <1>1, <1>6, <1>7, <1>12, FieldReadBack
<1> HIDE DEF u5
<1>14. b = u5
  <2>1. Len(b) = Len(u5)
    BY <1>1, <1>13
  <2> QED
    BY <1>13, <2>1, SameSeq DEF Starts
<1>15. marshalEnvelopeBinary(e) = u5
  BY <1>4 DEF marshalEnvelopeBinary, u5, u4, u3, u2, u1, u0
<1>16. e = Envelope(e.version, e.namespace, e.key, e.value, e.root, e.proof)
  BY <1>4 DEF e
<1> QED
  BY <1>3, <1>4, <1>5, <1>9, <1>10, <1>11, <1>12, <1>13, <1>14, <1>15, <1>16 DEF r

-----------------------------------------------------------------------------
(***************************************************************************)
(* What is done to a proof file leaves it one.                             *)
(***************************************************************************)
\* What stands in a part of a sequence stands in the sequence.
LEMMA PartFrom ==
  ASSUME NEW b, IsSeq(b), NEW m \in Nat, NEW n \in Nat, 0 < m, m <= n + 1, n <= Len(b)
  PROVE  /\ IsSeq(SubSeq(b, m, n))
         /\ \A i \in DOMAIN SubSeq(b, m, n) : \E j \in DOMAIN b : SubSeq(b, m, n)[i] = b[j]
<1> DEFINE u == SubSeq(b, m, n)
<1>1. /\ IsSeq(u) /\ DOMAIN u = 1..(n - m + 1)
      /\ \A i \in 1..(n - m + 1) : u[i] = b[m + i - 1]
  <2>1. IsPart(SubSeq(b, m, n), b, m, n)
    BY PartOf
  <2> QED
    BY <2>1 DEF IsPart
<1>2. DOMAIN b = 1..Len(b) /\ Len(b) \in Nat
  BY LenProperties DEF IsSeq
<1> HIDE DEF u
<1>3. ASSUME NEW i \in DOMAIN u PROVE \E j \in DOMAIN b : u[i] = b[j]
  <2>1. m + i - 1 \in 1..Len(b) /\ i \in 1..(n - m + 1)
    BY <1>1, <1>2
  <2> QED
    BY <1>1, <1>2, <2>1
<1> QED
  BY <1>1, <1>3 DEF u

\* Cells in a row are cells.
LEMMA CellsJoined ==
  ASSUME NEW v, NEW w, IsSeq(v), IsSeq(w), Cells(v), Cells(w)
  PROVE  IsSeq(v \o w) /\ Cells(v \o w)
<1>1. IsSeq(v \o w)
  BY Joined
<1>2. ASSUME NEW i \in DOMAIN (v \o w) PROVE IsCell((v \o w)[i])
  BY JoinedFrom DEF Cells
<1> QED
  BY <1>1, <1>2 DEF Cells

\* A part of cells is cells.
LEMMA CellsPart ==
  ASSUME NEW b, IsSeq(b), Cells(b), NEW m \in Nat, NEW n \in Nat, 0 < m, m <= n + 1, n <= Len(b)
  PROVE  IsSeq(SubSeq(b, m, n)) /\ Cells(SubSeq(b, m, n))
<1> DEFINE u == SubSeq(b, m, n)
<1>1. IsSeq(u) /\ \A i \in DOMAIN u : \E j \in DOMAIN b : u[i] = b[j]
  BY PartFrom
<1> HIDE DEF u
<1>2. Cells(u)
  BY <1>1 DEF Cells
<1> QED
  BY <1>1, <1>2 DEF u

\* One cell.
LEMMA OneCell == ASSUME NEW c, IsCell(c) PROVE IsSeq(<<c>>) /\ Cells(<<c>>)
<1>1. IsSeq(<<c>>) /\ Len(<<c>>) = 1 /\ <<c>>[1] = c
  BY OneIsSeq
<1>2. DOMAIN <<c>> = 1..1
  BY <1>1, LenProperties DEF IsSeq
<1>3. \A i \in 1..1 : i = 1
  OBVIOUS
<1> QED
  BY <1>1, <1>2, <1>3 DEF Cells

\* A framed field is cells.
LEMMA FramedCells ==
  ASSUME NEW f, IsSeq(f), Cells(f)
  PROVE  IsSeq(Framed(f)) /\ Cells(Framed(f))
<1> DEFINE h == <<Num(Len(f))>>
<1>1. Len(f) \in Nat
  BY LenProperties DEF IsSeq
<1>2. IsCell(Num(Len(f)))
  BY <1>1, CellKinds
<1>3. IsSeq(h) /\ Cells(h)
  BY <1>2, OneCell
<1> HIDE DEF h
<1>4. IsSeq(h \o f) /\ Cells(h \o f)
  BY <1>3, CellsJoined
<1> QED
  BY <1>4 DEF Framed, h

\* The fields of an envelope that is marshalled to the binary form.
BinaryTyped(e) == /\ e.version \in Nat
                  /\ IsSeq(e.namespace) /\ IsSeq(e.key) /\ IsSeq(e.value)
                  /\ IsSeq(e.root) /\ IsSeq(e.proof)
                  /\ Cells(e.namespace) /\ Cells(e.key) /\ Cells(e.value)
                  /\ Cells(e.root) /\ Cells(e.proof)

\* A file: cells, or fields of which the proofs are cells.
RawTyped(r) ==
  /\ r.form \in {"json", "binary"}
  /\ r.form = "binary" => IsSeq(r.cells) /\ Cells(r.cells)
  /\ r.form = "json" =>
       /\ IsSeq(r.fields)
       /\ \A i \in DOMAIN r.fields :
            r.fields[i].name = "proof" => IsSeq(r.fields[i].is) /\ Cells(r.fields[i].is)

\* The binary form of such an envelope is cells.
LEMMA MarshalledCells ==
  ASSUME NEW e, BinaryTyped(e)
  PROVE  IsSeq(marshalEnvelopeBinary(e)) /\ Cells(marshalEnvelopeBinary(e))
<1> DEFINE u0 == <<proofMagic, Num(e.version)>>
           f1 == Framed(e.namespace)
           f2 == Framed(e.key)
           f3 == Framed(e.value)
           f4 == Framed(e.root)
           f5 == Framed(e.proof)
           u1 == u0 \o f1
           u2 == u1 \o f2
           u3 == u2 \o f3
           u4 == u3 \o f4
           u5 == u4 \o f5
<1>1. /\ IsSeq(f1) /\ IsSeq(f2) /\ IsSeq(f3) /\ IsSeq(f4) /\ IsSeq(f5)
      /\ Cells(f1) /\ Cells(f2) /\ Cells(f3) /\ Cells(f4) /\ Cells(f5)
  BY FramedCells DEF BinaryTyped
<1>2. IsSeq(u0) /\ Cells(u0)
  <2>1. /\ IsCell(proofMagic) /\ IsCell(Num(e.version))
    BY CellKinds DEF BinaryTyped
  <2>2. u0 = <<proofMagic>> \o <<Num(e.version)>>
    OBVIOUS
  <2>3. /\ IsSeq(<<proofMagic>>) /\ Cells(<<proofMagic>>)
        /\ IsSeq(<<Num(e.version)>>) /\ Cells(<<Num(e.version)>>)
    BY <2>1, OneCell
  <2> QED
    BY <2>2, <2>3, CellsJoined
<1> HIDE DEF u0, f1, f2, f3, f4, f5
<1>3. IsSeq(u1) /\ Cells(u1)
  BY <1>1, <1>2, CellsJoined
<1> HIDE DEF u1
<1>4. IsSeq(u2) /\ Cells(u2)
  BY <1>1, <1>3, CellsJoined
<1> HIDE DEF u2
<1>5. IsSeq(u3) /\ Cells(u3)
  BY <1>1, <1>4, CellsJoined
<1> HIDE DEF u3
<1>6. IsSeq(u4) /\ Cells(u4)
  BY <1>1, <1>5, CellsJoined
<1> HIDE DEF u4
<1>7. IsSeq(u5) /\ Cells(u5)
  BY <1>1, <1>6, CellsJoined
<1> QED
  BY <1>7 DEF marshalEnvelopeBinary, u4, u3, u2, u1, u0, f1, f2, f3, f4, f5

\* What marshalling gives is a file.
LEMMA MarshalTyped ==
  ASSUME NEW e, NEW format \in {"json", "binary"},
         IsSeq(e.proof), Cells(e.proof), format = "binary" => BinaryTyped(e)
  PROVE  RawTyped(marshalEnvelope(e, format))
<1>1. CASE format = "json"
  <2> DEFINE fields == [i \in DOMAIN FieldNames |-> [name |-> FieldNames[i], is |-> e[FieldNames[i]]]]
             r == Json(fields)
  <2>1. marshalEnvelope(e, format) = r
    BY <1>1 DEF marshalEnvelope
  <2>2. DOMAIN fields = 1..6
    BY SixNames
  <2>3. \A i \in 1..6 : fields[i].name = FieldNames[i] /\ fields[i].is = e[FieldNames[i]]
    <3> TAKE i \in 1..6
    <3>1. fields[i] = [name |-> FieldNames[i], is |-> e[FieldNames[i]]]
      BY SixNames
    <3> HIDE DEF fields
    <3> QED
      BY <3>1
  <2>4. fields = [i \in 1..6 |-> fields[i]]
    BY SixNames
  <2> HIDE DEF fields
  <2>5. IsSeq(fields)
    BY <2>4, FunctionIsSeq
  <2>6. r.form = "json" /\ r.fields = fields
    BY DEF Json
  <2> HIDE DEF r
  <2>7. RawTyped(r)
    BY <2>2, <2>3, <2>5, <2>6 DEF RawTyped
  <2> QED
    BY <2>1, <2>7
<1>2. CASE format = "binary"
  <2> DEFINE b == marshalEnvelopeBinary(e)
             r == Binary(b)
  <2>1. marshalEnvelope(e, format) = r
    BY <1>2 DEF marshalEnvelope
  <2>2. IsSeq(b) /\ Cells(b)
    BY <1>2, MarshalledCells
  <2> HIDE DEF b
  <2>3. r.form = "binary" /\ r.cells = b
    BY DEF Binary
  <2> HIDE DEF r
  <2>4. RawTyped(r)
    BY <2>2, <2>3 DEF RawTyped
  <2> QED
    BY <2>1, <2>4
<1> QED
  BY <1>1, <1>2

\* What a file that can be read holds.
LEMMA ReadableTyped ==
  ASSUME NEW r, RawTyped(r), unmarshalEnvelope(r).err = "nil"
  PROVE  LET e == unmarshalEnvelope(r).env
         IN  /\ DOMAIN e = DOMAIN NoEnvelope
             /\ IsSeq(e.proof) /\ Cells(e.proof)
             /\ r.form = "binary" => /\ BinaryTyped(e)
                                     /\ marshalEnvelopeBinary(e) = r.cells
<1> DEFINE x == IF r.form = "json" THEN [err |-> "nil", env |-> JsonEnvelope(r.fields)]
                ELSE IF r.cells = <<>> \/ r.cells[1] # proofMagic
                  THEN [err |-> "parse proof", env |-> NoEnvelope]
                ELSE unmarshalEnvelopeBinary(r.cells)
           u == unmarshalEnvelope(r)
<1>1. u = x /\ x.err = "nil"
  <2>1. u = IF x.err = "nil" /\ x.env.version # proofEnvelopeVersion
              THEN [err |-> "unsupported version", env |-> NoEnvelope] ELSE x
    BY Zenon DEF unmarshalEnvelope
  <2>2. u.err = "nil"
    OBVIOUS
  <2>3. [err |-> "unsupported version", env |-> NoEnvelope].err # "nil"
    OBVIOUS
  <2> HIDE DEF x, u
  <2> QED
    BY <2>1, <2>2, <2>3
<1>2. CASE r.form = "json"
  <2> DEFINE e == JsonEnvelope(r.fields)
  <2>1. x.env = e
    BY <1>2
  <2>2. DOMAIN e = DOMAIN NoEnvelope
    BY DEF JsonEnvelope
  <2>3. "proof" \in DOMAIN NoEnvelope /\ NoEnvelope.proof = <<>>
    BY DEF NoEnvelope, Envelope
  <2>4. IsSeq(r.fields)
    BY <1>2 DEF RawTyped
  <2>5. \/ e["proof"] = NoEnvelope["proof"]
        \/ \E i \in DOMAIN r.fields : r.fields[i].name = "proof" /\ e["proof"] = r.fields[i].is
    BY <2>3, <2>4, JsonField
  <2>6. IsSeq(<<>>) /\ Cells(<<>>)
    BY NoneIsSeq DEF Cells
  <2> HIDE DEF e
  <2>7. IsSeq(e.proof) /\ Cells(e.proof)
    BY <1>2, <2>3, <2>5, <2>6 DEF RawTyped
  <2> HIDE DEF x
  <2> QED
    BY <1>1, <1>2, <2>1, <2>2, <2>7
<1>3. CASE r.form = "binary"
  <2> DEFINE b == r.cells
             e == unmarshalEnvelopeBinary(b).env
  <2>1. IsSeq(b) /\ Cells(b)
    BY <1>3 DEF RawTyped
  <2>2. b # <<>> /\ b[1] = proofMagic /\ x = unmarshalEnvelopeBinary(b)
    <3>1. [err |-> "parse proof", env |-> NoEnvelope].err # "nil"
      OBVIOUS
    <3> QED
      BY <1>1, <1>3, <3>1
  <2> HIDE DEF b, x
  <2>3. /\ marshalEnvelopeBinary(e) = b
        /\ e = Envelope(e.version, e.namespace, e.key, e.value, e.root, e.proof)
        /\ BinaryTyped(e)
    BY <1>1, <2>1, <2>2, EnvelopeReadBack DEF BinaryTyped
  <2> HIDE DEF e
  <2>4. DOMAIN e = DOMAIN NoEnvelope
    <3>1. \A a1, a2, a3, a4, a5, a6 :
            DOMAIN Envelope(a1, a2, a3, a4, a5, a6) = DOMAIN NoEnvelope
      BY DEF Envelope, NoEnvelope
    <3> QED
      BY <2>3, <3>1
  <2>5. IsSeq(e.proof) /\ Cells(e.proof)
    BY <2>3 DEF BinaryTyped
  <2>6. u.env = e
    BY <1>1, <2>2 DEF e
  <2> QED
    BY <2>3, <2>4, <2>5, <2>6 DEF b
<1> QED
  BY <1>2, <1>3 DEF RawTyped

\* The end of a path from a digest is a digest.
LEMMA FoldIsDigest ==
  ASSUME NEW x, IsDigest(x), NEW path, IsSeq(path)
  PROVE  IsDigest(FoldPath(x, path))
<1> DEFINE L == Len(path)
<1>1. L \in Nat /\ DOMAIN path = 1..L
  BY LenProperties DEF IsSeq
<1>2. FoldPath(x, path) = PathFold!Fold(x, path)
  BY DEF FoldPath, FoldLeft, MapThenFoldSet, Max,
         PathFold!Fold, PathFold!FoldLeft, PathFold!MapThenFoldSet, PathFold!Max
<1> HIDE DEF L
<1>3. PICK r : /\ r[0] = x
               /\ \A k \in 1..L : r[k] = IF path[k].left
                                           THEN nodeDigest(path[k].sibling, r[k - 1])
                                           ELSE nodeDigest(r[k - 1], path[k].sibling)
               /\ PathFold!Fold(x, path) = r[L]
  <2>1. PathFold!FoldRun(x, path, L)
    BY <1>1, PathFold!FoldRuns, Zenon
  <2> QED
    BY <2>1 DEF PathFold!FoldRun, PathFold!Runs
<1>4. CASE L = 0
  BY <1>2, <1>3, <1>4
<1>5. CASE L # 0
  <2>1. L \in 1..L
    BY <1>1, <1>5
  <2>2. \/ r[L] = nodeDigest(path[L].sibling, r[L - 1])
        \/ r[L] = nodeDigest(r[L - 1], path[L].sibling)
    BY <1>3, <2>1
  <2>3. IsDigest(r[L])
    BY <2>2, NodeIsDigest
  <2> QED
    BY <1>2, <1>3, <2>3
<1> QED
  BY <1>4, <1>5

\* Where a proof leads is a digest.
LEMMA LeadsToDigest ==
  ASSUME NEW e, IsSeq(e.proof), Cells(e.proof)
  PROVE  IsDigest(LeadsTo(e))
<1> DEFINE u == UnmarshalProofBinary(e.proof)
           p == u.proof
           x == NamespaceLeafDigest(FoldPath(EntryDigestOf(e.namespace, e.key, e.value), p.nsPath))
<1>1. IsDigest(x)
  <2>1. \A h : IsLeaf(NamespaceLeafDigest(h))
    BY DEF IsLeaf, NamespaceLeafDigest
  <2> QED
    BY <2>1, LeafIsDigest
<1>2. IsSeq(p.globalPath)
  <2>1. CASE u.err = "nil"
    BY <2>1, PathsReadBack
  <2>2. CASE u.err # "nil"
    <3>1. u = NotAProof
      BY <2>2 DEF UnmarshalProofBinary
    <3>2. p.globalPath = <<>>
      BY <3>1 DEF NotAProof
    <3> QED
      BY <3>2, NoneIsSeq
  <2> QED
    BY <2>1, <2>2
<1> HIDE DEF x, p
<1>3. IsDigest(FoldPath(x, p.globalPath))
  BY <1>1, <1>2, FoldIsDigest
<1> QED
  BY <1>3 DEF LeadsTo, x, p, u

\* The root of the namespaces of a file is a digest.
LEMMA GlobalRootIsDigest ==
  ASSUME NEW ps, IsSeq(ps)
  PROVE  IsDigest(GlobalRoot(ps))
<1> DEFINE g == GlobalLeaves(ps)
           R == {NamespaceLeafDigest(Root(TreeOf(ps[k]))) : k \in DOMAIN ps}
<1>1. g \in Seq(R)
  BY GlobalLeavesOf
<1>2. \A h \in R : IsLeaf(h)
  <2>1. \A h : IsLeaf(NamespaceLeafDigest(h))
    BY DEF IsLeaf, NamespaceLeafDigest
  <2> QED
    BY <2>1
<1> HIDE DEF g, R
<1>3. IsDigest(Root(TreeOf(g)))
  BY <1>1, <1>2, RootIsDigest
<1> QED
  BY <1>3 DEF GlobalRoot, g

\* The digests that are at hand are digests.
LEMMA AtHandAreDigests ==
  ASSUME MInv, IsSeq(parts)
  PROVE  \A d \in DigestsAtHand : IsDigest(d)
<1>1. \A leaf \in Leaves : IsLeaf(leaf)
  BY LeavesAssumption DEF IsLeaf, EntryDigestOf
<1>2. \A i \in DOMAIN leaves : IsDigest(leaves[i])
  <2>1. \A i \in DOMAIN leaves : leaves[i] \in Leaves
    BY LenProperties, ElementOfSeq DEF MInv
  <2> QED
    BY <1>1, <2>1, LeafIsDigest
<1>3. IsDigest(Root(tree))
  BY <1>1, RootIsDigest DEF MInv
<1>4. IsDigest(GlobalRoot(parts))
  BY GlobalRootIsDigest
<1> QED
  BY <1>2, <1>3, <1>4 DEF DigestsAtHand

\* A cell replaced.
LEMMA DamagedTyped ==
  ASSUME MInv, IsSeq(parts), RawTyped(raw), DamageCell
  PROVE  RawTyped(raw')
<1> DEFINE b == raw.cells
<1>1. raw.form = "binary" /\ IsSeq(b) /\ Cells(b)
  BY DEF DamageCell, IsBinary, RawTyped
<1>2. PICK i \in DOMAIN b : \E cell \in Damaged(b[i]) : raw' = Binary([b EXCEPT ![i] = cell])
  BY DEF DamageCell, Alter
<1>3. PICK cell \in Damaged(b[i]) : raw' = Binary([b EXCEPT ![i] = cell])
  BY <1>2
<1> HIDE DEF b
<1>4. IsCell(cell)
  <2>1. \A d \in DigestsAtHand : IsCell(d)
    BY AtHandAreDigests, CellKinds
  <2>2. 0 \in Nat /\ 1 \in Nat /\ 2 \in Nat /\ 200 \in Nat
    OBVIOUS
  <2>3. IsCell(Num(0)) /\ IsCell(Num(1)) /\ IsCell(Num(2)) /\ IsCell(Num(200))
    BY <2>2, CellKinds
  <2> QED
    BY <1>3, <2>1, <2>3 DEF Damaged
<1> DEFINE c == [b EXCEPT ![i] = cell]
<1>5. IsSeq(c) /\ Cells(c)
  <2>1. DOMAIN b = 1..Len(b) /\ Len(b) \in Nat
    BY <1>1, LenProperties DEF IsSeq
  <2>2. /\ c = [k \in 1..Len(b) |-> c[k]]
        /\ \A k \in 1..Len(b) : c[k] = IF k = i THEN cell ELSE b[k]
    BY <2>1
  <2> HIDE DEF c
  <2>3. IsSeq(c) /\ DOMAIN c = 1..Len(b)
    BY <2>1, <2>2, FunctionIsSeq
  <2>4. Cells(c)
    BY <1>1, <1>4, <2>1, <2>2, <2>3 DEF Cells
  <2> QED
    BY <2>3, <2>4
<1> HIDE DEF c
<1>6. raw'.form = "binary" /\ raw'.cells = c
  BY <1>3 DEF Binary, c
<1> QED
  BY <1>5, <1>6 DEF RawTyped

\* A file cut short.
LEMMA CutTyped ==
  ASSUME RawTyped(raw), CutShort
  PROVE  RawTyped(raw')
<1> DEFINE b == raw.cells
<1>1. IsSeq(b) /\ Cells(b)
  BY DEF CutShort, IsBinary, RawTyped
<1>2. PICK n \in 1..(Len(b) - 1) : raw' = Binary(SubSeq(b, 1, n))
  BY DEF CutShort, Alter
<1>3. Len(b) \in Nat
  BY <1>1, LenProperties DEF IsSeq
<1> HIDE DEF b
<1> DEFINE c == SubSeq(b, 1, n)
<1>4. IsSeq(c) /\ Cells(c)
  <2>1. 1 \in Nat /\ n \in Nat /\ 0 < 1 /\ 1 <= n + 1 /\ n <= Len(b)
    BY <1>3
  <2> QED
    BY <1>1, <2>1, CellsPart
<1> HIDE DEF c
<1>5. raw'.form = "binary" /\ raw'.cells = c
  BY <1>2 DEF Binary, c
<1> QED
  BY <1>4, <1>5 DEF RawTyped

\* Bytes behind a file.
LEMMA BehindTyped ==
  ASSUME RawTyped(raw), AddBehind
  PROVE  RawTyped(raw')
<1> DEFINE b == raw.cells
           c == Append(b, Num(10))
<1>1. IsSeq(b) /\ Cells(b)
  BY DEF AddBehind, IsBinary, RawTyped
<1>2. raw' = Binary(c)
  BY DEF AddBehind, Alter
<1> HIDE DEF b
<1>3. IsCell(Num(10))
  <2>1. 10 \in Nat
    OBVIOUS
  <2> QED
    BY <2>1, CellKinds
<1>4. IsSeq(c) /\ Cells(c)
  <2>1. /\ IsSeq(c) /\ Len(b) \in Nat /\ DOMAIN b = 1..Len(b) /\ DOMAIN c = 1..(Len(b) + 1)
        /\ \A i \in 1..Len(b) : c[i] = b[i]
        /\ c[Len(b) + 1] = Num(10)
    BY <1>1, Appended
  <2> HIDE DEF c
  <2>2. \A i \in 1..(Len(b) + 1) : i \in 1..Len(b) \/ i = Len(b) + 1
    BY <2>1
  <2>3. Cells(c)
    BY <1>1, <1>3, <2>1, <2>2 DEF Cells
  <2> QED
    BY <2>1, <2>3
<1> HIDE DEF c
<1>5. raw'.form = "binary" /\ raw'.cells = c
  BY <1>2 DEF Binary
<1> QED
  BY <1>4, <1>5 DEF RawTyped

\* The parts of an envelope that Rewrite replaces.
LEMMA Replaced ==
  ASSUME NEW e, DOMAIN e = DOMAIN NoEnvelope, NEW x, NEW y, NEW z
  PROVE  /\ LET f == [e EXCEPT !.namespace = x, !.key = y, !.value = z]
            IN  /\ f.namespace = x /\ f.key = y /\ f.value = z
                /\ f.version = e.version /\ f.root = e.root /\ f.proof = e.proof
         /\ LET f == [e EXCEPT !.root = x]
            IN  /\ f.namespace = e.namespace /\ f.key = e.key /\ f.value = e.value
                /\ f.version = e.version /\ f.root = x /\ f.proof = e.proof
<1>1. DOMAIN e = {"version", "namespace", "key", "value", "root", "proof"}
  BY DEF NoEnvelope, Envelope
<1> QED
  BY <1>1

\* An envelope rewritten.
LEMMA RewrittenTyped ==
  ASSUME RawTyped(raw), Rewrite
  PROVE  RawTyped(raw')
<1> DEFINE c == unmarshalEnvelope(raw).env
<1>1. PICK e \in Rewritten(c) : raw' = marshalEnvelope(e, raw.form)
  BY DEF Rewrite, Contents, Alter
<1>2. unmarshalEnvelope(raw).err = "nil"
  BY DEF Rewrite, Readable
<1>3. /\ DOMAIN c = DOMAIN NoEnvelope
      /\ IsSeq(c.proof) /\ Cells(c.proof)
      /\ raw.form = "binary" => BinaryTyped(c)
  BY <1>2, ReadableTyped
<1>4. raw.form \in {"json", "binary"}
  BY DEF RawTyped
<1> HIDE DEF c
<1>5. ASSUME NEW f, f.proof = c.proof, raw.form = "binary" => BinaryTyped(f)
      PROVE  RawTyped(marshalEnvelope(f, raw.form))
  <2>1. IsSeq(f.proof) /\ Cells(f.proof)
    BY <1>3, <1>5
  <2> QED
    BY <1>4, <1>5, <2>1, MarshalTyped
<1>6. CASE e = [c EXCEPT !.root = <<LeadsTo(c)>>]
  <2> DEFINE root == <<LeadsTo(c)>>
  <2>1. IsSeq(root) /\ Cells(root)
    <3>1. IsDigest(LeadsTo(c))
      BY <1>3, LeadsToDigest
    <3>2. IsCell(LeadsTo(c))
      BY <3>1, CellKinds
    <3> QED
      BY <3>2, OneCell
  <2>2. e = [c EXCEPT !.root = root]
    BY <1>6
  <2> HIDE DEF root
  <2>3. /\ e.namespace = c.namespace /\ e.key = c.key /\ e.value = c.value
        /\ e.version = c.version /\ e.root = root /\ e.proof = c.proof
    BY <1>3, <2>2, Replaced
  <2>4. raw.form = "binary" => BinaryTyped(e)
    BY <1>3, <2>1, <2>3 DEF BinaryTyped
  <2> QED
    BY <1>1, <1>5, <2>3, <2>4
<1>7. CASE e \in Divided(c)
  <2> DEFINE bytes == c.namespace \o c.key \o c.value
             l == Len(bytes)
  <2>0. PICK a \in 0..l : \E b \in a..l :
          e = [c EXCEPT !.namespace = SubSeq(bytes, 1, a),
                        !.key       = SubSeq(bytes, a + 1, b),
                        !.value     = SubSeq(bytes, b + 1, Len(bytes))]
    BY <1>7 DEF Divided
  <2>1. PICK b \in a..l :
          e = [c EXCEPT !.namespace = SubSeq(bytes, 1, a),
                        !.key       = SubSeq(bytes, a + 1, b),
                        !.value     = SubSeq(bytes, b + 1, Len(bytes))]
    BY <2>0
  <2> DEFINE x == SubSeq(bytes, 1, a)
             y == SubSeq(bytes, a + 1, b)
             z == SubSeq(bytes, b + 1, l)
  <2>2. e = [c EXCEPT !.namespace = x, !.key = y, !.value = z]
    BY <2>1
  <2>3. ASSUME raw.form = "binary"
        PROVE  /\ IsSeq(x) /\ IsSeq(y) /\ IsSeq(z)
               /\ Cells(x) /\ Cells(y) /\ Cells(z)
    <3>1. IsSeq(bytes) /\ Cells(bytes)
      <4> DEFINE w == c.namespace \o c.key
      <4>1. IsSeq(w) /\ Cells(w)
        BY <1>3, <2>3, CellsJoined DEF BinaryTyped
      <4> HIDE DEF w
      <4>2. IsSeq(w \o c.value) /\ Cells(w \o c.value)
        BY <1>3, <2>3, <4>1, CellsJoined DEF BinaryTyped
      <4> QED
        BY <4>2 DEF w
    <3> HIDE DEF bytes
    <3>2. l \in Nat
      BY <3>1, LenProperties DEF IsSeq
    <3>3. l = Len(bytes)
      OBVIOUS
    <3> HIDE DEF l
    <3>4. /\ a \in Nat /\ b \in Nat /\ a + 1 \in Nat /\ b + 1 \in Nat /\ 1 \in Nat
          /\ 0 < 1 /\ 0 < a + 1 /\ 0 < b + 1 /\ 1 <= a + 1 /\ a + 1 <= b + 1 /\ b + 1 <= l + 1
          /\ a <= l /\ b <= l /\ l <= l
      BY <3>2
    <3>5. IsSeq(x) /\ Cells(x)
      BY <3>1, <3>3, <3>4, CellsPart
    <3>6. IsSeq(y) /\ Cells(y)
      BY <3>1, <3>3, <3>4, CellsPart
    <3>7. IsSeq(z) /\ Cells(z)
      BY <3>1, <3>2, <3>3, <3>4, CellsPart
    <3> QED
      BY <3>5, <3>6, <3>7
  <2> HIDE DEF x, y, z
  <2>4. /\ e.namespace = x /\ e.key = y /\ e.value = z
        /\ e.version = c.version /\ e.root = c.root /\ e.proof = c.proof
    BY <1>3, <2>2, Replaced
  <2>5. raw.form = "binary" => BinaryTyped(e)
    BY <1>3, <2>3, <2>4 DEF BinaryTyped
  <2> QED
    BY <1>1, <1>5, <2>4, <2>5
<1> QED
  BY <1>6, <1>7 DEF Rewritten

\* A field lost.
LEMMA LostTyped ==
  ASSUME RawTyped(raw), LoseField
  PROVE  RawTyped(raw')
<1> DEFINE s == raw.fields
           n == Len(s)
<1>1. IsSeq(s) /\ \A i \in DOMAIN s : s[i].name = "proof" => IsSeq(s[i].is) /\ Cells(s[i].is)
  BY DEF LoseField, IsJson, RawTyped
<1>2. PICK i \in DOMAIN s : raw' = Json(SubSeq(s, 1, i - 1) \o SubSeq(s, i + 1, n))
  BY DEF LoseField, Alter, RemoveAt
<1>3. DOMAIN s = 1..n /\ n \in Nat
  BY <1>1, LenProperties DEF IsSeq
<1>4. n = Len(s)
  OBVIOUS
<1> HIDE DEF s, n
<1> DEFINE v == SubSeq(s, 1, i - 1)
           w == SubSeq(s, i + 1, n)
           u == v \o w
<1>5. /\ 1 \in Nat /\ i - 1 \in Nat /\ 0 < 1 /\ 1 <= (i - 1) + 1 /\ i - 1 <= n
      /\ i + 1 \in Nat /\ 0 < i + 1 /\ i + 1 <= n + 1 /\ n <= n
  BY <1>3
<1> DEFINE f == 1
           l == i - 1
           m == i + 1
<1>0. /\ f \in Nat /\ l \in Nat /\ 0 < f /\ f <= l + 1 /\ l <= Len(s)
      /\ m \in Nat /\ n \in Nat /\ 0 < m /\ m <= n + 1 /\ n <= Len(s)
  BY <1>3, <1>4, <1>5
<1>10. v = SubSeq(s, f, l) /\ w = SubSeq(s, m, n)
  OBVIOUS
<1> HIDE DEF f, l, m, v, w
<1>6. IsSeq(v) /\ \A k \in DOMAIN v : \E j \in DOMAIN s : v[k] = s[j]
  BY <1>0, <1>1, <1>10, PartFrom
<1>7. IsSeq(w) /\ \A k \in DOMAIN w : \E j \in DOMAIN s : w[k] = s[j]
  BY <1>0, <1>1, <1>10, PartFrom
<1>8. IsSeq(u) /\ \A k \in DOMAIN u : \E j \in DOMAIN s : u[k] = s[j]
  <2>1. IsSeq(u)
    BY <1>6, <1>7, Joined
  <2>2. ASSUME NEW k \in DOMAIN u PROVE \E j \in DOMAIN s : u[k] = s[j]
    <3>1. (\E j \in DOMAIN v : u[k] = v[j]) \/ (\E j \in DOMAIN w : u[k] = w[j])
      BY <1>6, <1>7, JoinedFrom
    <3> QED
      BY <1>6, <1>7, <3>1
  <2> QED
    BY <2>1, <2>2
<1> HIDE DEF u
<1>9. raw'.form = "json" /\ raw'.fields = u
  BY <1>2 DEF Json, u, v, w
<1> QED
  BY <1>1, <1>8, <1>9 DEF RawTyped

\* A field given once more.
LEMMA GivenTyped ==
  ASSUME RawTyped(raw), GiveField
  PROVE  RawTyped(raw')
<1> DEFINE s == raw.fields
<1>1. IsSeq(s) /\ \A i \in DOMAIN s : s[i].name = "proof" => IsSeq(s[i].is) /\ Cells(s[i].is)
  BY DEF GiveField, IsJson, RawTyped
<1>0. PICK name \in DOMAIN NoEnvelope : \E text \in Texts(name) :
        raw' = Json(Append(s, [name |-> name, is |-> text]))
  BY DEF GiveField, Alter
<1>2. PICK text \in Texts(name) : raw' = Json(Append(s, [name |-> name, is |-> text]))
  BY <1>0
<1> HIDE DEF s
<1> DEFINE field == [name |-> name, is |-> text]
           u == Append(s, field)
<1>3. field.name = name /\ field.is = text
  OBVIOUS
<1>4. raw' = Json(u)
  BY <1>2
<1> HIDE DEF field
<1>5. name = "proof" => IsSeq(text) /\ Cells(text)
  <2>1. name = "proof" => text = <<Bad>> \/ text = <<Num(1), Num(0), Num(0)>>
    BY DEF Texts
  <2>2. IsSeq(<<Bad>>) /\ Cells(<<Bad>>)
    BY CellKinds, OneCell
  <2> DEFINE t == <<Num(1), Num(0), Num(0)>>
  <2>3. IsSeq(t) /\ Cells(t)
    <3>1. t \in Seq({t[i] : i \in DOMAIN t}) /\ DOMAIN t = 1..3 /\ t[1] = Num(1) /\ t[2] = Num(0) /\ t[3] = Num(0)
      OBVIOUS
    <3>2. 0 \in Nat /\ 1 \in Nat
      OBVIOUS
    <3>3. IsCell(Num(0)) /\ IsCell(Num(1))
      BY <3>2, CellKinds
    <3> HIDE DEF t
    <3>4. \A i \in 1..3 : i = 1 \/ i = 2 \/ i = 3
      OBVIOUS
    <3> QED
      BY <3>1, <3>3, <3>4 DEF IsSeq, Cells
  <2> QED
    BY <2>1, <2>2, <2>3
<1>6. /\ IsSeq(u) /\ Len(s) \in Nat /\ DOMAIN s = 1..Len(s) /\ DOMAIN u = 1..(Len(s) + 1)
      /\ \A i \in 1..Len(s) : u[i] = s[i]
      /\ u[Len(s) + 1] = field
  BY <1>1, Appended
<1> HIDE DEF u
<1>7. \A i \in 1..(Len(s) + 1) : i \in 1..Len(s) \/ i = Len(s) + 1
  BY <1>6
<1>8. \A i \in DOMAIN u : u[i].name = "proof" => IsSeq(u[i].is) /\ Cells(u[i].is)
  BY <1>1, <1>3, <1>5, <1>6, <1>7
<1>9. raw'.form = "json" /\ raw'.fields = u
  BY <1>4 DEF Json
<1> QED
  BY <1>6, <1>8, <1>9 DEF RawTyped

-----------------------------------------------------------------------------
(***************************************************************************)
(* The life of a proof file.                                               *)
(***************************************************************************)
\* Before anything is done to it the file is the one `scls proof generate`
\* wrote for an entry of the file that was proved.
IsWritten(i, j) ==
  \E key, value \in Seq(ByteCells), format \in {"json", "binary"} :
    /\ OfFile(Leaves \cup Elsewhere, parts, i, j)
    /\ BytesOf(Namespace, key, value, parts[i][j])
    /\ raw = Written(parts, i, j, Namespace, key, value, format)

AsWritten == raw # NoFile /\ alterations = 0 =>
               \E i \in DOMAIN parts : \E j \in DOMAIN parts[i] : IsWritten(i, j)

FileInv == /\ MInv
           /\ parts \in Seq(Seq(Leaves \cup Elsewhere))
           /\ alterations \in Nat
           /\ RawTyped(raw)
           /\ AsWritten

\* Every digest of an entry is a leaf.
LEMMA EntriesAreLeaves == \A h \in Leaves \cup Elsewhere : IsLeaf(h)
BY LeavesAssumption, NeighboursAssumption DEF IsLeaf, EntryDigestOf

\* What can be counted is within the limit of a path.
LEMMA CountableWithin ==
  ASSUME NEW n \in Nat, Countable(n)
  PROVE  n <= Pow2(maxProofSteps)
<1>1. PICK d \in 0..maxProofSteps : n <= Pow2(d)
  BY DEF Countable
<1>2. maxProofSteps \in Nat
  BY DEF maxProofSteps
<1> HIDE DEF maxProofSteps
<1>3. d \in Nat /\ Pow2(d) \in Nat /\ Pow2(maxProofSteps) \in Nat
  BY <1>2, Pow2Positive
<1>4. CASE d = maxProofSteps
  BY <1>1, <1>4
<1>5. CASE d # maxProofSteps
  <2>1. d < maxProofSteps
    BY <1>2, <1>5
  <2>2. 2 * Pow2(d) <= Pow2(maxProofSteps)
    BY <1>2, <1>3, <2>1, Pow2Grows
  <2> QED
    BY <1>1, <1>3, <2>2
<1> QED
  BY <1>4, <1>5

\* Bytes are cells.
LEMMA BytesAreCells == ASSUME NEW w \in Seq(ByteCells) PROVE IsSeq(w) /\ Cells(w)
<1>1. IsSeq(w)
  BY TypedIsSeq
<1>2. \A i \in DOMAIN w : w[i] \in ByteCells
  BY LenProperties, ElementOfSeq
<1>3. \A c \in ByteCells : IsCell(c)
  <2>1. \A b \in 0..255 : b \in Nat
    OBVIOUS
  <2> QED
    BY <2>1, CellKinds DEF ByteCells
<1> QED
  BY <1>1, <1>2, <1>3 DEF Cells

\* At the start there is no file.
LEMMA FileInit == ProofInit => FileInv
<1> SUFFICES ASSUME ProofInit PROVE FileInv
  OBVIOUS
<1>1. MInv
  BY InitGrown DEF ProofInit
<1>2. RawTyped(NoFile)
  <2>1. NoFile.form = "binary" /\ NoFile.cells = <<>>
    BY DEF NoFile, Binary
  <2>2. IsSeq(<<>>) /\ Cells(<<>>)
    BY NoneIsSeq DEF Cells
  <2> QED
    BY <2>1, <2>2 DEF RawTyped
<1>3. <<>> \in Seq(Seq(Leaves \cup Elsewhere))
  BY EmptySeq
<1> QED
  BY <1>1, <1>2, <1>3 DEF ProofInit, FileInv, AsWritten

\* The tree grows.
LEMMA FileGrow == FileInv /\ Grow => FileInv'
<1> SUFFICES ASSUME FileInv, Grow PROVE FileInv'
  OBVIOUS
<1>1. MInv'
  BY NextGrown DEF FileInv, Grow
<1>2. UNCHANGED <<raw, parts, alterations>> /\ raw = NoFile
  BY DEF Grow
<1>3. AsWritten'
  BY <1>2 DEF AsWritten
<1> QED
  BY <1>1, <1>2, <1>3 DEF FileInv

\* A proof is made.
LEMMA FileGenerate ==
  ASSUME FileInv, NEW index \in DOMAIN leaves, NEW n \in Neighbours,
         NEW format \in {"json", "binary"}, Generate(index, n, format)
  PROVE  FileInv'
<1> DEFINE S == Leaves \cup Elsewhere
           one == <<leaves>>
           u == n.before \o one
           ps == u \o n.after
           i == Len(n.before) + 1
           e == EntryOf[leaves[index]]
           ns == Namespace
           proof == [nsPath |-> provePath(ps[i], index), globalPath |-> provePath(GlobalLeaves(ps), i)]
<1>1. /\ leaves \in Seq(Leaves) /\ tree = TreeOf(leaves) /\ alterations \in Nat
  BY DEF FileInv, MInv
<1>2. /\ Len(leaves) <= MaxProved
      /\ parts' = ps
      /\ raw' = marshalEnvelope(Envelope(proofEnvelopeVersion, ns, e.key, e.value,
                                         <<GlobalRoot(ps)>>, MarshalBinary(ProofOfEntry(index, n))),
                                format)
      /\ UNCHANGED <<tree, leaves, alterations>>
  BY DEF Generate
<1>3. /\ n.before \in Seq(Seq(S)) /\ n.after \in Seq(Seq(S)) /\ leaves \in Seq(S)
      /\ Countable(Len(n.before) + 1 + Len(n.after))
  <2>1. Leaves \subseteq S /\ Elsewhere \subseteq S
    OBVIOUS
  <2>2. n.before \in Seq(Seq(Elsewhere)) /\ n.after \in Seq(Seq(Elsewhere))
    BY NeighboursAssumption
  <2>3. Seq(Elsewhere) \subseteq Seq(S) /\ leaves \in Seq(S)
    BY <1>1, <2>1, SeqMonotonic
  <2> HIDE DEF S
  <2> QED
    BY <2>2, <2>3, SeqMonotonic, CountsAssumption
<1> HIDE DEF S, one, u
<1>4. one \in Seq(Seq(S)) /\ Len(one) = 1 /\ one[1] = leaves
  BY <1>3 DEF one
<1>5. /\ u \in Seq(Seq(S)) /\ Len(u) = Len(n.before) + 1 /\ u[i] = leaves
      /\ Len(n.before) \in Nat /\ Len(n.after) \in Nat
  <2> DEFINE b == n.before
             m == Len(b)
  <2>1. b \in Seq(Seq(S)) /\ m \in Nat /\ Len(n.after) \in Nat
    BY <1>3, LenProperties
  <2> HIDE DEF b
  <2>2. /\ b \o one \in Seq(Seq(S)) /\ Len(b \o one) = m + Len(one)
        /\ \A k \in 1..(m + Len(one)) : (b \o one)[k] = IF k <= m THEN b[k] ELSE one[k - m]
    BY <1>4, <2>1, ConcatProperties
  <2> HIDE DEF m
  <2>3. m + 1 \in 1..(m + Len(one)) /\ ~(m + 1 <= m) /\ (m + 1) - m = 1
    BY <1>4, <2>1
  <2>4. (b \o one)[m + 1] = leaves
    BY <1>4, <2>2, <2>3
  <2> QED
    BY <1>4, <2>1, <2>2, <2>4 DEF u, b, m
<1>6. /\ ps \in Seq(Seq(S)) /\ Len(ps) = Len(n.before) + 1 + Len(n.after) /\ ps[i] = leaves
  <2> DEFINE a == n.after
             m == Len(n.before)
  <2>1. a \in Seq(Seq(S)) /\ m \in Nat /\ Len(a) \in Nat /\ Len(u) = m + 1
    BY <1>3, <1>5
  <2> HIDE DEF a, m
  <2>2. /\ u \o a \in Seq(Seq(S)) /\ Len(u \o a) = Len(u) + Len(a)
        /\ \A k \in 1..(Len(u) + Len(a)) : (u \o a)[k] = IF k <= Len(u) THEN u[k] ELSE a[k - Len(u)]
    BY <1>5, <2>1, ConcatProperties
  <2>3. m + 1 \in 1..(Len(u) + Len(a)) /\ m + 1 <= Len(u)
    BY <2>1
  <2>4. (u \o a)[m + 1] = u[m + 1]
    BY <2>2, <2>3
  <2> QED
    BY <1>5, <2>1, <2>2, <2>4 DEF a, m
<1>7. i \in DOMAIN ps /\ index \in DOMAIN ps[i]
  <2>1. DOMAIN ps = 1..Len(ps)
    BY <1>6, LenProperties
  <2> HIDE DEF ps
  <2> DEFINE mb == Len(n.before)
             ma == Len(n.after)
  <2>3. mb \in Nat /\ ma \in Nat /\ Len(ps) = mb + 1 + ma /\ i = mb + 1
    BY <1>5, <1>6
  <2> HIDE DEF mb, ma, i
  <2>2. i \in 1..Len(ps)
    BY <2>3
  <2> QED
    BY <1>6, <2>1, <2>2
<1>8. Len(ps) <= Pow2(maxProofSteps) /\ Len(ps[i]) <= Pow2(maxProofSteps)
  <2> DEFINE m == Len(n.before) + 1 + Len(n.after)
             l == Len(leaves)
  <2>1. m \in Nat /\ l \in Nat /\ Countable(m) /\ MaxProved \in Nat /\ Countable(MaxProved)
    <3>1. l \in Nat
      BY <1>1, LenProperties
    <3>2. m \in Nat
      <4> DEFINE mb == Len(n.before)
                 ma == Len(n.after)
      <4>1. mb \in Nat /\ ma \in Nat /\ m = mb + 1 + ma
        BY <1>5
      <4> HIDE DEF mb, ma, m
      <4> QED
        BY <4>1
    <3> QED
      BY <1>3, <3>1, <3>2, CountsAssumption
  <2>2. Pow2(maxProofSteps) \in Nat
    BY Pow2Positive DEF maxProofSteps
  <2>3. l <= MaxProved
    BY <1>2
  <2> HIDE DEF m, l, ps
  <2>4. m <= Pow2(maxProofSteps) /\ MaxProved <= Pow2(maxProofSteps)
    BY <2>1, CountableWithin
  <2>5. l <= Pow2(maxProofSteps)
    BY <2>1, <2>2, <2>3, <2>4
  <2> QED
    BY <1>6, <2>4, <2>5 DEF m, l
<1>9. ProofOfEntry(index, n) = proof
  BY <1>6 DEF ProofOfEntry, u, one
<1> HIDE DEF ps, i
<1>10. /\ leaves[index] \in Leaves
       /\ e.key \in Seq(ByteCells) /\ e.value \in Seq(ByteCells)
       /\ leaves[index] = EntryDigestOf(ns, e.key, e.value)
  <2>1. leaves[index] \in Leaves
    BY <1>1, LenProperties, ElementOfSeq
  <2> QED
    BY <2>1, EntriesAssumption, LeavesAssumption
<1>11. raw' = Written(ps, i, index, ns, e.key, e.value, format)
  BY <1>2, <1>9 DEF Written
<1>12. MInv'
  BY <1>1, <1>2 DEF MInv
<1>13. parts' \in Seq(Seq(Leaves \cup Elsewhere)) /\ alterations' \in Nat
  BY <1>1, <1>2, <1>6 DEF S
<1>14. OfFile(S, ps, i, index)
  BY <1>3, <1>6, <1>7, <1>8, EntriesAreLeaves DEF OfFile, S
<1>15. AsWritten'
  <2> DEFINE key == e.key
             value == e.value
  <2>1. /\ key \in Seq(ByteCells) /\ value \in Seq(ByteCells)
        /\ raw' = Written(parts', i, index, Namespace, key, value, format)
        /\ i \in DOMAIN parts' /\ index \in DOMAIN parts'[i]
        /\ OfFile(Leaves \cup Elsewhere, parts', i, index)
        /\ BytesOf(Namespace, key, value, parts'[i][index])
    <3>1. /\ parts' = ps /\ ps[i][index] = leaves[index]
          /\ Namespace \in Seq(ByteCells) /\ validUtf8(Namespace)
      BY <1>2, <1>6, EntriesAssumption
    <3> QED
      BY <1>7, <1>10, <1>11, <1>14, <3>1 DEF BytesOf, S
  <2> HIDE DEF key, value
  <2>2. IsWritten(i, index)'
    BY <2>1 DEF IsWritten
  <2> QED
    BY <2>1, <2>2 DEF AsWritten
<1>16. RawTyped(raw')
  <2> DEFINE b == MarshalBinary(ProofOfEntry(index, n))
             root == GlobalRoot(ps)
             f == Envelope(proofEnvelopeVersion, ns, e.key, e.value, <<root>>, b)
  <2>1. IsSeq(b) /\ Plain(b)
    <3>1. IsSeq(MarshalBinary(proof)) /\ Plain(MarshalBinary(proof))
      BY <1>14, ProofWritten
    <3> QED
      BY <1>9, <3>1
  <2>2. IsDigest(root)
    <3>1. IsSeq(ps)
      BY <1>6, TypedIsSeq
    <3> QED
      BY <3>1, GlobalRootIsDigest
  <2>3. IsSeq(<<root>>) /\ Cells(<<root>>)
    BY <2>2, CellKinds, OneCell
  <2>4. /\ f.version = proofEnvelopeVersion /\ f.namespace = ns /\ f.key = e.key
        /\ f.value = e.value /\ f.root = <<root>> /\ f.proof = b
    BY DEF Envelope
  <2>5. raw' = marshalEnvelope(f, format)
    BY <1>2
  <2>6. Cells(b)
    BY <2>1, CellKinds DEF Plain, Cells
  <2>7. /\ IsSeq(ns) /\ IsSeq(e.key) /\ IsSeq(e.value)
        /\ Cells(ns) /\ Cells(e.key) /\ Cells(e.value)
    BY <1>10, EntriesAssumption, BytesAreCells
  <2>8. proofEnvelopeVersion \in Nat
    BY DEF proofEnvelopeVersion
  <2> HIDE DEF f, b, root
  <2>9. BinaryTyped(f)
    BY <2>1, <2>3, <2>4, <2>6, <2>7, <2>8 DEF BinaryTyped
  <2>10. IsSeq(f.proof) /\ Cells(f.proof)
    BY <2>1, <2>4, <2>6
  <2> QED
    BY <2>5, <2>9, <2>10, MarshalTyped
<1> QED
  BY <1>12, <1>13, <1>15, <1>16 DEF FileInv

\* Something is done to the file.
LEMMA FileSent == FileInv /\ Sent => FileInv'
<1> SUFFICES ASSUME FileInv, Sent PROVE FileInv'
  OBVIOUS
<1>1. alterations' = alterations + 1 /\ UNCHANGED <<tree, leaves, parts>>
  BY DEF Sent, Alter, DamageCell, CutShort, AddBehind, Rewrite, LoseField, GiveField
<1>2. IsSeq(parts)
  BY TypedIsSeq DEF FileInv
<1>3. RawTyped(raw')
  <2>1. CASE DamageCell
    BY <1>2, <2>1, DamagedTyped DEF FileInv
  <2>2. CASE CutShort
    BY <2>2, CutTyped DEF FileInv
  <2>3. CASE AddBehind
    BY <2>3, BehindTyped DEF FileInv
  <2>4. CASE Rewrite
    BY <2>4, RewrittenTyped DEF FileInv
  <2>5. CASE LoseField
    BY <2>5, LostTyped DEF FileInv
  <2>6. CASE GiveField
    BY <2>6, GivenTyped DEF FileInv
  <2> QED
    BY <2>1, <2>2, <2>3, <2>4, <2>5, <2>6 DEF Sent
<1>4. MInv'
  BY <1>1 DEF FileInv, MInv
<1>5. alterations' \in Nat /\ alterations' # 0
  BY <1>1 DEF FileInv
<1>6. AsWritten'
  BY <1>5 DEF AsWritten
<1> QED
  BY <1>1, <1>3, <1>4, <1>5, <1>6 DEF FileInv

\* The file is of cells and fields that were written, and as generated until
\* something is done to it.
THEOREM ProofFileInvariant == ProofSpec => []FileInv
<1>1. FileInv /\ [ProofNext]_pvars => FileInv'
  <2> SUFFICES ASSUME FileInv, [ProofNext]_pvars PROVE FileInv'
    OBVIOUS
  <2>1. CASE Grow
    BY <2>1, FileGrow
  <2>2. CASE \E index \in DOMAIN leaves, n \in Neighbours, format \in {"json", "binary"} :
               Generate(index, n, format)
    BY <2>2, FileGenerate
  <2>3. CASE Sent
    BY <2>3, FileSent
  <2>4. CASE UNCHANGED pvars
    <3>1. UNCHANGED <<tree, leaves, raw, parts, alterations>>
      BY <2>4 DEF pvars
    <3>2. MInv' /\ AsWritten'
      BY <3>1 DEF FileInv, MInv, AsWritten, IsWritten
    <3> QED
      BY <3>1, <3>2 DEF FileInv
  <2> QED
    BY <2>1, <2>2, <2>3, <2>4 DEF ProofNext
<1> QED
  BY <1>1, FileInit, PTL DEF ProofSpec

\* A proof that reaches its reader as it was generated is accepted, in either
\* form, with the root pinned or not (proof.go:133-188,
\* cmd/scls/proof.go:93-148).
THEOREM GeneratedProofArrives == ProofSpec => []ProofArrives
<1>1. ASSUME FileInv PROVE ProofArrives
  <2> SUFFICES ASSUME raw # NoFile, alterations = 0, NEW pin \in {NoPin, <<GlobalRoot(parts)>>}
               PROVE  ProofVerify(raw, pin) = "nil"
    BY DEF ProofArrives
  <2>1. PICK i \in DOMAIN parts : \E j \in DOMAIN parts[i] : IsWritten(i, j)
    BY <1>1 DEF FileInv, AsWritten
  <2>2. PICK j \in DOMAIN parts[i] : IsWritten(i, j)
    BY <2>1
  <2>3. PICK key \in Seq(ByteCells), value \in Seq(ByteCells), format \in {"json", "binary"} :
          /\ OfFile(Leaves \cup Elsewhere, parts, i, j)
          /\ BytesOf(Namespace, key, value, parts[i][j])
          /\ raw = Written(parts, i, j, Namespace, key, value, format)
    BY <2>2 DEF IsWritten
  <2> QED
    BY <2>3, WrittenIsAccepted
<1> QED
  BY <1>1, ProofFileInvariant, PTL

\* Whatever was done to the file, what `proof verify` accepts under the root of
\* the file that was proved has the bytes of one of that file's entries
\* (cmd/scls/proof.go:119-122,137).
THEOREM PinnedProofIsOfAnEntry == ProofSpec => []PinnedProofBinds
<1>1. ASSUME FileInv PROVE PinnedProofBinds
  <2> DEFINE S == Leaves \cup Elsewhere
             pin == <<GlobalRoot(parts)>>
             u == unmarshalEnvelope(raw)
             e == u.env
             v == UnmarshalProofBinary(e.proof)
             leaf == EntryDigestOf(e.namespace, e.key, e.value)
  <2> SUFFICES ASSUME ProofVerify(raw, pin) = "nil"
               PROVE  \E i \in DOMAIN parts : \E j \in DOMAIN parts[i] : parts[i][j] = leaf
    BY DEF PinnedProofBinds, Contents
  <2>1. /\ u.err = "nil" /\ PinHolds(e, pin) /\ v.err = "nil"
        /\ VerifyLeaf(e.root[1], leaf, v.proof) = "nil"
    <3>1. ProofVerify(raw, pin) =
            IF u.err # "nil" THEN u.err
            ELSE IF ~FieldsDecode(e) THEN "invalid field"
            ELSE IF ~PinHolds(e, pin) THEN "root mismatch"
            ELSE IF ~Decodes(e.proof) THEN "invalid proof base64"
            ELSE IF v.err # "nil" THEN v.err
            ELSE VerifyLeaf(e.root[1], leaf, v.proof)
      BY Zenon DEF ProofVerify
    <3> HIDE DEF u, e, v, leaf, pin
    <3> QED
      BY <3>1
  <2>2. e.root[1] = GlobalRoot(parts)
    <3>1. IsSeq(pin) /\ Len(pin) = 1 /\ pin[1] = GlobalRoot(parts)
      BY OneIsSeq
    <3>2. pin # NoPin
      BY <3>1, NoneIsSeq DEF NoPin
    <3> HIDE DEF pin
    <3> QED
      BY <2>1, <3>1, <3>2 DEF PinHolds
  <2>3. IsSeq(v.proof.nsPath) /\ IsSeq(v.proof.globalPath)
    <3>1. RawTyped(raw)
      BY <1>1 DEF FileInv
    <3>2. IsSeq(e.proof) /\ Cells(e.proof)
      BY <2>1, <3>1, ReadableTyped
    <3> HIDE DEF e
    <3> QED
      BY <2>1, <3>2, PathsReadBack
  <2>4. parts \in Seq(Seq(S)) /\ \A h \in S : IsLeaf(h)
    BY <1>1, EntriesAreLeaves DEF FileInv
  <2>5. IsLeaf(leaf)
    BY DEF IsLeaf, EntryDigestOf
  <2> DEFINE proof == v.proof
  <2>6. VerifyLeaf(GlobalRoot(parts), leaf, proof) = "nil" /\ IsSeq(proof.nsPath) /\ IsSeq(proof.globalPath)
    BY <2>1, <2>2, <2>3
  <2> HIDE DEF S, leaf, proof
  <2> QED
    BY <2>4, <2>5, <2>6, VerifiedIsCommitted
<1> QED
  BY <1>1, ProofFileInvariant, PTL

\* A binary envelope and a binary proof that are accepted are the ones that
\* marshalling gives (proof.go:161-166, cmd/scls/proof.go:271).
THEOREM AcceptedFormIsWritten == ProofSpec => []AcceptedFormIsTheOnlyOne
<1>1. ASSUME FileInv PROVE AcceptedFormIsTheOnlyOne
  <2> DEFINE e == unmarshalEnvelope(raw).env
             p == UnmarshalProofBinary(e.proof)
  <2> SUFFICES ASSUME IsBinary, Readable
               PROVE  /\ marshalEnvelopeBinary(e) = raw.cells
                      /\ p.err = "nil" => MarshalBinary(p.proof) = e.proof
    BY DEF AcceptedFormIsTheOnlyOne, Contents
  <2>1. RawTyped(raw) /\ unmarshalEnvelope(raw).err = "nil" /\ raw.form = "binary"
    BY <1>1 DEF FileInv, Readable, IsBinary
  <2>2. marshalEnvelopeBinary(e) = raw.cells /\ IsSeq(e.proof) /\ Cells(e.proof)
    BY <2>1, ReadableTyped
  <2> HIDE DEF e
  <2>3. p.err = "nil" => MarshalBinary(p.proof) = e.proof
    BY <2>2, PathsReadBack
  <2> QED
    BY <2>2, <2>3
<1> QED
  BY <1>1, ProofFileInvariant, PTL
=============================================================================
