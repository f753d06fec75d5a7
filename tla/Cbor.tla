-------------------------------- MODULE Cbor --------------------------------
(***************************************************************************)
(* cardano/cbor: deterministic CBOR, decoded and encoded byte by byte.  An *)
(* integer (a uint64) is the sequence of its significant bytes, the most   *)
(* significant first, so that it keeps its width whatever TLC's own is.    *)
(* Every error is named by the sentinel it wraps; the input that ends too  *)
(* soon, which is an ErrInvalid, has a name of its own.                    *)
(***************************************************************************)
EXTENDS Bytes, SequencesExt

CONSTANT maxDepth
ASSUME maxDepthAssumption == maxDepth \in Nat

Fail(err)        == [err |-> err, value |-> [t |-> "nil"], offset |-> 0]
Got(value, offset) == [err |-> "nil", value |-> value, offset |-> offset]

\* Values.  Simple(23) has no Go type of its own, 20 to 22 are bool and nil.
Uint(n)        == [t |-> "uint", n |-> n]
Negative(n)    == [t |-> "negative", n |-> n]
Str(t, bytes)  == [t |-> t, bytes |-> bytes]
Array(items)   == [t |-> "array", items |-> items]
Map(entries)   == [t |-> "map", entries |-> entries]
Tag(n, value)  == [t |-> "tag", n |-> n, value |-> value]
Simple(s)      == [t |-> "simple", s |-> s]
Bool(b)        == [t |-> "bool", b |-> b]
Null           == [t |-> "nil"]

-----------------------------------------------------------------------------
\* Integers as bytes.
Significant(bytes) ==
  LET at == {i \in DOMAIN bytes : bytes[i] # 0}
  IN  IF at = {} THEN <<>>
      ELSE SubSeq(bytes, CHOOSE i \in at : \A j \in at : i <= j, Len(bytes))

Padded(n, width) == [i \in 1..(width - Len(n)) |-> 0] \o n

\* For a limit below 256, which the input's length is here.
Exceeds(n, limit) == Len(n) > 1 \/ (n # <<>> /\ n[1] > limit)
ToInt(n)          == IF n = <<>> THEN 0 ELSE n[1]
FromInt(i)        == IF i = 0 THEN <<>> ELSE <<i>>

\* utf8.Valid
Between(b, low, high) == low <= b /\ b <= high

RuneLength(s, i) ==
  LET next(k, low, high) == i + k <= Len(s) /\ Between(s[i + k], low, high)
      tail(k) == next(k, 128, 191)
  IN  IF s[i] < 128 THEN 1
      ELSE IF Between(s[i], 194, 223) /\ tail(1) THEN 2
      ELSE IF /\ Between(s[i], 224, 239) /\ tail(2)
              /\ next(1, IF s[i] = 224 THEN 160 ELSE 128, IF s[i] = 237 THEN 159 ELSE 191)
             THEN 3
      ELSE IF /\ Between(s[i], 240, 244) /\ tail(2) /\ tail(3)
              /\ next(1, IF s[i] = 240 THEN 144 ELSE 128, IF s[i] = 244 THEN 143 ELSE 191)
             THEN 4
      ELSE 0

ValidUtf8(s) ==
  LET at[i \in 1..(Len(s) + 1)] ==     \* whether s is valid from i on
        i = Len(s) + 1 \/ (RuneLength(s, i) # 0 /\ at[i + RuneLength(s, i)])
  IN  at[1]

-----------------------------------------------------------------------------
\* decoder.argument; offset is behind the initial byte.
Width(additional) == CASE additional = 24 -> 1 [] additional = 25 -> 2
                       [] additional = 26 -> 4 [] additional = 27 -> 8

\* Slip: only the wider forms are checked for being minimal.
NonMinimalWide(bytes) == Len(bytes) > 1 /\ \A i \in 1..(Len(bytes) \div 2) : bytes[i] = 0

NonMinimal(bytes) == IF Len(bytes) = 1 THEN bytes[1] < 24
                     ELSE \A i \in 1..(Len(bytes) \div 2) : bytes[i] = 0

argument(data, offset, additional) ==
  IF additional < 24 THEN Got(FromInt(additional), offset)
  ELSE IF additional = 31 THEN Fail("ErrIndefinite")
  ELSE IF additional > 27 THEN Fail("ErrInvalid")
  ELSE IF offset + Width(additional) > Len(data) THEN Fail("unexpected end")
  ELSE LET bytes == SubSeq(data, offset + 1, offset + Width(additional))
       IN  IF NonMinimal(bytes) THEN Fail("ErrNonMinimal")
           ELSE Got(Significant(bytes), offset + Width(additional))

simple(data, offset, additional) ==
  CASE additional \in 0..19 \cup {23} -> Got(Simple(additional), offset)
    [] additional \in {20, 21} -> Got(Bool(additional = 21), offset)
    [] additional = 22 -> Got(Null, offset)
    [] additional = 24 ->
         IF offset >= Len(data) THEN Fail("unexpected end")
         ELSE IF data[offset + 1] < 32 THEN Fail("ErrNonMinimal")
         ELSE Got(Simple(data[offset + 1]), offset + 1)
    [] additional \in 25..27 -> Fail("ErrUnsupported")
    [] additional = 31 -> Fail("ErrIndefinite")
    [] OTHER -> Fail("ErrInvalid")

\* Slip: the limit itself is refused.
TooDeepAtLimit(depth) == depth >= maxDepth
TooDeep(depth)        == depth > maxDepth

RECURSIVE value(_, _, _), items(_, _, _, _), pairs(_, _, _, _)

\* decoder.value for the item at offset.
value(data, offset, depth) ==
  IF TooDeep(depth) THEN Fail("ErrDepth")
  ELSE IF offset >= Len(data) THEN Fail("unexpected end")
  ELSE
    LET major      == data[offset + 1] \div 32
        additional == data[offset + 1] % 32
        arg        == argument(data, offset + 1, additional)
        left       == Len(data) - arg.offset
        end        == arg.offset + ToInt(arg.value)
        string(t)  == Got(Str(t, SubSeq(data, arg.offset + 1, end)), end)
    IN
    IF major = 7 THEN simple(data, offset + 1, additional)
    ELSE IF arg.err # "nil" THEN arg
    ELSE CASE major = 0 -> Got(Uint(arg.value), arg.offset)
           [] major = 1 -> Got(Negative(arg.value), arg.offset)
           [] major \in {2, 3} ->
                IF Exceeds(arg.value, left) THEN Fail("unexpected end")
                ELSE IF major = 2 THEN string("bytes")
                ELSE IF ValidUtf8(SubSeq(data, arg.offset + 1, end)) THEN string("text")
                ELSE Fail("ErrInvalid")
           [] major = 4 ->
                IF Exceeds(arg.value, left) THEN Fail("unexpected end")
                ELSE LET r == items(data, arg.offset, ToInt(arg.value), depth)
                     IN  IF r.err = "nil" THEN Got(Array(r.value), r.offset) ELSE r
           [] major = 5 ->
                IF Exceeds(arg.value, left \div 2) THEN Fail("unexpected end")
                ELSE LET r == pairs(data, arg.offset, ToInt(arg.value), depth)
                     IN  IF r.err = "nil" THEN Got(Map(r.value.entries), r.offset) ELSE r
           [] major = 6 ->
                LET r == value(data, arg.offset, depth + 1)
                IN  IF r.err = "nil" THEN Got(Tag(arg.value, r.value), r.offset) ELSE r

\* The first count items of an array.
items(data, offset, count, depth) ==
  IF count = 0 THEN Got(<<>>, offset)
  ELSE LET before == items(data, offset, count - 1, depth)
           item   == value(data, before.offset, depth + 1)
       IN  IF before.err # "nil" THEN before
           ELSE IF item.err # "nil" THEN item
           ELSE Got(Append(before.value, item.value), item.offset)

\* What is wrong with a key behind the one before it.
KeyErr(previous, key) == IF previous = <<>> THEN "nil"
                         ELSE IF key = previous THEN "ErrDuplicateMapKey"
                         ELSE IF BytesBefore(key, previous) THEN "ErrMapOrder" ELSE "nil"

\* The first count entries of a map, and the bytes of the last key.
pairs(data, offset, count, depth) ==
  IF count = 0 THEN Got([entries |-> <<>>, previous |-> <<>>], offset)
  ELSE LET before   == pairs(data, offset, count - 1, depth)
           key      == value(data, before.offset, depth + 1)
           keyBytes == SubSeq(data, before.offset + 1, key.offset)
           item     == value(data, key.offset, depth + 1)
       IN  IF before.err # "nil" THEN before
           ELSE IF key.err # "nil" THEN key
           ELSE IF KeyErr(before.value.previous, keyBytes) # "nil"
                  THEN Fail(KeyErr(before.value.previous, keyBytes))
           ELSE IF item.err # "nil" THEN item
           ELSE Got([entries  |-> Append(before.value.entries,
                                         [key |-> key.value, value |-> item.value]),
                     previous |-> keyBytes],
                    item.offset)

Unmarshal(data) ==
  LET r == value(data, 0, 0)
  IN  IF r.err = "nil" /\ r.offset # Len(data) THEN Fail("ErrTrailingData") ELSE r

-----------------------------------------------------------------------------
\* appendArgument
Argument(major, n) ==
  LET prefix == major * 32
  IN  CASE ~Exceeds(n, 23) -> <<prefix + ToInt(n)>>
        [] Exceeds(n, 23) /\ Len(n) = 1 -> <<prefix + 24>> \o n
        [] Len(n) = 2      -> <<prefix + 25>> \o n
        [] Len(n) \in 3..4 -> <<prefix + 26>> \o Padded(n, 4)
        [] Len(n) \in 5..8 -> <<prefix + 27>> \o Padded(n, 8)

\* Encoded parts in a row, or the error of the first that has one.
Joined(head, parts) ==
  LET bad == {i \in DOMAIN parts : parts[i].err # "nil"}
  IN  IF bad # {} THEN parts[CHOOSE i \in bad : \A j \in bad : i <= j]
      ELSE Got(head \o FlattenSeq([i \in DOMAIN parts |-> parts[i].value]), 0)

\* The encoded entries in the order of their keys.
\* Slip: they are left in the order given.
SortedAsGiven(entries) == entries
Sorted(entries)        == SortSeq(entries, LAMBDA a, b : BytesBefore(a.key, b.key))

RECURSIVE appendValue(_, _)

\* appendMap: the keys are encoded and sorted, then the values are encoded.
appendMap(entries, depth) ==
  LET keys   == [i \in DOMAIN entries |-> appendValue(entries[i].key, depth + 1)]
      sorted == Sorted([i \in DOMAIN entries |->
                          [key |-> keys[i].value, value |-> entries[i].value]])
      parts  == [i \in DOMAIN sorted |->
                   Joined(sorted[i].key, <<appendValue(sorted[i].value, depth + 1)>>)]
  IN  IF \E i \in DOMAIN keys : keys[i].err # "nil" THEN Joined(<<>>, keys)
      ELSE IF \E i \in 2..Len(sorted) : sorted[i].key = sorted[i - 1].key
        THEN Fail("ErrDuplicateMapKey")
      ELSE Joined(Argument(5, FromInt(Len(entries))), parts)

appendSimple(s) == CASE s < 20 \/ s = 23 -> Got(<<224 + s>>, 0)
                     [] s >= 32 -> Got(<<248, s>>, 0)
                     [] OTHER -> Fail("ErrUnsupported")

appendValue(v, depth) ==
  IF depth > maxDepth THEN Fail("ErrDepth")
  ELSE CASE v.t = "nil"      -> Got(<<246>>, 0)
         [] v.t = "bool"     -> Got(<<IF v.b THEN 245 ELSE 244>>, 0)
         [] v.t = "uint"     -> Got(Argument(0, v.n), 0)
         [] v.t = "negative" -> Got(Argument(1, v.n), 0)
         [] v.t = "bytes"    -> Got(Argument(2, FromInt(Len(v.bytes))) \o v.bytes, 0)
         [] v.t = "text"     -> IF ValidUtf8(v.bytes)
                                THEN Got(Argument(3, FromInt(Len(v.bytes))) \o v.bytes, 0)
                                ELSE Fail("ErrInvalid")
         [] v.t = "array"    -> Joined(Argument(4, FromInt(Len(v.items))),
                                       [i \in DOMAIN v.items |->
                                          appendValue(v.items[i], depth + 1)])
         [] v.t = "map"      -> appendMap(v.entries, depth)
         [] v.t = "tag"      -> Joined(Argument(6, v.n), <<appendValue(v.value, depth + 1)>>)
         [] v.t = "simple"   -> appendSimple(v.s)

\* Marshal: the bytes are the value of the result.
Marshal(v) == appendValue(v, 0)
=============================================================================
