----------------------------- MODULE CborInputs -----------------------------
(***************************************************************************)
(* Every input of bytes in Alphabet that may still become a CBOR item, fed *)
(* to Unmarshal; what it accepts is fed to Marshal.                        *)
(***************************************************************************)
EXTENDS Cbor

CONSTANTS Alphabet, MaxLength
ASSUME AlphabetAssumption  == Alphabet \subseteq 0..255
ASSUME MaxLengthAssumption == MaxLength \in 0..255

VARIABLE data

Init == data = <<>>

\* One byte more, unless the input is refused for what it already holds.
Feed == /\ Len(data) < MaxLength
        /\ Unmarshal(data).err \in {"nil", "unexpected end"}
        /\ \E b \in Alphabet : data' = Append(data, b)

-----------------------------------------------------------------------------
Accepted == Unmarshal(data).err = "nil"

\* The same value with its maps in another order, at every depth.
RECURSIVE Reordered(_)
Reordered(v) ==
  CASE v.t = "array" -> Array([i \in DOMAIN v.items |-> Reordered(v.items[i])])
    [] v.t = "tag"   -> Tag(v.n, Reordered(v.value))
    [] v.t = "map"   -> Map(Reverse([i \in DOMAIN v.entries |->
                               [key   |-> Reordered(v.entries[i].key),
                                value |-> Reordered(v.entries[i].value)]]))
    [] OTHER -> v

\* Unmarshal accepts no other encoding of a value than the one Marshal gives
\* it, so that what is hashed verbatim is canonical (cbor/doc.go:18-21); and an
\* item ends where its bytes say: none goes on behind another (decode.go:32-34).
AcceptedIsCanonical ==
  Accepted => LET m == Marshal(Unmarshal(data).value)
              IN  /\ m.err = "nil" /\ m.value = data
                  /\ \A n \in 0..(Len(data) - 1) :
                       Unmarshal(SubSeq(data, 1, n)).err # "nil"

\* Marshal does not depend on the order in which a Map is given, and refuses a
\* Map with an entry twice (encode.go:138-168).
MarshalNormalises ==
  Accepted => LET v == Unmarshal(data).value
              IN  /\ Marshal(Reordered(v)) = Marshal(v)
                  /\ v.t = "map" /\ v.entries # <<>> =>
                       Marshal(Map(v.entries \o <<v.entries[1]>>)).err = "ErrDuplicateMapKey"

\* Marshal writes nothing that is nested too deeply for Unmarshal, and refuses
\* nothing that Unmarshal takes: around any item, an array, a tag and a map
\* are within the limit of both or of neither.
DepthAgrees ==
  Accepted =>
    LET v == Unmarshal(data).value
        agree(bytes, w) == (Unmarshal(bytes).err = "nil") <=> (Marshal(w).err = "nil")
    IN  /\ agree(<<129>> \o data, Array(<<v>>))
        /\ agree(<<193>> \o data, Tag(<<1>>, v))
        /\ agree(<<161, 0>> \o data, Map(<<[key |-> Uint(<<>>), value |-> v]>>))
        /\ agree(<<161>> \o data \o <<0>>, Map(<<[key |-> v, value |-> Uint(<<>>)]>>))
=============================================================================
