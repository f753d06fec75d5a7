----------------------------- MODULE ProofForm -----------------------------
(***************************************************************************)
(* The portable forms of an inclusion proof: the binary proof of proof.go, *)
(* the envelope of cmd/scls/proof.go around it, and what `scls proof       *)
(* verify` makes of a file with an envelope.                               *)
(*                                                                         *)
(* Binary data is a sequence of cells: an integer (of one byte or four) or *)
(* a byte is Num(n), a digest is the one cell of its own term.  A length   *)
(* counts cells.  An integer read where a digest lies, or a digest where   *)
(* integers lie, is an error: such bytes are garbage, whose fold reaches   *)
(* no root.                                                                *)
(***************************************************************************)
EXTENDS Merkle

Num(n) == <<"num", n>>
ByteCells == {Num(b) : b \in 0..255}
Bad    == <<"bad">>       \* text that is neither hex nor base64

IsNum(b, off)    == off < Len(b) /\ b[off + 1][1] = "num"
NumAt(b, off)    == b[off + 1][2]
IsDigest(cell)   == cell[1] \in {"leaf", "node", "empty"}

EntryDigestOf(ns, key, value) == <<"leaf", ns \o key \o value>>

-----------------------------------------------------------------------------
proofBinaryVersion == 1

\* Slip: the flag says that the sibling is on the right.
appendProofStepsRight(steps) ==
  <<Num(Len(steps))>> \o
  [cell \in 1..(2 * Len(steps)) |->
     LET step == steps[(cell + 1) \div 2]
     IN  IF cell % 2 = 1 THEN Num(IF step.left THEN 0 ELSE 1) ELSE step.sibling]

\* The count, and of every step the flag and the sibling.
appendProofSteps(steps) ==
  <<Num(Len(steps))>> \o
  [cell \in 1..(2 * Len(steps)) |->
     LET step == steps[(cell + 1) \div 2]
     IN  IF cell % 2 = 1 THEN Num(IF step.left THEN 1 ELSE 0) ELSE step.sibling]

MarshalBinary(proof) ==
  <<Num(proofBinaryVersion)>> \o appendProofSteps(proof.nsPath)
                              \o appendProofSteps(proof.globalPath)

NoSteps == [err |-> "ErrInvalidProof", steps |-> <<>>, off |-> 0]

\* The steps whose count stands at off.
FlagRead(cell) == cell \in {Num(0), Num(1)}

readProofSteps(b, off) ==
  LET n       == NumAt(b, off)
      flag(i) == b[off + 2 * i]
      hash(i) == b[off + 2 * i + 1]
  IN  IF ~IsNum(b, off) \/ n > maxProofSteps \/ off + 1 + 2 * n > Len(b) THEN NoSteps
      ELSE IF \E i \in 1..n : ~FlagRead(flag(i)) \/ ~IsDigest(hash(i)) THEN NoSteps
      ELSE [err   |-> "nil",
            steps |-> [i \in 1..n |-> [sibling |-> hash(i), left |-> flag(i) = Num(1)]],
            off   |-> off + 1 + 2 * n]

NotAProof == [err |-> "ErrInvalidProof", proof |-> [nsPath |-> <<>>, globalPath |-> <<>>]]

UnmarshalProofBinary(b) ==
  LET ns     == readProofSteps(b, 1)
      global == readProofSteps(b, ns.off)
  IN  IF b = <<>> \/ b[1] # Num(proofBinaryVersion) THEN NotAProof
      ELSE IF ns.err # "nil" \/ global.err # "nil" \/ global.off # Len(b) THEN NotAProof
      ELSE [err |-> "nil", proof |-> [nsPath |-> ns.steps, globalPath |-> global.steps]]

-----------------------------------------------------------------------------
(***************************************************************************)
(* The envelope.  A file holds its JSON form, a sequence of named fields   *)
(* whose text stands for bytes, or its binary form.                        *)
(***************************************************************************)
proofEnvelopeVersion == 1
proofMagic           == <<"magic">>

Envelope(version, ns, key, value, root, proof) ==
  [version |-> version, namespace |-> ns, key |-> key, value |-> value,
   root |-> root, proof |-> proof]

NoEnvelope == Envelope(0, <<>>, <<>>, <<>>, <<>>, <<>>)

Json(fields)  == [form |-> "json", fields |-> fields]
Binary(cells) == [form |-> "binary", cells |-> cells]

validUtf8(ns) == \A i \in DOMAIN ns : IsNum(ns, i - 1) /\ NumAt(ns, i - 1) < 128

Framed(field) == <<Num(Len(field))>> \o field

marshalEnvelopeBinary(e) ==
  <<proofMagic, Num(e.version)>> \o Framed(e.namespace) \o Framed(e.key) \o Framed(e.value)
                                 \o Framed(e.root) \o Framed(e.proof)

FieldNames == <<"version", "namespace", "key", "value", "root", "proof">>

\* The newline that ends the JSON form is white space to its reader.
marshalEnvelope(e, format) ==
  IF format = "json"
    THEN Json([i \in DOMAIN FieldNames |-> [name |-> FieldNames[i], is |-> e[FieldNames[i]]]])
    ELSE Binary(marshalEnvelopeBinary(e))

\* binReader.field, five times in a row: where the field that starts at off
\* ends, or 0 if the data end before it does.
FieldEnd(b, off) ==
  IF off = 0 \/ ~IsNum(b, off) THEN 0
  ELSE IF off + 1 + NumAt(b, off) > Len(b) THEN 0
  ELSE off + 1 + NumAt(b, off)

FieldIn(b, off) == SubSeq(b, off + 2, FieldEnd(b, off))

\* Slip: the fields may end before the file does.
EndsSomewhere(b, off) == TRUE
EndsThere(b, off)     == off = Len(b)

unmarshalEnvelopeBinary(b) ==
  LET key   == FieldEnd(b, 2)
      value == FieldEnd(b, key)
      root  == FieldEnd(b, value)
      proof == FieldEnd(b, root)
      end   == FieldEnd(b, proof)
  IN  IF ~IsNum(b, 1) \/ end = 0 THEN [err |-> "truncated", env |-> NoEnvelope]
      ELSE IF ~validUtf8(FieldIn(b, 2)) THEN [err |-> "not UTF-8", env |-> NoEnvelope]
      ELSE IF ~EndsThere(b, end) THEN [err |-> "trailing", env |-> NoEnvelope]
      ELSE [err |-> "nil",
            env |-> Envelope(NumAt(b, 1), FieldIn(b, 2), FieldIn(b, key), FieldIn(b, value),
                             FieldIn(b, root), FieldIn(b, proof))]

\* json.Unmarshal: the last of several fields with a name counts, a missing
\* one is zero.
JsonEnvelope(fields) ==
  LET of(name) == {i \in DOMAIN fields : fields[i].name = name}
      last(name) == CHOOSE i \in of(name) : \A j \in of(name) : j <= i
  IN  [name \in DOMAIN NoEnvelope |->
         IF of(name) = {} THEN NoEnvelope[name] ELSE fields[last(name)].is]

unmarshalEnvelope(raw) ==
  LET r == IF raw.form = "json" THEN [err |-> "nil", env |-> JsonEnvelope(raw.fields)]
           ELSE IF raw.cells = <<>> \/ raw.cells[1] # proofMagic
             THEN [err |-> "parse proof", env |-> NoEnvelope]
           ELSE unmarshalEnvelopeBinary(raw.cells)
  IN  IF r.err = "nil" /\ r.env.version # proofEnvelopeVersion
        THEN [err |-> "unsupported version", env |-> NoEnvelope]
        ELSE r

-----------------------------------------------------------------------------
Decodes(text) == \A i \in DOMAIN text : text[i] # Bad

\* decodeFields: the texts are hex, the root is one digest.
FieldsDecode(e) == /\ Decodes(e.key) /\ Decodes(e.value)
                   /\ Len(e.root) = 1 /\ IsDigest(e.root[1])

NoPin == <<>>

\* Slip: a root given with --root is not compared.
PinIgnored(e, pin) == TRUE
PinHolds(e, pin)   == pin = NoPin \/ pin = e.root

\* `scls proof verify [--root pin]`
ProofVerify(raw, pin) ==
  LET u == unmarshalEnvelope(raw)
      e == u.env
      p == UnmarshalProofBinary(e.proof)
  IN  IF u.err # "nil" THEN u.err
      ELSE IF ~FieldsDecode(e) THEN "invalid field"
      ELSE IF ~PinHolds(e, pin) THEN "root mismatch"
      ELSE IF ~Decodes(e.proof) THEN "invalid proof base64"
      ELSE IF p.err # "nil" THEN p.err
      ELSE VerifyLeaf(e.root[1], EntryDigestOf(e.namespace, e.key, e.value), p.proof)
=============================================================================
