---------------------------- MODULE LedgerEntry ----------------------------
(***************************************************************************)
(* An entry of a ledger state file on its way through the codecs of its    *)
(* namespace: key bytes are read and decoded; payload bytes are read and   *)
(* decoded; a typed stake pool is filled in field by field, encoded, and   *)
(* its payload decoded by a reader, after another implementation, or       *)
(* damage, has changed it.                                                 *)
(***************************************************************************)
EXTENDS StakePool, KeyCodecs, CborInputs

CONSTANTS KeyBytesRead,     \* the bytes of the keys read
          PayloadsRead,     \* the namespaces of which payload bytes are read
          SamplePool,       \* a typed payload, with both of its parts
          FieldValues,      \* [field -> the values it may be set to]
          Replacements,     \* encoded values that may take another's place
          MaxSteps          \* bound on the settings and changes made to a payload

\* A CanonicalPayloadCodec is cbor.Unmarshal and cbor.Marshal (codec.go:104-115).
ASSUME PayloadsReadAssumption == PayloadsRead \subseteq DOMAIN KeyCodecOf \ {"stake_pools"}

VARIABLES name, key,        \* the entry's namespace, and its key as read
          pool, payload,    \* typed and encoded payload
          steps

evars == <<name, key, data, pool, payload, steps>>

NoPool == [state |-> <<>>, retiring |-> <<>>, future |-> <<>>]

EntryInit == /\ Init
             /\ name \in DOMAIN KeyCodecOf
             /\ key = <<>> /\ pool = NoPool /\ payload = <<>> /\ steps = 0

\* A key arrives, of any length around that of the namespace's keys.
Arriving ==
  IF KeyCodecOf[name] = "gov_pparams"
    THEN UNION {ToSet(govPParamsKeyBytes[i]) : i \in {j \in DOMAIN govPParamsKeyBytes :
                                                     IsPrefix(key, govPParamsKeyBytes[j])}}
    ELSE KeyBytesRead

ReadByte == /\ pool = NoPool /\ data = <<>>
            /\ Len(key) <= Size(KeyCodecOf[name])
            /\ \E b \in Arriving : key' = Append(key, b)
            /\ UNCHANGED <<name, data, pool, payload, steps>>

ReadPayloadByte == /\ name \in PayloadsRead /\ key = <<>>
                   /\ Feed
                   /\ UNCHANGED <<name, key, pool, payload, steps>>

Fill == /\ name = "stake_pools" /\ key = <<>> /\ pool = NoPool
        /\ \E parts \in SUBSET DOMAIN NoPool :
             pool' = [part \in DOMAIN NoPool |-> IF part \in parts THEN SamplePool[part] ELSE <<>>]
        /\ UNCHANGED <<name, key, data, payload, steps>>

\* One field of the state or of the parameters is set.
SetField(part, field, x) ==
  /\ payload = <<>> /\ pool[part] # <<>> /\ steps < MaxSteps
  /\ field \in DOMAIN pool[part][1]
  /\ pool[part][1][field] # x
  /\ pool' = [pool EXCEPT ![part][1][field] = x]
  /\ steps' = steps + 1
  /\ UNCHANGED <<name, key, data, payload>>

Encode == /\ pool # NoPool /\ payload = <<>>
          /\ EncodeStakePool(pool).err = "nil"
          /\ payload' = <<EncodeStakePool(pool).value>>
          /\ UNCHANGED <<name, key, data, pool, steps>>

-----------------------------------------------------------------------------
\* The values that differ from v in one place: another value there, an item
\* or field lost, repeated or added, two neighbours swapped.
RECURSIVE Altered(_)
Altered(v) ==
  Replacements \cup
  (CASE v.t = "array" ->
          {Array([v.items EXCEPT ![i] = w]) : <<i, w>> \in
             UNION {{i} \X Altered(v.items[i]) : i \in DOMAIN v.items}}
          \cup {Array(RemoveAt(v.items, i)) : i \in DOMAIN v.items}
          \cup {Array(InsertAt(v.items, i, v.items[i])) : i \in DOMAIN v.items}
          \cup {Array([v.items EXCEPT ![i] = v.items[i + 1], ![i + 1] = v.items[i]]) :
                  i \in 1..(Len(v.items) - 1)}
     [] v.t = "tag" -> {Tag(v.n, w) : w \in Altered(v.value)} \cup {Tag(<<31>>, v.value)}
     [] v.t = "map" ->
          {FieldMap([v.fields EXCEPT ![f] = w]) : <<f, w>> \in
             UNION {{f} \X Altered(v.fields[f]) : f \in DOMAIN v.fields}}
          \cup {FieldMap([g \in DOMAIN v.fields \ {f} |-> v.fields[g]]) : f \in DOMAIN v.fields}
          \cup {FieldMap(v.fields @@ [unknown |-> Null]),
                FieldMap(v.fields @@ [leios_key |-> Null])}
     [] OTHER -> {})

Alter == /\ payload # <<>> /\ steps < MaxSteps
         /\ \E v \in Altered(payload[1]) : v # payload[1] /\ payload' = <<v>>
         /\ steps' = steps + 1
         /\ UNCHANGED <<name, key, data, pool>>

EntryNext == \/ ReadByte \/ ReadPayloadByte \/ Fill \/ Encode \/ Alter
             \/ \E part \in {"state", "future"}, field \in DOMAIN FieldValues :
                  \E x \in FieldValues[field] : SetField(part, field, x)

EntrySpec == EntryInit /\ [][EntryNext]_evars

-----------------------------------------------------------------------------
\* A key that is accepted is the encoding of what it decodes to, so that a key
\* of a namespace has one form (namespace_keys.go, codec.go:32-38).  And the
\* bytes of numbered keys are in the order of their typed keys, by the
\* identifier, then by the number, as the entries of a file are: a number
\* passes the boundary of a byte in order (namespace_keys.go:44,93,344).
NumberedBefore(a, b) == \/ BytesBefore(a.id, b.id)
                        \/ a.id = b.id /\ a.number < b.number

InOrderOfKeys(codec, typed) ==
  LET ids   == {SubSeq(key, 1, HashSizeOf(codec)), [i \in 1..HashSizeOf(codec) |-> 1]}
      max   == 256 ^ NumberSizeOf(codec) - 1
      other == {NumberedKey(id, n) : id \in ids, n \in {0, 1, 255, 256, max - 1, max} \cap 0..max}
  IN  \A k \in other :
        BytesBefore(key, EncodeKey(codec, k).key) <=> NumberedBefore(typed, k)

KeysHaveOneForm ==
  LET codec == KeyCodecOf[name]
      d     == DecodeKey(codec, key)
  IN  d.err = "nil" => /\ EncodeKey(codec, d.key) = Key(key)
                       /\ codec \in Numbered => InOrderOfKeys(codec, d.key)

\* What EncodeStakePool writes, DecodeStakePool reads back: the same pool, but
\* for the order in which its sets were given (stake_pool.go:232-255).
Unordered(part) ==
  [field \in DOMAIN part |->
     IF field \in {"owners", "delegators"} THEN ToSet(part[field]) ELSE part[field]]

SamePart(a, b) == /\ Len(a) = Len(b)
                  /\ \A i \in DOMAIN a : Unordered(a[i]) = Unordered(b[i])

EncodedPoolDecodes ==
  LET e == EncodeStakePool(pool)
      d == DecodeStakePool(e.value)
  IN  payload = <<>> /\ e.err = "nil" =>
        /\ d.err = "nil"
        /\ SamePart(d.value.state, pool.state) /\ SamePart(d.value.future, pool.future)
        /\ d.value.retiring = pool.retiring

\* A payload that DecodeStakePool accepts, whoever wrote it, is the one that
\* EncodeStakePool writes for what it decodes to: nothing is dropped, nothing
\* has a second form, and whatever decodes can be encoded.
AcceptedPayloadIsCanonical ==
  payload # <<>> =>
    LET d == DecodeStakePool(payload[1])
    IN  d.err = "nil" => EncodeStakePool(d.value) = Ok(payload[1])
=============================================================================
