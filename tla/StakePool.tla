----------------------------- MODULE StakePool -----------------------------
(***************************************************************************)
(* cardano/stake_pool.go: the payload of entities/stake_pools/v0.  Encoded *)
(* payloads are the values of Cbor; a map, whose order and whose distinct  *)
(* keys Cbor settles, is the function from its field names to the values.  *)
(* In a typed payload a pointer is a sequence of at most one value.        *)
(*                                                                         *)
(* Every refusal is an ErrStakePoolPayload, so that a decoder is a         *)
(* predicate Is... on what it accepts and what it makes of it, ...Of.      *)
(***************************************************************************)
EXTENDS Cbor

CONSTANTS hash28Size, vrfHashSize, leiosPublicKeySize, leiosProofSize,
          maxPoolMetadataURL, maxRelayDNSNameSize, ipv4Size, ipv6Size

ASSUME SizesAssumption ==
  {hash28Size, vrfHashSize, leiosPublicKeySize, leiosProofSize,
   maxPoolMetadataURL, maxRelayDNSNameSize, ipv4Size, ipv6Size} \subseteq Nat

ErrStakePoolPayload == [err |-> "ErrStakePoolPayload"]
Ok(result)          == [err |-> "nil", value |-> result]

FieldMap(fields) == [t |-> "map", fields |-> fields]
Bytes(bytes)     == Str("bytes", bytes)
Text(bytes)      == Str("text", bytes)
Pair(a, b)       == Array(<<a, b>>)

\* encodings of a pointer that may be nil, and back
OrNull(pointer)    == IF pointer = <<>> THEN Null ELSE pointer[1]
Pointer(v, target) == IF v = Null THEN <<>> ELSE <<target>>

-----------------------------------------------------------------------------
IsUint(v)        == v.t = "uint"
IsBytes(v, size) == v.t = "bytes" /\ Len(v.bytes) = size
IsText(v, max)   == v.t = "text" /\ Len(v.bytes) <= max
IsPair(v)        == v.t = "array" /\ Len(v.items) = 2

\* A text of a typed payload may be any string, which Marshal refuses.
CanEncodeText(bytes, max) == Len(bytes) <= max /\ ValidUtf8(bytes)

\* decodeFields and requiredField; the bounds on the number of fields follow.
HasFields(v, required, optional) ==
  /\ v.t = "map"
  /\ required \subseteq DOMAIN v.fields
  /\ DOMAIN v.fields \subseteq required \cup optional

NumBefore(a, b) == Len(a) < Len(b) \/ (Len(a) = Len(b) /\ BytesBefore(a, b))

Proper(u) == u.denominator # <<>> /\ ~NumBefore(u.denominator, u.numerator)

UnitIntervalOf(v) == [numerator   |-> v.value.items[1].n,
                      denominator |-> v.value.items[2].n]

IsUnitInterval(v) == /\ v.t = "tag" /\ v.n = <<30>> /\ IsPair(v.value)
                     /\ IsUint(v.value.items[1]) /\ IsUint(v.value.items[2])
                     /\ Proper(UnitIntervalOf(v))

encodeUnitInterval(u) == Tag(<<30>>, Pair(Uint(u.numerator), Uint(u.denominator)))

-----------------------------------------------------------------------------
\* Sets are arrays in the order of the items' encodings, each item once.
Encoding(item)     == Marshal(item).value
Smaller(a, b)      == BytesBefore(Encoding(a), Encoding(b))

\* Slip: an item may equal the one before it.
NotDescending(list) == \A i \in 2..Len(list) : ~Smaller(list[i], list[i - 1])
Ascending(list)     == \A i \in 2..Len(list) : Smaller(list[i - 1], list[i])

IsSet(v) == /\ v.t = "tag" /\ v.n = <<1, 2>> /\ v.value.t = "array"
            /\ Ascending(v.value.items)

encodeSet(list) == Tag(<<1, 2>>, Array(SortSeq(list, Smaller)))
NoneTwice(list) == \A i, j \in DOMAIN list : i # j => list[i] # list[j]

CredentialKeyHash    == 0
CredentialScriptHash == 1

IsCredential(v) == /\ IsPair(v) /\ IsUint(v.items[1]) /\ IsBytes(v.items[2], hash28Size)
                   /\ ~Exceeds(v.items[1].n, CredentialScriptHash)
CredentialOf(v) == [kind |-> ToInt(v.items[1].n), hash |-> v.items[2].bytes]

HasKind(c)          == c.kind \in {CredentialKeyHash, CredentialScriptHash}
encodeCredential(c) == Pair(Uint(FromInt(c.kind)), Bytes(c.hash))

IsHash28Set(v)     == IsSet(v) /\ \A i \in DOMAIN v.value.items :
                                    IsBytes(v.value.items[i], hash28Size)
IsCredentialSet(v) == IsSet(v) /\ \A i \in DOMAIN v.value.items :
                                    IsCredential(v.value.items[i])
Hash28SetOf(v)     == [i \in DOMAIN v.value.items |-> v.value.items[i].bytes]
CredentialSetOf(v) == [i \in DOMAIN v.value.items |-> CredentialOf(v.value.items[i])]

encodeHash28Set(s)     == encodeSet([i \in DOMAIN s |-> Bytes(s[i])])
encodeCredentialSet(s) == encodeSet([i \in DOMAIN s |-> encodeCredential(s[i])])

-----------------------------------------------------------------------------
\* Relays: a host's addresses, a host's name, or a name for several hosts.
RelaySingleHostAddress == 0
RelaySingleHostName    == 1
RelayMultiHostName     == 2

Relay(kind, port, ipv4, ipv6, name) ==
  [kind |-> kind, port |-> port, ipv4 |-> ipv4, ipv6 |-> ipv6, dnsName |-> name]

IsPort(v)          == v = Null \/ (IsUint(v) /\ Len(v.n) <= 2)
IsAddress(v, size) == v = Null \/ IsBytes(v, size)
IsDNSName(v)       == IsText(v, maxRelayDNSNameSize)

IsRelay(v) ==
  /\ v.t = "array" /\ v.items # <<>> /\ IsUint(v.items[1])
  /\ \/ /\ v.items[1].n = FromInt(RelaySingleHostAddress) /\ Len(v.items) = 4
        /\ IsPort(v.items[2])
        /\ IsAddress(v.items[3], ipv4Size) /\ IsAddress(v.items[4], ipv6Size)
     \/ /\ v.items[1].n = FromInt(RelaySingleHostName) /\ Len(v.items) = 3
        /\ IsPort(v.items[2]) /\ IsDNSName(v.items[3])
     \/ /\ v.items[1].n = FromInt(RelayMultiHostName) /\ Len(v.items) = 2
        /\ IsDNSName(v.items[2])

RelayOf(v) ==
  LET i    == v.items
      kind == ToInt(i[1].n)
  IN  CASE kind = RelaySingleHostAddress ->
             Relay(kind, Pointer(i[2], i[2].n), Pointer(i[3], i[3].bytes),
                   Pointer(i[4], i[4].bytes), <<>>)
        [] kind = RelaySingleHostName -> Relay(kind, Pointer(i[2], i[2].n), <<>>, <<>>, i[3].bytes)
        [] kind = RelayMultiHostName  -> Relay(kind, <<>>, <<>>, <<>>, i[2].bytes)

\* encodeRelay refuses what the kind has no place for.
\* Slip: the port of a name for several hosts is dropped instead.
FitsItsKindButPort(r) ==
  \/ r.kind = RelaySingleHostAddress /\ r.dnsName = <<>>
  \/ /\ r.kind \in {RelaySingleHostName, RelayMultiHostName} /\ r.ipv4 = <<>> /\ r.ipv6 = <<>>
     /\ CanEncodeText(r.dnsName, maxRelayDNSNameSize)

FitsItsKind(r) ==
  \/ r.kind = RelaySingleHostAddress /\ r.dnsName = <<>>
  \/ /\ r.kind \in {RelaySingleHostName, RelayMultiHostName} /\ r.ipv4 = <<>> /\ r.ipv6 = <<>>
     /\ r.kind = RelayMultiHostName => r.port = <<>>
     /\ CanEncodeText(r.dnsName, maxRelayDNSNameSize)

encodeRelay(r) ==
  LET kind == Uint(FromInt(r.kind))
      port == OrNull([i \in DOMAIN r.port |-> Uint(r.port[i])])
  IN  CASE r.kind = RelaySingleHostAddress ->
             Array(<<kind, port, OrNull([i \in DOMAIN r.ipv4 |-> Bytes(r.ipv4[i])]),
                                 OrNull([i \in DOMAIN r.ipv6 |-> Bytes(r.ipv6[i])])>>)
        [] r.kind = RelaySingleHostName -> Array(<<kind, port, Text(r.dnsName)>>)
        [] r.kind = RelayMultiHostName  -> Array(<<kind, Text(r.dnsName)>>)

IsRelays(v) == v.t = "array" /\ \A i \in DOMAIN v.items : IsRelay(v.items[i])
RelaysOf(v) == [i \in DOMAIN v.items |-> RelayOf(v.items[i])]

-----------------------------------------------------------------------------
IsMetadata(v) == v = Null \/ (/\ IsPair(v) /\ IsText(v.items[1], maxPoolMetadataURL)
                              /\ v.items[2].t = "bytes")
MetadataOf(v) == Pointer(v, [url |-> v.items[1].bytes, hash |-> v.items[2].bytes])
encodeMetadata(p) ==
  OrNull([i \in DOMAIN p |-> Pair(Text(p[i].url), Bytes(p[i].hash))])

IsLeiosKey(v) == /\ IsPair(v) /\ IsBytes(v.items[1], leiosPublicKeySize)
                 /\ IsBytes(v.items[2], leiosProofSize)
LeiosKeyOf(f) == IF "leios_key" \notin DOMAIN f THEN <<>>
                 ELSE LET i == f["leios_key"].items
                      IN  <<[publicKey |-> i[1].bytes, proof |-> i[2].bytes]>>

\* leios_key has no null: it is there or it is not.
LeiosField(p) == IF p = <<>> THEN [x \in {} |-> Null]
                 ELSE [leios_key |-> Pair(Bytes(p[1].publicKey), Bytes(p[1].proof))]

\* The fields that the current state and the future parameters share.
SharedFields == {"vrf", "cost", "margin", "owners", "pledge", "relays", "metadata"}
StateFields  == SharedFields \cup {"deposit", "account_id", "delegators"}
ParamsFields == SharedFields \cup {"id", "account_address"}

AreShared(f) ==
  /\ IsBytes(f["vrf"], vrfHashSize) /\ IsUint(f["cost"]) /\ IsUnitInterval(f["margin"])
  /\ IsHash28Set(f["owners"]) /\ IsUint(f["pledge"]) /\ IsRelays(f["relays"])
  /\ IsMetadata(f["metadata"])
  /\ "leios_key" \in DOMAIN f => IsLeiosKey(f["leios_key"])

SharedOf(f) ==
  [vrf      |-> f["vrf"].bytes,               cost     |-> f["cost"].n,
   margin   |-> UnitIntervalOf(f["margin"]),  owners   |-> Hash28SetOf(f["owners"]),
   pledge   |-> f["pledge"].n,                relays   |-> RelaysOf(f["relays"]),
   metadata |-> MetadataOf(f["metadata"]),    leiosKey |-> LeiosKeyOf(f)]

CanEncodeShared(x) ==
  /\ Proper(x.margin) /\ NoneTwice(x.owners)
  /\ \A i \in DOMAIN x.relays : FitsItsKind(x.relays[i])
  /\ \A i \in DOMAIN x.metadata : CanEncodeText(x.metadata[i].url, maxPoolMetadataURL)

encodeShared(x) ==
  [vrf      |-> Bytes(x.vrf),                   cost   |-> Uint(x.cost),
   margin   |-> encodeUnitInterval(x.margin),   owners |-> encodeHash28Set(x.owners),
   pledge   |-> Uint(x.pledge),
   relays   |-> Array([i \in DOMAIN x.relays |-> encodeRelay(x.relays[i])]),
   metadata |-> encodeMetadata(x.metadata)] @@ LeiosField(x.leiosKey)

IsStakePoolState(v) ==
  /\ HasFields(v, StateFields, {"leios_key"})
  /\ AreShared(v.fields)
  /\ IsUint(v.fields["deposit"]) /\ IsCredential(v.fields["account_id"])
  /\ IsCredentialSet(v.fields["delegators"])

StakePoolStateOf(v) ==
  SharedOf(v.fields) @@
  [deposit    |-> v.fields["deposit"].n,
   accountID  |-> CredentialOf(v.fields["account_id"]),
   delegators |-> CredentialSetOf(v.fields["delegators"])]

CanEncodeState(x) ==
  /\ CanEncodeShared(x) /\ HasKind(x.accountID)
  /\ \A i \in DOMAIN x.delegators : HasKind(x.delegators[i])
  /\ NoneTwice(x.delegators)

encodeStakePoolState(x) ==
  FieldMap(encodeShared(x) @@
           [deposit    |-> Uint(x.deposit), account_id |-> encodeCredential(x.accountID),
            delegators |-> encodeCredentialSet(x.delegators)])

IsStakePoolParams(v) ==
  /\ HasFields(v, ParamsFields, {"leios_key"})
  /\ AreShared(v.fields)
  /\ IsBytes(v.fields["id"], hash28Size) /\ v.fields["account_address"].t = "bytes"

StakePoolParamsOf(v) ==
  SharedOf(v.fields) @@ [id             |-> v.fields["id"].bytes,
                         accountAddress |-> v.fields["account_address"].bytes]

encodeStakePoolParams(x) ==
  FieldMap(encodeShared(x) @@ [id |-> Bytes(x.id), account_address |-> Bytes(x.accountAddress)])

-----------------------------------------------------------------------------
\* The payload: none of its fields may be missing, each may be null.
StakePoolFields == {"stake_pool_state", "retiring_epoch_no", "future_stake_pool_params"}

DecodeStakePool(v) ==
  LET state    == v.fields["stake_pool_state"]
      retiring == v.fields["retiring_epoch_no"]
      future   == v.fields["future_stake_pool_params"]
  IN  IF ~HasFields(v, StakePoolFields, {}) THEN ErrStakePoolPayload
      ELSE IF /\ state = Null \/ IsStakePoolState(state)
              /\ retiring = Null \/ IsUint(retiring)
              /\ future = Null \/ IsStakePoolParams(future)
        THEN Ok([state    |-> Pointer(state, StakePoolStateOf(state)),
                 retiring |-> Pointer(retiring, retiring.n),
                 future   |-> Pointer(future, StakePoolParamsOf(future))])
      ELSE ErrStakePoolPayload

EncodeStakePool(pool) ==
  IF /\ \A i \in DOMAIN pool.state : CanEncodeState(pool.state[i])
     /\ \A i \in DOMAIN pool.future : CanEncodeShared(pool.future[i])
    THEN Ok(FieldMap(
           [stake_pool_state  |->
              OrNull([i \in DOMAIN pool.state |-> encodeStakePoolState(pool.state[i])]),
            retiring_epoch_no |-> OrNull([i \in DOMAIN pool.retiring |-> Uint(pool.retiring[i])]),
            future_stake_pool_params |->
              OrNull([i \in DOMAIN pool.future |-> encodeStakePoolParams(pool.future[i])])]))
    ELSE ErrStakePoolPayload
=============================================================================
