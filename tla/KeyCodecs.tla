----------------------------- MODULE KeyCodecs -----------------------------
(***************************************************************************)
(* cardano/codec.go, namespace_keys.go, namespaces.go and the key codec of *)
(* stake_pool.go: typed namespace keys and their fixed-size bytes.  The    *)
(* sizes of the parts are constants.                                       *)
(***************************************************************************)
EXTENDS Bytes, SequencesExt

CONSTANTS keyHash28Size, keyHash32Size,   \* of hashes
          epochSize, indexSize,           \* of big-endian numbers
          snapshotKeySize,
          fixedKeySize                    \* of a FixedKeyCodec

ASSUME KeySizesAssumption ==
  /\ {keyHash28Size, keyHash32Size, snapshotKeySize} \subseteq Nat
  /\ {epochSize, indexSize} \subseteq {1, 2}
  /\ fixedKeySize \in Nat \ {0}         \* NewFixedKeyCodec refuses others

\* binary.BigEndian, and a slip: the low byte first.
Digits(n, size)       == [i \in 1..size |-> (n \div 256 ^ (size - i)) % 256]
LowFirstNumber(bytes) == FoldRight(LAMBDA b, n : 256 * n + b, bytes, 0)
Number(bytes)         == FoldLeft(LAMBDA n, b : 256 * n + b, 0, bytes)

\* A key of an identifier and a number: a pool's blocks in an epoch, or what a
\* transaction lists under an index.
HashSizeOf(codec)   == IF codec = "blocks" THEN keyHash28Size ELSE keyHash32Size
NumberSizeOf(codec) == IF codec = "blocks" THEN epochSize ELSE indexSize

Numbered    == {"blocks", "utxo", "gov_proposal"}
Raw         == {"vrf_key_hash", "snapshot", "stake_pool", "fixed"}
Codecs      == Numbered \cup Raw \cup {"credential", "singleton", "gov_pparams", "gov_proposal_root"}

RawSize(codec) == CASE codec = "vrf_key_hash" -> keyHash32Size
                    [] codec = "snapshot"     -> snapshotKeySize
                    [] codec = "stake_pool"   -> keyHash28Size
                    [] codec = "fixed"        -> fixedKeySize

\* Selectors: prev, curr, pfut and dfut, in that order.
govPParamsKeyBytes == <<<<112, 114, 101, 118>>, <<99, 117, 114, 114>>,
                        <<112, 102, 117, 116>>, <<100, 102, 117, 116>>>>

Size(codec) ==
  CASE codec \in Numbered -> HashSizeOf(codec) + NumberSizeOf(codec)
    [] codec \in Raw      -> RawSize(codec)
    [] codec = "credential"  -> 1 + keyHash28Size
    [] codec = "gov_pparams" -> 4
    [] codec \in {"singleton", "gov_proposal_root"} -> 1

\* Typed keys.
NumberedKey(id, number) == [t |-> "numbered", id |-> id, number |-> number]
CredentialKey(kind, hash) == [t |-> "credential", kind |-> kind, hash |-> hash]
SelectorKey(n)          == [t |-> "selector", n |-> n]
SingletonKey            == [t |-> "singleton"]
RawKey(bytes)           == [t |-> "raw", bytes |-> bytes]

NoKey(err)   == [err |-> err, key |-> <<>>]
Key(key)     == [err |-> "nil", key |-> key]

CredentialKindOk(kind) == kind \in {0, 1}

requireKeySize(codec, data) == Len(data) = Size(codec)

DecodeNumbered(codec, data) ==
  LET hashSize == HashSizeOf(codec)
  IN  Key(NumberedKey(SubSeq(data, 1, hashSize), Number(SubSeq(data, hashSize + 1, Len(data)))))

DecodeCredential(data) == IF CredentialKindOk(data[1])
                            THEN Key(CredentialKey(data[1], Tail(data))) ELSE NoKey("ErrKeyType")

DecodeGovPParams(data) ==
  LET selectors == {i \in DOMAIN govPParamsKeyBytes : govPParamsKeyBytes[i] = data}
  IN  IF selectors = {} THEN NoKey("ErrKeyType")
      ELSE Key(SelectorKey((CHOOSE i \in selectors : TRUE) - 1))

DecodeSingleton(data)       == IF data = <<0>> THEN Key(SingletonKey) ELSE NoKey("ErrKeyType")
DecodeGovProposalRoot(data) == IF data[1] <= 3 THEN Key(SelectorKey(data[1]))
                               ELSE NoKey("ErrKeyType")

DecodeKey(codec, data) ==
  IF ~requireKeySize(codec, data) THEN NoKey("ErrKeySize")
  ELSE CASE codec \in Numbered            -> DecodeNumbered(codec, data)
         [] codec \in Raw                 -> Key(RawKey(data))
         [] codec = "credential"          -> DecodeCredential(data)
         [] codec = "gov_pparams"         -> DecodeGovPParams(data)
         [] codec = "singleton"           -> DecodeSingleton(data)
         [] codec = "gov_proposal_root"   -> DecodeGovProposalRoot(data)

\* EncodeKey of a key of the codec's own type; any other is an ErrKeyType.
EncodeNumbered(codec, key) == Key(key.id \o Digits(key.number, NumberSizeOf(codec)))
EncodeRaw(codec, key)      == IF Len(key.bytes) = RawSize(codec) THEN Key(key.bytes)
                              ELSE NoKey("ErrKeySize")
EncodeCredential(key)      == IF CredentialKindOk(key.kind) THEN Key(<<key.kind>> \o key.hash)
                              ELSE NoKey("ErrKeyType")
EncodeGovPParams(key)      == IF key.n <= 3 THEN Key(govPParamsKeyBytes[key.n + 1])
                              ELSE NoKey("ErrKeyType")
EncodeGovProposalRoot(key) == IF key.n <= 3 THEN Key(<<key.n>>) ELSE NoKey("ErrKeyType")

EncodeKey(codec, key) ==
  CASE codec \in Numbered          -> EncodeNumbered(codec, key)
    [] codec \in Raw               -> EncodeRaw(codec, key)
    [] codec = "credential"        -> EncodeCredential(key)
    [] codec = "gov_pparams"       -> EncodeGovPParams(key)
    [] codec = "singleton"         -> Key(<<0>>)
    [] codec = "gov_proposal_root" -> EncodeGovProposalRoot(key)

\* The registered namespaces and their key codecs; a fixed codec serves
\* namespaces that a program registers of its own.
KeyCodecOf ==
  [blocks |-> "blocks", utxo |-> "utxo",
   accounts |-> "credential", dreps |-> "credential", committee_entities |-> "singleton",
   stake_pools |-> "stake_pool", vrf_key_hashes |-> "vrf_key_hash",
   gov_committee |-> "singleton", gov_constitution |-> "singleton",
   gov_pparams |-> "gov_pparams", gov_proposals |-> "gov_proposal",
   gov_proposals_roots |-> "gov_proposal_root", nonces |-> "singleton",
   snapshots_mark |-> "snapshot", snapshots_set |-> "snapshot", snapshots_go |-> "snapshot",
   own |-> "fixed"]
=============================================================================
