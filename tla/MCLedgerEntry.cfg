SPECIFICATION EntrySpec
CONSTANTS
  maxDepth = 2
  MaxLength = 5
  Alphabet = {0, 24, 25, 26, 32, 65, 98, 130, 159, 161, 162, 193, 195, 248}
  PayloadsRead = {"nonces"}
  hash28Size = 1
  vrfHashSize = 1
  leiosPublicKeySize = 2
  leiosProofSize = 1
  maxPoolMetadataURL = 1
  maxRelayDNSNameSize = 1
  ipv4Size = 1
  ipv6Size = 2
  keyHash28Size = 1
  keyHash32Size = 1
  epochSize = 2
  indexSize = 2
  snapshotKeySize = 2
  fixedKeySize = 1
  KeyBytesRead = {0, 1, 4, 255}
  SamplePool <- MCSamplePool
  FieldValues <- MCFieldValues
  Replacements <- MCReplacements
  MaxSteps = 2
INVARIANTS
  AcceptedIsCanonical
  MarshalNormalises
  DepthAgrees
  KeysHaveOneForm
  EncodedPoolDecodes
  AcceptedPayloadIsCanonical

CHECK_DEADLOCK FALSE
