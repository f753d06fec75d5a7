SPECIFICATION Spec
CONSTANTS
  Namespaces = {1, 2}
  Keys = {1, 2, 3, 4, 5, 6}
  Values = {1, 9}
  Garbled = 9
  Unwritten = {2, 4, 6}
  NamespaceBytes <- MCRunningNamespaceBytes
  KeyBytes <- MCRunningKeyBytes
  ValueBytes <- MCRunningValueBytes
  EmptyHashKey = 3
  EntryCaps = {2}
  MaxFaults = 1
  MaxChanges = 2
VIEW MCView
INVARIANTS
  VerifyMeansWellFormed
  SealedVerifies
  RootPinsBytes
  LookupAnswers
  SnapshotAgrees
  ProveIsSound

CHECK_DEADLOCK FALSE
