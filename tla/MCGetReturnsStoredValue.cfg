SPECIFICATION Spec
CONSTANTS
  Namespaces = {1, 2}
  Keys = {1, 2, 3}
  Values = {1, 9}
  Garbled = 9
  Unwritten = {}
  NamespaceBytes <- MCNamespaceBytes
  KeyBytes <- MCKeyBytes
  ValueBytes <- MCValueBytes
  EmptyHashKey = 2
  EntryCaps = {2}
  MaxFaults = 0
  MaxChanges = 1
INVARIANT
  GetReturnsStoredValue

CHECK_DEADLOCK FALSE
