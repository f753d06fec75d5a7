SPECIFICATION Spec
CONSTANTS
  Namespaces = {1, 2}
  Keys = {1, 2, 3}
  Values = {1, 2}
  NamespaceBytes <- MCNamespaceBytes
  KeyBytes <- MCKeyBytes
  ValueBytes <- MCValueBytes
  BadNamespaces = {badName}
  EntryCaps = {3}
  ByteCaps = {7}
  Summaries = {"utf8"}
  MaxRecordSize = 1000
  MaxFaults = 1
INVARIANT
  CapsHeld
