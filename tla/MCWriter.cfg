SPECIFICATION Spec
CONSTANTS
  Namespaces = {1, 2}
  Keys = {1, 2, 3}
  Values = {1, 2}
  NamespaceBytes <- MCNamespaceBytes
  KeyBytes <- MCKeyBytes
  ValueBytes <- MCValueBytes
  BadNamespaces = {badName}
  EntryCaps = {2}
  ByteCaps = {14, 100}
  Summaries = {"utf8", "binary"}
  MaxRecordSize = 75
  MaxFaults = 2
INVARIANTS
  TypeOK
  FileIsLog
  FileOrdered
  CountsMatchLog
  ManifestSeals
PROPERTIES
  OversizeIsTerminal
  RefinesOrderedLog
