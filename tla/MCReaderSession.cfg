SPECIFICATION Spec
CONSTANTS
  Namespaces = {1}
  Keys = {1}
  Values = {1}
  NamespaceBytes <- MCNamespaceBytes
  KeyBytes <- MCKeyBytes
  ValueBytes <- MCValueBytes
  RecordPool <- MCRecordPool
  MaxRecords = 5
INVARIANTS
  DeliversInOrder
  CleanEOFMeansWholeFile
PROPERTIES
  EOFIsFinal
  ReadsToTheEnd
CHECK_DEADLOCK FALSE
