SPECIFICATION Spec
CONSTANTS
  Namespaces = {1}
  Keys = {1}
  Values = {1}
  NamespaceBytes <- MCNamespaceBytes
  KeyBytes <- MCKeyBytes
  ValueBytes <- MCValueBytes
  RecordPool <- MCRecordPool
  MaxRecords = 3
INVARIANT
  EOFMeansCleanEnd
CHECK_DEADLOCK FALSE
