SPECIFICATION Spec
CONSTANTS
  Namespaces = {1, 2}
  Keys = {1, 2, 3}
  Values = {1, 2}
  NamespaceBytes <- MCNamespaceBytes
  KeyBytes <- MCKeyBytes
  ValueBytes <- MCValueBytes
  Inputs <- MCInputs
INVARIANTS
  ReportIsExact
  ChangesAreExact
  NoReportFromBrokenStream

CHECK_DEADLOCK FALSE
