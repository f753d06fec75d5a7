SPECIFICATION Spec
CONSTANTS
  Width = 2
  Base = 6
  maxRecordSize = 27
  Log <- MCLog
  MaxFaults = 2
  MaxChanges = 1
  DamagedBytes = {2, 32}
  Inserted <- MCInserted
  Probes = {6, 10, 11}
INVARIANTS
  UnsealedIsRefused
  CheckedIsWritten
  ReadersAgree
  ProbeIsInvisible

CHECK_DEADLOCK FALSE
