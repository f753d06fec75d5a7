SPECIFICATION ProofSpec
CONSTANTS
  Leaves <- MCLeaves
  MaxLeaves = 9
  Namespace <- MCNamespace
  EntryOf <- MCEntryOf
  Elsewhere <- MCElsewhere
  Neighbours <- MCNeighbours
  MaxProved = 3
  MaxAlterations = 2
INVARIANTS
  RootIsSplitRoot
  PathsReachRoot
  CommitsToLeaves
  ProofArrives
  PinnedProofBinds
  AcceptedFormIsTheOnlyOne

CHECK_DEADLOCK FALSE
