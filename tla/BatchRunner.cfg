SPECIFICATION Spec
CONSTANTS
  N = 4
  K = 2
  Values <- MCValues
  Failed = Failed
  Ids <- MCIds
  Hardware = 3
INVARIANTS
  TypeOK
  SlotsFinal
  SnapshotsCoverDone
  PanelAgreesWithHits
PROPERTIES
  ContractSpec
CHECK_DEADLOCK FALSE
