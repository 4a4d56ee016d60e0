SPECIFICATION LedgerSpec
CONSTANTS
  Severities <- Two
  Types <- Later
  Resolutions <- OneOfEach
  Threshold = "high"
  MaxEvents <- FourOrThree
  MaxRows <- FourEach
INVARIANTS SnapshotAgrees HonestOverrideAccepted OpenIsGraded
PROPERTIES OnlyOverrideLowers NewPeriodForgets LateRowsKeepStatus
CHECK_DEADLOCK FALSE
