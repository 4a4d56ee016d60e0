SPECIFICATION FairMigrationSpec
CONSTANTS
  old = old
  new1 = new1
  new2 = new2
  Processes <- MCProcesses
  SupportedBy <- MCSupportedBy
  MaxVersion = 2
  Statements = 2
  NoHolder = NoHolder
  MaxFaults = 2
INVARIANTS WholeAndOnce NeverStranded
PROPERTIES OpeningEnds
