SPECIFICATION ConnectionSpec
CONSTANTS
  Sessions <- MCSessions
  MaxGenerators = 3
  MaxDrains = 1
  ReadSizes = {1, 5}
  TicksPerSecond = 1
  MaxGap = 1
  Serialize <- SerializeMessage
  Deserialize <- DeserializeMessage
INVARIANT ConnectionInv
INVARIANT LoadIsConserved
INVARIANT NeverBothWaiting
PROPERTY Channels
CHECK_DEADLOCK FALSE
