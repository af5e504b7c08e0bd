SPECIFICATION FairSpec
CONSTANTS
  MaxSize = 3
  MaxMsgs = 6
  RawCommands <- MCRawCommands
INVARIANTS SizeMatchesLanes NoLostWakeup MetricsAccountForAll
PROPERTIES ShedsLeastImportant ImplementsQueue 
