SPECIFICATION FairSpec
CONSTANTS
  Endpoints = 2
  ReconnectMaxAttempts = 3
INVARIANTS OneSocket  GivesUpAfterTryingAll
PROPERTIES NoRetryAfterRejection StartAndStopReturn SessionIsRecovered
