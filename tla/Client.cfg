SPECIFICATION FairSpec
CONSTANTS
  MaxJobs = 3
  FirstPass = 1
  Scenarios <- MCScenarios
  MaxFaults = 3
CHECK_DEADLOCK FALSE
INVARIANTS
  TypeOK
  UploadsOwnEncoding
  RpcThere
  EncoderThere
PROPERTIES
  JobEnds
  StopEnds
