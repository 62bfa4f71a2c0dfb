\* A database that may refuse anything, a disk that may fail, and clients
\* that do not wait until the policies have been loaded; a policy that forbids
\* runs of characters.
CONSTANTS
  NumAccounts = 1
  Temporary = {1}
  Policies <- MCNoRuns
  Passcodes <- MCRunPins
  Refusable = {"del", "findDevice", "find", "save", "watch"}
  DiskFails = {"rename"}
  Hasty = TRUE
  MaxCalls = 2
  MaxDevices = 2
  MaxTries = 0
SPECIFICATION Spec
INVARIANTS
  DeviceTypeOK
  RetriesWithinPolicy
  OneWatch
  WatchedIsCurrent
PROPERTIES
  LongRunsRefused
CHECK_DEADLOCK FALSE
