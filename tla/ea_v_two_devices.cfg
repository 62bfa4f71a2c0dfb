\* Clients do not wait until the policies have been loaded.
CONSTANTS
  NumAccounts = 1
  Temporary = {}
  Policies <- MCFewTries
  Passcodes <- MCPin
  Refusable = {}
  DiskFails = {}
  Hasty = TRUE
  MaxCalls = 2
  MaxDevices = 2
  MaxTries = 2
SPECIFICATION Spec
INVARIANTS
  OneDevicePolicy
CHECK_DEADLOCK FALSE
