\* Two accounts, the second of which does not outlive the program, with a
\* policy each; clients that set and try passcodes; the program may die at any
\* time.
CONSTANTS
  NumAccounts = 2
  Temporary <- MCSecond
  Policies <- MCOneEach
  Passcodes <- MCPasscodes
  Refusable = {"del"}
  DiskFails = {"creat", "rename"}
  Hasty = FALSE
  MaxCalls = 2
  MaxDevices = 2
  MaxTries = 2
SPECIFICATION MCSpec
INVARIANTS
  OneDevicePolicy
  EnforcedFits
  RetriesCounted
CHECK_DEADLOCK FALSE
PROPERTIES
  PoliciesAdopted
