\* One ConfigMap, one push.
CONSTANTS
  None = None
  Error = Error
  Names = {n1}
  Files <- MCFiles
  Branches <- MCBranches
  Registrations <- MCRegistrations
  MaxPushes = 1
  MaxEdits = 1
  MaxFaults = 0
SPECIFICATION Spec
INVARIANT EntriesRelative
