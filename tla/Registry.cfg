\* Two ConfigMaps, two pushes, four registrations, one with a path that match does not find.
CONSTANTS
  None = None
  Error = Error
  Names = {n1, n2}
  Files <- MCFiles
  Branches <- MCBranches
  Registrations <- MCRegistrations
  MaxPushes = 2
  MaxEdits = 2
  MaxFaults = 1
SYMMETRY Symmetry
SPECIFICATION Spec
INVARIANTS
  TypeOK
  NoChangeIsMissed
  PutReadsBack
PROPERTY LeaseLostOnlyBetweenGets
