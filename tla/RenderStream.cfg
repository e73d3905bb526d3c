\* An archive of six units written in pieces of any size, read by twos.
CONSTANTS
  ArchiveSize = 6
  ChunkSize = 2
  Window = 3
  MaxFaults = 2
SPECIFICATION FairSpec
INVARIANTS
  TypeOK
  EndsComplete
  SuccessIsComplete
  FileErrorReported
  PipeErrorExplained
PROPERTIES
  RefinesDelivery
  Terminates
