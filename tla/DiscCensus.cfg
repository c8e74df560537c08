\* Every container of one or two members.
SPECIFICATION ReportsSpec
CONSTANTS
  WINDOW = 76
  ALIGN = 64
  Limits = {1, 30}
  ListLimits = {1, 40}
  Behind <- MCBehind
  Streams <- MCStreams
  Buffers <- MCBuffers
  Containers <- MCContainers
INVARIANTS
  PartsTile
  NoneUncounted
  EveryBlockCounted
  CensusesAgree
  ScpkCounted
  PopulationsDisjoint
  DupesAccount
  MoviesAgree
  ArchivesAgree
  TablesAddUp
