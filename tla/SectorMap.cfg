\* Trees of three entries, on images that end after, with and before them.
SPECIFICATION ToolsSpec
CONSTANTS
  SystemArea = 1
  Ids <- MCIds
  Volumes <- MCVolumes
  Layouts <- MCLayouts
  CHUNK = 2
INVARIANTS
  PathsAreTrue
  WalkIsComplete
  YieldedOnce
  SlackIsUnclaimed
  FilesAreTheirRecords
PROPERTIES
  Terminates
