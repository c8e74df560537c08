\* Images of 0, 11 and 14 bytes, containers that end inside, at and past them.
SPECIFICATION Spec
CONSTANTS
  CH = 6
  OVER = 4
  STEP = 2
  ALIGN = 2
  HEADER = 1
  Avails = {0, 11, 14}
  MaxPacked = 4
  Images <- MCImages
  Limits = {8, 14, 15}
INVARIANTS
  FoundAreOrphans
  OrphansAreFound
PROPERTIES
  Terminates
