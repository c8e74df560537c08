\* A container that ends in the middle of a chunk, with blocks behind it.
SPECIFICATION Spec
CONSTANTS
  CH = 6
  OVER = 4
  STEP = 2
  ALIGN = 2
  HEADER = 1
  Avails = {11}
  MaxPacked = 4
  Images <- MCImages
  Limits = {8}
INVARIANT FoundInContainer
