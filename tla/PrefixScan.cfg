\* Needles of up to five bytes in files of up to six, three hash values.
SPECIFICATION Spec
CONSTANTS
  BASE = 2
  PRIME = 3
  MaxNeedle = 5
  MaxHay = 6
  Needles <- MCNeedles
  Haystacks <- MCHaystacks
INVARIANTS
  LongestRun
PROPERTIES
  ImplementsSearch
  Terminates
