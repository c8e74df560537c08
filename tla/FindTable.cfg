\* Every executable of up to six words; the container is 8 or 9 bytes long.
SPECIFICATION Spec
CONSTANTS
  ALIGN = 4
  Alphabet = {0, 1, 4, 6, 8, 9}
  MaxWords = 6
  Exes <- MCExes
  Sizes = {8, 9}
INVARIANTS
  FoundTable
  NothingLonger
  MembersRecovered
