\* A slot 0 whose padding is not zero: the word after the slack is zero-based
\* without being zero, and the trimming stops at it.
SPECIFICATION Spec
CONSTANTS
  ALIGN = 4
  Alphabet = {0, 1, 4, 8}
  MaxWords = 5
  Exes <- MCExes
  Sizes = {8}
INVARIANT AtMostOneZeroBased
