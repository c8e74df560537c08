\* Images of up to eleven bytes, chunks of four, two bytes carried over; text of
\* two bytes or more.
SPECIFICATION AuditSpec
CONSTANTS
  CH = 4
  MaxImage = 11
  MaxText = 6
  Images <- MCImages
  Patterns <- MCPatterns
  Printable = {1, 2, 3}
  Clean = {1, 2}
  Letters = {1}
  MIN = 2
  CATEGORIES <- MCCategories
  Words <- MCWords
  other = "other"
  All = All
INVARIANTS
  AbsentMeansAbsent
  CountsCover
  FirstIsFirst
  TextIsListed
  SweepMeetsText
