\* A signature shorter than the bytes carried over, at a chunk boundary.
SPECIFICATION AuditSpec
CONSTANTS
  CH = 4
  MaxImage = 7
  MaxText = 0
  Images <- MCImages
  Patterns <- MCPatterns
  Printable = {1, 2, 3}
  Clean = {1, 2}
  Letters = {1}
  MIN = 2
  CATEGORIES <- MCCategories
  Words <- MCWords
  other = "other"
  All = All
INVARIANT CountsExact
