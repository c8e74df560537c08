\* Every stream of up to six bytes, both dialects, both compressed methods.
SPECIFICATION Spec
CONSTANTS
  NIB = 2
  FlagBits = 2
  MaxStream = 6
  Streams <- MCStreams
INVARIANTS
  WindowMirrorsOutput
  AllInputRead
  ExpansionBound
PROPERTIES
  ImplementsWindow
