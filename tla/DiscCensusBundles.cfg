\* One bundle each.
SPECIFICATION ReportsSpec
CONSTANTS
  WINDOW = 76
  ALIGN = 64
  Limits = {30}
  ListLimits = {40}
  Behind <- MCBehind
  Streams <- MCStreams
  Buffers <- MCBuffers
  Containers <- MCLayouts
INVARIANT BundlesAreCounted
