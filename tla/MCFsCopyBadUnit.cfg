SPECIFICATION FsCopySpec
CONSTANTS
  FileSize = 3
  BadUnits = {2}
  CloseFails = FALSE
INVARIANT NothingSentTwice
