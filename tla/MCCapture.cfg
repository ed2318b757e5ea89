CONSTANTS
  Name = {"a", "b", "f", "g", "k", "p", "u", "h", "h_1", "#ab"}
  Top = Top
  Base = "h"
  Draws = {"h_1", "h_2", "h_3"}
  Hash <- MCHash
  Modules <- CaptureModules
SPECIFICATION FairSpec
INVARIANT AlwaysBound
CHECK_DEADLOCK FALSE
