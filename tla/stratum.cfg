SPECIFICATION MCSpec
CONSTANTS
  None = None
  BaseDelay = 1
  MaxDelay = 4
  MaxSockets = 3
  MaxRequests = 7
  Letters = {a, b}
  NL = NL
  Lead = Lead
  Follow = Follow
  Wide = Wide
  Replacement = Replacement
  MaxBuffer = 3
  MaxChunk = 4
  MaxStream = 6
INVARIANTS OneLiveSocket LinesAreWhole
PROPERTIES OnlyLoginClearsBackoff SilenceIsNoticed KeepsTrying ImplementsLink
CHECK_DEADLOCK FALSE
