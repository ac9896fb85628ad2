SPECIFICATION Spec
CONSTANTS
  Margin = 40
INVARIANT
  ChecksumAccepted
