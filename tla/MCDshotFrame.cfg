SPECIFICATION Spec
CONSTANTS
  Margin = 40
INVARIANTS
  ThrottleRange
PROPERTIES
  Monotone
