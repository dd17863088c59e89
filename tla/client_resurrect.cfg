SPECIFICATION Spec
CONSTANTS
  Sessions = {s1}
  Calls = {c1}
  None = None
  MaxExpiries = 1
PROPERTY NotBroughtBack
CHECK_DEADLOCK FALSE
