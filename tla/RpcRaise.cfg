SPECIFICATION Spec
CONSTANTS
  Callers = {c1, c2}
  Ceiling = 2
  Unit = 1
  Second = 2
  Early = 1
  Limits = {4}
  RetryAfters = {3}
  DefaultCooldown = 1
  NoHeader = NoHeader
  Recovery = 2
  MaxAttempts = 2
PROPERTY BacksOff
CHECK_DEADLOCK FALSE
