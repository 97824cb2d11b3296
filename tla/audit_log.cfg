CONSTANTS
  x = x  y = y
  Payloads = {x, y}
  MaxEvents = 4
  MaxDamage = 3
SPECIFICATION Spec
INVARIANTS VerifiedWasWritten HeadPinsLog
CHECK_DEADLOCK FALSE
