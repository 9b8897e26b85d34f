\* One storage of two bytes, nothing fails.
SPECIFICATION Spec
CONSTANTS
  Byte = {0, 1}
  Capacities = {2}
  Address = {0, 1, 2}
  Arrays <- MCArrays
  None = None
  Faults = {}
INVARIANT OnlyOutOfBoundsRefused
