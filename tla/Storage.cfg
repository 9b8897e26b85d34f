\* Crashes at any point of a commit, failing file operations, changing sizes.
SPECIFICATION Spec
CONSTANTS
  Byte = {0, 1}
  Capacities = {2, 3}
  Address = {0, 1, 2, 3}
  Arrays <- MCArrays
  None = None
  Faults = {"open", "write"}
INVARIANTS
  TypeOK
  FileIsOneCommit
PROPERTIES
  SizeFixed
  SavesDurably
