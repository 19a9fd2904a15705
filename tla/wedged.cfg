\* One user who tries again after a damaged chunk.
SPECIFICATION RetrySpec
CONSTANTS
  Procs = {"p"}
  Commands = {"download"}
  Size = 2
  Attempts = 2
  Tokens = {"t1", "t2"}
  EnvTokens = {"none"}
  Faults = {"corrupt"}
  MaxFaults = 1
PROPERTIES Installs
CHECK_DEADLOCK TRUE
