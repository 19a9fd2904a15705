\* Two processes that share the files.
SPECIFICATION FairSpec
CONSTANTS
  Procs = {"p", "q"}
  Commands = {"download", "import"}
  Size = 1
  Attempts = 2
  Tokens = {"t1", "t2"}
  EnvTokens = {"none"}
  Faults = {"cut", "disk"}
  MaxFaults = 1
PROPERTIES CommandsEnd
CHECK_DEADLOCK TRUE
