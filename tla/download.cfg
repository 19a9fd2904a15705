\* One process, every fault.
SPECIFICATION RetrySpec
CONSTANTS
  Procs = {"p"}
  Commands = {"download", "import"}
  Size = 3
  Attempts = 2
  Tokens = {"t1", "t2"}
  EnvTokens = {"none", "t1"}
  Faults = {"cut", "disk", "corrupt", "crash", "revoke", "decline"}
  MaxFaults = 4
INVARIANTS TypeOK ResumesAtTheEnd
PROPERTIES ImplementsStore InstalledIsExpected EnvTokenStaysOut InstallsUnlessStuck
CHECK_DEADLOCK TRUE
