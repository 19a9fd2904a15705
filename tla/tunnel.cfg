\* Two addresses; answers in two pieces; the connection may break at any time.
SPECIFICATION FairSpec
CONSTANTS
  Addresses = {port, guest}
  Bad = {}
  None = none
  TimedOut = timedOut
  Ops = {"status", "replace"}
  Packets = 2
  MayBreak = TRUE
INVARIANTS TypeOK FineInTime TunnelErrorIsTrue ResultIsTrue
PROPERTIES ImplementsCall DialersEnd CallReturnsUnlessCutOff
CHECK_DEADLOCK FALSE
