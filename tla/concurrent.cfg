\* Two invocations at the same time, without destroy and custom OVAs.
SPECIFICATION Spec
CONSTANTS
  Default = "default"
  Custom = "custom"
  OldNames = {}
  Keys = {k1, k2, k3}
  Addrs = {a1}
  ServiceSets = {"redis"}
  DefaultServices = "redis"
  Faults = {"crash", "abort"}
  Procs = {"p", "q"}
  Requests <- TwoTerminals
SYMMETRY Symmetry
INVARIANTS BootsConfigured 
