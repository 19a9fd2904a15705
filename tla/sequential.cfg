\* One invocation at a time, every command; calls fail and processes are killed.
SPECIFICATION Spec
CONSTANTS
  Default = "default"
  Custom = "custom"
  OldNames = {"old"}
  Keys = {k1, k2}
  Addrs = {a1, a2}
  ServiceSets = {"redis", "scs"}
  DefaultServices = "redis"
  Faults = {"fail", "crash"}
  Procs = {"p"}
  Requests <- EachCmd
SYMMETRY Symmetry
INVARIANTS TypeOK AtMostOneVM BootsConfigured AddressesAgree KeysAgree
PROPERTIES  DestroyLeavesNothing StartProvisions ImplementsLifeCycle
