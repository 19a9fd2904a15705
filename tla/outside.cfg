\* One invocation at a time; VMs are also lost and paused from outside.
SPECIFICATION FairSpec
CONSTANTS
  Default = "default"
  Custom = "custom"
  OldNames = {}
  Keys = {"k1", "k2"}
  Addrs = {"a1"}
  ServiceSets = {"redis"}
  DefaultServices = "redis"
  Faults = {"fail", "crash", "abort", "pause"}
  Procs = {"p"}
  Requests <- EachAction
PROPERTIES CommandsEnd
