\* One start after the other; calls fail.
SPECIFICATION Spec
CONSTANTS
  Default = "default"
  Custom = "custom"
  OldNames = {}
  Keys = {"k1", "k2"}
  Addrs = {"a1"}
  ServiceSets = {"redis"}
  DefaultServices = "redis"
  Faults = {"fail"}
  Procs = {"p"}
  Requests <- OneStart
PROPERTIES StartHonoursMemory
