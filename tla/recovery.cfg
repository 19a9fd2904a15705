\* One user, six faults of any kind anywhere, choosing destroy.
SPECIFICATION RecoverySpec
CONSTANTS
  Default = "default"
  Custom = "custom"
  OldNames = {"old"}
  Keys = {"k1", "k2"}
  Addrs = {"a1"}
  ServiceSets = {"redis"}
  DefaultServices = "redis"
  Faults = {"fail", "crash", "abort", "pause"}
  Procs = {"p"}
  Requests <- UserCmds
  MaxFaults = 6
  Remedy = "destroy"
PROPERTIES AdviceRecovers
