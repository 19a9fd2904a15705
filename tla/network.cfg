\* One import after the other on a host other VMs and networks share.
SPECIFICATION Spec
CONSTANTS
  AllowedNets <- TwoNets
  OtherNets = {"other"}
  Ifaces = {1, 2}
  Rivals = {"r"}
  Requests <- EachOption
  Totals = {4096, 7000}
INVARIANTS MemorySuits
PROPERTIES NoNewTwins OwnNetwork ConfigInNetwork RefusedWhenTaken
