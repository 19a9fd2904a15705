\* Two VMs with PCF Dev's domains and one with another, on each platform.
SPECIFICATION Spec
CONSTANTS
  Certs = {"c1", "c2", "x"}
  Custom = {"x"}
  NumLogs = 2
INVARIANTS UntrustRemoves TrustTakes TempsGo
PROPERTIES ArchiveIsWhole
