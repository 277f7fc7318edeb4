SPECIFICATION OperatorFairSpec
CONSTANTS
  Specs <- ExporterSpecs
  NoScraper = NoScraper
  IPs = {ip1}
  NoIP = NoIP
  Standard = Standard
  Drifted = Drifted
  NoConfig = NoConfig
  Absent = Absent
  Pending = Pending
  MaxUid = 1
  MaxGen = 3
  MaxDrifts = 0
  MaxFaults = 0
  PollInterval = 300
  Watched <- Kinds
CHECK_DEADLOCK FALSE
PROPERTY ConfigLoaded
