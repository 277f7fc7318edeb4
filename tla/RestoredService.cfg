SPECIFICATION OperatorFairSpec
CONSTANTS
  Specs <- OneSpec
  NoScraper = NoScraper
  IPs = {ip1, ip2}
  NoIP = NoIP
  Standard = Standard
  Drifted = Drifted
  NoConfig = NoConfig
  Absent = Absent
  Pending = Pending
  MaxUid = 1
  MaxGen = 1
  MaxDrifts = 1
  MaxFaults = 0
  PollInterval = 300
  Watched <- Kinds
CHECK_DEADLOCK FALSE
PROPERTY EndpointCurrent
