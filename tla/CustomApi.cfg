SPECIFICATION FairSpec
CONSTANTS
  Specs <- CustomSpecs
  NoScraper = NoScraper
  IPs = {ip1}
  NoIP = NoIP
  Standard = Standard
  Drifted = Drifted
  NoConfig = NoConfig
  Absent = Absent
  Pending = Pending
  MaxUid = 1
  MaxGen = 1
  MaxDrifts = 0
  MaxFaults = 0
  PollInterval = 300
CHECK_DEADLOCK FALSE
PROPERTY ComesToRest
