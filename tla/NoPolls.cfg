SPECIFICATION FairSpec
CONSTANTS
  Specs <- EditedSpecs
  NoScraper = NoScraper
  IPs = {ip1}
  NoIP = NoIP
  Standard = Standard
  Drifted = Drifted
  NoConfig = NoConfig
  Absent = Absent
  Pending = Pending
  MaxUid = 1
  MaxGen = 2
  MaxDrifts = 0
  MaxFaults = 2
  PollInterval = 0
CHECK_DEADLOCK FALSE
PROPERTIES Converges DeletionCompletes
