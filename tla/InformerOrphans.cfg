SPECIFICATION OperatorCollectedSpec
CONSTANTS
  Specs <- OneSpec
  NoScraper = NoScraper
  IPs = {ip1}
  NoIP = NoIP
  Standard = Standard
  Drifted = Drifted
  NoConfig = NoConfig
  Absent = Absent
  Pending = Pending
  MaxUid = 2
  MaxGen = 1
  MaxDrifts = 0
  MaxFaults = 0
  PollInterval = 300
  Watched <- ScraperOnly
CHECK_DEADLOCK FALSE
INVARIANTS CopiesInv WorkerHoldsConfig ObjectsInv
PROPERTIES OrphansCollected KeepsSharedLifecycle
