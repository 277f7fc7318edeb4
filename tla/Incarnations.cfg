SPECIFICATION FairSpec
CONSTANTS
  Specs <- OneSpec
  NoScraper = NoScraper
  IPs = {ip1}
  NoIP = NoIP
  Standard = Standard
  Drifted = Drifted
  NoConfig = NoConfig
  Absent = Absent
  Pending = Pending
  MaxUid = 2
  MaxGen = 1
  MaxDrifts = 0
  MaxFaults = 1
  PollInterval = 300
CHECK_DEADLOCK FALSE
INVARIANTS TypeOK IInv LifecycleInv WorkerHoldsConfig NeverDeletesLive DeletesNoneAdopted
PROPERTIES KeepsLifecycle CompletesLifecycle OrphansCollected
