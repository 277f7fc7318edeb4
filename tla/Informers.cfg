SPECIFICATION OperatorSpec
CONSTANTS
  Specs <- ScraperSpecs
  NoScraper = NoScraper
  IPs = {ip1}
  NoIP = NoIP
  Standard = Standard
  Drifted = Drifted
  NoConfig = NoConfig
  Absent = Absent
  Pending = Pending
  MaxUid = 1
  MaxGen = 2
  MaxDrifts = 1
  MaxFaults = 1
  PollInterval = 300
  Watched <- ScraperOnly
CHECK_DEADLOCK FALSE
INVARIANTS OperatorTypeOK EndpointBeforeScraper WellFormed
PROPERTY StatusRefsKept
