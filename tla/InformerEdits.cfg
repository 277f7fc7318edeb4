SPECIFICATION OperatorFairSpec
CONSTANTS
  Specs <- EditedSpecs
  NoScraper = NoScraper
  IPs = {ip1}
  NoIP = NoIP
  Standard = Standard
  Drifted = Drifted
  NoConfig = NoConfig
  Absent = Absent
  Pending = Pending
  MaxUid = 1
  MaxGen = 2
  MaxDrifts = 0
  MaxFaults = 1
  PollInterval = 300
  Watched <- Kinds
CHECK_DEADLOCK FALSE
INVARIANT AcceptedIsGenerated
PROPERTIES Converges WritersComeToRest OperatorStaysAtRest
