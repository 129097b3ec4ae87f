SPECIFICATION Spec
CONSTANTS
  NoTime = NoTime
  Generations = {1, 2}
  Letters = {"m1"}
  NoLetter = "none"
  Deaths = 1
  SpawnSlots = {0, 1}
  Deliveries = 2
  Mails = {"m1", "m2"}
  NoMail = "none"
  RecordsOfMail = 2
  SendSlots = 2
  SendJobsMax = 2
  Injectors = {"w1", "w2"}
  TriggerKills = 1
  Parts = {"lifecycle", "lspawn", "working jobs", "undisturbed retry", "untimed trigger",
    "failing opendir"}
CHECK_DEADLOCK FALSE
PROPERTIES
  WorkEnds
