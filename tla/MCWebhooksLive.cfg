\* Every event announced, every delivery deleted: nothing is left to do.
CHECK_DEADLOCK FALSE
SPECIFICATION FairSpec
CONSTANTS
  Events = {e1}
  Endpoints = {p1, p2}
  FirstEvent = e1
  Subscriber = p1
  Wants <- AllWants
  Limit = 1
  Delay <- Doubling
  LastAttempt = 1
  Window = 2
  Park = 5
  Retention = 3
  MaxAnnounce = 1
  MaxFaults = 1
PROPERTIES
  DueIsTakenUp
  PendingIsSettled
