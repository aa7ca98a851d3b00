SPECIFICATION AutomationsSpec
CONSTANTS
  Triggers = {"a", "b"}
  LastDelivery = 3
  TriggerOf <- MCTriggerOf
  MaxAttempts = 3
  BatchSize = 2
  MaxTriggerFaults = 3
  NoDelivery = NoDelivery
  CronJobs = {"o", "a", "e"}
  KindOf <- MCKindOf
  SystemJobs = {"e"}
  Period = 2
  MaxSleep = 1
  MaxEdits = 2
  MaxCronFaults = 1
INVARIANTS
  NoTwin
  JobsKept
  OneTimeRunsOnce
PROPERTIES
  DeliveredAtLeastOnce
  EveryDeliverySettles
  DueRuns
CHECK_DEADLOCK FALSE
