SPECIFICATION PrimitivesFairSpec
CONSTANTS
  q1 = q1
  q2 = q2
  w1 = w1
  w2 = w2
  EffectIds = {e1}
  Supervisors = {s1}
  MaxAttempts = 2
  LeaseMs = 1
  ExtendMs = 2
  Margin = 1
  Lifetime = 4
  Retention = 1
  RequestMs = 3
  BaseDelay = 1
  MaxDelay = 1
  Skew = 1
  LastExpiry = 3
  Horizon = 3
  Producers = {p1}
  Consumers <- MCConsumers
  QueueAttempts = 2
  QueueLeaseMs = 2
  QueueRetryMs = 1
  QueueDelayMs = 0
  QueueRetention = 4
  QueueMargin = 1
  LetterLife = 2
  QueueLives = 2
  QueueHorizon = 4
  Schedules = {c1, c2}
  Intervals = {1, 2}
  CronTickLimit = 2
  CronMutations = 2
  CronHorizon = 3
  MaxRuns = 2
  Signals = {g1}
  Workers <- MCWorkers
  FlowAttempts = 2
  FlowLease <- MCLease
  FlowMaxLease = 2
  FlowRetry = 1
  FlowMargin = 1
  ActivityLife = 2
  TimerDelay = 1
  FlowRetention = 1
  MaxTasks = 2
  MaxEvents = 2
  FlowHorizon = 3
  Classes <- MCClasses
  CleanupOf <- MCCleanupOf
  TickItems = 4
  MaxTries = 2
  MaxBacklog = 3
  MaxCommits = 3
CHECK_DEADLOCK FALSE
PROPERTIES WorkSettles
