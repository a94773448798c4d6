SPECIFICATION QueueSpec
CONSTANTS
  QueueAttempts = 2
  QueueLeaseMs = 2
  QueueRetryMs = 1
  QueueDelayMs = 0
  QueueRetention = 3
  QueueMargin = 1
  LetterLife = 2
  QueueLives = 2
  QueueHorizon = 5
  Producers = {p1}
  Consumers = {c1}
INVARIANT DeliveredLetterArrives
CHECK_DEADLOCK FALSE
