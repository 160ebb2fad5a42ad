SPECIFICATION FairSpec
CONSTANTS
  Items = {1, 3}
  Queues = 2
  QueueOf <- MCQueueOf
  Requests = {c1, c2}
  MaxFaults = 1
  Hopeless = {1}
  None = None
  Dead = Dead
INVARIANTS TypeOK OneConsumer AtLeastOnce
PROPERTIES NoStealing EventuallyDone
