\* Losses of the connection, failed dials and refused requests.
SPECIFICATION FairSpec
CONSTANTS
  s1 = s1  s2 = s2  s3 = s3
  q1 = q1
  Subscriptions = {s1, s2, s3}
  Queues = {q1}
  QueueOf <- MCQueueOf
  Exclusive = Exclusive
  Lost = Lost
  None = None
  MaxFailures = 1
  MaxWaiting = 1
  LateReplies = TRUE
INVARIANTS
  ConsumesWhatIsSubscribed
PROPERTIES
  SubscriptionsRetained
  EventuallyServed
