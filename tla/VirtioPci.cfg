\* Two queues and three vectors: two queues may share a vector or have none.
CONSTANTS
  NumQueues = 2
  QueueSizes = {0, 256}
SPECIFICATION FunctionSpec
INVARIANTS NoStrandedVector IntxFollowsIsr
PROPERTY PendingIsPaid
