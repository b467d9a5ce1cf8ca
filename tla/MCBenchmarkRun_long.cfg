\* Eight requests with batches of two: the batches reach the batch size squared.
CONSTANTS
  c1 = c1  c2 = c2  c3 = c3
  Clients = {c1, c2}
  Requests = 8
  HasDuration = FALSE
  AggBatchSize = 2
  MaxRequests = 8
SPECIFICATION Spec
INVARIANT NoSampleDropped
CHECK_DEADLOCK FALSE
