\* Up to nine requests, cut short by the duration at any point; batches of two.
CONSTANTS
  c1 = c1  c2 = c2  c3 = c3
  Clients = {c1, c2, c3}
  Requests = 9
  HasDuration = TRUE
  AggBatchSize = 2
  MaxRequests = 9
SPECIFICATION Spec
INVARIANTS TypeOK Conservation DurationCoversCalls NoSendOnClosed ReportedExactly
           NeverStuck
PROPERTY StepsRunOut
CHECK_DEADLOCK FALSE
