\* Two iterations of two suites with every exit code, up to two failed calls.
CONSTANTS
  s1 = s1  s2 = s2  s3 = s3
  Suites = {s1, s2}
  Iterations = 2
  ExitCodes = {0, 1, 2}
  MaxFaults = 2
SPECIFICATION FairSpec
INVARIANTS TypeOK NoSendOnClosed ClustersAreDeleted NeverStuck
PROPERTIES ImplementsSuiteVerdict StepsRunOut Exits
CHECK_DEADLOCK FALSE
