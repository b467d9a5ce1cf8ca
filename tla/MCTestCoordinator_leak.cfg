\* One failed call of one suite while another one runs.
CONSTANTS
  s1 = s1  s2 = s2  s3 = s3
  Suites = {s1, s2}
  Iterations = 1
  ExitCodes = {0}
  MaxFaults = 1
SPECIFICATION Spec
INVARIANT ExitLeavesNoCluster
CHECK_DEADLOCK FALSE
