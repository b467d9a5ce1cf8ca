\* Two suites at once, no failed call: the environment each pod gets.
CONSTANTS
  s1 = s1  s2 = s2  s3 = s3
  Suites = {s1, s2}
  Iterations = 1
  ExitCodes = {0}
  MaxFaults = 0
SPECIFICATION Spec
INVARIANT OwnEnvironment
CHECK_DEADLOCK FALSE
