\* Two workers, one benchmark, one failed call: is a benchmark run without its set-up?
CONSTANTS
  NumWorkers = 2
  NumBenchmarks = 1
  Configs <- ShareOnly
  MaxRequests = 2
  MaxFaults = 1
SPECIFICATION Spec
INVARIANT RunOnlyWhenSetUp
CHECK_DEADLOCK FALSE
