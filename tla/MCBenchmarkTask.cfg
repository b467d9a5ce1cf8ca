\* Three workers, two benchmarks, up to two failed calls or ended pods; a run
\* is cut short at any point, or has no end.
CONSTANTS
  NumWorkers = 3
  NumBenchmarks = 2
  Configs <- ShareOrEndless
  MaxRequests = 2
  MaxFaults = 2
SPECIFICATION Spec
INVARIANTS TypeOK Lockstep TearDownIsLast SuccessIsComplete
           NeverStuck
PROPERTY StepsRunOut
CHECK_DEADLOCK FALSE
