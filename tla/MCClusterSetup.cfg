SPECIFICATION Spec
CONSTANTS
  db = db
  topo = topo
  app = app
  Databases = {db}
  Core = {topo}
  Apps = {app}
  Arguments <- MCArguments
  MaxReplicas = 1
  MaxRuns = 2
INVARIANTS
  TypeOK
  NilMeansUp
  ControllerFirst
PROPERTY SetupReturns
CHECK_DEADLOCK FALSE
