SPECIFICATION Spec
CONSTANTS
  s1 = s1
  s2 = s2
  n1 = n1
  n2 = n2
  a1 = a1
  a2 = a2
  a3 = a3
  c1 = c1
  c2 = c2
  net = net
  Simulators = {s1, s2}
  Networks = {n1, n2}
  Apps = {a1, a2, a3}
  Topology <- MCTopology
  ShortName <- MCShortName
  Unlisted = {s2}
  Replicas <- MCReplicas
  Secretless = {a2}
  Scenarios <- MCScenarios
  Workers = {w1, w2}
  Commands = {c1, c2}
  MaxOps = 3
  MaxFaults = 1
PROPERTY AwaitedMatches
CHECK_DEADLOCK FALSE
