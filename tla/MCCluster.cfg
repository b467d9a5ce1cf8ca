\* Failed calls, lost answers and a watch that the server closes.
CONSTANTS
  c1 = c1  c2 = c2  c3 = c3  n1 = n1  n2 = n2
  Callers = {c1, c2, c3}
  Namespaces = {n1, n2}
  NamespaceOf <- MCNamespaceOf
  Preexisting = {n1}
  MaxCalls = 4
  MaxFaults = 1
  MaxExpiries = 1
SPECIFICATION FairSpec
INVARIANTS TypeOK AccountsOnlyGranted OneSubjectPerCreate
PROPERTIES
  CreatedIsUsable ImplementsGrantLog
  DeletedMeansGone CallsReturn
CHECK_DEADLOCK FALSE
