SPECIFICATION Spec
CONSTANTS
  Service = {s1}
  Operator = Operator
  Nobody = Nobody
  Occurrences = {1}
  MaxTime = 1
  MaxUpdates = 0
  Events = {"stop"}
INVARIANTS
  ShutdownForwarded

