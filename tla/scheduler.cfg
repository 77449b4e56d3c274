SPECIFICATION Spec
CONSTANTS
  Service = {s1, s2}
  Operator = Operator
  Nobody = Nobody
  Occurrences = {1, 2, 4}
  MaxTime = 5
  MaxUpdates = 2
  Events = {"stop", "crash", "poll", "disk", "operator"}
INVARIANTS
  TypeOK
  RunsNeverOverlap
  RequestsAccounted
  OccurrencesAccounted
PROPERTIES
  RunsAreSingletons
SYMMETRY Symmetry

