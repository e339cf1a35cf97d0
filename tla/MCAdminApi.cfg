SPECIFICATION AdminSpec
CONSTANTS
  q1 = q1
  q2 = q2
  Ids = {1, 2, 3, 4}
  Initial = {1, 2, 3}
  Fields = {"active", "note"}
  Values = {0, 1}
  Requests = {q1, q2}
  Filter = "active"
  Wanted = 1
  NoField = "-"
  Limit = 2
  MaxClock = 2
  MaxWrites = 2
SYMMETRY Symmetry
INVARIANTS PagesCoverTheList FieldsSurvive
