SPECIFICATION Spec
CONSTANTS
  Procs = {p1, p2}
  Kinds = {"write", "unlink", "replace", "overwrite"}
  Nobody = Nobody
  Absent = Absent
  MaxEdits = 1
  MaxFaults = 1
  MaxCrashes = 1
SYMMETRY Symmetry
INVARIANTS OutcomesAreTrue
PROPERTIES NothingLost
CHECK_DEADLOCK FALSE
