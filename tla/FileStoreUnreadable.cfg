SPECIFICATION FileSpec
CONSTANTS
  Absent = Absent
  Nobody = Nobody
  FileIds = {t1, t2, t3}
  Snapshots = {v1, v2}
  ReadMayFail = TRUE
  WriteMayFail = FALSE
INVARIANT PersistsAcrossInstances
