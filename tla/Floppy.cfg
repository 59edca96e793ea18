SPECIFICATION Spec
CONSTANTS
  Drives = {0, 1}
  Disks = {1, 2}
  LastCylinder = 1
  Sectors = 2
  SpinUp = 1
  Jobs <- MCJobs
  MaxJobs = 3
  MaxChanges = 2
INVARIANTS WritesLand UnsavedFlagged
PROPERTIES TrackFresh TransfersEnd
CHECK_DEADLOCK FALSE
