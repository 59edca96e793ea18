SPECIFICATION Spec
CONSTANTS
  Drives = {0}
  Disks = {1}
  LastCylinder = 1
  Sectors = 2
  SpinUp = 1
  Jobs <- SideJobs
  MaxJobs = 2
  MaxChanges = 1
PROPERTIES TrackServed
CHECK_DEADLOCK FALSE
