SPECIFICATION Spec
CONSTANTS
  SectorBytes = 4
  SectorsOfZero = 3
  Blank <- MCBlank
  Image <- MCImage
  Headers <- MCHeaders
  Jobs <- MCJobs
  MaxJobs = 3
INVARIANTS DrqTruthful UnsavedIsDirty
PROPERTIES VolumeSpec TransferEnds
CHECK_DEADLOCK FALSE
