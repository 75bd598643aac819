\* Builds with either call wrapped, and with both.
SPECIFICATION Spec
CONSTANTS
  nvs = nvs
  other = other
  d1 = d1
  d2 = d2
  d3 = d3
  NvsPartitions = {nvs, other}
  Default = nvs
  Sectors <- mcSectors
  Entries = {d1, d2, d3}
  Builds <- mcBuilds
  Images <- mcImages
  MaxBoots = 2
INVARIANTS ReportIsTruth MovesFinish
PROPERTY KeepsData
CHECK_DEADLOCK FALSE
