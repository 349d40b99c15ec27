CONSTANTS
  Requests = {r1}
  Readers = {d1}
  Instances = {i1, i2}
  None = None
  Retention = 1
  MaxDay = 3
  MaxFaults = 2
SPECIFICATION FairSpec
INVARIANTS ResultsKept DownloadsServed FilesTracked
PROPERTY ExpiredIsPurged
