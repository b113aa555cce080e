CONSTANTS
  Posts = {p1, p2, p3}
  Series = {s1}
  NoSeries = NoSeries
  NoPost = NoPost
  MaxTime = 3
  Lead = 0
  BatchLimit = 2
  MaxBoots = 1
  MaxDbErrors = 0
SPECIFICATION Spec
INVARIANTS
  CancelSeriesCoversAllDates
