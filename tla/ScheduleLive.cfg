CONSTANTS
  Posts = {p1, p2}
  Series = {s1}
  NoSeries = NoSeries
  NoPost = NoPost
  MaxTime = 2
  Lead = 0
  BatchLimit = 1
  MaxBoots = 2
  MaxDbErrors = 1
SPECIFICATION FairSpec
PROPERTIES
  EveryPostSettles
