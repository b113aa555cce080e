CONSTANTS
  Posts = {p1, p2}
  Series = {}
  NoSeries = NoSeries
  NoPost = NoPost
  MaxTime = 1
  Lead = 0
  BatchLimit = 2
  MaxBoots = 2
  MaxDbErrors = 1
  Channels = {c1}
  NoChannel = NoChannel
  To <- ToAll
SPECIFICATION NMSpec
SYMMETRY RowAndChannelSymmetry
INVARIANTS
  OneSendAtATime
  UnsentReachedNobody
  TwiceOnlyAfterRequeue
  DoneHasHistory
