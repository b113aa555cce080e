CONSTANTS
  Posts = {p1, p2, p3}
  Series = {s1}
  NoSeries = NoSeries
  NoPost = NoPost
  MaxTime = 3
  Lead = 0
  BatchLimit = 2
  MaxBoots = 2
  MaxDbErrors = 1
SPECIFICATION Spec
SYMMETRY PostSymmetry
INVARIANTS
  TypeOK
  MarkOwnsRow
  OncePerBoot
  SendingAccounted
  CancelledSeriesQuiet
  NeverEarly
  SeriesIsPrefix
PROPERTIES
  ClaimsInOrder
  ImplementsLifecycle
