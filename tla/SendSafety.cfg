CONSTANTS
  Jobs = {j1}
  Channels = {c1, c2, c3}
  NoChannel = NoChannel
  MaxDbErrors = 1
SPECIFICATION FairSpec
INVARIANTS
  TypeOK
  HistoryComplete
  AtMostOneUnrecorded
  OnlyChannelsThatWereOn
PROPERTIES
  ImplementsChannelSend
  EveryJobCloses
