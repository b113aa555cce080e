CONSTANTS
  MaxFiles = 3
  MaxTries = 5
SPECIFICATION Spec
INVARIANTS
  OkMeansComplete
  NeverTwice
  AllOrNothing
  KindsAgree
  LinkLeadsToPost
PROPERTIES
  ImplementsChannelSend
CHECK_DEADLOCK FALSE
