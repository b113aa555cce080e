CONSTANTS
  Requests = {v1, v2}
  Visits = {v1, v2}
  Settings = {good, bad}
  BadSettings = {bad}
  Credentials = {k1, k2}
  Empty = Empty
  Tokens = {t1, t2}
  Passwords = {p0, p1, p2, long}
  Configured = p0
  TooLong = {long}
  TTL = 1
  MaxTime = 2
SYMMETRY Symmetry
SPECIFICATION PagesSpec
INVARIANTS
  PagesTypeOK
  OnlyAdmittedInside
  ToldIsInForce
  StartupMigrates
PROPERTIES
  DeletedStaysDeleted
  AloneKeepsCredential
