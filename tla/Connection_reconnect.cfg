CONSTANTS
  LastPut = 2
  Transactions = {}
  Queries = {q1}
  Users = {u1}
  NoToken = NoToken
  MaxListens = 1
  MaxIssue = 1
  MaxWire = 2
  MaxEvents = 1
  MaxTroubles = 2
SPECIFICATION FairSpec
PROPERTIES
  WritesAreQueued
  Restored
  WritesArrive
  HeldDelivered
CHECK_DEADLOCK FALSE
