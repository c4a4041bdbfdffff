CONSTANTS
  LastPut = 2
  Transactions = {2}
  Queries = {q1}
  Users = {u1}
  NoToken = NoToken
  MaxListens = 2
  MaxIssue = 1
  MaxWire = 2
  MaxEvents = 1
  MaxTroubles = 2
SPECIFICATION Spec
INVARIANTS
  TypeOK
  AssertionsHold
  AlwaysUnderWay
  UnackedListensOut
  WritesAccountedFor
  AppliedAsReported
  SessionOfAccount
PROPERTY CompletedInOrder
CHECK_DEADLOCK FALSE
