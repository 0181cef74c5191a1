CONSTANTS
  Requests = {r1, r2, r3}
  Names = {n1, n2}
  NoName = NoName
  MaxDiscriminator = 1
  DiscriminatorRetries = 2
SPECIFICATION FairSpec
INVARIANTS
  TypeOK
  ScanExact
PROPERTIES
  ImplementsRoster
  Answered
\* Once every request is answered and every player expired, nothing happens.
CHECK_DEADLOCK FALSE
