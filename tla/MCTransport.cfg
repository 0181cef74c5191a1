CONSTANTS
  Senders = {s1}
  SendBuffer = 2
  NoCode = NoCode
SPECIFICATION FairSpec
INVARIANTS
  TypeOK
  Flushed
  NothingLeft
PROPERTIES
  ClosingEnds
  DeadDropped
  AuthenticatedOrOut
\* The process ends.
CHECK_DEADLOCK FALSE
