CONSTANTS
  p1 = p1
  p2 = p2
  c1 = c1
  c2 = c2
  c3 = c3
  g1 = g1
  g2 = g2
  Players = {p1, p2}
  NoPlayer = NoPlayer
  Games = {g1}
  NoRow = NoRow
  MaxNow = 0
  Conns = {c1, c2, c3}
  NoConn = NoConn
  NoGame = NoGame
  Sweeper = Sweeper
  NoProc = NoProc
  Deleted = Deleted
  NoView = NoView
  NoFrame = NoFrame
  Login <- MCLogin
  HostOf <- MCHostOf
  ClientOps = {"leave"}
  ClientThrows = {}
  MaxRounds = 1
  MaxFaults = 1
SYMMETRY Same
SPECIFICATION Spec
INVARIANTS
  TypeOK
  NewestRegistered
  AttachmentBacked
  NotDroppedSilently
\* Once every connection is gone, nothing happens.
CHECK_DEADLOCK FALSE
