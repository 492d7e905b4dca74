SPECIFICATION FairSpec
CONSTANTS
  Conns = {c1, c2}
  Rooms = {ra}
  Maps = {m1, m2}
  Casters = {b1}
  MaxListens = 2
  Deadlines = TRUE
  None = None
INVARIANTS BroadcastReaches
PROPERTIES AcceptorEnds HandshakeEnds ConnectReturns
