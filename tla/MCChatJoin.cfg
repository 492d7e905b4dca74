SPECIFICATION Spec
CONSTANTS
  Clients = {c1, c2}
  Droppers = {}
  Sweeper = sweeper
  PublicRooms = {}
  GroupRooms = {ga}
  DmRooms <- WithOneself
  DefaultRooms = {}
  Objects = {o1, o2}
  Users <- JustOne
  Sorted <- OneTwice
  Sessions = {k1}
  Activity = {"join", "leave", "api", "redis_error", "bad", "relay"}
  None = None
SYMMETRY Symmetry
INVARIANTS TypeOK MembersHaveRoom PrivateRooms
