SPECIFICATION Spec
CONSTANTS
  Clients = {c1, c2}
  Droppers = {}
  Sweeper = sweeper
  PublicRooms = {ra}
  GroupRooms = {}
  DmRooms = {}
  DefaultRooms = {}
  Objects = {o1, o2, o3}
  Users <- JustOne
  Sorted = {}
  Sessions = {k1}
  Activity = {"join"}
  None = None

INVARIANT JoinedIsReached
