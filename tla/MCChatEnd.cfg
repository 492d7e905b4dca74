SPECIFICATION FairSpec
CONSTANTS
  Clients = {c1}
  Droppers = {g1}
  Sweeper = sweeper
  PublicRooms = {}
  GroupRooms = {ga}
  DmRooms = {}
  DefaultRooms = {}
  Objects = {o1, o2}
  Users <- JustOne
  Sorted = {}
  Sessions = {k1}
  Activity = {"join", "say", "typing", "api", "write_error", "pong_timeout"}
  None = None
INVARIANT GoneLeavesNoTrace
PROPERTY HandlersEnd
