SPECIFICATION FairSpec
CONSTANTS
  Sockets = {s1}
  AppRooms = {ra}
  Handlers = {h1}
  Stoppers = {p1}
  Activity = {"cast", "backend"}
  MaxPublish = 1
  None = None
INVARIANTS CallTyped ShutdownCloses
PROPERTIES CallsReturn HubResponsive LoopExits
