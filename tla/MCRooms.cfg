SPECIFICATION Spec
CONSTANTS
  Sockets = {s1, s2}
  AppRooms = {ra}
  Handlers = {h1}
  Stoppers = {}
  Activity = {"join", "leave", "cast"}
  MaxPublish = 1
  None = None
SYMMETRY Symmetry
INVARIANTS RoomsAgree NoEmptyRoom RegistryAgrees
PROPERTY ImplementsRoomService
