SPECIFICATION Spec
CONSTANTS
  Sockets = {s1}
  AppRooms = {ra}
  Handlers = {h1, h2}
  Stoppers = {}
  Activity = {"join", "leave", "leaveall", "close", "roomlist", "socketlist", "tick", "emit"}
  MaxPublish = 1
  None = None
SYMMETRY Symmetry
INVARIANTS RoomsAgree RegistryAgrees CloseOnce
