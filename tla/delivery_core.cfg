SPECIFICATION Spec
CONSTANTS
  s1 = s1  s2 = s2  p1 = p1  p2 = p2  q1 = q1  lobby = lobby  work = work
  Sessions = {s1, s2}  Operator = Operator  All = All
  Rooms = {lobby, work}  Lobby <- MCLobby
  Procs = {p1, p2}  Owner <- TwoListeners  Kind <- WaitAndOnce
  NoHolder = NoHolder  Prober = Prober  NoFile = NoFile
  Drafts <- RoomDrafts
  BacklogMax = 25  BroadcastWakes = FALSE
  Joined0 <- Everyone
  Verbs = {"session", "leave", "join", "socket"}  Users = {s1}
  MaxMsgs = 2  MaxFiles = 1  MaxKills = 0  MaxCrashes = 1
INVARIANTS TypeOK NothingSkipped
PROPERTY NoSecondWake
