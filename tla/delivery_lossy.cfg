SPECIFICATION Spec
CONSTANTS
  s1 = s1  s2 = s2  p1 = p1  p2 = p2  q1 = q1  lobby = lobby  work = work
  Sessions = {s1, s2}  Operator = Operator  All = All
  Rooms = {lobby, work}  Lobby <- MCLobby
  Procs = {p1, q1}  Owner <- WithRecv  Kind <- WaitAndRecv
  NoHolder = NoHolder  Prober = Prober  NoFile = NoFile
  Drafts <- MixedDrafts
  BacklogMax = 1  BroadcastWakes = FALSE
  Joined0 <- Everyone
  Verbs = {"recv", "dnd", "socket"}  Users = {s1}
  MaxMsgs = 2  MaxFiles = 0  MaxKills = 1  MaxCrashes = 0
INVARIANT MustDelivered
