SPECIFICATION FairSpec
CONSTANTS
  s1 = s1  s2 = s2  p1 = p1  p2 = p2  q1 = q1  lobby = lobby  work = work
  Sessions = {s1, s2}  Operator = Operator  All = All
  Rooms = {lobby, work}  Lobby <- MCLobby
  Procs = {p1}  Owner <- OneListener  Kind <- JustWait
  NoHolder = NoHolder  Prober = Prober  NoFile = NoFile
  Drafts <- WakeDrafts
  BacklogMax = 25  BroadcastWakes = FALSE
  Joined0 <- Everyone
  Verbs = {"send", "dnd"}  Users = {s1}
  MaxMsgs = 1  MaxFiles = 1  MaxKills = 1  MaxCrashes = 1
PROPERTY WakesReach
