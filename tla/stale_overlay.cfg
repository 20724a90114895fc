SPECIFICATION Spec
CONSTANTS
  s1 = s1  s2 = s2  p1 = p1  p2 = p2  q1 = q1  lobby = lobby  work = work
  Sessions = {s1, s2}  Operator = Operator  All = All
  Rooms = {lobby, work}  Lobby <- MCLobby
  Procs = {p1}  Owner <- OneListener  Kind <- JustWait
  NoHolder = NoHolder  Prober = Prober  NoFile = NoFile
  Drafts <- OnlyInstruct
  BacklogMax = 25  BroadcastWakes = FALSE
  Joined0 <- Everyone
  Verbs = {"delete"}  Users = {s1}
  MaxMsgs = 2  MaxFiles = 1  MaxKills = 0  MaxCrashes = 0
INVARIANT StaleOverlayHidesNothing
