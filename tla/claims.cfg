SPECIFICATION ClaimsSpec
CONSTANTS
  t1 = t1  t2 = t2  a = a  b = b
  Tasks <- TwoTasks  Sessions <- TwoSessions  Operator = Operator  None = None
  From = {"operator"}  Moves = {"done"}  Workers <- TwoSessions
  Spooled = {"task_claim", "task_release", "task_state"}  NoFile = NoFile
  MaxFiles = 1  MaxCrashes = 1
SYMMETRY Symmetry
INVARIANTS ClaimsTypeOK OwnersHold
PROPERTY ImplementsBoard
