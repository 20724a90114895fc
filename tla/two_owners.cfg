SPECIFICATION ClaimsSpec
CONSTANTS
  t1 = t1  t2 = t2  a = a  b = b
  Tasks <- OneTask  Sessions <- TwoSessions  Operator = Operator  None = None
  From = {"session"}  Moves = {"done"}  Workers <- TwoSessions
  Spooled = {"task_claim", "task_release"}  NoFile = NoFile
  MaxFiles = 3  MaxCrashes = 0
INVARIANT OneOwner
