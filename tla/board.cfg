SPECIFICATION BoardSpec
CONSTANTS
  t1 = t1  t2 = t2  t3 = t3  s1 = s1  s2 = s2
  Tasks <- ThreeTasks  Sessions <- TwoSessions  Operator = Operator  None = None
  From <- AllOrigins  Moves <- AllStates  Workers <- TwoSessions
SYMMETRY Symmetry
INVARIANTS TypeOK Acyclic CloseAuthority OrphansAreUnowned
PROPERTIES NoStolenClaim
