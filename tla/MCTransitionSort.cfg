SPECIFICATION FairSpec
CONSTANTS
  OpIds = {1, 2, 3}
  Capacities = {2, 3}
INVARIANTS
  TypeOK
  MarksMatch
  RecursionBounded
PROPERTIES
  SortsTransitions
  Progresses
  Terminates
