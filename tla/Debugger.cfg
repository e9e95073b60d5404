SPECIFICATION DbgSpec
CONSTANTS
  Pages = {0, 1, 2, 3}
  Present = {0, 2, 3}
INVARIANTS
  FreedOnce
  AnswersMatch
  NoMutualWait
  
CHECK_DEADLOCK FALSE
