SPECIFICATION MCSpec
CONSTANTS
  Tasks = {"task"}
  Repetitions = 1
  Commands = 2
  MaxTurns = 2
  Nothing = Nothing
  MaxChanges = 2
INVARIANTS
  TypeOK
  ResultsAreReal
  PassedIsFair
  AgentsAreStopped
PROPERTY
  EndsClean
CHECK_DEADLOCK FALSE
