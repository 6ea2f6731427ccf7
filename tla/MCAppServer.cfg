SPECIFICATION FairSpec
CONSTANTS
  MaxTurns = 2
  Nothing = Nothing
  MaxEvents = 2
  MaxExtras = 1
INVARIANT
  HandledInOrder
PROPERTIES
  ImplementsAgentRun
  EndsStopped
