SPECIFICATION RunSpec
CONSTANTS
  Ids = {"a", "b", "c", "d", "gone"}
  Task = "current-task"
  ToolNames = {"t1", "t2"}
  CallIds = {"call"}
  Requests <- MCRequests
  EagerTools = 1
  Nothing = Nothing
  Replies <- MCReplies
  Arguments = {"fits", "refused", "raises", "other lines"}
  Suits <- MCSuits
  InputTokens = {2}
  MaxResult = 1
INVARIANT
  DependenciesIncluded
