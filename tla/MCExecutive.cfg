\* Two steps over three nodes; one call per answer; others hand off too, up to
\* MaxLeases leases.
CONSTANTS
  Steps = {s1, s2}
  Nodes <- MCNodes
  Deps <- MCDeps
  Place <- MCPlace
  NodeClass <- MCNodeClass
  Tools = {"patch_file", "unknown"}
  Registered = {"patch_file"}
  ToolClass <- MCToolClass
  CeilingClass = 2
  NoNode = NoNode
  MaxTurns = 1
  MaxCalls = 1
  MaxLeases = 2
SPECIFICATION FairSpec
INVARIANTS
  NodesTakenInTurn
  NoSplitBrain
PROPERTIES
  ReadyNodesAreTaken
CHECK_DEADLOCK FALSE
