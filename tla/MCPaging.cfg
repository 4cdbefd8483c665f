SPECIFICATION FairSpec
CONSTANTS
  Traversals = {t1, t2}
  Consumers <- AllConsumers
  Path = "path"
  Links <- MCLinks
  None = None
  Items <- MCItems
  DeltaLinks <- MCDeltaLinks
  Sites <- MCSites
  Bounds = {0, 3}
  EmptyAnswers = TRUE
INVARIANTS InOrder EndsTruthfully
PROPERTIES BreakIsFinal TraversalEnds
\* every traversal may have ended
CHECK_DEADLOCK FALSE
