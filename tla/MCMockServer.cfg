SPECIFICATION Spec
CONSTANTS
  Calls = {c1, c2}
  Scenarios <- MCScenarios
  Handled <- AllRoutes
  NoRequest = NoRequest
  NoResponse = NoResponse
  TeamsExpandedMemberCap = 1
  TeamsExpandedReplyCap = 1
INVARIANTS RecordsAreExact   NothingIsOutOfReach
SYMMETRY Symmetry
