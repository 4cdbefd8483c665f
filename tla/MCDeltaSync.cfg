SPECIFICATION FairSpec
CONSTANTS
  Keys = {k1, k2}
  PageSize = 2
  MaxPages = 2
  MaxChanges = 5
  MaxFailures = 2
INVARIANTS NoChangeLost
 
