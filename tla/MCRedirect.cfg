SPECIFICATION Spec
CONSTANTS
  Fold <- MCFold
  Spellings <- MCSpellings
  Ports <- MCPorts
  NoPort = NoPort
  EmptyPort = EmptyPort
  BaseURL <- MCBaseURL
  AllowedHosts <- MCAllowedHosts
  Methods <- MCMethods
  References <- MCReferences
  Locations <- MCLocations
  CallbackURLs <- MCCallbackURLs
  CallbackHosts <- MCCallbackHosts
  OtherBinding <- MCOtherBinding
  RedirectLimit = 2
  HopBound = 3
INVARIANTS BearerOnlyToTrusted RedirectsStayHome MutationsAreNotRedirected RedirectBudget
\* an exchange ends
CHECK_DEADLOCK FALSE
