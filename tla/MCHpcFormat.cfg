SPECIFICATION Spec
CONSTANTS
  Writers <- MCWriters
  Progress <- MCProgress
  Mode <- MCMode
  Ips = {1, 2, 3, 4}
  BaseOf <- MCBaseOf
  Selections <- MCSelections
  Contexts <- MCContexts
  App = app
  AppBase = 1
  Libs = {lib}
  Home = home
  Hosts = {home, random}
  MaxGen = 2
  RandomGen = 2
  MaxBuilds <- MCMaxBuilds
  Others <- MCOthers
  MaxForeign = 2
  None = None
INVARIANTS ProfileWellFormed MetricsAttributed LoadmapCovers OwnFile
PROPERTY WritesEnd
CHECK_DEADLOCK FALSE
