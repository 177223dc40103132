SPECIFICATION FairSpec
CONSTANTS
  Scripts = {"Invoke-PCDoctor.ps1"}
  Others = {"nas.json"}
  Tasks = {"daily-quick-report", "workbench-autostart"}
  TaskScript <- MCTaskScript
  MaxVersion = 2
  Faults = {"script", "timeout", "settings", "acl", "task"}
  MaxFaults = 1
  Services = {"a", "b"}
  LoadBearing = {"a"}
  MaxCalls = 2
  Pids = {1}
  Critical <- MCCritical
  Requests = {1, 2}
  MaxStarts = 2
  MaxActions = 1
  MaxErrors = 1
  Fixes = {"a", "b"}
  Informational = {"a"}
  OpenSecurity = "o"
  Cards = {1}
  MaxFlows = 2
  MaxChanges = 1
  MaxReads = 2
  MaxTerminals = 3
  Tools = {"a", "d"}
  Required = {"a"}
  Winget = {"a"}
  MaxJobs = 2
  Launches = {1, 2}
  Keys = {"nas_enabled", "nas", "rules"}
  MaxEdits = 1
  MaxWrites = 1
  MaxRuns = 2
  RuleIds = {"d", "x"}
  Defaults = {"d"}
  Obsolete = {"x"}
  MaxOrders = 2
  MaxOutside = 1
  MaxChecks = 2
  MaxDownloads = 1
  MaxPresses = 2
  MaxSaveFaults = 1
  MaxPolls = 1
  Drives = {"M", "N"}
  MaxRows = 2
  MaxNasClicks = 4
  MaxNasFaults = 1
  Items = {"p", "o"}
  Protected = {"p"}
  MaxTouches = 4
  MaxScans = 1
  MaxLoads = 3
  MaxInstalls = 1
  MaxNvidia = 1
  MaxVisits = 2
  MaxReviews = 2
  MaxReviewClicks = 2
INVARIANTS
  MarkerIsHonest
  ProgramsAreInHand
  ChoicesAreKept
PROPERTIES
  NothingWithoutConsent
  PagesTellTheTruth
  PagesComeBack
  EventuallyDeployed
CHECK_DEADLOCK FALSE
