SPECIFICATION Spec
CONSTANTS
  OrgSetups <- MCOrgSetups
  OrgTTL = 0
  MaxRequests = 2
  OrgMaxFaults = 1
  OrgMaxTime = 1
  LedgerSetups <- MCLedgerSetups
  LineSize <- MCLineSize
  PruneAbove = 2
  KeepLines = 1
  MaxKills = 1
  Feeds <- MCFeeds
  Malformed = {"m"}
  Unclonable = {"m"}
  StoredAtBoot = {"a"}
  ChainSetups <- MCChainSetups
  FlushRetries = 1
  GateEvery = 2
  RuleMenu <- MCRuleMenu
  MaxRules = 3
  LeftPct = {0, 1}
  Grants = {"g", "h"}
  Ends = {"x"}
  MaxExtra = 2
  ExtrasKeep = 1
  MaxAsked = 3
  ExtraMaxTime = 3
  Tools = {"a", "b", "e"}
  EditCalls = {"e"}
  LoopWindow = 5
  MaxPeriod = 3
  MinRepeats = 2
  LogCap = 6
  MaxCalls = 8
  DayMinutes = 3
  Hours <- MCHours
  MeterSetups <- MCMeterSetups
  MinGap = 1
  MaxUsed = 1
  MaxLogins = 2
  Tips = {"tip"}
  Promotes = {"pause"}
  Clients = {"c", "d"}
  GlanceFresh = 1
  DiskMaxAge = 1
  GlanceSetups <- MCGlanceSetups
  Trials <- MCTrials
  TrialSetups <- MCTrialSetups
  Requests = {"e1", "e2", "f1", "g1"}
  ExecutionOf <- MCExecutionOf
  VariantFirst <- MCVariantFirst
INVARIANTS
  OrgOneStepApart PruneKeepsTheNewest ReportedIsKept StoreKeepsOriginals RepeatsAreRetries
  ExportIsAllowed BindsTheStrictest LiftIsGranted LoopIsCounted HoursAreStretches ActedIsHidden EvidenceIsPaired
PROPERTIES
  OrgAnswerArrives LedgerIsIngested WaitersAreReleased RefreshIsPolled MeterReconnects
CHECK_DEADLOCK FALSE
