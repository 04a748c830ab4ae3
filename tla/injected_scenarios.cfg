SPECIFICATION InjectedFairSpec
CONSTANTS
  PIPELINE_STEPS <- SeoPipelineSteps
  PromptInputs <- SeoPromptInputs
  t1 = t1
  evil = evil
  mock = mock
  Topics = {t1, evil}
  Payloads <- MCPayloads
  Poisoned = {evil}
  Unstorable = {}
  Errors <- MCErrors
  Injected <- MCInjectedFailures
  MaxRetries = 2
  MaxRuns = 1
  MaxFaults = 4
  MaxSleeps = 2
  Profiles <- MCProfiles
  Absent = Absent
  NoCheckpoint = NoCheckpoint
  ModelChain <- MCChain
  ModelErrors <- MCInjectedFailures
  Triggers = {}
  CheckErrors = {"ValueError", "SelfTestFailed"}
  WatchdogTimeout = 30
  ClientTimeout = 60
INVARIANTS
  InjectedTypeOK
  PlanDecides
  OutputsAreProper
  PoisonedAborts
  ReportsAddUp
PROPERTIES
  ScenarioRecovers
CHECK_DEADLOCK FALSE
