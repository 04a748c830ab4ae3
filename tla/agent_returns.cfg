SPECIFICATION AgentFairSpec
CONSTANTS
  PIPELINE_STEPS <- MCSteps
  PromptInputs <- MCPromptInputs
  t1 = t1
  good = good
  m1 = m1
  m2 = m2
  Topics = {t1}
  Payloads = {good}
  Poisoned = {}
  Unstorable = {}
  Errors <- MCErrors
  Injected = {}
  MaxRetries = 1
  MaxRuns = 1
  MaxFaults = 4
  Absent = Absent
  NoCheckpoint = NoCheckpoint
  ModelChain <- MCChain
  ModelErrors = {"APITimeoutError"}
  Triggers <- MCTriggers
  CheckErrors = {"SelfTestFailed"}
  WatchdogTimeout = 30
  ClientTimeout = 60
PROPERTIES
  RunReturns
  ProcessExits
CHECK_DEADLOCK FALSE
