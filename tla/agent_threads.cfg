SPECIFICATION AgentSpec
CONSTANTS
  PIPELINE_STEPS <- MCSteps
  PromptInputs <- MCPromptInputs
  t1 = t1
  good = good
  m1 = m1
  m2 = m2
  Topics = {t1}
  Payloads = {good}
  Poisoned = {}
  Unstorable = {}
  Errors <- MCErrors
  Injected = {}
  MaxRetries = 1
  MaxRuns = 2
  MaxFaults = 2
  Absent = Absent
  NoCheckpoint = NoCheckpoint
  ModelChain <- MCChain
  ModelErrors = {"RateLimitError", "NotFoundError", "APITimeoutError"}
  Triggers <- MCTriggers
  CheckErrors = {"SelfTestFailed"}
  WatchdogTimeout = 30
  ClientTimeout = 60
INVARIANTS
  AgentTypeOK
  FallbackExplained
  ChainInOrder
  LeaksAreLogged
PROPERTIES
  AnswerOfThisAttempt
  ImplementsPipeline
CHECK_DEADLOCK FALSE
