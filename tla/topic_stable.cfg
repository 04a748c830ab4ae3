SPECIFICATION Spec
CONSTANTS
  PIPELINE_STEPS <- SeoPipelineSteps
  PromptInputs <- SeoPromptInputs
  t1 = t1
  t2 = t2
  t3 = t3
  good = good
  evil = evil
  broken = broken
  Topics = {t1, t2}
  Payloads = {good}
  Poisoned = {}
  Unstorable = {}
  Errors <- MCErrors
  Injected <- MCInjected
  MaxRetries = 1
  MaxRuns = 3
  MaxFaults = 2
  Absent = Absent
  NoCheckpoint = NoCheckpoint
INVARIANTS
  TopicStable
CHECK_DEADLOCK FALSE
