SPECIFICATION Spec
CONSTANTS
  PIPELINE_STEPS <- SeoPipelineSteps
  PromptInputs <- SeoPromptInputs
  t1 = t1
  t2 = t2
  t3 = t3
  good = good
  evil = evil
  broken = broken
  Topics = {t1, t2}
  Payloads = {good, broken}
  Poisoned = {}
  Unstorable = {broken}
  Errors <- MCErrors
  Injected <- MCInjected
  MaxRetries = 1
  MaxRuns = 3
  MaxFaults = 2
  Absent = Absent
  NoCheckpoint = NoCheckpoint
INVARIANTS
  OnlyPipelineErrors
CHECK_DEADLOCK FALSE
