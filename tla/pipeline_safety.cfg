SPECIFICATION Spec
CONSTANTS
  PIPELINE_STEPS <- SeoPipelineSteps
  PromptInputs <- SeoPromptInputs
  t1 = t1
  t2 = t2
  t3 = t3
  good = good
  evil = evil
  broken = broken
  Topics = {t1, t2, t3}
  Payloads = {good, evil}
  Poisoned = {t2, evil}
  Unstorable = {t3}
  Errors <- MCErrors
  Injected <- MCInjected
  MaxRetries = 1
  MaxRuns = 3
  MaxFaults = 3
  Absent = Absent
  NoCheckpoint = NoCheckpoint
INVARIANTS
  TypeOK
  CheckpointConsistent
  PromptAlwaysBuilds
  NoReplay
  LogExplainsCheckpoint
  CompletedFromClean
  BlockIsTerminal
  RetryBudget
  CompletedIsFinal
  LostWork
PROPERTIES
  BlockIsPermanent
  EffectsRunOut
  ImplementsDurableProgress
CHECK_DEADLOCK FALSE
