\* Concurrent UpsertPtpCondition callers with conflicts, failed and lost
\* UpdateStatus replies, Get errors and eviction by the history bound.
CONSTANTS
  w1 = w1  w2 = w2  w3 = w3
  k1 = k1  k2 = k2  k3 = k3
  v1 = v1  v2 = v2
  Writers = {w1, w2, w3}
  Keys = {k1, k2, k3}
  Values = {v1, v2}
  Cond <- MCCond
  InitConditions <- MCInitConditions
  MaxConditions = 2
  BackoffSteps = 2
  GetErrors = TRUE
  UpdateErrors = TRUE

SPECIFICATION Spec
INVARIANT TypeOK UniqueConditionKeys NoLostUpdate
PROPERTY EveryUpsertReturns AtomicUpsert
\* Every caller ends in ok, err or timeout: the final states have no step.
CHECK_DEADLOCK FALSE
