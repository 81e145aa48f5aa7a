SPECIFICATION Spec
CONSTANTS
  t1 = t1
  t2 = t2
  worker = worker
  desktop = desktop
  team = team
  key = key
  Tasks = {t1, t2}
  Actors = {worker, desktop}
  PersonalActors = {worker, desktop}
  Teams = {team}
  TeamsOf <- MCTeamsOf
  Keys = {key}
  NoKey = NoKey
  Personal = Personal
  Nobody = Nobody
  MaxAttempts = 2
  MaxQueued = 1
  ClaimBudget = 2
  MaxRenewals = 1
SYMMETRY Symmetry
CHECK_DEADLOCK FALSE
INVARIANTS
  TypeOK
  AnsweredByNewestClaim
  AttemptsAreClaims
PROPERTIES
  NoAnswerAfterRevocation
  KeepsPromise
