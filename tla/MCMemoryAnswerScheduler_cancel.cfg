SPECIFICATION SchedulerSpec
CONSTANTS
  p1 = p1
  p2 = p2
  t1 = t1
  t2 = t2
  team = team
  Tasks = {t1}
  Actors = {p1}
  PersonalActors = {p1}
  Teams = {}
  TeamsOf <- MCTeamsOf
  Keys = {}
  NoKey = NoKey
  Personal = Personal
  Nobody = Nobody
  NoClaim = NoClaim
  MaxAttempts = 2
  MaxQueued = 2
  ClaimBudget = 2
  MaxRenewals = 1
  MaxActive = 2
  Mortal = {p1}
  Cancelling = {p1}
CHECK_DEADLOCK FALSE
PROPERTIES
  CancelAbortsAttempt
