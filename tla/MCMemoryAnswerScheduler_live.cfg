SPECIFICATION FairSchedulerSpec
CONSTANTS
  p1 = p1
  p2 = p2
  t1 = t1
  t2 = t2
  team = team
  Tasks = {t1}
  Actors = {p1, p2}
  PersonalActors = {p1, p2}
  Teams = {}
  TeamsOf <- MCTeamsOf
  Keys = {}
  NoKey = NoKey
  Personal = Personal
  Nobody = Nobody
  NoClaim = NoClaim
  MaxAttempts = 2
  MaxQueued = 2
  ClaimBudget = 2
  MaxRenewals = 0
  MaxActive = 1
  Mortal = {p1}
  Cancelling = {p2}
CHECK_DEADLOCK FALSE
PROPERTIES
  EveryTaskSettlesHere
