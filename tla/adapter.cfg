SPECIFICATION FairSpec
CONSTANTS
  t1 = t1
  Tasks = {c1, c2}
  Tenants = {t1, t2}
  PerTenantBudget <- MC_PerTenantBudget
  DefaultBudget = 2
  Spends = {1, 2}
  MaxSpend = 2
  Configs <- MC_Stacks
  LongestSleep = 12
  Scale <- MC_Scale
  CallCap = 4
  ConsumedCap = 2
INVARIANT TypeOK
INVARIANT OvershootBound
INVARIANT ConsumptionAccounted
INVARIANT RejectedOnlyWhenSpent
INVARIANT AttemptLedger
INVARIANT OutageRiddenOut
INVARIANT BackoffSchedule
PROPERTY DoorStaysShut
PROPERTY CallsTerminate
