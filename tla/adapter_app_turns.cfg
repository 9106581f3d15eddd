SPECIFICATION Spec
CONSTANTS
  t1 = t1
  Tasks = {c1, c2, c3}
  Tenants = {t1, t2}
  PerTenantBudget <- MC_PerTenantBudget
  DefaultBudget = 2
  Spends = {1, 2}
  MaxSpend = 2
  Configs <- MC_AppTurns
  LongestSleep = 12
  Scale <- MC_Scale
  CallCap = 3
  ConsumedCap = 5
PROPERTY EveryDoorStaysShut
SYMMETRY MC_TaskSymmetry
