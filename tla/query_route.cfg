SPECIFICATION RouteSpec
CONSTANTS
  c1 = c1
  c2 = c2
  Tasks = {c1, c2}
  Environments <- MC_Environments
  Tenants = {"t1", "t2"}
  DevKey = "dev-key"
  DevTenant = "dev-tenant"
  Headers = {"none", "", "k1", "k2", "dev-key"}
  ApiKeys <- MC_Identities
  TenantOf <- MC_Tenants
  SubjectOf <- MC_Subjects
  RequestsPerMinute = 2
  Minute = 2
  MaxTime = 2
  Bodies <- MC_Bodies
  TurnErrors = {"Unauthorized", "InvalidInput", "NotFound", "Other"}
SYMMETRY Symmetric
INVARIANT RouteTypeOK
INVARIANT EachTurnPaidOnce
PROPERTY ThrottledOnlyWhenSpent
