SPECIFICATION Spec
CONSTANTS
  a1 = a1
  a2 = a2
  t1 = t1
  t2 = t2
  alice = alice
  ApiKeys = {a1, a2}
  TenantOf <- MC_TwoTenants
  SubjectOf <- MC_OneSubject
  RequestsPerMinute = 2
  Minute = 4
  MaxTime = 5
INVARIANT TypeOK
INVARIANT WindowBound
