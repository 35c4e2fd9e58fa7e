SPECIFICATION Spec
CONSTANTS
  Tenant = {t1, t2}
  Nobody = nobody
  Mine = mine
  Other = {old}
  Absent = absent
  Anonymous = anonymous
  Grace = 3
  Poll = 1
  Base = 1
  Ceiling = 3
  HealthyAfter = 1
PROPERTY GraceIsTheTenants
