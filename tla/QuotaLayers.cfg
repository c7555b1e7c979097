SPECIFICATION Spec
CONSTANTS
  u1 = u1
  u2 = u2
  r1 = r1
  r2 = r2
  h1 = h1
  h2 = h2
  None = None
  Users = {u1, u2}
  Members = {u1, u2}
  Rules = {r1, r2}
  OwnerOf <- OneRuleEach
  UserLimits = {1}
  TenantLimits = {0, 1}
  MaxBytes <- OneByteEach
  Handlers = {h1, h2}
SYMMETRY Interchangeable
CONSTRAINT SomeUncrossed
INVARIANTS
  TypeOK
  QuotasAgree
PROPERTIES
  PauseHolds
