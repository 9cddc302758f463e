SPECIFICATION Spec
CONSTANTS
  r1 = r1
  r2 = r2
  r3 = r3
  Requests <- MCRequests
  Nobody = Nobody
  Bridges = {"bridge"}
  MayShare = FALSE
  Forms = {"text"}
  Answers = {"rows"}
  MayDamage = TRUE
INVARIANTS
  TypeOK
  SentWasRecorded
  UndamagedIsIntact
  DamageIsNamed
  NotedHashVouches
PROPERTY
  EveryRequestEnds
