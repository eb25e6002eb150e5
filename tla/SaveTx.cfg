\* Two overlapping requests, statement by statement, over two connections.
SPECIFICATION FairTxSpec
CONSTANTS
    r1 = r1  r2 = r2  r3 = r3
    t1 = t1
    e1 = e1  e2 = e2  n1 = n1
    s1 = s1  s2 = s2
    q1 = q1  q2 = q2
    Null = Null
    RepIds = {r1, r2, r3}
    Tenants = {t1}
    PersonalInfos <- Infos
    BusinessInfos = {}
    Subs = {s1, s2}
    Platforms = {}
    Requests = {q1, q2}
    MaxInFlight = 2
    PoolSize = 2
    SeedTables <- OneOrTwoReps
CHECK_DEADLOCK FALSE
INVARIANTS
    LocksHold
    QuietSavesNeverDeadlock
PROPERTIES
    ImplementsDirectory
    RequestsAreAnswered
