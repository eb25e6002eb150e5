\* Three overlapping requests of any kind over one seeded Rep and two ids.
SPECIFICATION Spec
CONSTANTS
    r1 = r1  r2 = r2
    t1 = t1  t2 = t2
    e1 = e1  e2 = e2
    n1 = n1  n2 = n2
    b1 = b1  s1 = s1  s2 = s2  p1 = p1
    q1 = q1  q2 = q2  q3 = q3
    Null = Null
    RepIds = {r1, r2}
    Tenants = {t1, t2}
    PersonalInfos <- Infos
    BusinessInfos <- OneName
    Subs = {s1}
    Platforms = {p1}
    Requests = {q1, q2, q3}
    MaxInFlight = 3
    SeedTables <- Tables
SYMMETRY RequestSymmetry
CHECK_DEADLOCK FALSE
INVARIANTS
    TypeOK
    Hierarchy
    KeysStayUnique
    TenantIsolation
    CreatedStaysPending
    CreatedComesFirst
    OutcomeMatchesOutbox
PROPERTIES
    IdentityIsPermanent
    FreshSaveIsTold
    FreshStepsAreMoves
    SettledDeletionLasts
