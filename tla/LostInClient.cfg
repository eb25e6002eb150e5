\* A NATS server that is away for a while.
SPECIFICATION Spec
CONSTANTS
    ev1 = ev1  ev2 = ev2  ev3 = ev3  link1 = link1
    t1 = t1  t2 = t2  r1 = r1  r2 = r2
    pass1 = pass1  pass2 = pass2
    Events = {ev1, ev2}
    Tenants = {t1, t2}
    Reps = {r1, r2}
    TenantOf <- MCTenantOf
    RepOf <- MCRepOf
    Unlocked = {}
    Moments = 1
    KnownTenants <- OneTenant
    Passes = {pass1, pass2}
    MaxRetries = 2
    BatchSize = 2
    MaxDbFaults = 0
    MaxCrashes = 0
SYMMETRY PassSymmetry
INVARIANT
    PublishedIsNotLost
