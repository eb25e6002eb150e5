\* One pass at a time over three events of two tenants, batches of one.
SPECIFICATION FairSpec
CONSTANTS
    ev1 = ev1  ev2 = ev2  ev3 = ev3  link1 = link1
    t1 = t1  t2 = t2  r1 = r1  r2 = r2
    pass1 = pass1  pass2 = pass2
    Events = {ev1, link1, ev3}
    Tenants = {t1, t2}
    Reps = {r1, r2}
    TenantOf <- MCTenantOf
    RepOf <- MCRepOf
    Unlocked = {link1}
    Moments = 1
    KnownTenants <- BothTenants
    Passes = {pass1}
    MaxRetries = 2
    BatchSize = 1
    MaxDbFaults = 1
    MaxCrashes = 1
PROPERTY
    EverythingSettles
