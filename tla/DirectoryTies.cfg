\* Nobody saves anything, and two Reps have the same name.
SPECIFICATION Spec
CONSTANTS
    r1 = r1  r2 = r2  r3 = r3  r4 = r4
    RepIds = {r1, r2, r3, r4}
    Names = {1, 2, 3, 4}
    AskedSizes = {1, 2}
    DefaultPageSize = 2
    MaxPageSize = 2
    MaxCommits = 0
    SeedTables <- Directories
    Null = Null
CHECK_DEADLOCK FALSE
INVARIANT
    QuietWalkListsAll
