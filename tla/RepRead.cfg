\* A walk with pages of one or two Reps, and up to three saves anywhere.
SPECIFICATION Spec
CONSTANTS
    r1 = r1  r2 = r2  r3 = r3  r4 = r4
    RepIds = {r1, r2, r3, r4}
    Names = {1, 2, 3, 4}
    AskedSizes = {1, 2}
    DefaultPageSize = 2
    MaxPageSize = 2
    MaxCommits = 3
    SeedTables <- Directories
    Null = Null
CHECK_DEADLOCK FALSE
INVARIANTS
    TypeOK
    AnswerFitsTotal
    WalkGoesWrongBySaves
