SPECIFICATION FairSpec
CONSTANTS
    Runs = {r1, r2}
    Targets <- MCTargets
INVARIANTS
    MigrationsInv
    SchemaMatchesVersion
    FailsOnlyWhenOvertaken
PROPERTIES
    EveryRunEnds
