\* Four migrations and two who run them; three targets, two builds, one of them broken; three
\* saves, the second of which does not compile; two commands of karbon generate; two edits of an
\* entity and two diffs; statements of three calls, pages of three rows, three rows of two owners,
\* structs of two fields.
SPECIFICATION MCSpec
CONSTANTS
    m1 = m1
    m2 = m2
    f1 = f1
    f2 = f2
    NoSection = NoSection
    Targets = 3
    Builds = {b1, b2}
    Broken = {b2}
    HealthUrl = TRUE
    Ids = {1, 2, 3}
    Owners = {o1, o2}
    Entities = {"post"}
    MaxCommands = 2
    Sessions <- MCSessions
    Up <- MCUp
    Down <- MCDown
    Strict = {1}
    Unsafe = {3}
    Late = {3}
\* What the commands do is bounded; a statement is executed once.
CHECK_DEADLOCK FALSE
INVARIANTS
    MigrationsAreExact
    PublishRolls
    
    SchemaFollowsEntities
    AnswersAreWhole
    BuildersAreSound
    ListsAreSound
    DeletedIsUnseen
    ColumnsGetTheirFields
PROPERTIES
    SavesAreBuilt
