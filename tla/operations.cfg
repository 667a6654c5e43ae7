\* Releases, migrations and the files of books, each with failing steps and
\* kills, and the texts of segments.  All of them come to rest, hence no
\* deadlock check.
SPECIFICATION OperationsSpec
CONSTANTS
    Versions = {1, 2, 3}
    Rev <- MCRev
    NoVersion = 0
    MaxCommands = 3
    MaxFailures = 2
    MaxKills = 1
    MaxMigrations = 4
    MaxMigrationKills = 1
    Projects = {b1, b2}
    Files = {f1, f2, f3}
    NoProject = NoProject
    MaxDeletions = 2
    MaxFaults = 1
    MaxCrashes = 1
    MaxLength = 7
    MaxSpans = 3
    MaxChars = 3
    MaxTokens = 6
    MarkerTokens = 1
    HeaderTokens = 1
    PreviousCount = 3
    MaxFixed = 9
    MaxPart = 4
    MaxPrevious = 4
    Markdown <- MCMarkdown
    Plain <- MCPlain
    MaxSpoiled = 1
SYMMETRY AnyFile
INVARIANTS
    OperationsInductive
    SchemaFitsServing
    SchemaChangesAreSafe
    FailureIsRepaired
    RevisionIsTrue
    FilesMatchRows
    FilesAreReachable
    PartsAreWhole
    ContextIsBest
    ConstructsSurvive
CHECK_DEADLOCK FALSE
