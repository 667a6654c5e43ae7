\* A page that follows a run over an unreliable connection and a restart, and
\* two administrators at the settings.  The bounds end every behaviour, hence
\* no deadlock check.
SPECIFICATION ServicesSpec
CONSTANTS
    Segments = {s1}
    HistorySize = 2
    QueueSize = 2
    MaxEvents = 6
    MaxCuts = 1
    MaxRestarts = 1
    Profiles = {p1, p2}
    Templates = {t1, t2}
    Builtins = {t1}
    FirstBuiltin = t1
    Keys = {k1}
    Admins = {a1, a2}
    Nothing = Nothing
    MaxSecrets = 2
    MaxRequests = 4
    MaxBoots = 2
SYMMETRY AnyAdmin
INVARIANTS
    ServicesInductive
    PageIsCurrent
    ResultIsShown
    VerdictIsAboutStoredKey
    ChosenPromptIsUsed
PROPERTIES
    NoEventTwice
    DefaultIsKept
CHECK_DEADLOCK FALSE
