SPECIFICATION SettingsSpec
CONSTANTS
    Profiles = {p1, p2}
    Templates = {t1, t2}
    Builtins = {t1}
    FirstBuiltin = t1
    Keys = {k1}
    Admins = {a1, a2}
    Nothing = Nothing
    MaxSecrets = 2
    MaxRequests = 4
    MaxBoots = 1
INVARIANTS DeletedProfilePropagates
CHECK_DEADLOCK FALSE
