SPECIFICATION MigrationSpec
CONSTANTS
    MaxMigrations = 2
    MaxMigrationKills = 0
PROPERTIES UpgradeKeepsRows
CHECK_DEADLOCK FALSE
