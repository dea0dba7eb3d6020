CONSTANTS
    None = None
    Admin = admin
    Threads = {t1, t2}
    Migrations = 2
    Retries = 2
    MaxFaults = 2
    Keep = 2
    MaxWrites = 1
    MaxBackups = 3
    MaxRestores = 2
SPECIFICATION MCSpec
INVARIANT SchemaSeen
PROPERTIES
    OpenEnds
    BackupsKept
\* The copies stop where a crash left half a live file and no restore is left.
CHECK_DEADLOCK FALSE
