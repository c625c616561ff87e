SPECIFICATION Spec
CONSTANTS
    File = {f1, f2}
    Deletion = {d1}
    Job = {cron, cleanup}
    MaxFault = 2
CHECK_DEADLOCK FALSE
INVARIANTS
    TypeOK
    ListedOpens
    NoFileLeftBehind
PROPERTIES
    ExpiredPurged
