CONSTANTS
    Workers = {w1, w2}
    MaxSaves = 2
    Order <- MCOrder
    Expected <- MCExpected
    Forms <- MCForms
    Indexed = {"users", "usage_logs"}
    Listed = {"usage_logs"}
    UsersTable = "users"
    MaxMishaps = 1
SPECIFICATION Spec
INVARIANTS
    TypeOK
    ServingMeansReady
    OneAdmin
    LoneStartSucceeds
    SavesLostOnlyOnUpgrade
    LogoOnDisk
    CopyWasSaved
PROPERTIES
    KeepsCurrent
    EveryWorkerServes
CHECK_DEADLOCK FALSE
