SPECIFICATION Spec
CONSTANTS
    app = app
    dev = dev
    Packages = {app, dev}
    Inventories <- MCInventories
    Development = {dev}
    Ids = {1, 2, 3}
    Cves = {2}
    MaxGaps = 1
    OsvRecords <- MCOsv
    NativeRecords <- MCNative
    Secondaries = {"nvd"}
    Configs <- MCConfigs
INVARIANTS
    CleanIsEvidenced
    ExploitedBlocks
    NothingIsErased
    NeverLoosened
CHECK_DEADLOCK FALSE
