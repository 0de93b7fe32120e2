SPECIFICATION Spec
CONSTANTS
    main1 = main1
    main2 = main2
    change = change
    t1 = t1
    t2 = t2
    Absent = Absent
    Writers = {w1, w2}
    Docs = {main1, main2, change}
    Retained = {main1, main2}
    Slugs = {t1, t2}
    Slug <- MCSlug
    Fallible = {"write", "link", "compare", "stage", "backup", "replace", "rollback", "cleanup", "withdraw"}
    MaxCalls = 3
    MaxFaults = 2
    MaxCrashes = 1
SYMMETRY Symmetry
INVARIANTS
    PublishedIsRetained
    CallIsAtomic
PROPERTIES
    EvidenceIsImmutable
CHECK_DEADLOCK FALSE
