SPECIFICATION Spec
CONSTANTS
    Inventories = {{}, {"a"}, {"a", "b", "c"}, {"b", "c"}}
    MaxAttempts = 3
    MaxFaults = 3
    Ids = {1, 2, 3, 4, 5, 6}
    Ghsa = {2, 6}
    Cves = {4, 5}
    Pages <- MCPages
    OsvHolds = {1, 2}
    GithubHolds = {2, 6}
    NvdHolds = {4, 5}
    KevHolds = {4}
    Names <- MCNames
    MaxPages = 2
    BatchSize = 1
    Searches <- MCSearches
    Services = {{"github"}, {}}
    Ecosystem <- MCEcosystem
INVARIANTS
    OsvAnswerIsWhole
    AbsenceIsReal
    FailureIsEarned
    NoMatchIsReal
