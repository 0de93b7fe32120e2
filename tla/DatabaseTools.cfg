CONSTANTS
    h1 = h1
    h2 = h2
    a1 = a1
    a2 = a2
    Calls = {c1, c2}
    OldDbs = {d1, d2}
    Handles = {h1, h2}
    Accounts = {a1, a2}
    NoAccount = NoAccount
    NoDb = NoDb
    Backed = d1
    Requests <- AllRequests
    Attempts = 2
SPECIFICATION Spec
INVARIANTS
    ReturnsOwnDatabase
    RemovesOnlyInScope
    ReturnedIsDone
CHECK_DEADLOCK FALSE
