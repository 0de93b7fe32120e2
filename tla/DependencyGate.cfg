SPECIFICATION Spec
CONSTANTS
    Dirs <- MCDirs
    Families <- MCFamilies
    Registry <- MCRegistry
    Projects <- MCProjects
    Worked <- MCWorked
    Locks = {l1, l2}
    Kinds = {"change", "main"}
    Results = {"warnings", "blocked"}
    Kept <- MCKept
    Fresh = 1
    Span = 1
    MaxTime = 2
    MaxAudits = 2
    MaxEdits = 1
    MaxCommits = 1
SYMMETRY Symmetry
INVARIANTS
    OwnershipIsClosed
    ChangeIsBracketed
    DeliveryIsAudited
    RecordIsNeverCommitted
CHECK_DEADLOCK FALSE
