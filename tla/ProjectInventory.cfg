SPECIFICATION InventorySpec
CONSTANTS
    OutputLimit = 1
    PipeSize = 1
    MaxOutput = 2
    Projects <- MCProjects
    Volumes <- MCVolumes
    NpmDocs <- MCNpmDocs
    PipDocs <- MCPipDocs
    CargoDocs <- MCCargoDocs
    GoDocs <- MCGoDocs
    SbomDocs <- MCSbomDocs
INVARIANTS
    CapturedIsWhole
    InventoryIsWhole
PROPERTY
    InventoryEnds
