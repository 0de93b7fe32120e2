CONSTANTS
    Calls = {c1, c2}
    OldResources = {r1}
    NoResource = NoResource
    CallTools = {"createApp", "createAppFromImage", "createVhost", "createEndpoint", "delete", "deprovision", "configure", "operate", "run"}
    MaxCrashes = 1
SPECIFICATION ProvisioningSpec
INVARIANTS
    ReturnedIsDone
    OneOperationAtATime
CHECK_DEADLOCK FALSE
