SPECIFICATION FairSpec
CONSTANTS
    Items = {k1}
    MaxVersion = 2
    MaxGen = 1
    Ops = {auth}
    Requests = {r1}
    Forwarding = {FALSE}
    EventCap = 1
    PromptBehavior = "RememberUntilLock"
    AutoUnlock = TRUE
    Commands = {"Lock", "Unlock"}
    VaultChanges = {"rotate"}
    HubEvents = {"CipherChanged"}
    NetworkStalls = FALSE
    TransportFails = FALSE
    SaveFails = FALSE
    Restarts = FALSE
INVARIANTS
    ApprovalFitsMaterial
PROPERTY RequestAnswered
