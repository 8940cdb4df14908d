SPECIFICATION Spec
CONSTANTS
    Items = {k1}
    MaxVersion = 1
    MaxGen = 1
    Ops = {auth}
    Requests = {r1}
    Forwarding = {FALSE}
    EventCap = 1
    PromptBehavior = "RememberUntilLock"
    AutoUnlock = TRUE
    Commands = {"Lock", "Unlock", "Login", "Sync", "SetPin", "Forget"}
    VaultChanges = {}
    HubEvents = {"LogOut"}
    NetworkStalls = TRUE
    TransportFails = FALSE
    SaveFails = TRUE
    Restarts = TRUE
VIEW ForgetView
INVARIANTS
    ForgetHolds
