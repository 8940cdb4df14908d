SPECIFICATION Spec
CONSTANTS
    Items = {k1}
    MaxVersion = 2
    MaxGen = 2
    Ops = {auth}
    Requests = {}
    Forwarding = {FALSE}
    EventCap = 1
    PromptBehavior = "Never"
    AutoUnlock = FALSE
    Commands = {"Lock", "Unlock", "UnlockPin", "Login", "Sync", "SetPin"}
    VaultChanges = {"rotate", "delete"}
    HubEvents = {"CipherChanged", "LogOut", "FallbackSyncDue"}
    NetworkStalls = TRUE
    TransportFails = TRUE
    SaveFails = TRUE
    Restarts = FALSE
INVARIANTS
    ChangeRemembered
    CacheOpens
