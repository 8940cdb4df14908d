SPECIFICATION Spec
CONSTANTS
    Items = {k1}
    MaxVersion = 2
    MaxGen = 1
    Ops = {auth}
    Requests = {}
    Forwarding = {FALSE}
    EventCap = 1
    PromptBehavior = "Never"
    AutoUnlock = FALSE
    Commands = {"Lock", "Unlock"}
    VaultChanges = {"rotate"}
    HubEvents = {"CipherChanged"}
    NetworkStalls = FALSE
    TransportFails = FALSE
    SaveFails = FALSE
    Restarts = FALSE
INVARIANT PendingSyncRemembered
