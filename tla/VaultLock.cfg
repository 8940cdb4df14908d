SPECIFICATION Spec
CONSTANTS
    Items = {k1}
    MaxVersion = 1
    MaxGen = 1
    Ops = {auth}
    Requests = {r1, r2}
    Forwarding = {TRUE, FALSE}
    EventCap = 1
    PromptBehavior = "RememberUntilLock"
    AutoUnlock = TRUE
    Commands = {}
    VaultChanges = {}
    HubEvents = {"LogOut"}
    NetworkStalls = FALSE
    TransportFails = FALSE
    SaveFails = FALSE
    Restarts = FALSE
SYMMETRY Symmetry
VIEW LockView
INVARIANTS
    TypeOK
    ApprovalJustified
    LockForgetsApprovals
    LockErasesSecrets
