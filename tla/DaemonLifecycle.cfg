SPECIFICATION Spec
CONSTANTS
    Pids = {p1, p2, p3}
    NoPid = NoPid
    Requested = {"stop", "restart"}
    Legacy = TRUE
    Crashes = TRUE
    Interrupts = TRUE
    Faults = TRUE
    Timeouts = TRUE
    PidReuse = TRUE
SYMMETRY Symmetry
INVARIANTS
    OneDaemon
    EndpointHeld
    StopTruthful
