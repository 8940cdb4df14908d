SPECIFICATION Spec
CONSTANTS
    Keys = {k1}
    Hosts = {h1, h2}
    Placeholder = Placeholder
    Invalid = Invalid
    Procs = {p1}
    NoProc = NoProc
    NoKey = NoKey
    Commands = {"bind", "sync"}
    Overlapping = {}
    Faults = FALSE
INVARIANT BindTakesEffect
