SPECIFICATION Spec
CONSTANTS
    Keys = {k1, k2}
    Hosts = {h1, h2}
    Placeholder = Placeholder
    Invalid = Invalid
    Procs = {p1, p2}
    NoProc = NoProc
    NoKey = NoKey
    Commands = {"bind", "unbind", "clear", "open", "list", "write", "sync"}
    Overlapping = {"clear"}
    Faults = TRUE
SYMMETRY Symmetry
INVARIANTS
    HostTypeOK
    UpdatesExclusive
    SnippetAgrees
    EditSurvives
    BindingsKept
