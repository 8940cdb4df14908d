SPECIFICATION Spec
CONSTANTS
    Guessers = {ctl, d1, d2}
    Control = ctl
    MaxAttempts = 3
    Lockout = 3
    BaseDelay = 1
    MaxDelay = 2
    Saturation = 7
    MaxTime = 8
SYMMETRY Symmetry
INVARIANT PinTypeOK RateLimited
