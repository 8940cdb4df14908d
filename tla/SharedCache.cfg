SPECIFICATION Spec
CONSTANTS
    Devices = {d1, d2}
    NoDevice = NoDevice
    Home = d1
    MaxGen = 2
INVARIANT SharedTypeOK SharedOpens ForgetSticks
