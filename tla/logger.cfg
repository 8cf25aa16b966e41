\* Device d2 may call back; then everybody may wait for ever.
CONSTANTS
    t1 = t1
    t2 = t2
    t3 = t3
    d1 = d1
    d2 = d2
    Threads <- ThreeThreads
    Devices <- TwoDevices
    Reentrant <- OneDevice
    NoDevice = NoDevice
    Free = Free
SPECIFICATION Spec
INVARIANT RetiredDeviceUnused
PROPERTY LineWrittenOnce
PROPERTY CallsReturn
CHECK_DEADLOCK FALSE
