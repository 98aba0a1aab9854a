SPECIFICATION Spec
CONSTANTS
    e1 = e1
    e2 = e2
    e3 = e3
    u1 = u1
    u2 = u2
    u3 = u3
    none = none
    Ep = {e1, e2, e3}
    Urb = {u1, u2, u3}
    None = none
    PeriodicSize = 4
    MaxPeriodicLoad = 5
    MaxPacket = 2
    Devices <- OneRaced
INVARIANT
    NoStall
CHECK_DEADLOCK FALSE
