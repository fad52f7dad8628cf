CONSTANTS
    Users = {u1, u2}
    Devices = {d1, d2}
    Tokens = {s1, s2, s3, s4}
    None = None
    MaxConcurrent = 2
    MaxDevices = 1
    SessionTimeout = 1
    AbsoluteTimeout = 2
    MaxNow = 4
SYMMETRY Symmetry
SPECIFICATION Spec
INVARIANTS
    TypeOK
PROPERTIES
    TimeoutsDecide
