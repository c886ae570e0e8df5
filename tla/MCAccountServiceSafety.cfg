SPECIFICATION Spec
CONSTANTS
    Uid = {u1, u2}
    Device = {d1}
    Name = {n1, n2}
    Worker = {w1, w2}
    None = None
    MaxTokens = 3
SYMMETRY Interchangeable
INVARIANTS
    GuestsAreUnbound
    OneIdentity
    GuestsAreNotLost
PROPERTIES
    RevokedStaysRevoked
    DeviceOpensOnlyGuests
