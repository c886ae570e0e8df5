CONSTANTS
    Uid = {u1, u2, u3}
    Guild = {g1}
    Worker = {w1, w2}
    None = None
    World = World
    PageSize = 1
    MaxRows = 3
SPECIFICATION Spec
SYMMETRY Symmetry
INVARIANTS FriendsAgreed PagesTellAllOnce
PROPERTY DissolvedGuildsFallSilent
CHECK_DEADLOCK FALSE
