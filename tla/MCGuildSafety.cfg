SPECIFICATION Spec
CONSTANTS
    Uid <- Players
    Guild = {g1, g2}
    Worker = {w1, w2}
    None = None
SYMMETRY Interchangeable
INVARIANTS
    ApplicationsArePending
    LeaderIsOwner
    NoCircularWait
PROPERTY
    MembershipIsAtomic
