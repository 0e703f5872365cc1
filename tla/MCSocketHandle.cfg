CONSTANTS
    Objects = {o1, o2, o3}
    Natives = {n1, n2, n3, n4}
    Threads = {t1, t2}
    InvalidHandle = InvalidHandle
    NoObject = NoObject
SPECIFICATION Spec
SYMMETRY Symmetry
INVARIANTS TypeOK HeldIsOpen SingleOwner NoLeak
PROPERTY ClosesOnlyItsOwn
