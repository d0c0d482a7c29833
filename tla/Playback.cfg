SPECIFICATION Spec
CONSTANTS
    Cells = {c1, c2}
    Messages = {m1, m2, m3}
    Unplayable = {m3}
    Nil = Nil
    MaxTicks = 2
INVARIANTS
    TypeOK
    CanBeStopped
    OwnProgress
