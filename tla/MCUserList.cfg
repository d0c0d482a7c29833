SPECIFICATION Spec
SYMMETRY Symmetry
CHECK_DEADLOCK FALSE
CONSTANTS
    Users = {u1, u2, u3}
    NoImage = {u3}
    Cells = {c1, c2}
    Nil = Nil
    MaxArrays = 2
    MaxLoads = 2
INVARIANTS
    TypeOK
    OpensShownUser
    RightImage
