SPECIFICATION Spec
CONSTANTS
    Books = {b1, b2}
    Contacts = {c1, c2}
    Handles = {h1, h2, h3}
    Jobs = {j1, j2}
    MaxActs = 3
SYMMETRY Symmetry
INVARIANT TypeOK
INVARIANT RefsAreLeases
INVARIANT OpenIsHeld
INVARIANT UsersHaveOpenDB
CHECK_DEADLOCK FALSE
