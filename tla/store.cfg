SPECIFICATION DiskSpec
CONSTANTS
    Ids = {1, 2}
    NoRow = NoRow
    Forms <- MCForms
    BaseOf <- MCBase
    EntityOf <- MCEntity
    Fills <- MCFills
    Idle = Idle
    Contacts = {c1, c2}
    MaxStarts = 3
    Books = {b1, b2}
    Rigs = {r1, r2}
    Ops = {o1, o2}
    Contests = {t1}
    MaxChanges = 4
    Values = {v1, v2}
    Foreign = Foreign
    MaxSteps = 5
    Instances = {i1, i2, i3}
    MaxInodes = 3
    None = None
INVARIANTS DiskTypeOK IndexTruthful OpenIsMigrated ConfigDurable OneOwner
PROPERTIES PanelIsHonest
CHECK_DEADLOCK FALSE
