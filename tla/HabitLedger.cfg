SPECIFICATION Spec
CONSTANTS
    Clients = {c1, c2}
    Days = {1}
    Cards = {k1}
    Statuses = {full}
    Notes = {n1}
    None = None
    MaxItems = 1
    MaxRows = 2
INVARIANTS RestoreAccepts
CHECK_DEADLOCK FALSE
