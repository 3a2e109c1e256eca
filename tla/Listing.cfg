SPECIFICATION Spec
CONSTANTS
    Emails = {e1, e2, e3}
    PageSize = 1
    LastKey = 2
    MaxChanges = 2
    Unread = Unread
INVARIANTS TypeOK RowsMatchPage NothingHereYet WalkMisses
PROPERTIES LoadSettles
CHECK_DEADLOCK FALSE
