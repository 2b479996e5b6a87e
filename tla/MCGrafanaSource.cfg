CONSTANTS
    Apps = {a1}
    AppLevel = {a1}
    UnitLevel = {a1}
    Units = {1, 2}
    Whole = Whole
    Urls = {x, y}
    UnitUrl = UnitUrl
    NoUrl = NoUrl
    Grafanas = {g1, g2}
    Generations = 2
    Changing = {"urls", "units", "relations", "lease"}
    MaxChanges = 2
SPECIFICATION MCSpec
INVARIANTS
    TypeOK
    NothingOfferedIsDeleted
PROPERTIES
    Converges
CHECK_DEADLOCK FALSE
