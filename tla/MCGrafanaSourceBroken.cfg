CONSTANTS
    Apps = {a1}
    AppLevel = {a1}
    UnitLevel = {}
    Units = {1}
    Whole = Whole
    Urls = {x}
    UnitUrl = UnitUrl
    NoUrl = NoUrl
    Grafanas = {g1, g2}
    Generations = 2
    Changing = {"relations"}
    MaxChanges = 2
SPECIFICATION Spec
INVARIANTS
    BrokenRelationForgotten
CHECK_DEADLOCK FALSE
