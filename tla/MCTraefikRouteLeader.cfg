CONSTANTS
    Traefiks = {t1, t2}
    Relations = {r1}
    Hosts = {h1, h2}
    Schemes = {"http", "https"}
    Empty = Empty
    Unset = Unset
    Gateways <- MCWithHost
    Changing = {"gateway", "leader"}
    MaxChanges = 4
SPECIFICATION Spec
INVARIANTS
    NothingToUpdate
CHECK_DEADLOCK FALSE
