CONSTANTS
    Traefiks = {t1, t2}
    Relations = {r1}
    Hosts = {h1, h2}
    Schemes = {"http", "https"}
    Empty = Empty
    Unset = Unset
    Gateways <- MCGateways
    Changing = {"gateway", "leader", "state", "relations", "config"}
    MaxChanges = 4
SPECIFICATION FairSpec
INVARIANTS
    WholeAddresses
PROPERTIES
    Converges
CHECK_DEADLOCK FALSE
