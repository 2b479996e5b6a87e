CONSTANTS
    Units = {u1}
    Hosts = {h1, h2}
    Profilers = {prof}
    Grafanas = {graf}
    Catalogues = {cat}
    Peers = Peers
    Ingress = Ingress
    NoUnit = NoUnit
    NoHost = NoHost
    AppHost = AppHost
    Changing = {"relations", "traefik", "certificates", "containers", "lease"}
    MaxChanges = 4
SPECIFICATION Spec
INVARIANTS
    TypeOK
    NoHostFromOldIngress
SYMMETRY MCSymmetry
PROPERTIES
    AdvertsAgree
    CatalogueAgrees
CHECK_DEADLOCK FALSE
