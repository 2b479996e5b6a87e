CONSTANTS
    Units = {u1, u2}
    Hosts = {h1}
    Profilers = {prof}
    Grafanas = {}
    Catalogues = {}
    Peers = Peers
    Ingress = Ingress
    NoUnit = NoUnit
    NoHost = NoHost
    AppHost = AppHost
    Changing = {"units", "lease", "traefik", "certificates", "containers", "relations"}
    MaxChanges = 2
SPECIFICATION FairSpec
INVARIANTS
    RoutesAnnounced
PROPERTIES
    Converges
    FailedHookRecovers
CHECK_DEADLOCK FALSE
