CONSTANTS
    w1 = w1
    w2 = w2
    w3 = w3
    w4 = w4
    monolith = monolith
    spread = spread
    ingester = ingester
    storeGateway = storeGateway
    all = all
    day = day
    week = week
    quarter = quarter
    Units = {u1}
    Workers = {w1, w4}
    Apps = {monolith, spread}
    AppOf <- MCAppOf
    RoleOrder <- MCRoleOrder
    All = all
    Ingester = ingester
    StoreGateway = storeGateway
    Timespecs = {day, week, quarter}
    Zero = Zero
    Malformed = Malformed
    DefaultInterval = quarter
    Tracers = {jaeger}
    NoTracer = NoTracer
    NoConfig = NoConfig
    Settings <- MCPositiveSettings
    RoleChoices <- MCRoleChoices
    Changing = {"options"}
    MaxChanges = 1
SPECIFICATION Spec

PROPERTIES
    NoHastyDeletion
CHECK_DEADLOCK FALSE
