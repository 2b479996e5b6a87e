CONSTANTS
    u1 = u1  t1 = t1  g = g
    a1 = a1  a2 = a2  a3 = a3  f1 = f1  f2 = f2  f3 = f3  f4 = f4
    \* service mesh
    Callers = {c, x}
    CrossModel = {x}
    MeshUnits = {u1, u2}
    Policies = {p}
    NoPolicies = NoPolicies
    MaxMeshChanges = 5
    Labels = {la, lb}
    LabelUnits = {u1, u2}
    Missing = Missing
    MaxLabelChanges = 5
    \* resource limits
    PatchUnits = {u1, u2}
    Quantities = {1, 3}
    ResourceRequest = 2
    Unlimited = Unlimited
    Malformed = Malformed
    Fractional = Fractional
    Untouched = Untouched
    MaxPatchChanges = 2
    \* object storage
    S3Units = {u1, u2}
    S3Stores = {s1, s2}
    NoCredentials = NoCredentials
    MaxS3Changes = 5
    \* tracing
    Traced = {ta, tb}
    Protocols = {g, h}
    OtlpHttp = g
    TempoUnits = {t1, t2}
    Unpublished = Unpublished
    MaxTracingChanges = 3
    \* requests
    Apps = {a1, a2, a3}
    ModelOf <- MCModelOf
    NameOf <- MCNameOf
    UnitsOf <- MCUnitsOf
    Paths <- MCPaths
    NoConfig = NoConfig
    MaxPathChanges = 5
SPECIFICATION MCSpec
INVARIANTS IntegrationsTypeOK AuthorizationFollows LabelsFollow LimitsHold CredentialsFollow TracesArrive RequestsArrive 
CHECK_DEADLOCK FALSE
