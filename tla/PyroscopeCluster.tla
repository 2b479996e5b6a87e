-------------------------- MODULE PyroscopeCluster --------------------------
(***************************************************************************)
(* The configuration of the Pyroscope workers: from the operator's charm   *)
(* options (coordinator/src/charm_config.py) and the workers that joined,  *)
(* through the file the coordinator generates (coordinator/src/pyroscope.py*)
(* and pyroscope_config.py), to the process each worker runs               *)
(* (worker/src/pyroscope.py).                                              *)
(*                                                                         *)
(* What a hook of the coordinator's leader publishes, every worker applies *)
(* in hooks of its own, some time later.                                   *)
(***************************************************************************)
EXTENDS Naturals, FiniteSets, Sequences

CONSTANTS
    Units,           \* units of the coordinator application
    Workers,         \* the worker units there may be
    Apps,            \* worker applications
    AppOf,           \* AppOf[w]: the application of worker w
    RoleOrder,       \* the role names, "all" included, in alphabetical order
    All,             \* the meta-role "all"
    Ingester,        \* the role "ingester"
    StoreGateway,    \* the role "store-gateway"
    Timespecs,       \* the accepted time spans other than "0"
    Zero,            \* the time span "0"
    Malformed,       \* a time span TIMESPEC_REGEXP rejects
    DefaultInterval, \* "15m"
    Tracers,         \* endpoints a tracing backend may offer
    NoTracer,
    NoConfig,        \* nothing published yet
    Settings,        \* the charm options the operator may choose
    RoleChoices,     \* the sets of role options the operator may choose
    Changing,        \* the kinds of change the environment makes
    MaxChanges       \* bound on how many of each kind

Names  == {RoleOrder[i] : i \in 1..Len(RoleOrder)}
Roles  == Names \ {All}   \* PyroscopeRole.all_nonmeta()

Timespan == Timespecs \cup {Zero}
Cleanup  == [retention : Timespan, delay : Timespan, interval : Timespan]
Options  == [retention : Timespan \cup {Malformed},
             delay     : Timespan \cup {Malformed},
             interval  : Timespan \cup {Malformed}]

ChangeKinds == {"options", "s3", "endpoints", "roles", "workers", "leader"}

ASSUME ConstantsAssumption ==
    /\ IsFiniteSet(Workers)
    /\ AppOf \in [Workers -> Apps]
    /\ RoleOrder \in Seq(Names)
    /\ All \in Names /\ Ingester \in Roles /\ StoreGateway \in Roles
    /\ Malformed \notin Timespan
    /\ DefaultInterval \in Timespecs /\ Zero \notin Timespecs
    /\ NoTracer \notin Tracers
    /\ Settings \subseteq Options
    /\ RoleChoices \subseteq SUBSET Names /\ {} \notin RoleChoices
    /\ Changing \subseteq ChangeKinds
    /\ MaxChanges \in Nat

VARIABLES
    options,    \* the charm options of the coordinator
    chosen,     \* history: the valid options there have been
    s3,         \* whether there is a usable bucket
    tracer,     \* the workload tracing endpoint
    ingressed,  \* whether the coordinator has an external URL
    leader,     \* the coordinator's leader
    status,     \* status[u]: what u's last hook reported
    published,  \* the worker configuration in the pyroscope-cluster databag
    serving,    \* history: serving[r]: the workers in scope with role r when
                \* the leader last published
    joined,     \* worker units in scope
    roleConfig, \* roleConfig[a]: the role options of worker application a
    roleData,   \* roleData[a]: the roles a has published
    addressed,  \* worker units that have published their address
    running,    \* running[w]: the configuration file of w
    layer,      \* layer[w]: the Pebble layer of w
    changes     \* changes[k]: how many changes of kind k there have been

operator    == <<options, chosen, s3, tracer, ingressed, roleConfig>>
coordinator == <<leader, status, published, serving>>
workers     == <<roleData, addressed, running, layer>>
vars        == <<operator, coordinator, joined, workers, changes>>

-----------------------------------------------------------------------------
(* charm_config.py                                                         *)

IsValid(o) == /\ o.retention \in Timespan
              /\ o.delay \in Timespan
              /\ o.interval \in Timespan

\* DISABLED_DATA_CLEANUP_CHARM_CONFIG
DisabledCleanup ==
    [retention |-> Zero, delay |-> Zero, interval |-> DefaultInterval]

\* The CharmConfig the charm runs with: one bad option disables the lot.
TrustOptions(o) == o
OtherOptionsKept(o) ==
    [retention |-> IF o.retention \in Timespan THEN o.retention ELSE Zero,
     delay     |-> IF o.delay \in Timespan THEN o.delay ELSE Zero,
     interval  |-> IF o.interval \in Timespan THEN o.interval
                                              ELSE DefaultInterval]
EffectiveCleanup(o) == IF IsValid(o) THEN o ELSE DisabledCleanup

-----------------------------------------------------------------------------
(* What the coordinator knows of the workers                               *)

\* A meta-role stands for all the roles.
Expand(R) == IF All \in R THEN Roles ELSE R

GatherRoles == UNION {Expand(roleData[AppOf[w]]) : w \in joined}

AddressesOf(r) == {w \in joined \cap addressed : r \in Expand(roleData[AppOf[w]])}

GatherAddresses == UNION {AddressesOf(r) : r \in Roles}

\* MINIMAL_DEPLOYMENT: one worker for every role.
IsCoherent == Roles \subseteq GatherRoles

-----------------------------------------------------------------------------
(* pyroscope.py: the configuration file                                    *)

FactorOfAll(r) == IF Cardinality(GatherAddresses) >= 3 THEN 3 ELSE 1
ReplicationFactor(r) == IF Cardinality(AddressesOf(r)) >= 3 THEN 3 ELSE 1

ConfigFile == [ingesterRF : {1, 3}, storeGatewayRF : {1, 3},
               members : SUBSET Workers, cleanup : Cleanup,
               tracer : Tracers \cup {NoTracer}, prefixed : BOOLEAN]

Config(o) ==
    [ingesterRF     |-> ReplicationFactor(Ingester),
     storeGatewayRF |-> ReplicationFactor(StoreGateway),
     members        |-> GatherAddresses,
     cleanup        |-> EffectiveCleanup(o),
     tracer         |-> tracer,
     prefixed       |-> ingressed]

-----------------------------------------------------------------------------
(* worker/src/pyroscope.py: the Pebble layer                               *)

\* The order of worker.roles is that of a set; the layer sorts it, so that the
\* k-th role is the one with k - 1 before it.
Orders(R) == {s \in [1..Cardinality(R) -> R] :
                 \A i, j \in DOMAIN s : i # j => s[i] # s[j]}

Position(r) == CHOOSE i \in 1..Len(RoleOrder) : RoleOrder[i] = r
Before(r, R) == {q \in R : Position(q) < Position(r)}
Sorted == [R \in SUBSET Names |->
    [k \in 1..Cardinality(R) |-> CHOOSE r \in R : Cardinality(Before(r, R)) = k - 1]]

UnsortedLayer(roles, env) == [target |-> roles, env |-> env]
Layer(roles, env) ==
    [target |-> Sorted[{roles[i] : i \in DOMAIN roles}], env |-> env]

NoLayer == [target |-> <<>>, env |-> NoTracer]

-----------------------------------------------------------------------------
(* The coordinator's hooks                                                 *)

\* The Coordinator publishes when there is something to configure and
\* somebody to configure.
CanPublish == s3 /\ IsCoherent

\* Who has which role, whether it has announced an address or not.
Serving == [r \in Roles |-> {w \in joined : r \in Expand(roleData[AppOf[w]])}]

\* Blocked by the Coordinator, or by _on_collect_unit_status.
UnitStatus == IF CanPublish /\ IsValid(options) THEN "active" ELSE "blocked"

HookSkippingInvalid(u) ==
    /\ IF u = leader /\ CanPublish /\ IsValid(options)
       THEN published' = Config(options) /\ serving' = Serving
       ELSE UNCHANGED <<published, serving>>
    /\ status' = [status EXCEPT ![u] = UnitStatus]
    /\ UNCHANGED <<operator, leader, joined, workers, changes>>

CoordinatorHook(u) ==
    /\ IF u = leader /\ CanPublish
       THEN published' = Config(options) /\ serving' = Serving
       ELSE UNCHANGED <<published, serving>>
    /\ status' = [status EXCEPT ![u] = UnitStatus]
    /\ UNCHANGED <<operator, leader, joined, workers, changes>>

-----------------------------------------------------------------------------
(* The workers' hooks.  lead tells whether the unit leads its application, *)
(* and order is how its roles happen to be enumerated.                     *)

HookKeepingMembers(w, lead, order) ==
    /\ w \in joined
    /\ addressed' = addressed \cup {w}
    /\ roleData' = IF lead
                   THEN [roleData EXCEPT ![AppOf[w]] = roleConfig[AppOf[w]]]
                   ELSE roleData
    /\ IF published = NoConfig
       THEN UNCHANGED <<running, layer>>
       ELSE LET known == IF running[w] = NoConfig THEN {} ELSE running[w].members
            IN  /\ running' = [running EXCEPT
                                 ![w] = [published EXCEPT !.members = @ \cup known]]
                /\ layer' = [layer EXCEPT ![w] = Layer(order, published.tracer)]
    /\ UNCHANGED <<operator, coordinator, joined, changes>>

WorkerHook(w, lead, order) ==
    /\ w \in joined
    /\ addressed' = addressed \cup {w}
    /\ roleData' = IF lead
                   THEN [roleData EXCEPT ![AppOf[w]] = roleConfig[AppOf[w]]]
                   ELSE roleData
    /\ IF published = NoConfig
       THEN UNCHANGED <<running, layer>>
       ELSE /\ running' = [running EXCEPT ![w] = published]
            /\ layer' = [layer EXCEPT ![w] = Layer(order, published.tracer)]
    /\ UNCHANGED <<operator, coordinator, joined, changes>>

-----------------------------------------------------------------------------
(* The environment                                                         *)

Change(kind) ==
    /\ kind \in Changing
    /\ changes[kind] < MaxChanges
    /\ changes' = [changes EXCEPT ![kind] = @ + 1]

SetOptions(o) ==
    /\ Change("options")
    /\ o # options
    /\ options' = o
    /\ chosen' = IF IsValid(o) THEN chosen \cup {o} ELSE chosen
    /\ UNCHANGED <<s3, tracer, ingressed, roleConfig, coordinator, joined, workers>>

S3Change ==
    /\ Change("s3")
    /\ s3' = ~s3
    /\ UNCHANGED <<options, chosen, tracer, ingressed, roleConfig, coordinator,
                   joined, workers>>

\* The tracing backend or the ingress appears, moves or goes.
EndpointsChange ==
    /\ Change("endpoints")
    /\ tracer' \in Tracers \cup {NoTracer}
    /\ ingressed' \in BOOLEAN
    /\ <<tracer, ingressed>>' # <<tracer, ingressed>>
    /\ UNCHANGED <<options, chosen, s3, roleConfig, coordinator, joined, workers>>

ChooseRoles(a, R) ==
    /\ Change("roles")
    /\ R # roleConfig[a]
    /\ roleConfig' = [roleConfig EXCEPT ![a] = R]
    /\ UNCHANGED <<options, chosen, s3, tracer, ingressed, coordinator, joined,
                   workers>>

AddWorker(w) ==
    /\ Change("workers")
    /\ w \notin joined
    /\ joined' = joined \cup {w}
    /\ UNCHANGED <<operator, coordinator, workers>>

\* The unit's databag and its disk go with it.
RemoveWorker(w) ==
    /\ Change("workers")
    /\ w \in joined
    /\ joined' = joined \ {w}
    /\ addressed' = addressed \ {w}
    /\ running' = [running EXCEPT ![w] = NoConfig]
    /\ layer' = [layer EXCEPT ![w] = NoLayer]
    /\ UNCHANGED <<operator, coordinator, roleData>>

ChangeLeader(u) ==
    /\ Change("leader")
    /\ u # leader
    /\ leader' = u
    /\ UNCHANGED <<operator, status, published, serving, joined, workers>>

Environment ==
    \/ \E o \in Settings : SetOptions(o)
    \/ S3Change
    \/ EndpointsChange
    \/ \E a \in Apps, R \in RoleChoices : ChooseRoles(a, R)
    \/ \E w \in Workers : AddWorker(w) \/ RemoveWorker(w)
    \/ \E u \in Units : ChangeLeader(u)

-----------------------------------------------------------------------------
\* Nothing has run yet; the role options have their defaults.
Init ==
    /\ options \in Settings
    /\ chosen = IF IsValid(options) THEN {options} ELSE {}
    /\ s3 = TRUE
    /\ tracer = NoTracer
    /\ ingressed = FALSE
    /\ roleConfig = [a \in Apps |-> {All}]
    /\ leader \in Units
    /\ status = [u \in Units |-> "unknown"]
    /\ published = NoConfig
    /\ serving = [r \in Roles |-> {}]
    /\ joined \in SUBSET Workers
    /\ roleData = [a \in Apps |-> {}]
    /\ addressed = {}
    /\ running = [w \in Workers |-> NoConfig]
    /\ layer = [w \in Workers |-> NoLayer]
    /\ changes = [k \in ChangeKinds |-> 0]

WorkerStep(w) ==
    \E lead \in BOOLEAN, order \in Orders(roleConfig[AppOf[w]]) :
        WorkerHook(w, lead, order)

LeaderStep(w) ==
    \E order \in Orders(roleConfig[AppOf[w]]) : WorkerHook(w, TRUE, order)

Next ==
    \/ Environment
    \/ \E u \in Units : CoordinatorHook(u)
    \/ \E w \in Workers : WorkerStep(w)

Spec == Init /\ [][Next]_vars

\* Every unit runs hooks for ever; one of the units of a worker application
\* is its leader for long enough to run one.
Fairness ==
    /\ \A u \in Units : WF_vars(CoordinatorHook(u))
    /\ \A w \in Workers : WF_vars(WorkerStep(w))
    /\ \A a \in Apps :
         WF_vars(\E w \in Workers : AppOf[w] = a /\ LeaderStep(w))

FairSpec == Spec /\ Fairness

-----------------------------------------------------------------------------
(* Properties                                                              *)

TypeOK ==
    /\ options \in Options
    /\ chosen \subseteq Cleanup
    /\ s3 \in BOOLEAN
    /\ tracer \in Tracers \cup {NoTracer}
    /\ ingressed \in BOOLEAN
    /\ leader \in Units
    /\ status \in [Units -> {"unknown", "active", "blocked"}]
    /\ published \in ConfigFile \cup {NoConfig}
    /\ serving \in [Roles -> SUBSET Workers]
    /\ joined \subseteq Workers
    /\ roleConfig \in [Apps -> SUBSET Names]
    /\ roleData \in [Apps -> SUBSET Names]
    /\ addressed \subseteq joined
    /\ running \in [Workers -> ConfigFile \cup {NoConfig}]
    /\ DOMAIN layer = Workers
    /\ changes \in [ChangeKinds -> 0..MaxChanges]

Deletes(c) == c # NoConfig /\ c.cleanup.retention # Zero

\* No worker ever deletes profiles by a retention that the operator did not
\* choose as part of a configuration valid as a whole: neither a default nor
\* the good half of a bad configuration takes its place.
DeletionChosen ==
    \A c \in {published} \cup {running[w] : w \in Workers} :
        Deletes(c) => c.cleanup \in chosen

\* The ring of a role is asked for three replicas exactly when three workers of
\* that role are among the members that are listed to join it: the factors are
\* computed per role, the members gathered over all of them, from databags that
\* workers and their leaders write at different times.  (What is published is
\* what runs: Distributes.)
ReplicasFitRoles ==
    published # NoConfig =>
        /\ published.ingesterRF = 3
             <=> Cardinality(published.members \cap serving[Ingester]) >= 3
        /\ published.storeGatewayRF = 3
             <=> Cardinality(published.members \cap serving[StoreGateway]) >= 3

\* Through databags and hooks of many units the deployment distributes one
\* configuration: a worker never runs a file that is not the whole of what is
\* published when its hook runs, and nobody's hook but its own changes it.
Promise == INSTANCE Distribution
    WITH Readers <- Workers, Values <- ConfigFile, Nothing <- NoConfig,
         source <- published, members <- joined, copies <- running

Distributes == Promise!Spec

\* A worker's plan changes only if its roles or its tracing endpoint did.
RolesIn(l) == {l.target[i] : i \in DOMAIN l.target}
NoNeedlessReplan ==
    [][\A w \in Workers :
         layer'[w] # layer[w] => \/ RolesIn(layer[w]) # RolesIn(layer'[w])
                                 \/ layer[w].env # layer'[w].env]_vars

\* No worker deletes blocks without delay unless the operator asked for it:
\* what an earlier retention marked survives a mistake in the options, as
\* "Disabling profiles cleanup to prevent data loss" (charm.py:85) says.  It
\* does not hold: the replacement has a deletion delay of "0", for which blocks
\* are "deleted straight away" (coordinator/charmcraft.yaml:184).
NoHastyDeletion ==
    [][\A w \in Workers :
         /\ running[w] # NoConfig /\ running[w].cleanup.delay # Zero
         /\ running'[w] # NoConfig /\ running'[w].cleanup.delay = Zero
         => \E o \in chosen : o.delay = Zero]_vars

\* When the environment settles in a working deployment, every worker ends
\* up with the one configuration that fits the options and the workers there
\* are.
Settled ==
    CanPublish => \A w \in joined : running[w] = Config(options)

Converges == <>[]Settled

\* A mistake in the options ends deletion on every worker and shows on every
\* unit, in a deployment that can still be configured.
MistakeStopsDeletion ==
    <>[](~IsValid(options) /\ CanPublish)
      => <>[](/\ \A w \in joined : ~Deletes(running[w])
              /\ \A u \in Units : status[u] = "blocked")

=============================================================================
