----------------------- MODULE PyroscopeClusterProofs -----------------------
(***************************************************************************)
(* What holds of the workers' configuration for any number of workers,     *)
(* applications, options and changes.                                      *)
(***************************************************************************)
EXTENDS PyroscopeCluster, FiniteSetTheorems, TLAPS

\* The cleanup of a configuration is one the operator chose, or the default
\* that deletes nothing.
CleanupChosen(c) == c # NoConfig => c.cleanup \in chosen \cup {DisabledCleanup}

\* The options in force count as chosen as soon as they are valid, and what
\* is true of what is published is true of what runs.
IInv ==
    /\ TypeOK
    /\ IsValid(options) => options \in chosen
    /\ CleanupChosen(published)
    /\ \A w \in Workers : CleanupChosen(running[w])
    /\ ReplicasFitRoles

-----------------------------------------------------------------------------

\* A record of valid options is a Cleanup.
LEMMA ValidIsCleanup == \A o \in Options : IsValid(o) => o \in Cleanup
  BY ConstantsAssumption DEF Options, IsValid, Cleanup, Timespan

LEMMA EffectiveIsCleanup == \A o \in Options : EffectiveCleanup(o) \in Cleanup
  <1>1. DisabledCleanup \in Cleanup
    BY ConstantsAssumption DEF DisabledCleanup, Cleanup, Timespan
  <1> QED
    BY <1>1, ValidIsCleanup DEF EffectiveCleanup

\* Those of a role whose address is known are the members with that role.
LEMMA MembersServe ==
    ASSUME NEW r \in Roles
    PROVE  GatherAddresses \cap Serving[r] = AddressesOf(r)
  BY DEF GatherAddresses, AddressesOf, Serving

\* What the leader writes is a configuration file, with a cleanup chosen or
\* disabled, and with as many replicas as there are members for them.
LEMMA ConfigFits ==
    ASSUME TypeOK, IsValid(options) => options \in chosen
    PROVE  /\ Config(options) \in ConfigFile
           /\ CleanupChosen(Config(options))
           /\ \A r \in Roles :
                ReplicationFactor(r) = 3
                  <=> Cardinality(Config(options).members \cap Serving[r]) >= 3
  <1> DEFINE c == Config(options)
  <1>1. EffectiveCleanup(options) \in Cleanup
    BY EffectiveIsCleanup DEF TypeOK
  <1>2. /\ ReplicationFactor(Ingester) \in {1, 3}
        /\ ReplicationFactor(StoreGateway) \in {1, 3}
    BY DEF ReplicationFactor
  <1>3. GatherAddresses \subseteq Workers
    BY DEF GatherAddresses, AddressesOf, TypeOK
  <1>4. c \in ConfigFile
    BY <1>1, <1>2, <1>3 DEF Config, ConfigFile, TypeOK
  <1>5. CleanupChosen(c)
    BY DEF CleanupChosen, Config, EffectiveCleanup
  <1>6. ASSUME NEW r \in Roles
        PROVE  ReplicationFactor(r) = 3
                 <=> Cardinality(c.members \cap Serving[r]) >= 3
    <2>1. c.members \cap Serving[r] = AddressesOf(r)
      BY MembersServe DEF Config
    <2>. QED BY <2>1 DEF ReplicationFactor
  <1> QED BY <1>4, <1>5, <1>6

-----------------------------------------------------------------------------
(* The invariant                                                           *)

LEMMA InitIInv == Init => IInv
  <1>. SUFFICES ASSUME Init PROVE IInv
    OBVIOUS
  <1>1. TypeOK
    <2>1. options \in Options /\ chosen \subseteq Cleanup
      BY ConstantsAssumption, ValidIsCleanup DEF Init
    <2>2. roleConfig \in [Apps -> SUBSET Names]
      BY ConstantsAssumption DEF Init
    <2>3. changes \in [ChangeKinds -> 0..MaxChanges]
      BY ConstantsAssumption DEF Init
    <2>4. /\ status \in [Units -> {"unknown", "active", "blocked"}]
          /\ roleData \in [Apps -> SUBSET Names]
          /\ running \in [Workers -> ConfigFile \cup {NoConfig}]
          /\ DOMAIN layer = Workers
      BY DEF Init
    <2>. QED BY <2>1, <2>2, <2>3, <2>4 DEF Init, TypeOK
  <1>. QED BY <1>1 DEF Init, IInv, CleanupChosen, ReplicasFitRoles

\* A change of the environment writes no configuration file.
LEMMA EnvironmentKeepsIInv == IInv /\ Environment => IInv'
  <1>. SUFFICES ASSUME IInv, Environment PROVE IInv'
    OBVIOUS
  <1>. USE DEF IInv
  <1>1. ASSUME NEW kind \in ChangeKinds, Change(kind)
        PROVE  changes' \in [ChangeKinds -> 0..MaxChanges]
    BY <1>1, ConstantsAssumption DEF Change, TypeOK
  <1>. USE DEF ChangeKinds
  <1>2. ASSUME NEW o \in Settings, SetOptions(o) PROVE IInv'
    <2>1. o \in Options /\ (IsValid(o) => o \in Cleanup)
      BY ConstantsAssumption, ValidIsCleanup
    <2>2. TypeOK'
      BY <1>1, <1>2, <2>1 DEF SetOptions, TypeOK, coordinator, workers
    <2>3. chosen \subseteq chosen' /\ (IsValid(options') => options' \in chosen')
      BY <1>2 DEF SetOptions
    <2>4. UNCHANGED <<published, serving, running>>
      BY <1>2 DEF SetOptions, coordinator, workers
    <2>. QED BY <2>2, <2>3, <2>4 DEF CleanupChosen, ReplicasFitRoles
  <1>3. CASE S3Change \/ EndpointsChange
    <2>1. UNCHANGED <<options, chosen, published, serving, running>>
      BY <1>3 DEF S3Change, EndpointsChange, coordinator, workers
    <2>2. TypeOK'
      <3>1. CASE S3Change
        BY <1>1, <3>1 DEF S3Change, TypeOK, coordinator, workers
      <3>2. CASE EndpointsChange
        BY <1>1, <3>2 DEF EndpointsChange, TypeOK, coordinator, workers
      <3>. QED BY <1>3, <3>1, <3>2
    <2>. QED BY <2>1, <2>2 DEF CleanupChosen, ReplicasFitRoles
  <1>4. ASSUME NEW a \in Apps, NEW R \in RoleChoices, ChooseRoles(a, R)
        PROVE  IInv'
    <2>1. UNCHANGED <<options, chosen, published, serving, running>>
      BY <1>4 DEF ChooseRoles, coordinator, workers
    <2>2. TypeOK'
      BY <1>1, <1>4, ConstantsAssumption
         DEF ChooseRoles, TypeOK, coordinator, workers
    <2>. QED BY <2>1, <2>2 DEF CleanupChosen, ReplicasFitRoles
  <1>5. ASSUME NEW w \in Workers, AddWorker(w) PROVE IInv'
    <2>1. UNCHANGED <<options, chosen, published, serving, running>>
      BY <1>5 DEF AddWorker, operator, coordinator, workers
    <2>2. TypeOK'
      BY <1>1, <1>5 DEF AddWorker, TypeOK, operator, coordinator, workers
    <2>. QED BY <2>1, <2>2 DEF CleanupChosen, ReplicasFitRoles
  <1>6. ASSUME NEW w \in Workers, RemoveWorker(w) PROVE IInv'
    <2>1. /\ UNCHANGED <<options, chosen, published, serving>>
          /\ \A x \in Workers : running'[x] \in {running[x], NoConfig}
      BY <1>6 DEF RemoveWorker, TypeOK, operator, coordinator
    <2>2. TypeOK'
      BY <1>1, <1>6 DEF RemoveWorker, TypeOK, operator, coordinator
    <2>. QED BY <2>1, <2>2 DEF CleanupChosen, ReplicasFitRoles
  <1>7. ASSUME NEW u \in Units, ChangeLeader(u) PROVE IInv'
    <2>1. UNCHANGED <<options, chosen, published, serving, running>>
      BY <1>7 DEF ChangeLeader, operator, workers
    <2>2. TypeOK'
      BY <1>1, <1>7 DEF ChangeLeader, TypeOK, operator, workers
    <2>. QED BY <2>1, <2>2 DEF CleanupChosen, ReplicasFitRoles
  <1>. QED BY <1>2, <1>3, <1>4, <1>5, <1>6, <1>7 DEF Environment

\* What a coordinator publishes fits; a worker writes what was published.
LEMMA HooksKeepIInv ==
    /\ \A u \in Units : IInv /\ CoordinatorHook(u) => IInv'
    /\ \A w \in Workers : IInv /\ WorkerStep(w) => IInv'
  <1>1. ASSUME NEW u \in Units, IInv, CoordinatorHook(u) PROVE IInv'
    <2>1. \/ UNCHANGED <<published, serving>>
          \/ published' = Config(options) /\ serving' = Serving
      BY <1>1 DEF CoordinatorHook
    <2>2. UNCHANGED <<options, chosen, running>>
      BY <1>1 DEF CoordinatorHook, operator, workers
    <2>3. /\ published' \in ConfigFile \cup {NoConfig}
          /\ CleanupChosen(published')
      BY <1>1, <2>1, ConfigFits DEF IInv, TypeOK, CleanupChosen
    <2>6. ReplicasFitRoles'
      <3>1. CASE UNCHANGED <<published, serving>>
        BY <1>1, <3>1 DEF IInv, ReplicasFitRoles
      <3>2. CASE published' = Config(options) /\ serving' = Serving
        <4>1. /\ published'.ingesterRF = ReplicationFactor(Ingester)
              /\ published'.storeGatewayRF = ReplicationFactor(StoreGateway)
          BY <3>2 DEF Config
        <4>2. \A r \in Roles :
                 ReplicationFactor(r) = 3
                   <=> Cardinality(published'.members \cap serving'[r]) >= 3
          BY <1>1, <3>2, ConfigFits DEF IInv
        <4>. QED BY <4>1, <4>2, ConstantsAssumption DEF ReplicasFitRoles
      <3>. QED BY <2>1, <3>1, <3>2
    <2>7. serving' \in [Roles -> SUBSET Workers]
      BY <1>1, <2>1 DEF IInv, TypeOK, Serving
    <2>4. UnitStatus \in {"active", "blocked"}
      BY DEF UnitStatus
    <2>5. TypeOK'
      BY <1>1, <2>3, <2>4, <2>7
         DEF IInv, CoordinatorHook, TypeOK, operator, workers
    <2>. QED BY <1>1, <2>2, <2>3, <2>5, <2>6 DEF IInv, CleanupChosen
  <1>2. ASSUME NEW w \in Workers, IInv, WorkerStep(w) PROVE IInv'
    <2>. PICK lead \in BOOLEAN, order \in Orders(roleConfig[AppOf[w]]) :
              WorkerHook(w, lead, order)
      BY <1>2 DEF WorkerStep
    <2>1. \A x \in Workers : running'[x] \in {running[x], published}
      BY <1>2 DEF WorkerHook, IInv, TypeOK
    <2>2. UNCHANGED <<options, chosen, published, serving>>
      BY DEF WorkerHook, operator, coordinator
    <2>3. roleData' \in [Apps -> SUBSET Names]
      BY <1>2, ConstantsAssumption DEF WorkerHook, IInv, TypeOK
    <2>4. running' \in [Workers -> ConfigFile \cup {NoConfig}] /\ DOMAIN layer' = Workers
      BY <1>2 DEF WorkerHook, IInv, TypeOK
    <2>5. TypeOK'
      BY <1>2, <2>3, <2>4 DEF WorkerHook, IInv, TypeOK, operator, coordinator
    <2>. QED BY <1>2, <2>1, <2>2, <2>5 DEF IInv, CleanupChosen, ReplicasFitRoles
  <1>. QED BY <1>1, <1>2

THEOREM Invariant == Spec => []IInv
  <1>1. IInv /\ Next => IInv'
    BY EnvironmentKeepsIInv, HooksKeepIInv DEF Next
  <1>2. IInv /\ UNCHANGED vars => IInv'
    BY DEF vars, operator, coordinator, workers, IInv, TypeOK, CleanupChosen,
       ReplicasFitRoles, IsValid
  <1>. QED BY InitIInv, <1>1, <1>2, PTL DEF Spec

-----------------------------------------------------------------------------
(* The theorems                                                            *)

\* Whatever the options, the workers and the order of the hooks, no worker
\* deletes by a retention the operator did not choose
\* (coordinator/src/charm.py:83-86).
THEOREM DeletionIsChosen == Spec => []DeletionChosen
  <1>1. IInv => DeletionChosen
    <2>. SUFFICES ASSUME IInv,
                         NEW c \in {published} \cup {running[w] : w \in Workers},
                         Deletes(c)
                  PROVE  c.cleanup \in chosen
      BY DEF DeletionChosen
    <2>1. CleanupChosen(c)
      BY DEF IInv
    <2>2. DisabledCleanup.retention = Zero
      BY DEF DisabledCleanup
    <2>. QED BY <2>1, <2>2 DEF CleanupChosen, Deletes
  <1>. QED BY <1>1, Invariant, PTL

\* Whatever databags workers and their leaders have written when the hook runs,
\* the ring of a role is asked for three replicas exactly when three of the
\* members listed to join have that role (coordinator/src/pyroscope.py:42-102).
THEOREM ReplicasFit == Spec => []ReplicasFitRoles
  <1>1. IInv => ReplicasFitRoles
    BY DEF IInv
  <1>. QED BY <1>1, Invariant, PTL

\* Every variable keeps its type.
THEOREM TypeCorrect == Spec => []TypeOK
  <1>1. IInv => TypeOK
    BY DEF IInv
  <1>. QED BY <1>1, Invariant, PTL

-----------------------------------------------------------------------------
(* Plans                                                                   *)

\* The roles have different places in the order.
LEMMA PlacesDiffer ==
    \A q, r \in Names : /\ Position(r) \in 1..Len(RoleOrder)
                        /\ Position(q) = Position(r) => q = r
  <1>1. \A r \in Names : /\ Position(r) \in 1..Len(RoleOrder)
                         /\ RoleOrder[Position(r)] = r
    BY DEF Names, Position
  <1>. QED BY <1>1

\* A set of roles is enumerated once, by the number of those before each.
LEMMA SortedEnumerates ==
    ASSUME NEW R \in SUBSET Names
    PROVE  {Sorted[R][k] : k \in DOMAIN Sorted[R]} = R
  <1>. DEFINE n == Cardinality(R)
              f == [r \in R |-> Cardinality(Before(r, R)) + 1]
  <1>1. IsFiniteSet(R) /\ n \in Nat
    <2>. DEFINE I == 1..Len(RoleOrder)
                Roles1 == [i \in I |-> RoleOrder[i]]
    <2>1. Len(RoleOrder) \in Nat
      BY ConstantsAssumption
    <2>2. IsFiniteSet(I)
      BY <2>1, FS_Interval
    <2>3. Roles1 \in Surjection(I, Names)
      BY DEF Surjection, Names
    <2>4. IsFiniteSet(Names)
      BY <2>2, <2>3, FS_Surjection
    <2>. QED BY <2>4, FS_Subset, FS_CardinalityType
  <1>2. ASSUME NEW r \in R
        PROVE  /\ IsFiniteSet(Before(r, R))
               /\ Cardinality(Before(r, R)) \in 0..(n - 1)
    <2>1. Before(r, R) \in SUBSET R /\ r \notin Before(r, R)
      <3>1. Position(r) \in Nat
        BY PlacesDiffer
      <3>. QED BY <3>1 DEF Before
    <2>2. /\ IsFiniteSet(Before(r, R))
          /\ Cardinality(Before(r, R)) <= n
          /\ Cardinality(Before(r, R)) # n
      BY <1>1, <2>1, FS_Subset
    <2>3. Cardinality(Before(r, R)) \in Nat
      BY <2>2, FS_CardinalityType
    <2>. QED BY <1>1, <2>2, <2>3
  <1>3. ASSUME NEW q \in R, NEW r \in R, Position(q) < Position(r)
        PROVE  Cardinality(Before(q, R)) # Cardinality(Before(r, R))
    <2>1. Position(q) \in Nat /\ Position(r) \in Nat
      BY PlacesDiffer
    <2>2. /\ Before(q, R) \in SUBSET Before(r, R)
          /\ q \in Before(r, R) /\ q \notin Before(q, R)
      <3>1. \A p \in R : Position(p) \in Nat
        BY PlacesDiffer
      <3>. QED BY <1>3, <2>1, <3>1 DEF Before
    <2>. QED BY <1>2, <2>2, FS_Subset
  <1>4. f \in Injection(R, 1..n)
    <2>1. f \in [R -> 1..n]
      BY <1>1, <1>2
    <2>2. ASSUME NEW q \in R, NEW r \in R, f[q] = f[r] PROVE q = r
      <3>1. Cardinality(Before(q, R)) = Cardinality(Before(r, R))
        BY <1>2, <2>2
      <3>2. ~(Position(q) < Position(r)) /\ ~(Position(r) < Position(q))
        BY <1>3, <3>1
      <3>3. Position(q) \in Nat /\ Position(r) \in Nat
        BY PlacesDiffer
      <3>. QED BY <3>2, <3>3, PlacesDiffer
    <2>3. \A q, r \in R : f[q] = f[r] => q = r
      BY <2>2
    <2>. HIDE DEF f, n
    <2>. QED BY <2>1, <2>3 DEF Injection, IsInjective
  <1>5. f \in Surjection(R, 1..n)
    <2>1. IsFiniteSet(1..n) /\ Cardinality(1..n) = n
      BY <1>1, FS_Interval
    <2>. QED BY <1>4, <2>1, FS_Injection
  <1>6. ASSUME NEW r \in R
        PROVE  f[r] \in DOMAIN Sorted[R] /\ Sorted[R][f[r]] = r
    <2>1. f[r] \in 1..n
      BY <1>4 DEF Injection, IsInjective
    <2>2. Sorted[R][f[r]] = CHOOSE q \in R : Cardinality(Before(q, R)) = f[r] - 1
      BY <2>1 DEF Sorted
    <2>3. \A q \in R : Cardinality(Before(q, R)) = f[r] - 1 => f[q] = f[r]
      BY <1>2
    <2>4. Cardinality(Before(r, R)) = f[r] - 1
      BY <1>2
    <2>5. \A q \in R : f[q] = f[r] => q = r
      <3>. HIDE DEF f, n
      <3>. QED BY <1>4 DEF Injection, IsInjective
    <2>. QED BY <2>1, <2>2, <2>3, <2>4, <2>5 DEF Sorted
  <1>7. ASSUME NEW k \in DOMAIN Sorted[R] PROVE Sorted[R][k] \in R
    <2>1. k \in 1..n
      BY DEF Sorted
    <2>2. PICK r \in R : f[r] = k
      BY <1>5, <2>1 DEF Surjection
    <2>. QED BY <1>6, <2>2
  <1>. HIDE DEF f, n
  <1>. QED BY <1>6, <1>7

\* Every plan lists roles in their order.
PlansSorted ==
    \A w \in Workers :
        \E R \in SUBSET Names, e \in Tracers \cup {NoTracer} :
            layer[w] = [target |-> Sorted[R], env |-> e]

\* Without roles there is nothing to list.
LEMMA NothingSorted == Sorted[{}] = <<>>
  BY FS_EmptySet DEF Sorted

\* Plans with the same roles and endpoint are the same plan.
LEMMA SamePlan ==
    ASSUME NEW R \in SUBSET Names, NEW Q \in SUBSET Names, NEW d, NEW e,
           RolesIn([target |-> Sorted[R], env |-> d])
             = RolesIn([target |-> Sorted[Q], env |-> e]),
           d = e
    PROVE  [target |-> Sorted[R], env |-> d] = [target |-> Sorted[Q], env |-> e]
  <1>1. R = RolesIn([target |-> Sorted[R], env |-> d])
    BY SortedEnumerates DEF RolesIn
  <1>2. Q = RolesIn([target |-> Sorted[Q], env |-> e])
    BY SortedEnumerates DEF RolesIn
  <1>. QED BY <1>1, <1>2

\* A worker's hook lists its roles in their order, however they are enumerated.
LEMMA PlansStaySorted == TypeOK /\ PlansSorted /\ [Next]_vars => PlansSorted'
  <1>. SUFFICES ASSUME TypeOK, PlansSorted, [Next]_vars
                PROVE  PlansSorted'
    OBVIOUS
  <1>1. CASE UNCHANGED layer
    BY <1>1 DEF PlansSorted
  <1>2. ASSUME NEW w \in Workers, RemoveWorker(w) PROVE PlansSorted'
    <2>1. NoLayer = [target |-> Sorted[{}], env |-> NoTracer]
      BY NothingSorted DEF NoLayer
    <2>2. \A x \in Workers : layer'[x] \in {layer[x], NoLayer}
      BY <1>2 DEF RemoveWorker, TypeOK
    <2>3. \E R \in SUBSET Names, e \in Tracers \cup {NoTracer} :
             NoLayer = [target |-> Sorted[R], env |-> e]
      BY <2>1
    <2>. HIDE DEF NoLayer
    <2>4. \A x \in Workers : layer'[x] = layer[x] \/ layer'[x] = NoLayer
      BY <2>2
    <2>. QED BY <2>3, <2>4 DEF PlansSorted
  <1>3. ASSUME NEW w \in Workers, WorkerStep(w) PROVE PlansSorted'
    <2>. PICK lead \in BOOLEAN, order \in Orders(roleConfig[AppOf[w]]) :
              WorkerHook(w, lead, order)
      BY <1>3 DEF WorkerStep
    <2>. DEFINE R == {order[i] : i \in DOMAIN order}
    <2>1. R \in SUBSET Names
      <3>1. roleConfig[AppOf[w]] \in SUBSET Names
        BY ConstantsAssumption DEF TypeOK
      <3>. QED BY <3>1 DEF Orders
    <2>2. \/ UNCHANGED layer
          \/ /\ published \in ConfigFile
             /\ layer' = [layer EXCEPT ![w] = Layer(order, published.tracer)]
      BY DEF WorkerHook, TypeOK
    <2>3. Layer(order, published.tracer)
            = [target |-> Sorted[R], env |-> published.tracer]
      BY DEF Layer
    <2>. HIDE DEF R
    <2>4. CASE published \in ConfigFile
                /\ layer' = [layer EXCEPT ![w] = Layer(order, published.tracer)]
      <3>1. published.tracer \in Tracers \cup {NoTracer}
        BY <2>4 DEF ConfigFile
      <3>2. \A x \in Workers :
              layer'[x] = IF x = w THEN [target |-> Sorted[R], env |-> published.tracer]
                                   ELSE layer[x]
        BY <2>3, <2>4 DEF TypeOK
      <3>. QED BY <2>1, <3>1, <3>2 DEF PlansSorted
    <2>. QED BY <1>1, <2>2, <2>4
  <1>4. CASE Environment /\ ~\E w \in Workers : RemoveWorker(w)
    BY <1>1, <1>4 DEF Environment, SetOptions, S3Change, EndpointsChange,
                     ChooseRoles, AddWorker, ChangeLeader, workers
  <1>5. ASSUME NEW u \in Units, CoordinatorHook(u) PROVE PlansSorted'
    BY <1>1, <1>5 DEF CoordinatorHook, workers
  <1>6. CASE UNCHANGED vars
    BY <1>1, <1>6 DEF vars, workers
  <1>. QED BY <1>2, <1>3, <1>4, <1>5, <1>6 DEF Next

\* Whatever order the set of roles happens to be enumerated in, a hook changes
\* a worker's plan only for another set of roles or another tracing endpoint
\* (worker/src/pyroscope.py:61): Pyroscope is not restarted for nothing.
THEOREM PlansChangeForAReason == Spec => NoNeedlessReplan
  <1>1. Init => PlansSorted
    <2>1. NoLayer = [target |-> Sorted[{}], env |-> NoTracer]
      BY NothingSorted DEF NoLayer
    <2>. QED BY <2>1 DEF Init, PlansSorted
  <1>2. TypeOK /\ PlansSorted /\ [Next]_vars => PlansSorted'
    BY PlansStaySorted
  <1>3. PlansSorted /\ PlansSorted'
          => \A w \in Workers :
               layer'[w] # layer[w]
                 => \/ RolesIn(layer[w]) # RolesIn(layer'[w])
                    \/ layer[w].env # layer'[w].env
    <2>. SUFFICES ASSUME PlansSorted, PlansSorted', NEW w \in Workers,
                         RolesIn(layer[w]) = RolesIn(layer'[w]),
                         layer[w].env = layer'[w].env
                  PROVE  layer'[w] = layer[w]
      OBVIOUS
    <2>1. PICK R \in SUBSET Names, d \in Tracers \cup {NoTracer} :
               layer[w] = [target |-> Sorted[R], env |-> d]
      BY DEF PlansSorted
    <2>2. PICK Q \in SUBSET Names, e \in Tracers \cup {NoTracer} :
               layer'[w] = [target |-> Sorted[Q], env |-> e]
      BY DEF PlansSorted
    <2>3. d = e
      BY <2>1, <2>2
    <2>. QED BY <2>1, <2>2, <2>3, SamePlan
  <1>4. PlansSorted /\ PlansSorted'
          => [\A w \in Workers :
                layer'[w] # layer[w]
                  => \/ RolesIn(layer[w]) # RolesIn(layer'[w])
                     \/ layer[w].env # layer'[w].env]_vars
    BY <1>3
  <1>. QED BY <1>1, <1>2, <1>4, TypeCorrect, PTL DEF Spec, NoNeedlessReplan

-----------------------------------------------------------------------------
(* The workers' configuration is distributed as Distribution promises      *)

\* Nothing the environment does to the options, the roles or the leases shows
\* in what is distributed; workers come and go as members.
LEMMA EnvironmentDistributes ==
    ASSUME IInv, Environment
    PROVE  Promise!Next \/ UNCHANGED Promise!vars
  <1>1. ASSUME NEW o \in Settings, SetOptions(o)
        PROVE  UNCHANGED <<published, joined, running>>
    BY <1>1 DEF SetOptions, coordinator, workers
  <1>2. ASSUME S3Change \/ EndpointsChange
        PROVE  UNCHANGED <<published, joined, running>>
    BY <1>2 DEF S3Change, EndpointsChange, coordinator, workers
  <1>3. ASSUME NEW a \in Apps, NEW R \in RoleChoices, ChooseRoles(a, R)
        PROVE  UNCHANGED <<published, joined, running>>
    BY <1>3 DEF ChooseRoles, coordinator, workers
  <1>4. ASSUME NEW u \in Units, ChangeLeader(u)
        PROVE  UNCHANGED <<published, joined, running>>
    BY <1>4 DEF ChangeLeader, workers
  <1>5. ASSUME NEW w \in Workers, AddWorker(w) PROVE Promise!Join(w)
    BY <1>5 DEF AddWorker, coordinator, workers, Promise!Join
  <1>6. ASSUME NEW w \in Workers, RemoveWorker(w) PROVE Promise!Leave(w)
    BY <1>6 DEF RemoveWorker, coordinator, Promise!Leave
  <1>. QED
    BY <1>1, <1>2, <1>3, <1>4, <1>5, <1>6
       DEF Environment, Promise!Next, Promise!vars

\* The leader's hook publishes a whole configuration or leaves the one there;
\* a worker's hook fetches it.
LEMMA HooksDistribute ==
    ASSUME IInv,
           \/ \E u \in Units : CoordinatorHook(u)
           \/ \E w \in Workers : WorkerStep(w)
    PROVE  Promise!Next \/ UNCHANGED Promise!vars
  <1>1. ASSUME NEW u \in Units, CoordinatorHook(u)
        PROVE  Promise!Publish \/ UNCHANGED Promise!vars
    <2>1. Config(options) \in ConfigFile
      BY ConfigFits DEF IInv
    <2>2. UNCHANGED <<joined, running>> /\ published' \in {published, Config(options)}
      BY <1>1 DEF CoordinatorHook, workers
    <2>. QED BY <2>1, <2>2 DEF Promise!Publish, Promise!vars
  <1>2. ASSUME NEW w \in Workers, WorkerStep(w)
        PROVE  Promise!Fetch(w) \/ UNCHANGED Promise!vars
    <2>1. w \in joined /\ UNCHANGED <<published, joined>>
      BY <1>2 DEF WorkerStep, WorkerHook, coordinator
    <2>2. IF published = NoConfig
          THEN UNCHANGED running
          ELSE running' = [running EXCEPT ![w] = published]
      BY <1>2 DEF WorkerStep, WorkerHook
    <2>. QED BY <2>1, <2>2 DEF Promise!Fetch, Promise!vars
  <1>. QED BY <1>1, <1>2 DEF Promise!Next

\* Whatever the hooks, leases, roles and mistakes in the options, the workers'
\* files change only as Distribution allows: the coordinator's databag
\* (coordinator/src/charm.py:92-136) is their one source, and a worker's hook
\* (worker/src/pyroscope.py:19-36) takes it as a whole.
THEOREM ClusterDistributes == Spec => Distributes
  <1>1. Init => Promise!Init
    BY DEF Init, Promise!Init
  <1>2. IInv /\ [Next]_vars => [Promise!Next]_(Promise!vars)
    <2>. SUFFICES ASSUME IInv, [Next]_vars
                  PROVE  Promise!Next \/ UNCHANGED Promise!vars
      OBVIOUS
    <2>1. CASE Next
      BY <2>1, EnvironmentDistributes, HooksDistribute DEF Next
    <2>2. CASE UNCHANGED vars
      BY <2>2 DEF vars, coordinator, workers, Promise!vars
    <2>. QED BY <2>1, <2>2
  <1>. QED BY <1>1, <1>2, Invariant, PTL DEF Spec, Distributes, Promise!Spec

=============================================================================
