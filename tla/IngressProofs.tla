---------------------------- MODULE IngressProofs ----------------------------
(***************************************************************************)
(* The way in: the addresses behind Traefik are whole, whatever the number *)
(* of its units, leaders, relations and restarts, and requests arrive where *)
(* they belong, whatever the applications behind it, their names and paths. *)
(***************************************************************************)
EXTENDS TraefikRoute, RequestPath, SequenceTheorems, TLAPS

------------------------------------------------------------------------------
(* The traefik_route library                                               *)

\* Two halves of an address, each of which Traefik has had.
Halves(a) == \E g, h \in had : a = [host |-> g.host, scheme |-> h.scheme]

\* What a unit keeps, a databag has and a requirer's copy with a host has are
\* halves that Traefik has had; and as long as it never lost its host, whole
\* addresses, with a host in the databag that a requirer with a host reads.
HalvesHad ==
    /\ gateway \in had
    /\ \A t \in Traefiks : kept[t] \in had \cup {NotGiven}
    /\ \A r \in Relations : bag[r] = Nothing \/ Halves(bag[r])
    /\ \A r \in Relations : told[r].host = Empty \/ Halves(told[r])

WholesHad ==
    ~withdrawn =>
        /\ gateway.host = Empty => \A g \in had : g.host = Empty
        /\ \A r \in Relations : bag[r] \in had \cup {Nothing}
        /\ \A r \in Relations :
              told[r].host # Empty => told[r] \in had /\ bag[r].host # Empty

IInv == TypeOK /\ HalvesHad /\ WholesHad /\ NoHostWithoutRelation

LEMMA InitIInv == Init => IInv
  <1> SUFFICES ASSUME Init PROVE IInv
    OBVIOUS
  <1>1. NotGiven \in Kept /\ Nothing \in Address /\ Nothing.host = Empty
    BY DEF Kept, NotGiven, Address, Nothing
  <1>2. TypeOK
    <2>1. /\ kept \in [Traefiks -> Kept]
          /\ bag \in [Relations -> Address] /\ told \in [Relations -> Address]
          /\ news \in [Relations -> SUBSET Traefiks]
      BY <1>1 DEF Init
    <2>2. changes \in 0..MaxChanges
      BY ConstantsAssumption DEF Init
    <2>3. withdrawn \in BOOLEAN
      BY DEF Init
    <2> QED BY <2>1, <2>2, <2>3 DEF Init, TypeOK
  <1>3. HalvesHad /\ WholesHad /\ NoHostWithoutRelation
    BY <1>1 DEF Init, HalvesHad, WholesHad, NoHostWithoutRelation
  <1> QED BY <1>2, <1>3 DEF IInv

\* An address that Traefik has is of the given shape.
LEMMA GatewayShape ==
    ASSUME TypeOK, NEW g \in had
    PROVE  /\ g = [host |-> g.host, scheme |-> g.scheme]
           /\ g.host \in Hosts \cup {Empty} /\ g.scheme \in Schemes
           /\ g.host # Unset /\ g.scheme \notin {Empty, Unset}
           /\ g \in Kept /\ g \in Address
  <1>1. g \in [host : Hosts \cup {Empty}, scheme : Schemes]
    BY ConstantsAssumption DEF TypeOK
  <1> QED BY <1>1, ConstantsAssumption DEF Kept, Address

\* What a provider publishes when it is given the present address, or when it
\* keeps that and is given nothing: the present address; or, if that has no
\* host, the host it keeps with the present scheme.
LEMMA PublishesHalves ==
    ASSUME TypeOK, gateway \in had, NEW k \in had \cup {NotGiven}
    PROVE  /\ Published(NotGiven, gateway) = gateway
           /\ Halves(Published(gateway, k))
           /\ \/ Published(gateway, k) = gateway
              \/ gateway.host = Empty /\ k \in had /\ k.host # Empty
  <1>1. /\ gateway = [host |-> gateway.host, scheme |-> gateway.scheme]
        /\ gateway.host # Unset /\ gateway.scheme \notin {Empty, Unset}
    BY GatewayShape
  <1>2. Published(NotGiven, gateway) = gateway
    BY <1>1, ConstantsAssumption DEF Published, OrElse, NotGiven
  <1>3. CASE gateway.host # Empty
    <2>1. Published(gateway, k) = gateway
      BY <1>1, <1>3 DEF Published, OrElse
    <2> QED BY <1>1, <1>2, <2>1 DEF Halves
  <1>4. CASE gateway.host = Empty /\ (k = NotGiven \/ k.host = Empty)
    <2>1. Published(gateway, k) = gateway
      BY <1>1, <1>4 DEF Published, OrElse, NotGiven
    <2> QED BY <1>1, <1>2, <2>1 DEF Halves
  <1>5. CASE gateway.host = Empty /\ k \in had /\ k.host # Empty
    <2>1. k.host # Unset
      BY <1>5, GatewayShape
    <2>2. Published(gateway, k) = [host |-> k.host, scheme |-> gateway.scheme]
      BY <1>1, <1>5, <2>1 DEF Published, OrElse
    <2> QED BY <1>2, <1>5, <2>2 DEF Halves
  <1> QED BY <1>3, <1>4, <1>5

\* A hook of Traefik writes into a databag what PublishesHalves says.
LEMMA TraefikHookWrites ==
    ASSUME IInv, NEW t \in Traefiks, NEW events \in SUBSET Relations,
           TraefikHook(t, events)
    PROVE  /\ \E published :
                 /\ bag' \in [Relations -> {published} \cup Address]
                 /\ \A r \in Relations : bag'[r] \in {bag[r], published}
                 /\ Halves(published)
                 /\ \/ published = gateway
                    \/ gateway.host = Empty /\ \E g \in had : g.host # Empty
           /\ kept' \in [Traefiks -> Kept]
           /\ \A x \in Traefiks : kept'[x] \in had \cup {NotGiven}
  <1> DEFINE updates   == t = leader /\ Outdated(t)
             first     == IF updates THEN gateway ELSE kept[t]
             answers   == t = leader /\ events \cap config # {}
             published == IF answers THEN Published(NotGiven, first)
                                     ELSE Published(gateway, kept[t])
  <1>1. /\ bag' = [r \in Relations |-> IF r \in open /\ (updates \/ answers)
                                       THEN published ELSE bag[r]]
        /\ kept' = [kept EXCEPT ![t] = IF answers THEN NotGiven ELSE first]
    BY DEF TraefikHook
  <1>2. TypeOK /\ gateway \in had /\ kept[t] \in had \cup {NotGiven}
    BY DEF IInv, HalvesHad
  <1>3. answers => first = gateway
    BY DEF Outdated
  <1>4. first \in had \cup {NotGiven}
    BY <1>2
  <1>5. /\ Halves(published)
        /\ \/ published = gateway
           \/ gateway.host = Empty /\ \E g \in had : g.host # Empty
    <2>1. /\ Published(NotGiven, gateway) = gateway
          /\ Halves(Published(gateway, kept[t]))
          /\ \/ Published(gateway, kept[t]) = gateway
             \/ gateway.host = Empty /\ kept[t] \in had /\ kept[t].host # Empty
      BY <1>2, PublishesHalves
    <2>2. Halves(gateway)
      BY <1>2, GatewayShape DEF Halves
    <2> HIDE DEF answers, first
    <2> QED BY <1>3, <2>1, <2>2
  <1> HIDE DEF published, first, answers, updates
  <1>6. /\ bag' \in [Relations -> {published} \cup Address]
        /\ \A r \in Relations : bag'[r] \in {bag[r], published}
    BY <1>1, <1>2 DEF TypeOK
  <1>7. \A g \in had \cup {NotGiven} : g \in Kept
    BY <1>2, GatewayShape DEF Kept, NotGiven
  <1>8. /\ kept' \in [Traefiks -> Kept]
        /\ \A x \in Traefiks : kept'[x] \in had \cup {NotGiven}
    BY <1>1, <1>2, <1>4, <1>7 DEF IInv, HalvesHad, TypeOK
  <1> QED BY <1>5, <1>6, <1>8

\* The halves of an address that Traefik had make an address.
LEMMA HalvesShape ==
    ASSUME TypeOK, NEW a, Halves(a)
    PROVE  a \in Address /\ a.scheme \in Schemes /\ a.scheme \notin {Empty, Unset}
           /\ a.host # Unset
  <1>1. PICK g \in had, h \in had : a = [host |-> g.host, scheme |-> h.scheme]
    BY DEF Halves
  <1> QED BY <1>1, GatewayShape DEF Address

LEMMA TraefikKeepsIInv ==
    ASSUME IInv, NEW t \in Traefiks, NEW events \in SUBSET Relations,
           TraefikHook(t, events), news' \in [Relations -> SUBSET Traefiks]
    PROVE  IInv'
  <1>1. PICK published :
           /\ bag' \in [Relations -> {published} \cup Address]
           /\ \A r \in Relations : bag'[r] \in {bag[r], published}
           /\ Halves(published)
           /\ \/ published = gateway
              \/ gateway.host = Empty /\ \E g \in had : g.host # Empty
    BY TraefikHookWrites
  <1>2. /\ kept' \in [Traefiks -> Kept]
        /\ \A x \in Traefiks : kept'[x] \in had \cup {NotGiven}
    BY TraefikHookWrites
  <1>3. UNCHANGED <<gateway, had, withdrawn, leader, former, open, config, seen, told, changes>>
    BY DEF TraefikHook, traefik, requirer
  <1>4. published \in Address
    BY <1>1, HalvesShape DEF IInv
  <1>5. TypeOK'
    BY <1>1, <1>2, <1>3, <1>4 DEF IInv, TypeOK
  <1>6. HalvesHad'
    <2>1. ASSUME NEW a, Halves(a) PROVE \E g, h \in had' : a = [host |-> g.host, scheme |-> h.scheme]
      BY <1>3, <2>1 DEF Halves
    <2>2. \A r \in Relations :
             bag'[r] = Nothing \/ \E g, h \in had' : bag'[r] = [host |-> g.host, scheme |-> h.scheme]
      <3> SUFFICES ASSUME NEW r \in Relations, bag'[r] # Nothing PROVE Halves(bag'[r])
        BY <2>1
      <3>1. bag[r] = Nothing \/ Halves(bag[r])
        BY DEF IInv, HalvesHad
      <3>2. bag'[r] = bag[r] \/ bag'[r] = published
        BY <1>1
      <3> QED BY <1>1, <3>1, <3>2
    <2>3. \A r \in Relations :
             told'[r].host = Empty
             \/ \E g, h \in had' : told'[r] = [host |-> g.host, scheme |-> h.scheme]
      BY <1>3 DEF IInv, HalvesHad, Halves
    <2>4. gateway' \in had' /\ \A x \in Traefiks : kept'[x] \in had' \cup {NotGiven}
      BY <1>2, <1>3 DEF IInv, HalvesHad
    <2> QED BY <2>2, <2>3, <2>4 DEF HalvesHad, Halves
  <1>7. WholesHad'
    <2> SUFFICES ASSUME ~withdrawn PROVE WholesHad'
      BY <1>3 DEF WholesHad
    <2>1. published = gateway /\ gateway \in had
      BY <1>1 DEF IInv, WholesHad, HalvesHad
    <2>2. \A r \in Relations : bag'[r] \in had \cup {Nothing}
      BY <1>1, <2>1 DEF IInv, WholesHad
    <2>3. ASSUME NEW r \in Relations, told[r].host # Empty
          PROVE  told[r] \in had /\ bag'[r].host # Empty
      <3>1. told[r] \in had /\ bag[r].host # Empty
        BY <2>3 DEF IInv, WholesHad
      <3>2. gateway.host # Empty
        BY <2>3, <3>1 DEF IInv, WholesHad
      <3> QED BY <1>1, <2>1, <3>1, <3>2
    <2> QED BY <1>3, <2>2, <2>3 DEF IInv, WholesHad
  <1>8. NoHostWithoutRelation'
    BY <1>3 DEF IInv, NoHostWithoutRelation
  <1> QED BY <1>5, <1>6, <1>7, <1>8 DEF IInv

\* What a requirer makes of its copy and a databag: the copy, if there is
\* nothing in the databag; else the databag's scheme, with the databag's host,
\* or the copy's if there is none.
LEMMA Refreshed ==
    ASSUME IInv, NEW r \in Relations
    PROVE  LET new == UpdateStored(told[r], bag[r]) IN
           /\ new \in Address
           /\ new.host = Empty \/ Halves(new)
           /\ ~withdrawn /\ new.host # Empty => new \in had /\ bag[r].host # Empty
  <1> DEFINE new == UpdateStored(told[r], bag[r])
  <1>0. /\ TypeOK /\ told[r] \in Address
        /\ bag[r] = Nothing \/ Halves(bag[r])
        /\ told[r].host = Empty \/ Halves(told[r])
    BY DEF IInv, TypeOK, HalvesHad
  <1>1. CASE bag[r] = Nothing
    <2>1. told[r] = [host |-> told[r].host, scheme |-> told[r].scheme]
      BY <1>0 DEF Address
    <2>2. new = told[r]
      BY <1>1, <2>1 DEF UpdateStored, OrElse, Nothing
    <2> QED BY <1>0, <2>2 DEF IInv, WholesHad
  <1>2. CASE Halves(bag[r])
    <2>0. /\ bag[r].scheme \in Schemes /\ bag[r].scheme \notin {Empty, Unset}
          /\ bag[r].host # Unset /\ bag[r] \in Address
          /\ bag[r] = [host |-> bag[r].host, scheme |-> bag[r].scheme]
      BY <1>0, <1>2, HalvesShape DEF Address
    <2>1. new = [host |-> OrElse(bag[r].host, told[r].host), scheme |-> bag[r].scheme]
      BY <2>0 DEF UpdateStored, OrElse
    <2>2. CASE bag[r].host # Empty
      <3>1. new = bag[r]
        BY <2>0, <2>1, <2>2 DEF OrElse
      <3>2. bag[r] # Nothing
        BY <2>2 DEF Nothing
      <3> QED BY <1>2, <2>0, <2>2, <3>1, <3>2 DEF IInv, WholesHad
    <2>3. CASE bag[r].host = Empty
      <3>1. new = [host |-> told[r].host, scheme |-> bag[r].scheme]
        BY <2>1, <2>3 DEF OrElse
      <3>2. new \in Address
        BY <1>0, <2>0, <3>1 DEF Address
      <3>3. new.host = Empty \/ Halves(new)
        <4> SUFFICES ASSUME told[r].host # Empty PROVE Halves(new)
          BY <3>1
        <4>1. PICK g \in had, h \in had : told[r] = [host |-> g.host, scheme |-> h.scheme]
          BY <1>0 DEF Halves
        <4>2. PICK b \in had, c \in had : bag[r] = [host |-> b.host, scheme |-> c.scheme]
          BY <1>2 DEF Halves
        <4>3. new = [host |-> g.host, scheme |-> c.scheme]
          BY <3>1, <4>1, <4>2
        <4> QED BY <4>3 DEF Halves
      <3>4. ~withdrawn => new.host = Empty
        BY <2>3, <3>1 DEF IInv, WholesHad
      <3> QED BY <3>2, <3>3, <3>4
    <2> QED BY <2>2, <2>3
  <1> QED BY <1>0, <1>1, <1>2

LEMMA RequirerKeepsIInv ==
    ASSUME IInv, NEW r \in Relations, RequirerHook(r) \/ RouteBroken(r)
    PROVE  IInv'
  <1>1. CASE RequirerHook(r)
    <2>1. /\ told' = [told EXCEPT ![r] = UpdateStored(told[r], bag[r])]
          /\ UNCHANGED <<gateway, had, withdrawn, leader, former, kept, open, bag, changes>>
          /\ seen' = seen \cup {r} /\ config' = config \cup {r} /\ r \in open
      BY <1>1 DEF RequirerHook, traefik
    <2>2. news' \in [Relations -> SUBSET Traefiks]
      BY <1>1 DEF RequirerHook, IInv, TypeOK
    <2>3. /\ told'[r] \in Address
          /\ told'[r].host = Empty \/ Halves(told'[r])
          /\ ~withdrawn /\ told'[r].host # Empty => told'[r] \in had /\ bag[r].host # Empty
      <3>1. told'[r] = UpdateStored(told[r], bag[r])
        BY <2>1 DEF IInv, TypeOK
      <3> QED BY <3>1, Refreshed
    <2>4. /\ told' \in [Relations -> Address]
          /\ \A x \in Relations \ {r} : told'[x] = told[x]
      BY <2>1, Refreshed DEF IInv, TypeOK
    <2>5. TypeOK'
      BY <2>1, <2>2, <2>4 DEF IInv, TypeOK
    <2>6. HalvesHad'
      BY <2>1, <2>3, <2>4 DEF IInv, HalvesHad, Halves
    <2>7. WholesHad'
      BY <2>1, <2>3, <2>4 DEF IInv, WholesHad
    <2>8. NoHostWithoutRelation'
      BY <2>1, <2>4 DEF IInv, NoHostWithoutRelation
    <2> QED BY <2>5, <2>6, <2>7, <2>8 DEF IInv
  <1>2. CASE RouteBroken(r)
    <2>1. /\ told' = [told EXCEPT ![r] = Forget(told[r])]
          /\ seen' = seen \ {r}
          /\ UNCHANGED <<gateway, had, withdrawn, leader, former, kept, open, bag, config,
                         news, changes>>
      BY <1>2 DEF RouteBroken, traefik
    <2>2. Forget(told[r]) \in Address /\ Forget(told[r]).host = Empty
      BY DEF IInv, TypeOK, Forget, Address
    <2>3. /\ told' \in [Relations -> Address] /\ told'[r].host = Empty
          /\ \A x \in Relations \ {r} : told'[x] = told[x]
      BY <2>1, <2>2 DEF IInv, TypeOK
    <2>4. TypeOK'
      BY <2>1, <2>3 DEF IInv, TypeOK
    <2>5. HalvesHad'
      BY <2>1, <2>3 DEF IInv, HalvesHad, Halves
    <2>6. WholesHad'
      BY <2>1, <2>3 DEF IInv, WholesHad
    <2>7. NoHostWithoutRelation'
      BY <2>1, <2>3 DEF IInv, NoHostWithoutRelation
    <2> QED BY <2>4, <2>5, <2>6, <2>7 DEF IInv
  <1> QED BY <1>1, <1>2

\* Traefik gets another address: the only step with which it may lose its host.
LEMMA GatewayChangeKeepsIInv ==
    ASSUME IInv, NEW g \in Gateways, GatewayChange(g)
    PROVE  IInv'
  <1>1. /\ gateway' = g /\ had' = had \cup {g}
        /\ withdrawn' = (withdrawn \/ (g.host = Empty /\ gateway.host # Empty))
        /\ UNCHANGED <<leader, former, kept, open, bag, config, seen, told, news>>
        /\ changes' \in 0..MaxChanges
    BY ConstantsAssumption DEF GatewayChange, Change, requirer, IInv, TypeOK
  <1>2. TypeOK'
    BY <1>1 DEF IInv, TypeOK
  <1>3. HalvesHad'
    BY <1>1 DEF IInv, HalvesHad, Halves
  <1>4. WholesHad'
    <2> SUFFICES ASSUME ~withdrawn, g.host = Empty => gateway.host = Empty
                 PROVE  WholesHad'
      BY <1>1 DEF WholesHad
    <2>1. g.host = Empty => \A h \in had \cup {g} : h.host = Empty
      BY DEF IInv, WholesHad
    <2> QED BY <1>1, <2>1 DEF IInv, WholesHad
  <1>5. NoHostWithoutRelation'
    BY <1>1 DEF IInv, NoHostWithoutRelation
  <1> QED BY <1>2, <1>3, <1>4, <1>5 DEF IInv

LEMMA EnvironmentKeepsIInv == IInv /\ Environment => IInv'
  <1> SUFFICES ASSUME IInv, Environment PROVE IInv'
    OBVIOUS
  <1>1. changes' \in 0..MaxChanges
    BY ConstantsAssumption
       DEF IInv, TypeOK, Environment, GatewayChange, LeaderChange, StateLost,
           Establish, Dissolve, Reconfigure, Change
  <1>2. ASSUME NEW g \in Gateways, GatewayChange(g) PROVE IInv'
    BY <1>2, GatewayChangeKeepsIInv
  <1> USE DEF IInv, TypeOK, HalvesHad, Halves, WholesHad, NoHostWithoutRelation,
              traefik, requirer
  <1>3. ASSUME NEW t \in Traefiks, LeaderChange(t) PROVE IInv'
    BY <1>1, <1>3 DEF LeaderChange
  <1>4. ASSUME NEW t \in Traefiks, StateLost(t) PROVE IInv'
    BY <1>1, <1>4 DEF StateLost, Kept, NotGiven
  <1>5. ASSUME NEW r \in Relations, Establish(r) PROVE IInv'
    <2>1. /\ r \notin open \cup seen /\ bag' = [bag EXCEPT ![r] = Nothing]
          /\ open' = open \cup {r}
          /\ UNCHANGED <<traefik, kept, config, seen, told, news>>
      BY <1>5 DEF Establish
    <2>2. told[r].host = Empty /\ Nothing \in Address
      BY <2>1 DEF Address, Nothing
    <2>3. /\ bag' \in [Relations -> Address] /\ bag'[r] = Nothing
          /\ \A x \in Relations \ {r} : bag'[x] = bag[x]
      BY <2>1, <2>2
    <2>4. TypeOK'
      BY <1>1, <2>1, <2>3
    <2>5. HalvesHad'
      <3>1. gateway' \in had' /\ \A t \in Traefiks : kept'[t] \in had' \cup {NotGiven}
        BY <2>1
      <3>2. \A x \in Relations : bag'[x] = Nothing \/ Halves(bag'[x])
        BY <2>3
      <3>3. \A x \in Relations : told'[x].host = Empty \/ Halves(told'[x])
        BY <2>1
      <3> QED BY <2>1, <3>1, <3>2, <3>3
    <2>6. WholesHad'
      <3>1. \A x \in Relations :
               told[x].host # Empty => x # r
        BY <2>2
      <3>2. \A x \in Relations : bag'[x] \in {bag[x], Nothing}
        BY <2>3
      <3> QED BY <2>1, <2>3, <3>1, <3>2
    <2>7. NoHostWithoutRelation'
      BY <2>1
    <2> QED BY <2>4, <2>5, <2>6, <2>7
  <1>6. ASSUME NEW r \in Relations, Dissolve(r) PROVE IInv'
    BY <1>1, <1>6 DEF Dissolve
  <1>7. ASSUME NEW r \in Relations, Reconfigure(r) PROVE IInv'
    BY <1>1, <1>7 DEF Reconfigure
  <1> QED BY <1>2, <1>3, <1>4, <1>5, <1>6, <1>7 DEF Environment

LEMMA RouteInvariant == Spec => []IInv
  <1>1. IInv /\ Next => IInv'
    <2> SUFFICES ASSUME IInv, Next PROVE IInv'
      OBVIOUS
    <2>1. ASSUME NEW t \in Traefiks, TraefikReconcile(t) PROVE IInv'
      <3>1. TraefikHook(t, {}) /\ news' \in [Relations -> SUBSET Traefiks]
        BY <2>1 DEF TraefikReconcile, IInv, TypeOK
      <3> QED BY <3>1, TraefikKeepsIInv
    <2>2. ASSUME NEW t \in Traefiks, NEW r \in Relations, RouteChanged(t, r)
          PROVE  IInv'
      <3>1. TraefikHook(t, {r}) /\ news' \in [Relations -> SUBSET Traefiks]
        BY <2>2 DEF RouteChanged, IInv, TypeOK
      <3> QED BY <3>1, TraefikKeepsIInv
    <2>3. ASSUME NEW r \in Relations, RequirerHook(r) \/ RouteBroken(r)
          PROVE  IInv'
      BY <2>3, RequirerKeepsIInv
    <2> QED BY <2>1, <2>2, <2>3, EnvironmentKeepsIInv DEF Next
  <1>2. IInv /\ UNCHANGED vars => IInv'
    BY DEF vars, traefik, requirer, IInv, TypeOK, HalvesHad, Halves, WholesHad,
       NoHostWithoutRelation
  <1> QED BY InitIInv, <1>1, <1>2, PTL DEF Spec

\* Every requirer's host is one Traefik had, and so is the scheme it is combined
\* with; and unless Traefik once lost its host, it had the two together, however
\* many of its units led in turn and lost their StoredState
\* (TraefikRouteProvider.update_traefik_address and
\* TraefikRouteRequirer._update_stored).
THEOREM AddressesAreWhole == Spec => []WholeAddresses
  <1>1. IInv => WholeAddresses
    BY DEF IInv, HalvesHad, WholesHad, Halves, WholeAddresses
  <1> QED BY <1>1, RouteInvariant, PTL

\* Both ends keep their types, and a requirer whose relation is gone has no
\* external host (TraefikRouteRequirer._on_relation_broken).
THEOREM RouteTypesKept == Spec => [](TypeOK /\ NoHostWithoutRelation)
  <1>1. IInv => TypeOK /\ NoHostWithoutRelation
    BY DEF IInv
  <1> QED BY <1>1, RouteInvariant, PTL

------------------------------------------------------------------------------
(* The path of requests                                                    *)

\* What Traefik has of an application is what a hook of its leader has made.
MadeByHooks ==
    \A a \in Apps :
        submitted[a] # NoConfig =>
            \E F \in SUBSET UnitsOf[a] :
                F # {} /\ submitted[a] = TraefikConfig(a, a \in guarded, F)

PathIInv == PathTypeOK /\ MadeByHooks

\* The router that a has submitted for an endpoint, and the scheme of its servers.
Own(a, e) == Router(a, a \in guarded, e)
Scheme(a, e) == IF a \in guarded THEN "https" ELSE IF e.grpc THEN "h2c" ELSE "http"

-----------------------------------------------------------------------------
(* Prefixes and paths                                                      *)

\* The first part of a prefix is a word.
LEMMA PrefixIsWords ==
    ASSUME NEW a \in Apps
    PROVE  Prefix(a) \in Seq(Words) /\ Prefix(a) \in Seq(STRING)
  <1>1. Prefix(a) \in Seq(Words)
    BY PathAssumption, ConcatProperties DEF Prefix
  <1>2. Words \subseteq STRING
    BY DEF Words
  <1> QED BY <1>1, <1>2, SeqMonotonic

\* A path behind a prefix is longer than the prefix.
LEMMA PathBehindPrefix ==
    ASSUME NEW a \in Apps, NEW p \in Paths
    PROVE  /\ Prefix(a) \o p \in Seq(STRING)
           /\ Len(Prefix(a)) \in Nat /\ Len(p) \in Nat \ {0}
           /\ Len(Prefix(a) \o p) = Len(Prefix(a)) + Len(p)
           /\ \A i \in 1 .. Len(Prefix(a)) : (Prefix(a) \o p)[i] = Prefix(a)[i]
           /\ \A i \in 1 .. Len(p) : (Prefix(a) \o p)[Len(Prefix(a)) + i] = p[i]
  <1>1. Prefix(a) \in Seq(STRING) /\ p \in Seq(STRING) /\ p # <<>>
    BY PrefixIsWords, PathAssumption
  <1>2. Len(Prefix(a)) \in Nat /\ Len(p) \in Nat \ {0}
    BY <1>1, EmptySeq, LenProperties
  <1> QED BY <1>1, <1>2, ConcatProperties

\* A path starts with the prefix it was put behind.
LEMMA OwnPrefix ==
    ASSUME NEW a \in Apps, NEW p \in Paths
    PROVE  /\ IsPrefix(Prefix(a), Prefix(a) \o p)
           /\ SubSeq(Prefix(a) \o p, Len(Prefix(a)) + 1, Len(Prefix(a) \o p)) = p
  <1> DEFINE s == Prefix(a)
             n == Len(Prefix(a))
             t == Prefix(a) \o p
             rest == SubSeq(t, n + 1, Len(t))
  <1>0. /\ s \in Seq(STRING) /\ p \in Seq(STRING) /\ t \in Seq(STRING)
        /\ n \in Nat /\ Len(p) \in Nat \ {0} /\ Len(t) = n + Len(p)
        /\ \A i \in 1 .. n : t[i] = s[i]
        /\ \A i \in 1 .. Len(p) : t[n + i] = p[i]
    BY PathBehindPrefix, PrefixIsWords, PathAssumption
  <1> HIDE DEF s, n, t
  <1>1. SubSeq(s, 1, n) = s
    BY <1>0, SubSeqFull DEF n, s
  <1>2. SubSeq(t, 1, n) = s
    <2>1. \A i \in 1 .. n : s[i] \in STRING
      BY <1>0, ElementOfSeq DEF n, s
    <2>2. /\ SubSeq(t, 1, n) \in Seq(STRING)
          /\ Len(SubSeq(t, 1, n)) = n
          /\ \A i \in 1 .. n : SubSeq(t, 1, n)[i] = s[i]
      BY <1>0, <2>1, SubSeqProperties
    <2>3. Len(s) = n
      BY DEF n, s
    <2> QED BY <1>0, <2>2, <2>3, SeqEqual
  <1>3. rest = p
    <2>1. \A i \in n + 1 .. Len(t) : t[i] \in STRING
      BY <1>0, ElementOfSeq
    <2>2. /\ rest \in Seq(STRING) /\ Len(rest) = Len(p)
          /\ \A i \in 1 .. Len(p) : rest[i] = t[n + i]
      BY <1>0, <2>1, SubSeqProperties
    <2> HIDE DEF rest
    <2> QED BY <1>0, <2>2, SeqEqual
  <1> QED BY <1>0, <1>1, <1>2, <1>3 DEF IsPrefix, n, s, t

\* A longer prefix would have the "/" of the path in it.
LEMMA NoLongerPrefix ==
    ASSUME NEW a \in Apps, NEW b \in Apps, NEW p \in Paths,
           IsPrefix(Prefix(b), Prefix(a) \o p)
    PROVE  /\ Len(Prefix(b)) <= Len(Prefix(a))
           /\ Len(Prefix(b)) = Len(Prefix(a)) => Prefix(b) = Prefix(a)
  <1> DEFINE n == Len(Prefix(a))
             m == Len(Prefix(b))
             t == Prefix(a) \o p
  <1>0. /\ Prefix(a) \in Seq(Words) /\ Prefix(b) \in Seq(Words)
        /\ n \in Nat /\ m \in Nat /\ Len(p) \in Nat \ {0}
        /\ \A i \in 1 .. n : t[i] = Prefix(a)[i]
        /\ \A i \in 1 .. Len(p) : t[n + i] = p[i]
        /\ p[1] = "/"
    BY PathBehindPrefix, PrefixIsWords, PathAssumption
  <1>1. \A i \in 1 .. m : Prefix(b)[i] \in Words /\ Prefix(b)[i] = t[i]
    <2>1. SubSeq(Prefix(b), 1, m) = SubSeq(t, 1, m) /\ m <= Len(t) /\ t \in Seq(STRING)
      BY PathBehindPrefix DEF IsPrefix
    <2>2. \A i \in 1 .. m : Prefix(b)[i] \in Words
      BY <1>0, ElementOfSeq
    <2> HIDE DEF t, m
    <2>3. \A i \in 1 .. m : SubSeq(Prefix(b), 1, m)[i] = Prefix(b)[i]
      BY <1>0, <2>2, SubSeqProperties
    <2>4. \A i \in 1 .. m : t[i] \in STRING
      <3>1. Len(t) \in Nat
        BY <2>1, LenProperties
      <3> QED BY <1>0, <2>1, <3>1, ElementOfSeq
    <2>5. \A i \in 1 .. m : SubSeq(t, 1, m)[i] = t[i]
      <3>1. m \in Int /\ 1 \in Int
        BY <1>0
      <3>2. \A i \in 1 .. m - 1 + 1 : SubSeq(t, 1, m)[i] = t[1 + i - 1]
        BY <2>4, <3>1, SubSeqProperties
      <3> QED BY <1>0, <3>2
    <2> QED BY <2>1, <2>2, <2>3, <2>5
  <1> HIDE DEF n, m, t
  <1>2. m <= n
    <2>1. SUFFICES ASSUME n < m PROVE FALSE
      BY <1>0
    <2>2. t[n + 1] = "/"
      BY <1>0
    <2>3. t[n + 1] \in Words
      BY <1>0, <1>1, <2>1
    <2> QED BY <2>2, <2>3 DEF Words
  <1>3. ASSUME m = n PROVE Prefix(b) = Prefix(a)
    <2>1. \A i \in 1 .. m : Prefix(b)[i] = Prefix(a)[i]
      BY <1>0, <1>1, <1>3
    <2> QED BY <1>0, <1>3, <2>1, SeqEqual DEF n, m
  <1> QED BY <1>2, <1>3 DEF n, m

-----------------------------------------------------------------------------
(* What Traefik makes of the configurations                                *)

\* The endpoints of nginx, and their protocols.
LEMMA TheEndpoints ==
    /\ EndpointTable = {Http, Grpc} /\ Opened = {Grpc}
    /\ Http.entryPoint = "web" /\ ~Http.grpc /\ Http.port = 8080
    /\ Grpc.entryPoint = "pyroscope-grpc-server" /\ Grpc.grpc /\ Grpc.port = 42424
  <1>1. /\ Http.entryPoint = "web" /\ ~Http.grpc /\ Http.port = 8080
        /\ Grpc.entryPoint = "pyroscope-grpc-server" /\ Grpc.grpc /\ Grpc.port = 42424
    BY DEF Http, Grpc
  <1>2. (CHOOSE e \in {Http, Grpc} : e.grpc) = Grpc
    BY <1>1
  <1> QED BY <1>1, <1>2 DEF EndpointTable, Opened

\* What an application that has submitted has made Traefik serve.
LEMMA Submitted ==
    ASSUME PathIInv, NEW a \in Serving
    PROVE  \E F \in SUBSET UnitsOf[a] :
              F # {} /\ submitted[a] = TraefikConfig(a, a \in guarded, F)
  BY DEF PathIInv, PathTypeOK, MadeByHooks, Serving

\* A service that a has submitted for one of its endpoints.
IsServiceOf(t, a) ==
    \E e \in EndpointTable, F \in SUBSET UnitsOf[a] :
        F # {} /\ t = Service(a, a \in guarded, F, e)

LEMMA OwnRouter ==
    ASSUME NEW a, NEW e
    PROVE  /\ Own(a, e).entryPoint = e.entryPoint
           /\ Own(a, e).service = NameFor(a, "service", e)
           /\ Own(a, e).rule = IF e.grpc THEN <<>> ELSE Prefix(a)
           /\ Own(a, e).redirect = IF a \in guarded THEN e.port ELSE NoRedirect
  BY DEF Own, Router

\* Every router and every service is one of an application that is serving.
LEMMA RoutersAndServices ==
    ASSUME PathIInv
    PROVE  /\ UNION {c.routers : c \in Configs}
                = {Own(be[1], be[2]) : be \in Serving \X EndpointTable}
           /\ \A t \in UNION {c.services : c \in Configs} :
                 \E b \in Serving : IsServiceOf(t, b)
           /\ \A b \in Serving, e \in EndpointTable :
                 \E F \in SUBSET UnitsOf[b] :
                    F # {} /\ Service(b, b \in guarded, F, e) \in UNION {c.services : c \in Configs}
  <1>1. Configs = {submitted[a] : a \in Serving}
    BY DEF Configs, Serving
  <1>2. ASSUME NEW a \in Serving
        PROVE  /\ submitted[a].routers = {Own(a, e) : e \in EndpointTable}
               /\ \E F \in SUBSET UnitsOf[a] :
                     /\ F # {}
                     /\ submitted[a].services
                          = {Service(a, a \in guarded, F, e) : e \in EndpointTable}
    <2>1. PICK F \in SUBSET UnitsOf[a] :
             F # {} /\ submitted[a] = TraefikConfig(a, a \in guarded, F)
      BY Submitted
    <2>2. /\ submitted[a].routers = {Own(a, e) : e \in EndpointTable}
          /\ submitted[a].services = {Service(a, a \in guarded, F, e) : e \in EndpointTable}
      <3>1. /\ TraefikConfig(a, a \in guarded, F).routers = {Own(a, e) : e \in EndpointTable}
            /\ TraefikConfig(a, a \in guarded, F).services
                 = {Service(a, a \in guarded, F, e) : e \in EndpointTable}
        BY DEF TraefikConfig, Own
      <3> QED BY <2>1, <3>1
    <2> QED BY <2>1, <2>2
  <1>3. UNION {c.routers : c \in Configs}
          = {Own(be[1], be[2]) : be \in Serving \X EndpointTable}
    <2>1. ASSUME NEW r \in UNION {c.routers : c \in Configs}
          PROVE  \E be \in Serving \X EndpointTable : r = Own(be[1], be[2])
      <3>1. PICK b \in Serving : r \in submitted[b].routers
        BY <1>1, <2>1
      <3>2. PICK e \in EndpointTable : r = Own(b, e)
        BY <1>2, <3>1
      <3>3. <<b, e>> \in Serving \X EndpointTable /\ <<b, e>>[1] = b /\ <<b, e>>[2] = e
        OBVIOUS
      <3> QED BY <3>2, <3>3
    <2>2. ASSUME NEW be \in Serving \X EndpointTable
          PROVE  Own(be[1], be[2]) \in UNION {c.routers : c \in Configs}
      <3>1. Own(be[1], be[2]) \in submitted[be[1]].routers
        BY <1>2
      <3> QED BY <1>1, <3>1
    <2> QED BY <2>1, <2>2
  <1>4. ASSUME NEW t \in UNION {c.services : c \in Configs}
        PROVE  \E b \in Serving : IsServiceOf(t, b)
    <2>1. PICK b \in Serving : t \in submitted[b].services
      BY <1>1, <1>4
    <2>2. PICK F \in SUBSET UnitsOf[b] :
             /\ F # {}
             /\ submitted[b].services
                  = {Service(b, b \in guarded, F, e) : e \in EndpointTable}
      BY <1>2
    <2>3. PICK e \in EndpointTable : t = Service(b, b \in guarded, F, e)
      BY <2>1, <2>2
    <2> QED BY <2>2, <2>3 DEF IsServiceOf
  <1>5. ASSUME NEW b \in Serving, NEW e \in EndpointTable
        PROVE  \E F \in SUBSET UnitsOf[b] :
                  F # {} /\ Service(b, b \in guarded, F, e) \in UNION {c.services : c \in Configs}
    <2>1. PICK F \in SUBSET UnitsOf[b] :
             /\ F # {}
             /\ submitted[b].services
                  = {Service(b, b \in guarded, F, d) : d \in EndpointTable}
      BY <1>2
    <2>2. Service(b, b \in guarded, F, e) \in submitted[b].services
      BY <2>1
    <2> QED BY <1>1, <2>1, <2>2
  <1> QED BY <1>3, <1>4, <1>5

\* Names tell applications apart whose prefixes differ, and entry points.
LEMMA ServiceNames ==
    ASSUME NEW a, NEW b, NEW d \in EndpointTable, NEW e \in EndpointTable,
           NameFor(a, "service", d) = NameFor(b, "service", e)
    PROVE  Prefix(a) = Prefix(b) /\ d = e
  <1>1. Prefix(a) = Prefix(b) /\ d.entryPoint = e.entryPoint
    BY DEF NameFor
  <1> QED BY <1>1, TheEndpoints

\* The servers of a router are units of its application, at the port of its
\* endpoint, and there is one.
LEMMA ServersOfOwn ==
    ASSUME PathIInv, NEW a \in Serving, NEW e \in EndpointTable,
           \A b \in Serving \ {a} : Prefix(b) # Prefix(a)
    PROVE  /\ ServersOf(Own(a, e)) # {}
           /\ \A v \in ServersOf(Own(a, e)) :
                 v.fqdn \in UnitsOf[a] /\ v.port = e.port /\ v.scheme = Scheme(a, e)
  <1> DEFINE All == UNION {c.services : c \in Configs}
             own == {t \in All : t.name = Own(a, e).service}
  <1>1. ServersOf(Own(a, e)) = UNION {s.servers : s \in own}
    BY DEF ServersOf
  <1>2. Own(a, e).service = NameFor(a, "service", e)
    BY OwnRouter
  <1>3. ASSUME NEW b, NEW tls, NEW F, NEW d
        PROVE  /\ Service(b, tls, F, d).name = NameFor(b, "service", d)
               /\ Service(b, tls, F, d).servers
                    = {[scheme |-> IF tls THEN "https" ELSE IF d.grpc THEN "h2c" ELSE "http",
                        fqdn |-> f, port |-> d.port] : f \in F}
    BY Zenon DEF Service
  <1>s. ASSUME NEW F
        PROVE  Service(a, a \in guarded, F, e).servers
                 = {[scheme |-> Scheme(a, e), fqdn |-> f, port |-> e.port] : f \in F}
    BY Zenon DEF Service, Scheme
  <1>4. ASSUME NEW t \in own
        PROVE  \E F \in SUBSET UnitsOf[a] : t = Service(a, a \in guarded, F, e)
    <2>0. PICK b \in Serving : IsServiceOf(t, b)
      BY RoutersAndServices
    <2>1. PICK d \in EndpointTable, F \in SUBSET UnitsOf[b] :
             F # {} /\ t = Service(b, b \in guarded, F, d)
      BY <2>0 DEF IsServiceOf
    <2>2. NameFor(b, "service", d) = NameFor(a, "service", e)
      BY <1>2, <1>3, <1>4, <2>1
    <2>3. Prefix(b) = Prefix(a) /\ d = e
      BY <2>2, ServiceNames
    <2>4. b = a
      BY <2>3
    <2> QED BY <2>1, <2>3, <2>4
  <1>5. ASSUME NEW v \in ServersOf(Own(a, e))
        PROVE  v.fqdn \in UnitsOf[a] /\ v.port = e.port /\ v.scheme = Scheme(a, e)
    <2>1. PICK t \in own : v \in t.servers
      BY <1>1, <1>5
    <2>2. PICK F \in SUBSET UnitsOf[a] : t = Service(a, a \in guarded, F, e)
      BY <1>4
    <2>3. PICK f \in F :
             v = [scheme |-> Scheme(a, e), fqdn |-> f, port |-> e.port]
      BY <1>s, <2>1, <2>2
    <2> QED BY <2>3
  <1>6. ServersOf(Own(a, e)) # {}
    <2>1. PICK F \in SUBSET UnitsOf[a] : F # {} /\ Service(a, a \in guarded, F, e) \in All
      BY RoutersAndServices
    <2>2. PICK f \in F : TRUE
      BY <2>1
    <2>3. Service(a, a \in guarded, F, e) \in own
      BY <1>2, <1>3, <2>1
    <2>4. [scheme |-> Scheme(a, e), fqdn |-> f, port |-> e.port]
             \in Service(a, a \in guarded, F, e).servers
      BY <1>s, <2>2
    <2> QED BY <1>1, <2>3, <2>4
  <1> QED BY <1>5, <1>6

-----------------------------------------------------------------------------
(* The invariant                                                           *)

LEMMA PathInitIInv == PathInit => PathIInv
  <1> SUFFICES ASSUME PathInit PROVE PathIInv
    OBVIOUS
  <1>1. members \in [Apps -> UNION {(SUBSET UnitsOf[a]) \ {{}} : a \in Apps}]
        /\ \A a \in Apps : members[a] \subseteq UnitsOf[a]
    BY DEF PathInit
  <1>2. \A a \in Apps : members[a] # {}
    BY <1>1
  <1>3. DOMAIN members = Apps /\ DOMAIN submitted = Apps
    BY <1>1 DEF PathInit
  <1>4. pathChanges \in 0..MaxPathChanges
    BY PathAssumption DEF PathInit
  <1>5. \A a \in Apps : submitted[a] = NoConfig
    BY DEF PathInit
  <1>6. PathTypeOK
    BY <1>1, <1>2, <1>3, <1>4, <1>5 DEF PathInit, PathTypeOK
  <1>7. MadeByHooks
    BY <1>5 DEF MadeByHooks
  <1> QED BY <1>6, <1>7 DEF PathIInv

\* A hook or a change that leaves what an application has submitted leaves that
\* it was made by a hook.
LEMMA StillMade ==
    ASSUME MadeByHooks, NEW b \in Apps, submitted'[b] = submitted[b],
           b \in guarded' <=> b \in guarded, submitted'[b] # NoConfig
    PROVE  \E F \in SUBSET UnitsOf[b] :
              F # {} /\ submitted'[b] = TraefikConfig(b, b \in guarded', F)
  <1>1. PICK F \in SUBSET UnitsOf[b] :
           F # {} /\ submitted[b] = TraefikConfig(b, b \in guarded, F)
    BY DEF MadeByHooks
  <1>2. (b \in guarded') = (b \in guarded)
    OBVIOUS
  <1> QED BY <1>1, <1>2, Zenon

LEMMA PathKeepsIInv == PathIInv /\ [PathNext]_pathVars => PathIInv'
  <1> SUFFICES ASSUME PathIInv, [PathNext]_pathVars PROVE PathIInv'
    OBVIOUS
  <1>0. PathTypeOK /\ MadeByHooks
    BY DEF PathIInv
  <1>m. SUFFICES /\ PathTypeOK'
                 /\ \A b \in Apps : submitted'[b] # NoConfig =>
                       \E F \in SUBSET UnitsOf[b] :
                          F # {} /\ submitted'[b] = TraefikConfig(b, b \in guarded', F)
    BY DEF PathIInv, MadeByHooks, TraefikConfig, Router, Service
  <1>1. CASE UNCHANGED pathVars
    <2>1. /\ UNCHANGED <<routed, secured, members, submitted, guarded, pathChanges>>
      BY <1>1 DEF pathVars
    <2> QED BY <1>0, <2>1, StillMade DEF PathTypeOK
  <1>2. ASSUME NEW a \in Apps, ReconcileIngress(a)
        PROVE  /\ PathTypeOK'
               /\ \A b \in Apps : submitted'[b] # NoConfig =>
                     \E F \in SUBSET UnitsOf[b] :
                        F # {} /\ submitted'[b] = TraefikConfig(b, b \in guarded', F)
    <2>1. /\ a \in routed /\ members[a] \in SUBSET UnitsOf[a] /\ members[a] # {}
          /\ submitted' = [submitted EXCEPT ![a] = TraefikConfig(a, a \in secured, members[a])]
          /\ guarded' = (guarded \ {a}) \cup (secured \cap {a})
          /\ UNCHANGED <<routed, secured, members, pathChanges>>
      BY <1>0, <1>2 DEF ReconcileIngress, PathTypeOK
    <2>2. /\ DOMAIN submitted' = Apps
          /\ submitted'[a] = TraefikConfig(a, a \in secured, members[a])
          /\ \A b \in Apps : b # a => submitted'[b] = submitted[b]
      BY <1>0, <2>1, Zenon DEF PathTypeOK
    <2>3. PathTypeOK'
      BY <1>0, <2>1, <2>2 DEF PathTypeOK
    <2>4. ASSUME NEW b \in Apps, submitted'[b] # NoConfig
          PROVE  \E F \in SUBSET UnitsOf[b] :
                    F # {} /\ submitted'[b] = TraefikConfig(b, b \in guarded', F)
      <3>1. CASE b = a
        <4>1. (a \in guarded') = (a \in secured)
          BY <2>1
        <4> QED BY <2>1, <2>2, <3>1, <4>1, Zenon
      <3>2. CASE b # a
        <4>1. b \in guarded' <=> b \in guarded
          BY <2>1, <3>2
        <4> QED BY <1>0, <2>2, <2>4, <3>2, <4>1, StillMade
      <3> QED BY <3>1, <3>2
    <2> QED BY <2>3, <2>4
  <1>3. ASSUME NEW a \in Apps, RemoveRoute(a)
        PROVE  /\ PathTypeOK'
               /\ \A b \in Apps : submitted'[b] # NoConfig =>
                     \E F \in SUBSET UnitsOf[b] :
                        F # {} /\ submitted'[b] = TraefikConfig(b, b \in guarded', F)
    <2>1. /\ routed' = routed \ {a} /\ submitted' = [submitted EXCEPT ![a] = NoConfig]
          /\ guarded' = guarded \ {a}
          /\ pathChanges' \in 0..MaxPathChanges
          /\ UNCHANGED <<secured, members>>
      BY <1>0, <1>3, PathAssumption DEF RemoveRoute, PathChange, PathTypeOK
    <2>2. /\ DOMAIN submitted' = Apps /\ submitted'[a] = NoConfig
          /\ \A b \in Apps : b # a => submitted'[b] = submitted[b]
      BY <1>0, <2>1, Zenon DEF PathTypeOK
    <2>3. PathTypeOK'
      BY <1>0, <2>1, <2>2 DEF PathTypeOK
    <2>4. ASSUME NEW b \in Apps, submitted'[b] # NoConfig
          PROVE  \E F \in SUBSET UnitsOf[b] :
                    F # {} /\ submitted'[b] = TraefikConfig(b, b \in guarded', F)
      <3>1. b # a /\ submitted'[b] = submitted[b] /\ (b \in guarded' <=> b \in guarded)
        BY <2>1, <2>2, <2>4
      <3> QED BY <1>0, <2>4, <3>1, StillMade
    <2> QED BY <2>3, <2>4
  <1>4. ASSUME NEW a \in Apps,
               \/ AddRoute(a) \/ CertificatesCome(a)
               \/ \E M \in (SUBSET UnitsOf[a]) \ {{}} : Scale(a, M)
        PROVE  /\ PathTypeOK'
               /\ \A b \in Apps : submitted'[b] # NoConfig =>
                     \E F \in SUBSET UnitsOf[b] :
                        F # {} /\ submitted'[b] = TraefikConfig(b, b \in guarded', F)
    <2>1. submitted' = submitted /\ guarded' = guarded /\ pathChanges' \in 0..MaxPathChanges
      BY <1>0, <1>4, PathAssumption
         DEF AddRoute, CertificatesCome, Scale, PathChange, PathTypeOK
    <2>2. PathTypeOK'
      <3>1. CASE AddRoute(a) \/ CertificatesCome(a)
        BY <1>0, <2>1, <3>1 DEF AddRoute, CertificatesCome, PathTypeOK
      <3>2. ASSUME NEW M \in (SUBSET UnitsOf[a]) \ {{}}, Scale(a, M) PROVE PathTypeOK'
        <4>1. /\ members' = [members EXCEPT ![a] = M] /\ UNCHANGED <<routed, secured>>
          BY <3>2 DEF Scale
        <4>2. /\ DOMAIN members' = Apps /\ members'[a] = M
              /\ \A b \in Apps : b # a => members'[b] = members[b]
          BY <1>0, <4>1, Zenon DEF PathTypeOK
        <4> QED BY <1>0, <2>1, <4>1, <4>2 DEF PathTypeOK
      <3> QED BY <1>4, <3>1, <3>2
    <2> QED BY <1>0, <2>1, <2>2, StillMade
  <1> QED BY <1>1, <1>2, <1>3, <1>4 DEF PathNext

LEMMA PathInvariant == PathSpec => []PathIInv
  BY PathInitIInv, PathKeepsIInv, PTL DEF PathSpec

-----------------------------------------------------------------------------
\* The router that takes an http request is of the application it is for.
LEMMA HttpTaken ==
    ASSUME PathIInv, NEW a \in Serving, NEW p \in Paths,
           \A b \in Serving \ {a} : Prefix(b) # Prefix(a)
    PROVE  Taken("web", Prefix(a) \o p) = {Own(a, Http)}
  <1> DEFINE t == Prefix(a) \o p
  <1>1. Serving \subseteq Apps
    BY DEF PathIInv, PathTypeOK, Serving
  <1>2. \A b : /\ Own(b, Http).rule = Prefix(b)
               /\ Own(b, Http).entryPoint = "web" /\ Own(b, Grpc).entryPoint # "web"
    BY TheEndpoints, OwnRouter
  <1>3. ASSUME NEW r \in Matching("web", t)
        PROVE  \E b \in Serving : r = Own(b, Http) /\ IsPrefix(Prefix(b), t)
    <2>1. /\ r \in UNION {c.routers : c \in Configs}
          /\ r.entryPoint = "web" /\ IsPrefix(r.rule, t)
      BY DEF Matching
    <2>2. PICK be \in Serving \X EndpointTable : r = Own(be[1], be[2])
      BY <2>1, RoutersAndServices
    <2>3. be[1] \in Serving /\ be[2] = Http
      BY <1>2, <2>1, <2>2, TheEndpoints
    <2> QED BY <1>2, <2>1, <2>2, <2>3
  <1>4. Own(a, Http) \in Matching("web", t)
    <2>1. <<a, Http>> \in Serving \X EndpointTable
      BY TheEndpoints
    <2>2. Own(a, Http) \in UNION {c.routers : c \in Configs}
      BY <2>1, RoutersAndServices
    <2> QED BY <1>1, <1>2, <2>2, OwnPrefix DEF Matching
  <1>5. ASSUME NEW r \in Matching("web", t)
        PROVE  Len(r.rule) <= Len(Prefix(a)) /\ (Len(r.rule) = Len(Prefix(a)) => r = Own(a, Http))
    <2>1. PICK b \in Serving : r = Own(b, Http) /\ IsPrefix(Prefix(b), t)
      BY <1>3
    <2>2. /\ Len(Prefix(b)) <= Len(Prefix(a))
          /\ Len(Prefix(b)) = Len(Prefix(a)) => Prefix(b) = Prefix(a)
      BY <1>1, <2>1, NoLongerPrefix
    <2>3. Prefix(b) = Prefix(a) => b = a
      OBVIOUS
    <2> QED BY <1>2, <2>1, <2>2, <2>3
  <1>6. \A r \in Matching("web", t) : Len(r.rule) \in Nat
    BY <1>1, <1>2, <1>3, PrefixIsWords, LenProperties
  <1>7. Own(a, Http) \in Taken("web", t)
    BY <1>2, <1>4, <1>5 DEF Taken
  <1>8. ASSUME NEW r \in Taken("web", t) PROVE r = Own(a, Http)
    <2>1. r \in Matching("web", t) /\ Len(Prefix(a)) <= Len(r.rule)
      BY <1>2, <1>4 DEF Taken
    <2>2. Len(r.rule) <= Len(Prefix(a)) /\ Len(r.rule) \in Nat /\ Len(Prefix(a)) \in Nat
      BY <1>1, <1>5, <1>6, <2>1, PrefixIsWords, LenProperties
    <2>3. Len(r.rule) = Len(Prefix(a))
      BY <2>1, <2>2
    <2> QED BY <1>5, <2>1, <2>3
  <1> QED BY <1>7, <1>8

\* What is sent by the one router that takes a request, and what is redirected.
LEMMA SentBy ==
    ASSUME NEW entry, NEW https, NEW path, NEW r,
           Taken(entry, path) = {r}, r.redirect \in {NoRedirect, https}, ServersOf(r) # {}
    PROVE  /\ Sent(entry, https, path) # {}
           /\ \A s \in Sent(entry, https, path) :
                 /\ s.server \in ServersOf(r)
                 /\ s.path = SubSeq(path, Len(r.rule) + 1, Len(path))
  <1> DEFINE rest(q) == SubSeq(path, Len(q.rule) + 1, Len(path))
             sent(q) == {[server |-> v, path |-> rest(q)] : v \in ServersOf(q)}
  <1>1. {q \in Taken(entry, path) : Passes(q, https)} = {r}
    BY DEF Passes
  <1>2. Sent(entry, https, path) = UNION {sent(q) : q \in {r}}
    BY <1>1, Zenon DEF Sent
  <1> HIDE DEF rest
  <1>3. PICK v \in ServersOf(r) : TRUE
    OBVIOUS
  <1>4. [server |-> v, path |-> rest(r)] \in sent(r)
    OBVIOUS
  <1>5. \A s \in sent(r) : s.server \in ServersOf(r) /\ s.path = rest(r)
    OBVIOUS
  <1> HIDE DEF sent
  <1>6. Sent(entry, https, path) = sent(r)
    BY <1>2
  <1> QED BY <1>4, <1>5, <1>6 DEF rest

LEMMA NotRedirected ==
    ASSUME NEW entry, NEW https, NEW path, NEW r,
           Taken(entry, path) = {r}, r.redirect \in {NoRedirect, https}
    PROVE  Redirects(entry, https, path) = {}
  BY DEF Redirects, Passes

LEMMA Redirected ==
    ASSUME NEW entry, NEW https, NEW path, NEW r,
           Taken(entry, path) = {r}, r.redirect \notin {NoRedirect, https}
    PROVE  Redirects(entry, https, path) = {r.redirect}
  BY DEF Redirects, Passes

LEMMA NothingSent ==
    ASSUME NEW entry, NEW https, NEW path, NEW r,
           Taken(entry, path) = {r}, r.redirect \notin {NoRedirect, https}
    PROVE  Sent(entry, https, path) = {}
  <1> DEFINE sent(q) == {[server |-> v, path |-> SubSeq(path, Len(q.rule) + 1, Len(path))] :
                           v \in ServersOf(q)}
  <1>1. {q \in Taken(entry, path) : Passes(q, https)} = {}
    BY DEF Passes
  <1>2. Sent(entry, https, path) = UNION {sent(q) : q \in {}}
    BY <1>1, Zenon DEF Sent
  <1> HIDE DEF sent
  <1> QED BY <1>2

\* Both halves of the promise, for http and for gRPC.
LEMMA HttpAlwaysArrives == PathIInv => HttpArrives
  <1> SUFFICES ASSUME PathIInv, NEW a \in Serving, NEW p \in Paths,
                      \A b \in Serving \ {a} : Prefix(b) # Prefix(a)
               PROVE  LET url  == Prefix(a) \o p
                          sent == Sent("web", Plain, url)
                      IN  IF a \in guarded
                          THEN sent = {} /\ Redirects("web", Plain, url) = {8080}
                          ELSE /\ sent # {} /\ Redirects("web", Plain, url) = {}
                               /\ \A s \in sent :
                                    /\ s.server.fqdn \in UnitsOf[a]
                                    /\ s.server.scheme = "http"
                                    /\ Backend(s.server.port, s.path) = Backend(8080, p)
    BY DEF HttpArrives
  <1> DEFINE url == Prefix(a) \o p
             web == "web"
  <1>0. PICK own : own = Own(a, Http)
    OBVIOUS
  <1>1. a \in Apps
    BY DEF PathIInv, PathTypeOK, Serving
  <1>2. /\ own.rule = Prefix(a)
        /\ own.redirect = IF a \in guarded THEN 8080 ELSE NoRedirect
    BY <1>0, TheEndpoints, OwnRouter
  <1>3. /\ ServersOf(own) # {}
        /\ \A v \in ServersOf(own) :
              v.fqdn \in UnitsOf[a] /\ v.port = 8080 /\ v.scheme = Scheme(a, Http)
    BY <1>0, TheEndpoints, ServersOfOwn
  <1>4. Taken(web, url) = {own}
    BY <1>0, HttpTaken
  <1>5. SubSeq(url, Len(own.rule) + 1, Len(url)) = p
    BY <1>1, <1>2, OwnPrefix
  <1> HIDE DEF url, web
  <1>6. CASE a \in guarded
    <2>1. own.redirect = 8080 /\ own.redirect \notin {NoRedirect, Plain}
      BY <1>2, <1>6 DEF Plain, NoRedirect
    <2>2. Sent(web, Plain, url) = {}
      BY <1>4, <2>1, NothingSent
    <2>3. Redirects(web, Plain, url) = {own.redirect}
      BY <1>4, <2>1, Redirected
    <2> QED BY <1>6, <2>1, <2>2, <2>3 DEF url, web
  <1>7. CASE a \notin guarded
    <2>1. own.redirect \in {NoRedirect, Plain}
      BY <1>2, <1>7
    <2>2. /\ Sent(web, Plain, url) # {}
          /\ \A s \in Sent(web, Plain, url) : s.server \in ServersOf(own) /\ s.path = p
      <3>1. ServersOf(own) # {}
        BY <1>3
      <3>2. /\ Sent(web, Plain, url) # {}
            /\ \A s \in Sent(web, Plain, url) :
                  /\ s.server \in ServersOf(own)
                  /\ s.path = SubSeq(url, Len(own.rule) + 1, Len(url))
        BY <1>4, <2>1, <3>1, SentBy
      <3> QED BY <1>5, <3>2
    <2>3. Redirects(web, Plain, url) = {}
      BY <1>4, <2>1, NotRedirected
    <2>4. Scheme(a, Http) = "http"
      BY <1>7, TheEndpoints DEF Scheme
    <2> QED BY <1>3, <1>7, <2>2, <2>3, <2>4 DEF url, web
  <1> QED BY <1>6, <1>7

LEMMA GrpcAlwaysArrives == PathIInv => GrpcArrives
  <1> DEFINE call == <<"/", "opentelemetry.proto.collector">>
  <1> SUFFICES ASSUME PathIInv, NEW a \in Serving, Serving = {a},
                      NEW r \in submitted[a].routers, r.entryPoint # "web"
               PROVE  \E e \in submitted[a].static :
                        LET https == IF a \in guarded THEN e.port ELSE Plain
                            sent  == Sent(r.entryPoint, https, call)
                        IN  /\ e.entryPoint = r.entryPoint
                            /\ Redirects(r.entryPoint, Plain, call) = {https} \ {Plain}
                            /\ sent # {}
                            /\ \A s \in sent :
                                 /\ s.server.fqdn \in UnitsOf[a]
                                 /\ s.server.scheme = IF a \in guarded THEN "https" ELSE "h2c"
                                 /\ Backend(s.server.port, s.path) = {"distributor"}
    BY Zenon DEF GrpcArrives
  <1>0. call \in Seq({"/", "opentelemetry.proto.collector"}) /\ Len(call) = 2
    OBVIOUS
  <1> HIDE DEF call
  <1>1. PICK F \in SUBSET UnitsOf[a] :
           F # {} /\ submitted[a] = TraefikConfig(a, a \in guarded, F)
    BY Submitted
  <1>2. /\ submitted[a].routers = {Own(a, e) : e \in EndpointTable}
        /\ submitted[a].static = {[entryPoint |-> e.entryPoint, port |-> e.port] : e \in Opened}
    <2>1. /\ TraefikConfig(a, a \in guarded, F).routers = {Own(a, e) : e \in EndpointTable}
          /\ TraefikConfig(a, a \in guarded, F).static
               = {[entryPoint |-> e.entryPoint, port |-> e.port] : e \in Opened}
      BY DEF TraefikConfig, Own
    <2> QED BY <1>1, <2>1
  <1>3. /\ Own(a, Http).entryPoint = "web" /\ Own(a, Grpc).rule = <<>>
        /\ Own(a, Grpc).entryPoint = "pyroscope-grpc-server"
        /\ Own(a, Grpc).redirect = IF a \in guarded THEN 42424 ELSE NoRedirect
    BY TheEndpoints, OwnRouter
  <1>4. r = Own(a, Grpc)
    BY <1>2, <1>3, TheEndpoints
  <1>5. PICK e \in submitted[a].static : e.entryPoint = r.entryPoint /\ e.port = 42424
    <2>1. [entryPoint |-> Grpc.entryPoint, port |-> Grpc.port] \in submitted[a].static
      BY <1>2, TheEndpoints
    <2> QED BY <1>3, <1>4, <2>1, TheEndpoints
  <1>6. Matching(r.entryPoint, call) = {r}
    <2>1. ASSUME NEW s \in Matching(r.entryPoint, call) PROVE s = r
      <3>1. s \in UNION {c.routers : c \in Configs} /\ s.entryPoint = r.entryPoint
        BY <2>1 DEF Matching
      <3>2. PICK be \in Serving \X EndpointTable : s = Own(be[1], be[2])
        BY <3>1, RoutersAndServices
      <3>3. be[1] = a /\ be[2] \in {Http, Grpc}
        BY <3>2, TheEndpoints
      <3> QED BY <1>3, <1>4, <3>1, <3>2, <3>3
    <2>2. r \in UNION {c.routers : c \in Configs}
      <3>1. <<a, Grpc>> \in Serving \X EndpointTable
        BY TheEndpoints
      <3> QED BY <1>4, <3>1, RoutersAndServices
    <2>3. IsPrefix(<<>>, call)
      <3>1. SubSeq(<<>>, 1, 0) = <<>> /\ SubSeq(call, 1, 0) = <<>>
        BY SubSeqEmpty
      <3>2. Len(<<>>) = 0
        OBVIOUS
      <3> QED BY <1>0, <3>1, <3>2 DEF IsPrefix
    <2>4. r \in Matching(r.entryPoint, call)
      BY <1>3, <1>4, <2>2, <2>3 DEF Matching
    <2> QED BY <2>1, <2>4
  <1>7. Taken(r.entryPoint, call) = {r}
    <2>1. Len(r.rule) <= Len(r.rule)
      BY <1>3, <1>4
    <2> QED BY <1>6, <2>1 DEF Taken
  <1>8. /\ ServersOf(r) # {}
        /\ \A v \in ServersOf(r) :
              /\ v.fqdn \in UnitsOf[a] /\ v.port = 42424
              /\ v.scheme = IF a \in guarded THEN "https" ELSE "h2c"
    <2>1. /\ ServersOf(Own(a, Grpc)) # {}
          /\ \A v \in ServersOf(Own(a, Grpc)) :
                v.fqdn \in UnitsOf[a] /\ v.port = Grpc.port /\ v.scheme = Scheme(a, Grpc)
      BY TheEndpoints, ServersOfOwn
    <2>2. Grpc.port = 42424 /\ Scheme(a, Grpc) = IF a \in guarded THEN "https" ELSE "h2c"
      BY TheEndpoints DEF Scheme
    <2> QED BY <1>4, <2>1, <2>2
  <1>9. Backend(42424, call) = {"distributor"}
    <2> DEFINE own   == Location(call, FALSE, "distributor")
               table == ServerPortsToLocations(42424)
               fits  == {m \in table :
                           IF m.exact THEN m.path = call ELSE IsPrefix(m.path, call)}
    <2>1. table = {own}
      BY DEF ServerPortsToLocations, call
    <2>2. own.path = call /\ own.exact = FALSE /\ own.backend = "distributor"
      BY DEF Location
    <2>3. Backend(42424, call) = {l.backend : l \in fits}
      BY DEF Backend
    <2> HIDE DEF own, table
    <2>4. IsPrefix(call, call)
      BY <1>0 DEF IsPrefix
    <2>5. fits = {own}
      BY <2>1, <2>2, <2>4
    <2> HIDE DEF fits
    <2> QED BY <2>2, <2>3, <2>5
  <1> DEFINE entry == r.entryPoint
  <1>h. PICK https : https = IF a \in guarded THEN e.port ELSE Plain
    OBVIOUS
  <1>10. r.redirect \in {NoRedirect, https}
    BY <1>3, <1>4, <1>5, <1>h
  <1>11. SubSeq(call, Len(r.rule) + 1, Len(call)) = call
    <2>1. Len(r.rule) + 1 = 1
      BY <1>3, <1>4
    <2> QED BY <1>0, <2>1, SubSeqFull
  <1>12. Taken(entry, call) = {r}
    BY <1>7
  <1> HIDE DEF entry
  <1>13. /\ Sent(entry, https, call) # {}
         /\ \A s \in Sent(entry, https, call) : s.server \in ServersOf(r) /\ s.path = call
    <2>1. ServersOf(r) # {}
      BY <1>8
    <2>2. /\ Sent(entry, https, call) # {}
          /\ \A s \in Sent(entry, https, call) :
                /\ s.server \in ServersOf(r)
                /\ s.path = SubSeq(call, Len(r.rule) + 1, Len(call))
      BY <1>10, <1>12, <2>1, SentBy
    <2> QED BY <1>11, <2>2
  <1>14. Redirects(entry, Plain, call) = {https} \ {Plain}
    <2>1. CASE a \in guarded
      <3>1. r.redirect = 42424 /\ https = r.redirect /\ Plain = 0
            /\ r.redirect \notin {NoRedirect, Plain}
        BY <1>3, <1>4, <1>5, <1>h, <2>1 DEF Plain, NoRedirect
      <3>2. Redirects(entry, Plain, call) = {r.redirect}
        BY <1>12, <3>1, Redirected
      <3> QED BY <3>1, <3>2
    <2>2. CASE a \notin guarded
      <3>1. r.redirect \in {NoRedirect, Plain} /\ https = Plain
        BY <1>3, <1>4, <1>h, <2>2
      <3>2. Redirects(entry, Plain, call) = {}
        BY <1>12, <3>1, NotRedirected
      <3> QED BY <3>1, <3>2
    <2> QED BY <2>1, <2>2
  <1>15. \A s \in Sent(entry, https, call) :
           /\ s.server.fqdn \in UnitsOf[a]
           /\ s.server.scheme = IF a \in guarded THEN "https" ELSE "h2c"
           /\ Backend(s.server.port, s.path) = {"distributor"}
    BY <1>8, <1>9, <1>13
  <1> QED BY <1>5, <1>h, <1>13, <1>14, <1>15 DEF entry

\* Plain requests reach the units of the coordinator they are for and the
\* backend they are for, through Traefik and nginx (TraefikConfig, NginxConfig),
\* for any number of applications behind one Traefik and any names and paths; a
\* coordinator with certificates has them redirected to https at its nginx port,
\* and over that its gRPC calls arrive.
THEOREM RequestsAlwaysArrive == PathSpec => []RequestsArrive
  <1>1. PathIInv => RequestsArrive
    BY HttpAlwaysArrives, GrpcAlwaysArrives DEF RequestsArrive
  <1> QED BY <1>1, PathInvariant, PTL

==============================================================================
