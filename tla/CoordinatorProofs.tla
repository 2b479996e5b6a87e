------------------------- MODULE CoordinatorProofs -------------------------
(***************************************************************************)
(* Theorems about the coordinator application, for any number of units,    *)
(* relations, hosts and environment changes.                               *)
(***************************************************************************)
EXTENDS Coordinator, TLAPS

-----------------------------------------------------------------------------
(* What the helpers of a hook return                                       *)

LEMMA HookValues ==
    /\ NoHook \notin Hooks
    /\ UpdateStatus \in Hooks
    /\ \A v \in Units : Joined(v) \in Hooks /\ Departed(v) \in Hooks
    /\ \A r \in Relations : Created(r) \in Hooks /\ Broken(r) \in Hooks
  BY DEF Hooks, NoHook, UpdateStatus, Joined, Departed, Created, Broken

\* The StoredState and the endpoints a hook computes are well typed.
LEMMA HelperTypes ==
    ASSUME TypeOK, ConstantsAssumption,
           NEW u \in Units, NEW e, NEW view \in SUBSET Relations
    PROVE  /\ StoredAtInit(u, view) \in Address
           /\ StoredAfter(u, e, view) \in Address
           /\ DiskAfter(u) \in BOOLEAN
           /\ DiskAfter(u) => u \in conn
           /\ \A st \in Address, disk \in BOOLEAN :
                 /\ MostExternalHttpUrl(view, st, disk) \in Endpoint
                 /\ ProfilingEndpoint(view, st, disk) \in Endpoint
                 /\ CatalogueItem(u, view, st) \in Endpoint
  <1>1. StoredAtInit(u, view) \in Address
    <2>1. stored[u] \in Address /\ traefik \in Address
      BY DEF TypeOK
    <2>2. UpdateStored(stored[u]) \in Address
      BY <2>1 DEF UpdateStored, Address
    <2>. QED BY <2>1, <2>2 DEF StoredAtInit
  <1>2. StoredAfter(u, e, view) \in Address
    BY <1>1 DEF StoredAfter, Address
  <1>3. DiskAfter(u) \in BOOLEAN /\ (DiskAfter(u) => u \in conn)
    <2>1. DiskAfter(u) \in BOOLEAN
      BY DEF DiskAfter
    <2>2. u \notin conn => ~DiskAfter(u)
      BY DEF TypeOK, DiskAfter
    <2>. QED BY <2>1, <2>2
  <1>4. ASSUME NEW st \in Address, NEW disk \in BOOLEAN
        PROVE  /\ MostExternalHttpUrl(view, st, disk) \in Endpoint
               /\ ProfilingEndpoint(view, st, disk) \in Endpoint
               /\ CatalogueItem(u, view, st) \in Endpoint
    <2>1. IsIngressed(view, st) => st.host \in Hosts
      BY DEF IsIngressed, Address
    <2>2. ASSUME NEW d \in BOOLEAN
          PROVE  MostExternalHttpUrl(view, st, d) \in Endpoint
      BY <2>1 DEF MostExternalHttpUrl, Endpoint
    <2>3. CatalogueItem(u, view, st) \in Endpoint
      <3>1. (u \in certs) \in BOOLEAN
        OBVIOUS
      <3>. QED BY <2>2, <3>1, Zenon DEF CatalogueItem
    <2>4. ProfilingEndpoint(view, st, disk) \in Endpoint
      <3>. IsIngressed(view, st) \in BOOLEAN
        BY DEF IsIngressed
      <3>1. CASE IsIngressed(view, st)
        BY <2>1, <3>1 DEF ProfilingEndpoint, Endpoint, IsExternalUrlTls
      <3>2. CASE ~IsIngressed(view, st)
        BY <3>2 DEF ProfilingEndpoint, Endpoint
      <3>. QED BY <3>1, <3>2
    <2>. QED BY <2>2, <2>3, <2>4
  <1>. QED BY <1>1, <1>2, <1>3, <1>4

LEMMA AdvertiseType ==
    ASSUME TypeOK, ConstantsAssumption,
           NEW u \in Units, NEW e, NEW view \in SUBSET Relations
    PROVE  Advertise(u, e, view) \in [Advertised -> Endpoint \cup {Empty}]
  <1>. DEFINE st   == StoredAfter(u, e, view)
              disk == DiskAfter(u)
              prof == ProfilingEndpoint(view, st, disk)
              url  == MostExternalHttpUrl(view, st, disk)
              item == CatalogueItem(u, view, StoredAtInit(u, view))
              T    == Endpoint \cup {Empty}
              bag(r) == CASE r \in Profilers  -> PublishEndpoint(u, r, prof)
                          [] r \in Grafanas   -> UpdateAppSource(u, r, url)
                          [] r \in Catalogues -> UpdateItem(u, r, item)
  <1>1. prof \in T /\ url \in T /\ item \in T
    BY HelperTypes
  <1>2. \A r \in Advertised : adverts[r] \in T
    BY DEF TypeOK
  <1>. HIDE DEF prof, url, item, T
  <1>3. ASSUME NEW r \in Advertised PROVE bag(r) \in T
    BY <1>1, <1>2 DEF PublishEndpoint, UpdateAppSource, UpdateItem, Advertised
  <1>4. Advertise(u, e, view) = [r \in Advertised |-> IF r \in view THEN bag(r)
                                                     ELSE adverts[r]]
    BY DEF Advertise, prof, url, item
  <1>. HIDE DEF bag
  <1>. QED BY <1>2, <1>3, <1>4 DEF T

\* What a hook changes and what it leaves alone, whatever the event.
LEMMA DispatchType ==
    ASSUME TypeOK, ConstantsAssumption,
           NEW u \in live, NEW e \in Hooks, NEW view \in SUBSET Relations,
           NEW peers \in SUBSET Units, Dispatch(u, e, view, peers)
    PROVE  TypeOK'
  <1>. USE DEF TypeOK
  <1>0. u \in Units
    OBVIOUS
  <1>1. UNCHANGED <<live, gone, leader, established, traefik, hostsSoFar,
                    assigned, conn, changes>>
    BY DEF Dispatch, juju, remote, pods
  <1>2. certs' \subseteq conn
    BY <1>0, HelperTypes DEF Dispatch
  <1>3. retry' \in [Units -> Hooks \cup {NoHook}]
    BY DEF Dispatch
  <1>4. seen' \in [Units -> SUBSET Relations]
        /\ members' \in [Units -> SUBSET Units]
    BY DEF Dispatch
  <1>5. stored' \in [Units -> Address]
    BY <1>0, HelperTypes DEF Dispatch
  <1>6. announced' \subseteq live \cup gone
    BY DEF Dispatch, Announce, bags
  <1>7. adverts' \in [Advertised -> Endpoint \cup {Empty}]
    <2>1. CASE UNCHANGED bags
      BY <2>1 DEF bags
    <2>2. CASE ~ UNCHANGED bags
      <3>1. adverts' = Advertise(u, e, view)
        BY <2>2 DEF Dispatch
      <3>2. Advertise(u, e, view) \in [Advertised -> Endpoint \cup {Empty}]
        BY <1>0, AdvertiseType
      <3>. QED BY <3>1, <3>2
    <2>. QED BY <2>1, <2>2
  <1>8. routes' \in [fqdns : SUBSET Units, tls : BOOLEAN]
    <2>1. GetFqdns(u, view, peers) \in SUBSET Units
      BY <1>0 DEF GetFqdns
    <2>2. SubmitToTraefik(u, view, peers, DiskAfter(u))
            \in [fqdns : SUBSET Units, tls : BOOLEAN]
      BY <2>1, <1>0, HelperTypes DEF SubmitToTraefik
    <2>. QED BY <2>2 DEF Dispatch, bags
  <1>. QED BY <1>1, <1>2, <1>3, <1>4, <1>5, <1>6, <1>7, <1>8

-----------------------------------------------------------------------------
(* Type correctness                                                        *)

\* Every event of a unit is a Dispatch of a legal hook.
LEMMA HookIsDispatch ==
    ASSUME TypeOK, NEW u \in Units, Hook(u)
    PROVE  /\ u \in live
           /\ \E e \in Hooks, view \in SUBSET Relations, peers \in SUBSET Units :
                 Dispatch(u, e, view, peers)
  <1>1. seen[u] \in SUBSET Relations /\ members[u] \in SUBSET Units
    BY DEF TypeOK
  <1>2. CASE OtherEvent(u)
    BY <1>1, <1>2, HookValues DEF OtherEvent
  <1>3. ASSUME NEW r \in Relations, RelationCreated(u, r)
        PROVE  /\ u \in live
               /\ Dispatch(u, Created(r), seen[u] \cup {r}, members[u])
    BY <1>3 DEF RelationCreated
  <1>4. ASSUME NEW r \in Relations, RelationBroken(u, r)
        PROVE  /\ u \in live
               /\ Dispatch(u, Broken(r), seen[u] \ {r}, members[u])
    BY <1>4 DEF RelationBroken
  <1>5. ASSUME NEW v \in Units, PeerJoined(u, v)
        PROVE  /\ u \in live
               /\ Dispatch(u, Joined(v), seen[u], members[u] \cup {v})
    BY <1>5 DEF PeerJoined
  <1>6. ASSUME NEW v \in Units, PeerDeparted(u, v)
        PROVE  /\ u \in live
               /\ Dispatch(u, Departed(v), seen[u], members[u] \ {v})
    BY <1>6 DEF PeerDeparted
  <1>7. \A r \in Relations : /\ seen[u] \cup {r} \in SUBSET Relations
                             /\ seen[u] \ {r} \in SUBSET Relations
    BY <1>1
  <1>8. \A v \in Units : /\ members[u] \cup {v} \in SUBSET Units
                         /\ members[u] \ {v} \in SUBSET Units
    BY <1>1
  <1>9. CASE \E r \in Relations : RelationCreated(u, r)
    BY <1>1, <1>3, <1>7, <1>9, HookValues
  <1>10. CASE \E r \in Relations : RelationBroken(u, r)
    BY <1>1, <1>4, <1>7, <1>10, HookValues
  <1>11. CASE \E v \in Units : PeerJoined(u, v)
    BY <1>1, <1>5, <1>8, <1>11, HookValues
  <1>12. CASE \E v \in Units : PeerDeparted(u, v)
    BY <1>1, <1>6, <1>8, <1>12, HookValues
  <1>. QED BY <1>2, <1>9, <1>10, <1>11, <1>12 DEF Hook

LEMMA EnvironmentType ==
    ASSUME TypeOK, ConstantsAssumption, Environment
    PROVE  TypeOK'
  <1>. USE DEF TypeOK, juju, remote, pods, views, bags, Change
  <1>1. ASSUME LoseLease PROVE TypeOK'
    BY <1>1 DEF LoseLease
  <1>2. ASSUME NEW u \in Units, AddUnit(u) PROVE TypeOK'
    BY <1>2 DEF AddUnit
  <1>3. ASSUME NEW u \in Units, RemoveUnit(u) PROVE TypeOK'
    BY <1>3 DEF RemoveUnit
  <1>4. ASSUME NEW u \in Units, Elect(u) PROVE TypeOK'
    BY <1>4 DEF Elect
  <1>5. ASSUME NEW u \in Units, CertificateChange(u) PROVE TypeOK'
    BY <1>5 DEF CertificateChange
  <1>6. ASSUME NEW u \in Units, ContainerReady(u) PROVE TypeOK'
    BY <1>6 DEF ContainerReady
  <1>7. ASSUME NEW u \in Units, ContainerRestart(u) PROVE TypeOK'
    BY <1>7 DEF ContainerRestart
  <1>8. ASSUME NEW u \in Units, PodRestart(u) PROVE TypeOK'
    BY <1>8 DEF PodRestart, NoAddress, Address, Schemes
  <1>9. ASSUME NEW r \in Relations, Establish(r) PROVE TypeOK'
    <2>1. CASE r = Ingress
      <3>1. NoAddress \in Address /\ NoRoutes \in [fqdns : SUBSET Units,
                                                  tls : BOOLEAN]
        BY DEF NoAddress, Address, Schemes, NoRoutes
      <3>2. established' = established \cup {r} /\ changes' \in 0..MaxChanges
        BY <1>9 DEF Establish
      <3>. HIDE DEF Change
      <3>. QED BY <1>9, <2>1, <3>1, <3>2 DEF Establish
    <2>2. CASE r # Ingress
      BY <1>9, <2>2 DEF Establish
    <2>. QED BY <2>1, <2>2
  <1>10. ASSUME NEW r \in Relations, Dissolve(r) PROVE TypeOK'
    BY <1>10 DEF Dissolve
  <1>11. ASSUME NEW a \in Address, TraefikAnnounce(a) PROVE TypeOK'
    BY <1>11 DEF TraefikAnnounce, Address
  <1>. QED BY <1>1, <1>2, <1>3, <1>4, <1>5, <1>6, <1>7, <1>8, <1>9, <1>10,
              <1>11 DEF Environment

LEMMA InitType == ASSUME Init, ConstantsAssumption PROVE TypeOK
  <1>. USE DEF Init
  <1>1. /\ live \subseteq Units /\ gone \subseteq Units
        /\ leader \in live \cup {NoUnit}
        /\ established \subseteq Relations
        /\ hostsSoFar \subseteq Hosts
        /\ assigned \subseteq live /\ conn \subseteq live /\ certs \subseteq conn
        /\ seen \in [Units -> SUBSET Relations]
        /\ members \in [Units -> SUBSET Units]
        /\ retry \in [Units -> Hooks \cup {NoHook}]
        /\ announced \subseteq live \cup gone
        /\ adverts \in [Advertised -> Endpoint \cup {Empty}]
    OBVIOUS
  <1>2. NoAddress \in Address
    BY DEF NoAddress, Address, Schemes
  <1>3. routes \in [fqdns : SUBSET Units, tls : BOOLEAN]
    BY DEF NoRoutes
  <1>4. changes \in 0..MaxChanges
    BY DEF ConstantsAssumption
  <1>. QED BY <1>1, <1>2, <1>3, <1>4 DEF TypeOK

LEMMA StepType ==
    ASSUME TypeOK, ConstantsAssumption, [Next]_vars
    PROVE  TypeOK'
  <1>1. ASSUME NEW u \in Units, Hook(u) PROVE TypeOK'
    BY <1>1, HookIsDispatch, DispatchType
  <1>2. CASE UNCHANGED vars
    BY <1>2 DEF vars, juju, remote, pods, views, bags, TypeOK
  <1>. QED BY <1>1, <1>2, EnvironmentType DEF Next

\* Every variable of the application keeps its type; among the rest, the
\* certificate files are only ever found on a container that answers, and
\* only units that were there have announced themselves.
THEOREM TypeCorrect == Spec => []TypeOK
  <1>1. Init => TypeOK
    BY InitType, ConstantsAssumption
  <1>2. TypeOK /\ [Next]_vars => TypeOK'
    BY StepType, ConstantsAssumption
  <1>. QED BY <1>1, <1>2, PTL DEF Spec

-----------------------------------------------------------------------------
(* The inductive invariant                                                 *)

\* What holds of the event, the relations and the peers of a hook: Ingress
\* enters and leaves the view only by its own events, and is never shown to a
\* unit that was not told of the peers relation.
Legal(u, e, view, peers) ==
    /\ Dispatch(u, e, view, peers)
    /\ Peers \in view
    /\ e # Broken(Peers)
    /\ Ingress \in seen[u] \ view => e = Broken(Ingress)
    /\ e = Broken(Ingress) => Ingress \notin view
    /\ Ingress \in view => Peers \in seen[u]

LEMMA HookIsLegal ==
    ASSUME TypeOK, PeersFirst, ConstantsAssumption, NEW u \in Units, Hook(u)
    PROVE  /\ u \in live
           /\ \E e \in Hooks, view \in SUBSET Relations, peers \in SUBSET Units :
                 Legal(u, e, view, peers)
  <1>0. Peers # Ingress
    BY DEF ConstantsAssumption
  <1>1. seen[u] \in SUBSET Relations /\ members[u] \in SUBSET Units
    BY DEF TypeOK
  <1>2. CASE OtherEvent(u)
    <2>1. u \in live /\ Legal(u, UpdateStatus, seen[u], members[u])
      BY <1>2 DEF OtherEvent, Legal, UpdateStatus, Broken
    <2>. QED BY <2>1, <1>1, HookValues
  <1>3. ASSUME NEW r \in Relations, RelationCreated(u, r)
        PROVE  u \in live /\ Legal(u, Created(r), seen[u] \cup {r}, members[u])
    BY <1>3, <1>0 DEF RelationCreated, Legal, Created, Broken, PeersFirst
  <1>4. ASSUME NEW r \in Relations, RelationBroken(u, r)
        PROVE  u \in live /\ Legal(u, Broken(r), seen[u] \ {r}, members[u])
    <2>1. r # Peers
      BY <1>4 DEF RelationBroken, PeersFirst
    <2>2. Peers \in seen[u]
      <3>1. r \in seen[u] \/ retry[u] = Broken(r)
        BY <1>4 DEF RelationBroken
      <3>2. Broken(r) # NoHook
        BY HookValues
      <3>. QED BY <3>1, <3>2 DEF PeersFirst
    <2>3. Broken(r) # Broken(Peers)
      BY <2>1 DEF Broken
    <2>4. Broken(r) = Broken(Ingress) => r = Ingress
      BY DEF Broken
    <2>. QED BY <1>4, <2>1, <2>2, <2>3, <2>4 DEF RelationBroken, Legal
  <1>5. ASSUME NEW v \in Units, PeerJoined(u, v)
        PROVE  u \in live /\ Legal(u, Joined(v), seen[u], members[u] \cup {v})
    BY <1>5 DEF PeerJoined, Legal, Joined, Broken
  <1>6. ASSUME NEW v \in Units, PeerDeparted(u, v)
        PROVE  u \in live /\ Legal(u, Departed(v), seen[u], members[u] \ {v})
    <2>1. Peers \in seen[u]
      <3>1. v \in members[u] \/ retry[u] = Departed(v)
        BY <1>6 DEF PeerDeparted
      <3>2. Departed(v) # NoHook
        BY HookValues
      <3>. QED BY <3>1, <3>2 DEF PeersFirst
    <2>. QED BY <1>6, <2>1 DEF PeerDeparted, Legal, Departed, Broken
  <1>7. \A r \in Relations : /\ seen[u] \cup {r} \in SUBSET Relations
                             /\ seen[u] \ {r} \in SUBSET Relations
    BY <1>1
  <1>8. \A v \in Units : /\ members[u] \cup {v} \in SUBSET Units
                         /\ members[u] \ {v} \in SUBSET Units
    BY <1>1
  <1>9. CASE \E r \in Relations : RelationCreated(u, r)
    BY <1>1, <1>3, <1>7, <1>9, HookValues
  <1>10. CASE \E r \in Relations : RelationBroken(u, r)
    BY <1>1, <1>4, <1>7, <1>10, HookValues
  <1>11. CASE \E v \in Units : PeerJoined(u, v)
    BY <1>1, <1>5, <1>8, <1>11, HookValues
  <1>12. CASE \E v \in Units : PeerDeparted(u, v)
    BY <1>1, <1>6, <1>8, <1>12, HookValues
  <1>. QED BY <1>2, <1>9, <1>10, <1>11, <1>12 DEF Hook

\* The seven conjuncts of IInv across a hook.
LEMMA HookInductive ==
    ASSUME IInv, ConstantsAssumption, NEW u \in Units, Hook(u)
    PROVE  IInv'
  <1>. USE DEF IInv
  <1>0. u \in live /\ u \in Units
    BY HookIsLegal
  <1>. PICK e \in Hooks, view \in SUBSET Relations, peers \in SUBSET Units :
            Legal(u, e, view, peers)
    BY HookIsLegal
  <1>1. TypeOK'
    BY <1>0, DispatchType DEF Legal
  <1>. DEFINE fails == /\ u = leader /\ Ingress \in view
                       /\ ~PeersReadable(view, peers)
  <1>2. UNCHANGED <<live, gone, leader, established, traefik, hostsSoFar,
                    assigned, conn, changes>>
    BY DEF Legal, Dispatch, juju, remote, pods
  <1>3. CASE fails
    <2>1. UNCHANGED <<seen, members, stored, announced, adverts, routes>>
          /\ retry' = [retry EXCEPT ![u] = e]
      BY <1>3 DEF Legal, Dispatch, bags
    <2>2. Peers \in seen[u]
      BY <1>3 DEF Legal
    <2>3. PeersFirst'
      BY <1>2, <2>1, <2>2 DEF PeersFirst, Legal, TypeOK
    <2>. QED BY <1>1, <1>2, <2>1, <2>3 DEF UnbornUntouched, HistoryKept,
                RoutesAnnounced, HostOnlyWithIngress, NoHostFromOldIngress
  <1>4. CASE ~fails
    <2>1. /\ seen' = [seen EXCEPT ![u] = view]
          /\ members' = [members EXCEPT ![u] = peers]
          /\ stored' = [stored EXCEPT ![u] = StoredAfter(u, e, view)]
          /\ retry' = [retry EXCEPT ![u] = NoHook]
          /\ announced' = announced \cup {u}
      BY <1>4 DEF Legal, Dispatch, Announce
    <2>2. PeersFirst'
      <3>1. NoHook # Broken(Peers)
        BY DEF NoHook, Broken
      <3>. QED BY <1>2, <2>1, <3>1 DEF PeersFirst, Legal, TypeOK
    <2>3. UnbornUntouched'
      BY <1>0, <1>2, <2>1 DEF UnbornUntouched, TypeOK
    <2>4. HistoryKept'
      BY <1>2 DEF HistoryKept
    <2>5. RoutesAnnounced'
      <3>1. CASE u = leader /\ Ingress \in view
        <4>1. routes'.fqdns = peers \cup {u}
          BY <1>4, <3>1 DEF Legal, Dispatch, GetFqdns, SubmitToTraefik
        <4>2. peers \subseteq announced
          BY <1>4, <3>1 DEF PeersReadable, Legal
        <4>. QED BY <2>1, <4>1, <4>2 DEF RoutesAnnounced
      <3>2. CASE ~(u = leader /\ Ingress \in view)
        BY <1>4, <2>1, <3>2 DEF Legal, Dispatch, RoutesAnnounced
      <3>. QED BY <3>1, <3>2
    <2>6. HostOnlyWithIngress'
      <3>1. StoredAfter(u, e, view).host # NoHost => Ingress \in view
        BY DEF Legal, StoredAfter, StoredAtInit, HostOnlyWithIngress
      <3>. QED BY <2>1, <3>1 DEF HostOnlyWithIngress, TypeOK
    <2>7. NoHostFromOldIngress'
      <3>1. Ingress \in view /\ Ingress \in established
              => StoredAfter(u, e, view).host \in hostsSoFar \cup {NoHost}
        <4>. HAVE Ingress \in view /\ Ingress \in established
        <4>1. stored[u].host \in hostsSoFar \cup {NoHost}
          BY <1>0 DEF NoHostFromOldIngress, HostOnlyWithIngress
        <4>2. UpdateStored(stored[u]).host \in hostsSoFar \cup {NoHost}
          BY <4>1 DEF UpdateStored, HistoryKept
        <4>. QED BY <4>2 DEF StoredAfter, StoredAtInit
      <3>. QED BY <1>2, <2>1, <3>1 DEF NoHostFromOldIngress, TypeOK
    <2>. QED BY <1>1, <2>2, <2>3, <2>4, <2>5, <2>6, <2>7
  <1>. QED BY <1>3, <1>4

\* ... across a change of the environment,
LEMMA EnvironmentInductive ==
    ASSUME IInv, ConstantsAssumption, Environment
    PROVE  IInv'
  <1>. USE DEF IInv, juju, remote, pods, views, bags
  <1>. DEFINE Rest == /\ PeersFirst /\ UnbornUntouched /\ HistoryKept
                      /\ RoutesAnnounced /\ HostOnlyWithIngress
                      /\ NoHostFromOldIngress
  <1>. USE DEF PeersFirst, UnbornUntouched, HistoryKept, RoutesAnnounced,
               HostOnlyWithIngress, NoHostFromOldIngress
  <1>0. TypeOK'
    BY EnvironmentType
  <1>1. ASSUME LoseLease PROVE Rest'
    BY <1>1 DEF LoseLease
  <1>2. ASSUME NEW u \in Units, AddUnit(u) PROVE Rest'
    BY <1>2 DEF AddUnit
  <1>3. ASSUME NEW u \in Units, RemoveUnit(u) PROVE Rest'
    BY <1>3 DEF RemoveUnit
  <1>4. ASSUME NEW u \in Units, Elect(u) PROVE Rest'
    BY <1>4 DEF Elect
  <1>5. ASSUME NEW u \in Units, CertificateChange(u) PROVE Rest'
    BY <1>5 DEF CertificateChange
  <1>6. ASSUME NEW u \in Units, ContainerReady(u) PROVE Rest'
    BY <1>6 DEF ContainerReady
  <1>7. ASSUME NEW u \in Units, ContainerRestart(u) PROVE Rest'
    BY <1>7 DEF ContainerRestart
  <1>8. ASSUME NEW u \in Units, PodRestart(u) PROVE Rest'
    BY <1>8 DEF PodRestart, NoAddress, TypeOK
  <1>9. ASSUME NEW r \in Relations, Establish(r) PROVE Rest'
    BY <1>9 DEF Establish, NoAddress, NoRoutes, TypeOK
  <1>10. ASSUME NEW r \in Relations, Dissolve(r) PROVE Rest'
    BY <1>10 DEF Dissolve
  <1>11. ASSUME NEW a \in Address, TraefikAnnounce(a) PROVE Rest'
    BY <1>11 DEF TraefikAnnounce
  <1>. QED BY <1>0, <1>1, <1>2, <1>3, <1>4, <1>5, <1>6, <1>7, <1>8, <1>9,
              <1>10, <1>11 DEF Environment

LEMMA Invariant == Spec => []IInv
  <1>1. Init => IInv
    BY InitType, ConstantsAssumption DEF Init, IInv, PeersFirst, UnbornUntouched,
       HistoryKept, RoutesAnnounced, HostOnlyWithIngress, NoHostFromOldIngress,
       NoAddress, NoRoutes, NoHook, Broken
  <1>2. IInv /\ [Next]_vars => IInv'
    <2>. SUFFICES ASSUME IInv, [Next]_vars PROVE IInv'
      OBVIOUS
    <2>1. ASSUME NEW u \in Units, Hook(u) PROVE IInv'
      BY <2>1, HookInductive, ConstantsAssumption
    <2>2. CASE Environment
      BY <2>2, EnvironmentInductive, ConstantsAssumption
    <2>3. CASE UNCHANGED vars
      BY <2>3 DEF vars, juju, remote, pods, views, bags, IInv, TypeOK, PeersFirst,
         UnbornUntouched, HistoryKept, RoutesAnnounced, HostOnlyWithIngress,
         NoHostFromOldIngress
    <2>. QED BY <2>1, <2>2, <2>3 DEF Next
  <1>. QED BY <1>1, <1>2, PTL DEF Spec

-----------------------------------------------------------------------------
(* The theorems                                                            *)

\* Traefik is only ever told to balance over units that put their fqdn in
\* the peers databag themselves, whatever the order of joins, departures,
\* elections and failed hooks.
THEOREM RoutesAreAnnounced == Spec => []RoutesAnnounced
  BY Invariant, PTL DEF IInv

\* A unit that does not see an "ingress" relation knows no external host.
THEOREM HostNeedsIngress == Spec => []HostOnlyWithIngress
  BY Invariant, PTL DEF IInv

\* No unit carries the host of a removed "ingress" relation over to the next
\* one, although its StoredState survives the relation and the scheme in it
\* is not cleared.
THEOREM OldIngressForgotten == Spec => []NoHostFromOldIngress
  BY Invariant, PTL DEF IInv

\* Every publication of the leader is the same endpoint, with the same
\* security, on all profiling and Grafana relations; and on the catalogue
\* relation too unless the certificate files changed in that very hook.
THEOREM PublicationsAgree == Spec => AdvertsAgree /\ CatalogueAgrees
  <1>. DEFINE Agree(S) == \A r, s \in seen'[leader] \cap S :
                              adverts'[r] = adverts'[s]
              Step == /\ adverts' # adverts /\ UNCHANGED established
                           => Agree(Profilers \cup Grafanas)
                      /\ adverts' # adverts /\ UNCHANGED <<established, certs>>
                           => Agree(Advertised)
  <1>1. ASSUME IInv, Next PROVE Step
    <2>1. CASE Environment
      <3>1. UNCHANGED adverts \/ established' # established
        BY <2>1 DEF Environment, LoseLease, AddUnit, RemoveUnit, Elect,
           CertificateChange, ContainerReady, ContainerRestart, PodRestart,
           Establish, Dissolve, TraefikAnnounce, bags, juju
      <3>. QED BY <3>1
    <2>2. ASSUME NEW u \in Units, Hook(u), adverts' # adverts PROVE Step
      <3>. u \in live
        BY <1>1, <2>2, HookIsLegal, ConstantsAssumption DEF IInv
      <3>. PICK e \in Hooks, view \in SUBSET Relations, peers \in SUBSET Units :
                Legal(u, e, view, peers)
        BY <1>1, <2>2, HookIsLegal, ConstantsAssumption DEF IInv
      <3>. DEFINE st == StoredAfter(u, e, view)
                  url == MostExternalHttpUrl(view, st, DiskAfter(u))
                  prof == ProfilingEndpoint(view, st, DiskAfter(u))
                  item == CatalogueItem(u, view, StoredAtInit(u, view))
                  bag(r) == CASE r \in Profilers  -> prof
                              [] r \in Grafanas   -> url
                              [] r \in Catalogues -> item
      <3>1. /\ ~ UNCHANGED bags
            /\ adverts' = Advertise(u, e, view)
            /\ seen' = [seen EXCEPT ![u] = view]
        BY <2>2 DEF Legal, Dispatch, bags
      <3>2. u = leader
        <4>1. adverts = [r \in Advertised |-> adverts[r]]
          BY <1>1 DEF IInv, TypeOK
        <4>2. u # leader => Advertise(u, e, view)
                              = [r \in Advertised |-> adverts[r]]
          BY DEF Advertise, PublishEndpoint, UpdateAppSource, UpdateItem,
                 Advertised
        <4>. QED BY <2>2, <3>1, <4>1, <4>2
      <3>2b. \A r \in view \cap Advertised : adverts'[r] = bag(r)
        BY <3>1, <3>2 DEF Advertise, PublishEndpoint, UpdateAppSource,
           UpdateItem
      <3>3. seen'[leader] = view
        <4>1. DOMAIN seen = Units
          BY <1>1 DEF IInv, TypeOK
        <4>. QED BY <2>2, <3>1, <3>2, <4>1
      <3>4. prof = url
        BY DEF ProfilingEndpoint, MostExternalHttpUrl, IsExternalUrlTls
      <3>5. \A r \in view \cap (Profilers \cup Grafanas) : adverts'[r] = url
        BY <3>4, <3>2b, ConstantsAssumption DEF Advertised
      <3>6. certs' = certs => item = url
        <4>. HAVE certs' = certs
        <4>1. DiskAfter(u) <=> u \in certs
          BY DEF Legal, Dispatch
        <4>2. Ingress \in view => st = StoredAtInit(u, view)
          BY DEF Legal, StoredAfter
        <4>3. DiskAfter(u) = (u \in certs)
          <5>1. \A b, c \in BOOLEAN : (b <=> c) => b = c
            OBVIOUS
          <5>2. DiskAfter(u) \in BOOLEAN /\ (u \in certs) \in BOOLEAN
            BY DEF DiskAfter
          <5>. QED BY <4>1, <5>1, <5>2, Zenon
        <4>4. CASE Ingress \in view
          BY <4>2, <4>3, <4>4 DEF CatalogueItem, MostExternalHttpUrl, IsIngressed
        <4>5. CASE Ingress \notin view
          BY <4>3, <4>5 DEF CatalogueItem, MostExternalHttpUrl, IsIngressed
        <4>. QED BY <4>4, <4>5
      <3>7. \A r \in view \cap Catalogues : adverts'[r] = item
        BY <3>2b, ConstantsAssumption DEF Advertised
      <3>. HIDE DEF url, item
      <3>. QED BY <3>3, <3>5, <3>6, <3>7 DEF Advertised
    <2>. QED BY <1>1, <2>1, <2>2 DEF Next
  <1>2. IInv /\ [Next]_vars => [Step]_vars
    BY <1>1
  <1>3. [][Step]_vars => AdvertsAgree /\ CatalogueAgrees
    <2>1. [Step]_vars => [adverts' # adverts /\ UNCHANGED established
                            => Agree(Profilers \cup Grafanas)]_vars
      OBVIOUS
    <2>2. [Step]_vars => [adverts' # adverts /\ UNCHANGED <<established, certs>>
                            => Agree(Advertised)]_vars
      OBVIOUS
    <2>. QED BY <2>1, <2>2, PTL DEF AdvertsAgree, CatalogueAgrees
  <1>. QED BY <1>2, <1>3, Invariant, PTL DEF Spec

\* What the catalogue shows of the coordinator (CatalogueConsumer.update_item)
\* is where the leader's other adverts say it is, unless the hook that wrote it
\* also changed the certificate files.
THEOREM CatalogueFollows == Spec => CatalogueAgrees
  BY PublicationsAgree

=============================================================================
