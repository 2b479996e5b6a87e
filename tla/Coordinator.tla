---------------------------- MODULE Coordinator ----------------------------
(***************************************************************************)
(* The pyroscope coordinator application (coordinator/src/charm.py): its   *)
(* units, the Juju hooks they run, and what the leader publishes about how *)
(* to reach Pyroscope.                                                     *)
(*                                                                         *)
(* A hook is one atomic step: the charm object is built, the libraries and *)
(* the coordinated_workers Coordinator react, then _reconcile runs, and    *)
(* only when all of it succeeds does Juju commit the databag writes and    *)
(* ops the StoredState.  Files pushed to the nginx container are there     *)
(* whether the hook succeeds or not, and a failed hook is run again.       *)
(***************************************************************************)
EXTENDS Naturals, FiniteSets

CONSTANTS
    Units,       \* the units the application may ever have
    Hosts,       \* the external hosts Traefik may announce
    Profilers,   \* "profiling" relations
    Grafanas,    \* "grafana-source" relations
    Peers,       \* the "peers" relation
    Ingress,     \* the "ingress" relation (limit: 1)
    Catalogues,  \* "catalogue" relations
    NoUnit,      \* no leader
    NoHost,      \* Traefik announced no host
    AppHost,     \* the application's Kubernetes service, app_hostname
    Changing,    \* the kinds of change of the environment considered
    MaxChanges   \* bound on the number of those changes

\* The relations whose application databag tells the other side where
\* Pyroscope is.
Advertised == Profilers \cup Grafanas \cup Catalogues

Relations == {Peers, Ingress} \cup Advertised

ChangeKinds ==
    {"units", "lease", "relations", "traefik", "certificates", "containers"}

ASSUME ConstantsAssumption ==
    /\ Changing \subseteq ChangeKinds
    /\ MaxChanges \in Nat
    /\ NoUnit \notin Units
    /\ NoHost \notin Hosts /\ AppHost \notin Hosts /\ NoHost # AppHost
    /\ Peers # Ingress /\ {Peers, Ingress} \cap Advertised = {}
    /\ Profilers \cap Grafanas = {}
    /\ Profilers \cap Catalogues = {}
    /\ Grafanas \cap Catalogues = {}

VARIABLES
    live,        \* units that entered the scope of the peers relation
    gone,        \* units that were removed
    leader,      \* the unit holding the leadership lease, or NoUnit
    established, \* relations that exist in the model
    traefik,     \* what Traefik's application databag says on "ingress"
    hostsSoFar,  \* history: the hosts announced on this "ingress" relation
    assigned,    \* units whose certificate request has been fulfilled
    conn,        \* units whose nginx container answers (can_connect)
    certs,       \* units with the three certificate files on nginx's disk
    seen,        \* seen[u]: relations u was told of (created, not broken)
    members,     \* members[u]: peers u was told of (joined, not departed)
    stored,      \* stored[u]: TraefikRouteRequirer's StoredState
    retry,       \* retry[u]: the hook that failed and must be run again
    announced,   \* units whose peers databag holds their fqdn
    adverts,     \* adverts[r]: the endpoint in our application databag on r
    routes,      \* the configuration submitted to Traefik
    changes      \* how many changes the environment has made

juju   == <<live, gone, leader, established>>
pods   == <<assigned, conn>>
views  == <<seen, members, stored, retry>>
bags   == <<announced, adverts, routes>>
remote == <<traefik, hostsSoFar>>
vars   == <<juju, remote, pods, certs, views, bags, changes>>

-----------------------------------------------------------------------------
(* Values *)

Schemes  == {"none", "http", "https"}
Address  == [host : Hosts \cup {NoHost}, scheme : Schemes]
NoAddress == [host |-> NoHost, scheme |-> "none"]

\* An advertised endpoint; tls stands for an https scheme, and for
\* insecure=False in the profiling databag.
Endpoint == [host : Hosts \cup {AppHost}, tls : BOOLEAN]
Empty    == [host |-> NoHost, tls |-> FALSE]

NoRoutes == [fqdns |-> {}, tls |-> FALSE]

\* The hooks of a unit: what happened, and to which peer or relation.
UpdateStatus == <<"update-status", NoUnit>>
Joined(v)    == <<"joined", v>>
Departed(v)  == <<"departed", v>>
Created(r)   == <<"created", r>>
Broken(r)    == <<"broken", r>>
NoHook       == <<"none", NoUnit>>
Hooks        == {UpdateStatus} \cup {Joined(v) : v \in Units}
                  \cup {Departed(v) : v \in Units}
                  \cup {Created(r) : r \in Relations}
                  \cup {Broken(r) : r \in Relations}

-----------------------------------------------------------------------------
(* What a charm object computes in a hook.  view is the set of relations   *)
(* ops shows to it (a relation being broken is hidden), st its StoredState *)
(* and disk whether the certificate files are on its nginx container.      *)

\* TraefikRouteRequirer._update_stored: a value missing from Traefik's
\* databag leaves the stored one as it was.
UpdateStored(st) ==
    [host   |-> IF traefik.host # NoHost THEN traefik.host ELSE st.host,
     scheme |-> IF traefik.scheme # "none" THEN traefik.scheme ELSE st.scheme]

\* The StoredState __init__ sees: building the URLs reads scheme and
\* external_host, which refresh it while there is an "ingress" relation.
StoredAtInit(u, view) ==
    IF Ingress \in view THEN UpdateStored(stored[u]) ELSE stored[u]

\* ... and _reconcile: _on_relation_broken forgets the host, not the scheme.
KeepOnBroken(u, e, view) == StoredAtInit(u, view)
StoredAfter(u, e, view) ==
    IF e = Broken(Ingress) THEN [StoredAtInit(u, view) EXCEPT !.host = NoHost]
                           ELSE StoredAtInit(u, view)

\* The Coordinator pushes the unit's certificate to nginx or removes it.
PushWithoutConnect(u) == u \in assigned
DiskAfter(u) ==
    \/ u \in conn /\ u \in assigned
    \/ u \notin conn /\ u \in certs

IsIngressed(view, st) ==
    /\ Ingress \in view
    /\ st.scheme # "none"
    /\ st.host # NoHost

MostExternalHttpUrl(view, st, disk) ==
    IF IsIngressed(view, st)
    THEN [host |-> st.host, tls |-> st.scheme = "https"]
    ELSE [host |-> AppHost, tls |-> disk]

IsExternalUrlTls(view, st) == IsIngressed(view, st) /\ st.scheme = "https"

\* The arguments of publish_endpoint: the gRPC endpoint, and the negation of
\* "insecure".
InternalTlsOnly(view, st, disk) ==
    [host |-> IF IsIngressed(view, st) THEN st.host ELSE AppHost, tls |-> disk]
ProfilingEndpoint(view, st, disk) ==
    [host |-> IF IsIngressed(view, st) THEN st.host ELSE AppHost,
     tls  |-> IF IsIngressed(view, st) THEN IsExternalUrlTls(view, st)
                                       ELSE disk]

\* The catalogue item is built in __init__, before the certificate files are
\* pushed or removed.
InternalCatalogue(u, view, st) == [host |-> AppHost, tls |-> u \in certs]
CatalogueItem(u, view, st) == MostExternalHttpUrl(view, st, u \in certs)

-----------------------------------------------------------------------------
(* What is written.  Each operator is the content of the databag after u   *)
(* has written to it, or tried to.                                         *)

\* Peers.get_fqdns can read the data of every peer it was told of.
SkipUnreadable(view, peers) == TRUE
PeersReadable(view, peers) == Peers \notin view \/ peers \subseteq announced

PeersOnly(u, view, peers) == peers
GetFqdns(u, view, peers) == (IF Peers \in view THEN peers ELSE {}) \cup {u}

\* Peers.reconcile: the unit's fqdn goes to its own databag.
LeaderAnnounces(u, view) == IF u = leader THEN announced \cup {u} ELSE announced
Announce(u, view) == IF Peers \in view THEN announced \cup {u} ELSE announced

\* publish_endpoint goes through on the leader; elsewhere Juju's refusal is
\* caught and the next relation tried.
PublishEndpoint(u, r, endpoint) == IF u = leader THEN endpoint ELSE adverts[r]

\* GrafanaSourceProvider._set_host_details: the application's source is the
\* leader's to write.
UpdateAppSource(u, r, url) == IF u = leader THEN url ELSE adverts[r]

\* CatalogueConsumer.update_item
UpdateItem(u, r, item) == IF u = leader THEN item ELSE adverts[r]

\* _reconcile_ingress, past its guard: what TraefikRouteRequirer submits.  The
\* certificates are the leader's own, the fqdns everybody's.
SubmitToTraefik(u, view, peers, disk) ==
    [fqdns |-> GetFqdns(u, view, peers), tls |-> disk]

-----------------------------------------------------------------------------
(* The hook                                                                *)

\* The databags of the advertising relations after the hook.
Advertise(u, e, view) ==
    LET st   == StoredAfter(u, e, view)
        disk == DiskAfter(u)
        item == CatalogueItem(u, view, StoredAtInit(u, view))
        bag(r) ==
          CASE r \in Profilers  ->
                 PublishEndpoint(u, r, ProfilingEndpoint(view, st, disk))
            [] r \in Grafanas   ->
                 UpdateAppSource(u, r, MostExternalHttpUrl(view, st, disk))
            [] r \in Catalogues -> UpdateItem(u, r, item)
    IN  [r \in Advertised |-> IF r \in view THEN bag(r) ELSE adverts[r]]

\* Unit u runs hook e with the relations view and the peers peers.
Dispatch(u, e, view, peers) ==
    LET disk    == DiskAfter(u)
        submits == u = leader /\ Ingress \in view
        fails   == submits /\ ~PeersReadable(view, peers)
    IN  /\ retry[u] \in {NoHook, e}
        /\ certs' = IF disk THEN certs \cup {u} ELSE certs \ {u}
        /\ retry' = [retry EXCEPT ![u] = IF fails THEN e ELSE NoHook]
        /\ IF fails
           THEN UNCHANGED <<seen, members, stored, bags>>
           ELSE /\ seen' = [seen EXCEPT ![u] = view]
                /\ members' = [members EXCEPT ![u] = peers]
                /\ stored' = [stored EXCEPT ![u] = StoredAfter(u, e, view)]
                /\ announced' = Announce(u, view)
                /\ adverts' = Advertise(u, e, view)
                /\ routes' = IF submits
                             THEN SubmitToTraefik(u, view, peers, disk)
                             ELSE routes
        /\ UNCHANGED <<juju, remote, pods, changes>>

\* A unit is told of the peers relation before anything else happens to it
\* that the charm could see.
RelationCreated(u, r) ==
    /\ u \in live
    /\ r \in established \ seen[u] \/ retry[u] = Created(r)
    /\ r = Peers \/ Peers \in seen[u]
    /\ Dispatch(u, Created(r), seen[u] \cup {r}, members[u])

RelationBroken(u, r) ==
    /\ u \in live
    /\ r \in seen[u] \ established \/ retry[u] = Broken(r)
    /\ Dispatch(u, Broken(r), seen[u] \ {r}, members[u])

PeerJoined(u, v) ==
    /\ u \in live
    /\ Peers \in seen[u]
    /\ v \in live \ (members[u] \cup {u}) \/ retry[u] = Joined(v)
    /\ Dispatch(u, Joined(v), seen[u], members[u] \cup {v})

PeerDeparted(u, v) ==
    /\ u \in live
    /\ v \in members[u] \ live \/ retry[u] = Departed(v)
    /\ Dispatch(u, Departed(v), seen[u], members[u] \ {v})

\* Every other event the charm reconciles on: update-status, config-changed,
\* pebble-ready, leader-elected, relation-changed, secret-changed...
OtherEvent(u) ==
    /\ u \in live
    /\ Peers \in seen[u]
    /\ Dispatch(u, UpdateStatus, seen[u], members[u])

Hook(u) ==
    \/ OtherEvent(u)
    \/ \E r \in Relations : RelationCreated(u, r) \/ RelationBroken(u, r)
    \/ \E v \in Units : PeerJoined(u, v) \/ PeerDeparted(u, v)

-----------------------------------------------------------------------------
(* The environment: Juju, Kubernetes, Traefik and the certificates provider *)

Change(kind) ==
    /\ kind \in Changing
    /\ changes < MaxChanges
    /\ changes' = changes + 1

\* juju add-unit: the unit's agent enters the scope of the peers relation
\* before its charm has run.
AddUnit(u) ==
    /\ Change("units")
    /\ u \notin live \cup gone
    /\ live' = live \cup {u}
    /\ conn' = conn \cup {u}
    /\ UNCHANGED <<gone, leader, established, remote, assigned, certs, views,
                   bags>>

\* A unit is removed after it has run hooks, never the last one and never
\* while it is in error: its own departure is handled by hooks too.
RemoveUnit(u) ==
    /\ Change("units")
    /\ u \in live /\ u \in announced /\ retry[u] = NoHook /\ live # {u}
    /\ live' = live \ {u}
    /\ gone' = gone \cup {u}
    /\ leader' = IF leader = u THEN NoUnit ELSE leader
    /\ conn' = conn \ {u} /\ certs' = certs \ {u} /\ assigned' = assigned \ {u}
    /\ UNCHANGED <<established, remote, views, bags>>

LoseLease ==
    /\ Change("lease")
    /\ leader # NoUnit
    /\ leader' = NoUnit
    /\ UNCHANGED <<live, gone, established, remote, pods, certs, views, bags>>

Elect(u) ==
    /\ leader = NoUnit
    /\ u \in live
    /\ leader' = u
    /\ UNCHANGED <<live, gone, established, remote, pods, certs, views, bags,
                   changes>>

\* A new relation has a new id and empty databags.
Establish(r) ==
    /\ Change("relations")
    /\ r \in Relations \ established
    /\ \A u \in live : r \notin seen[u] /\ retry[u] # Created(r)
    /\ established' = established \cup {r}
    /\ IF r = Ingress
       THEN /\ traefik' = NoAddress
            /\ hostsSoFar' = {}
            /\ routes' = NoRoutes
            /\ UNCHANGED adverts
       ELSE /\ adverts' = [adverts EXCEPT ![r] = Empty]
            /\ UNCHANGED <<remote, routes>>
    /\ UNCHANGED <<live, gone, leader, pods, certs, views, announced>>

Dissolve(r) ==
    /\ Change("relations")
    /\ r \in established \ {Peers}
    /\ established' = established \ {r}
    /\ UNCHANGED <<live, gone, leader, remote, pods, certs, views, bags>>

\* TraefikRouteProvider.update_traefik_address writes host and scheme
\* together; the host is empty while Traefik has none, also after it had one.
TraefikAnnounce(a) ==
    /\ Change("traefik")
    /\ Ingress \in established
    /\ a.scheme # "none"
    /\ traefik # a
    /\ traefik' = a
    /\ hostsSoFar' = hostsSoFar \cup ({a.host} \ {NoHost})
    /\ UNCHANGED <<juju, pods, certs, views, bags>>

\* The unit's certificate arrives, or is lost: expired, revoked, relation
\* removed, or waiting for the answer to a renewal.
CertificateChange(u) ==
    /\ Change("certificates")
    /\ u \in live
    /\ assigned' = IF u \in assigned THEN assigned \ {u} ELSE assigned \cup {u}
    /\ UNCHANGED <<juju, remote, conn, certs, views, bags>>

ContainerReady(u) ==
    /\ u \in live \ conn
    /\ conn' = conn \cup {u}
    /\ UNCHANGED <<juju, remote, assigned, certs, views, bags, changes>>

\* The files pushed to a container do not survive it.
ContainerRestart(u) ==
    /\ Change("containers")
    /\ u \in conn
    /\ conn' = conn \ {u}
    /\ certs' = certs \ {u}
    /\ UNCHANGED <<juju, remote, assigned, views, bags>>

\* The pod is rescheduled: StoredState is kept in the charm container.
PodRestart(u) ==
    /\ Change("containers")
    /\ u \in live
    /\ conn' = conn \ {u}
    /\ certs' = certs \ {u}
    /\ stored' = [stored EXCEPT ![u] = NoAddress]
    /\ UNCHANGED <<juju, remote, assigned, seen, members, retry, bags>>

Environment ==
    \/ LoseLease
    \/ \E u \in Units : AddUnit(u) \/ RemoveUnit(u) \/ Elect(u)
    \/ \E u \in Units : CertificateChange(u) \/ ContainerReady(u)
                          \/ ContainerRestart(u) \/ PodRestart(u)
    \/ \E r \in Relations : Establish(r) \/ Dissolve(r)
    \/ \E a \in Address : TraefikAnnounce(a)

-----------------------------------------------------------------------------
(* The specification                                                       *)

\* A deployment: some units and relations, and no hook has run yet.
Init ==
    /\ live \in (SUBSET Units) \ {{}}
    /\ gone = {}
    /\ leader \in live
    /\ established \in {R \in SUBSET Relations : Peers \in R}
    /\ traefik = NoAddress
    /\ hostsSoFar = {}
    /\ assigned = {} /\ conn = live /\ certs = {}
    /\ seen = [u \in Units |-> {}]
    /\ members = [u \in Units |-> {}]
    /\ stored = [u \in Units |-> NoAddress]
    /\ retry = [u \in Units |-> NoHook]
    /\ announced = {}
    /\ adverts = [r \in Advertised |-> Empty]
    /\ routes = NoRoutes
    /\ changes = 0

Next == Environment \/ \E u \in Units : Hook(u)

Spec == Init /\ [][Next]_vars

\* Juju gives every unit its pending events and an update-status every few
\* minutes, runs a failed hook again, and elects a leader when there is none;
\* Kubernetes restarts a container.
Fairness ==
    /\ \A u \in Units :
         /\ WF_vars(OtherEvent(u))
         /\ WF_vars(ContainerReady(u))
         /\ \A r \in Relations : /\ WF_vars(RelationCreated(u, r))
                                 /\ WF_vars(RelationBroken(u, r))
         /\ \A v \in Units : WF_vars(PeerJoined(u, v))
                               /\ WF_vars(PeerDeparted(u, v))
    /\ WF_vars(\E u \in Units : Elect(u))

FairSpec == Spec /\ Fairness

-----------------------------------------------------------------------------
(* Properties                                                              *)

TypeOK ==
    /\ live \subseteq Units /\ gone \subseteq Units
    /\ leader \in live \cup {NoUnit}
    /\ established \subseteq Relations
    /\ traefik \in Address
    /\ hostsSoFar \subseteq Hosts
    /\ assigned \subseteq live /\ conn \subseteq live /\ certs \subseteq conn
    /\ seen \in [Units -> SUBSET Relations]
    /\ members \in [Units -> SUBSET Units]
    /\ stored \in [Units -> Address]
    /\ retry \in [Units -> Hooks \cup {NoHook}]
    /\ announced \subseteq live \cup gone
    /\ adverts \in [Advertised -> Endpoint \cup {Empty}]
    /\ routes \in [fqdns : SUBSET Units, tls : BOOLEAN]
    /\ changes \in 0..MaxChanges

\* Traefik is only ever given the fqdn of units that have put it in the
\* peers databag themselves: a peer that joined and has not run yet makes the
\* leader's hook fail rather than end up in the routes.
RoutesAnnounced == routes.fqdns \subseteq announced

\* No unit takes the external host of an earlier "ingress" relation for that
\* of the present one, although StoredState outlives the relation.
NoHostFromOldIngress ==
    \A u \in live : Ingress \in seen[u] /\ Ingress \in established
        => stored[u].host \in hostsSoFar \cup {NoHost}

\* Without the "ingress" relation in its view a unit knows no external host.
HostOnlyWithIngress ==
    \A u \in Units : stored[u].host # NoHost => Ingress \in seen[u]

\* What the three invariants above need to be inductive: a unit is told of
\* the peers relation first and for good, a unit that is not there yet has
\* been told nothing, and the history is that of the present relation.
PeersFirst ==
    /\ Peers \in established
    /\ \A u \in Units : seen[u] # {} \/ members[u] # {} \/ retry[u] # NoHook
         => Peers \in seen[u]
    /\ \A u \in Units : retry[u] # Broken(Peers)

UnbornUntouched == \A u \in Units \ (live \cup gone) : seen[u] = {}

HistoryKept == traefik.host \in hostsSoFar \cup {NoHost}

IInv ==
    /\ TypeOK
    /\ PeersFirst
    /\ UnbornUntouched
    /\ HistoryKept
    /\ RoutesAnnounced
    /\ HostOnlyWithIngress
    /\ NoHostFromOldIngress

\* After a hook of the leader every profiling and Grafana databag it can see
\* names the same endpoint with the same security: the "insecure" flag and
\* the https of the data source URL come from different code.
AdvertsAgree ==
    [][adverts' # adverts /\ UNCHANGED established
         => \A r, s \in seen'[leader] \cap (Profilers \cup Grafanas) :
                adverts'[r] = adverts'[s]]_vars

\* The catalogue entry, taken before the certificate files are handled, may
\* differ from the rest only in a hook that pushes or removes those files.
CatalogueAgrees ==
    [][adverts' # adverts /\ UNCHANGED <<established, certs>>
         => \A r, s \in seen'[leader] \cap Advertised :
                adverts'[r] = adverts'[s]]_vars

\* What the databags should say: the host Traefik announces, or the service
\* of the application.  Of a host Traefik has withdrawn nothing is claimed but
\* that it was announced on this relation: the requirer keeps it.
Current(a) ==
    IF Ingress \notin established THEN a = [host |-> AppHost,
                                            tls  |-> leader \in assigned]
    ELSE IF traefik.host # NoHost THEN a = [host |-> traefik.host,
                                            tls  |-> traefik.scheme = "https"]
    ELSE a.host \in hostsSoFar \cup {AppHost}

Converged ==
    /\ leader # NoUnit
    /\ \A r \in established \cap Advertised : Current(adverts[r])
    /\ Ingress \in established
         => routes = [fqdns |-> live, tls |-> leader \in assigned]

\* When the environment stops changing, everything published becomes and
\* stays what it should be: Traefik balances over exactly the units there
\* are, and every advertised endpoint is the current one.
Converges == <>[]Converged

\* A hook that failed succeeds in the end: the peer whose fqdn was missing
\* does not need the leader in order to publish it.
FailedHookRecovers ==
    \A u \in Units : (u \in live /\ retry[u] # NoHook) ~> (retry[u] = NoHook)

=============================================================================
