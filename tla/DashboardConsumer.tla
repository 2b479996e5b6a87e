------------------------- MODULE DashboardConsumer --------------------------
(***************************************************************************)
(* The consumer of grafana_k8s/v0/grafana_dashboard.py: the leader of      *)
(* Grafana validates what each relation offers and keeps it in the databag *)
(* of the peers, from which every unit provisions its server.              *)
(***************************************************************************)
EXTENDS Naturals, FiniteSets

CONSTANTS
    GrafanaUnits,   \* units of Grafana
    Offerers,       \* relations with providers of dashboards
    IdOrder,        \* IdOrder[r]: the rank of the relation id of r as a string
    Dashboards,     \* templates, records of uid, version and whether they render
    NoUid,          \* a dashboard without "uid"
    Offers,         \* the sets of templates a provider may publish
    Nothing,        \* no dashboards in the databag
    MaxOfferChanges \* bound on the changes of the environment

ASSUME OfferAssumption ==
    /\ \A d \in Dashboards : d.version \in Nat /\ d.renders \in BOOLEAN
    /\ \A r, s \in Offerers : IdOrder[r] = IdOrder[s] => r = s
    /\ \A r \in Offerers : IdOrder[r] \in Nat
    /\ Offers \subseteq SUBSET Dashboards
    /\ Nothing \notin Offers
    /\ MaxOfferChanges \in Nat

VARIABLES
    offered,       \* offered[r]: the templates in the databag of the provider
    offerRelated,  \* relations there are
    offerSeen,     \* offerSeen[g]: relations unit g knows of
    offerNews,     \* offerNews[g]: relation-changed events g has still to run
    grafanaLeader,
    caughtUp,      \* history: the leader has seen all offers since its election
    leaseMoved,    \* history: the leader has changed
    dashStore,     \* dashStore[r]: the dashboards of r in the peers' databag
    dashInvalid,   \* relations with "errors" in the event Grafana publishes
    storeNews,     \* units with a relation-changed of the peers still to run
    inGrafana,     \* inGrafana[g]: the dashboards in the server of g
    offerChanges

offerVars == <<offered, offerRelated, offerSeen, offerNews, grafanaLeader,
               caughtUp, leaseMoved, dashStore, dashInvalid, storeNews,
               inGrafana, offerChanges>>

\* The property "dashboards": of those with one uid the highest version, then
\* the relation whose id is last as a string; those without a uid are omitted.
Kept(store) == {e \in Offerers \X Dashboards :
                  e[2] \in store[e[1]] /\ e[2].uid # NoUid}
Beats(e, f) == \/ e[2].version > f[2].version
               \/ e[2].version = f[2].version /\ IdOrder[e[1]] > IdOrder[f[1]]
Winners(store) ==
    {e \in Kept(store) : \A f \in Kept(store) : f[2].uid = e[2].uid => ~Beats(f, e)}

\* dashboards_changed, on which Grafana's charm provisions the server.
ProvisionDashboards(g) == inGrafana' = [inGrafana EXCEPT ![g] = Winners(dashStore')]

IsInvalid(r) == offered[r] # Nothing /\ \E d \in offered[r] : ~d.renders
IsOffer(r)   == offered[r] # Nothing /\ \A d \in offered[r] : d.renders

\* _render_dashboards_and_signal_changed: one template that does not render
\* takes all those of the relation away.
SkipInvalid(R) ==
    [r \in Offerers |-> IF r \in R /\ offered[r] # Nothing
                        THEN {d \in offered[r] : d.renders} ELSE dashStore[r]]
Rendered(R) ==
    [r \in Offerers |-> IF r \in R /\ IsOffer(r) THEN offered[r]
                        ELSE IF r \in R /\ IsInvalid(r) THEN {} ELSE dashStore[r]]

ErrorsAfter(R) ==
    (dashInvalid \cup {r \in R : IsInvalid(r)}) \ {r \in R : IsOffer(r)}

\* has_invalid_dashboards, what Grafana's charm shows in its status.
HasInvalidDashboards(g) == g = grafanaLeader /\ dashInvalid # {}

\* set_peer_data, seen by the other units in hooks of their own.
SetDashboards(g, store) ==
    /\ dashStore' = store
    /\ storeNews' = IF store # dashStore THEN storeNews \cup (GrafanaUnits \ {g})
                                         ELSE storeNews

RenderOffers(g, R) ==
    /\ SetDashboards(g, Rendered(R))
    /\ dashInvalid' = ErrorsAfter(R)

-----------------------------------------------------------------------------
(* The hooks of Grafana's units                                            *)

\* relation-created brings nothing; the relation-changed that follows does.
OffererJoined(g, r) ==
    /\ r \in offerRelated \ offerSeen[g]
    /\ offerSeen' = [offerSeen EXCEPT ![g] = @ \cup {r}]
    /\ offerNews' = [offerNews EXCEPT ![g] = @ \cup {r}]
    /\ UNCHANGED <<offered, offerRelated, grafanaLeader, caughtUp, leaseMoved,
                   dashStore, dashInvalid, storeNews, inGrafana, offerChanges>>

OfferChanged(g, r) ==
    /\ r \in offerNews[g]
    /\ offerNews' = [offerNews EXCEPT ![g] = @ \ {r}]
    /\ IF g = grafanaLeader
       THEN /\ RenderOffers(g, {r})
            /\ IF IsInvalid(r) \/ dashStore' # dashStore
               THEN ProvisionDashboards(g) ELSE UNCHANGED inGrafana
       ELSE UNCHANGED <<dashStore, dashInvalid, storeNews, inGrafana>>
    /\ UNCHANGED <<offered, offerRelated, offerSeen, grafanaLeader, caughtUp,
                   leaseMoved, offerChanges>>

OffererBroken(g, r) ==
    /\ r \in offerSeen[g] \ offerRelated
    /\ offerSeen' = [offerSeen EXCEPT ![g] = @ \ {r}]
    /\ offerNews' = [offerNews EXCEPT ![g] = @ \ {r}]
    /\ IF g = grafanaLeader /\ dashStore[r] # {}
       THEN /\ SetDashboards(g, [dashStore EXCEPT ![r] = {}])
            /\ ProvisionDashboards(g)
       ELSE UNCHANGED <<dashStore, storeNews, inGrafana>>
    /\ UNCHANGED <<offered, offerRelated, grafanaLeader, caughtUp, leaseMoved,
                   dashInvalid, offerChanges>>

\* _on_grafana_peer_changed, ignored by the leader.
StoreChanged(g) ==
    /\ g \in storeNews
    /\ storeNews' = storeNews \ {g}
    /\ UNCHANGED dashStore
    /\ IF g = grafanaLeader THEN UNCHANGED inGrafana ELSE ProvisionDashboards(g)
    /\ UNCHANGED <<offered, offerRelated, offerSeen, offerNews, grafanaLeader,
                   caughtUp, leaseMoved, dashInvalid, offerChanges>>

\* update_dashboards, after which Grafana's charm provisions its server.
UpdateDashboards(g) ==
    /\ g = grafanaLeader
    /\ RenderOffers(g, offerSeen[g])
    /\ ProvisionDashboards(g)
    /\ caughtUp' = TRUE
    /\ UNCHANGED <<offered, offerRelated, offerSeen, offerNews, grafanaLeader,
                   leaseMoved, offerChanges>>

-----------------------------------------------------------------------------
(* The environment                                                         *)

OfferChange == offerChanges < MaxOfferChanges /\ offerChanges' = offerChanges + 1

PublishOffer(r, T) ==
    /\ OfferChange
    /\ r \in offerRelated /\ T # offered[r]
    /\ offered' = [offered EXCEPT ![r] = T]
    /\ offerNews' = [g \in GrafanaUnits |-> IF r \in offerSeen[g]
                                            THEN offerNews[g] \cup {r}
                                            ELSE offerNews[g]]
    /\ UNCHANGED <<offerRelated, offerSeen, grafanaLeader, caughtUp, leaseMoved,
                   dashStore, dashInvalid, storeNews, inGrafana>>

\* Juju gives every relation a new id, so a relation is made once.
RelateOfferer(r) ==
    /\ OfferChange
    /\ r \notin offerRelated
    /\ offered[r] = Nothing /\ \A g \in GrafanaUnits : r \notin offerSeen[g]
    /\ dashStore[r] = {}
    /\ offerRelated' = offerRelated \cup {r}
    /\ UNCHANGED <<offered, offerSeen, offerNews, grafanaLeader, caughtUp,
                   leaseMoved, dashStore, dashInvalid, storeNews, inGrafana>>

UnrelateOfferer(r) ==
    /\ OfferChange
    /\ r \in offerRelated
    /\ offerRelated' = offerRelated \ {r}
    /\ dashInvalid' = dashInvalid \ {r}
    /\ offered' = [offered EXCEPT ![r] = Nothing]
    /\ UNCHANGED <<offerSeen, offerNews, grafanaLeader, caughtUp, leaseMoved,
                   dashStore, storeNews, inGrafana>>

GrafanaLeaseMoves(g) ==
    /\ OfferChange
    /\ g # grafanaLeader
    /\ grafanaLeader' = g
    /\ caughtUp' = FALSE
    /\ leaseMoved' = TRUE
    /\ UNCHANGED <<offered, offerRelated, offerSeen, offerNews, dashStore,
                   dashInvalid, storeNews, inGrafana>>

-----------------------------------------------------------------------------
OfferInit ==
    /\ offered = [r \in Offerers |-> Nothing]
    /\ offerRelated = {}
    /\ offerSeen = [g \in GrafanaUnits |-> {}]
    /\ offerNews = [g \in GrafanaUnits |-> {}]
    /\ grafanaLeader \in GrafanaUnits
    /\ caughtUp = TRUE
    /\ leaseMoved = FALSE
    /\ dashStore = [r \in Offerers |-> {}]
    /\ dashInvalid = {}
    /\ storeNews = {}
    /\ inGrafana = [g \in GrafanaUnits |-> {}]
    /\ offerChanges = 0

OfferNext ==
    \/ \E g \in GrafanaUnits :
          \/ \E r \in Offerers : \/ OffererJoined(g, r)
                                 \/ OfferChanged(g, r)
                                 \/ OffererBroken(g, r)
          \/ StoreChanged(g) \/ UpdateDashboards(g) \/ GrafanaLeaseMoves(g)
    \/ \E r \in Offerers : \/ \E T \in Offers : PublishOffer(r, T)
                           \/ RelateOfferer(r)
                           \/ UnrelateOfferer(r)

OfferSpec == OfferInit /\ [][OfferNext]_offerVars

-----------------------------------------------------------------------------
(* Properties                                                              *)

OfferTypeOK ==
    /\ offered \in [Offerers -> Offers \cup {Nothing}]
    /\ offerRelated \subseteq Offerers
    /\ offerSeen \in [GrafanaUnits -> SUBSET Offerers]
    /\ offerNews \in [GrafanaUnits -> SUBSET Offerers]
    /\ \A g \in GrafanaUnits : offerNews[g] \subseteq offerSeen[g]
    /\ grafanaLeader \in GrafanaUnits
    /\ caughtUp \in BOOLEAN /\ leaseMoved \in BOOLEAN
    /\ dashStore \in [Offerers -> SUBSET {d \in Dashboards : d.renders}]
    /\ dashInvalid \subseteq offerRelated
    /\ storeNews \subseteq GrafanaUnits
    /\ inGrafana \in [GrafanaUnits -> SUBSET (Offerers \X Dashboards)]
    /\ offerChanges \in 0..MaxOfferChanges

OffersDelivered ==
    /\ storeNews = {}
    /\ \A g \in GrafanaUnits : offerSeen[g] = offerRelated /\ offerNews[g] = {}

\* When all events are delivered and the leader has seen all offers since its
\* election, its server shows, for each uid, the newest of the dashboards that
\* present relations offer.  If the lease never moved, so do the servers of the
\* others, and nothing is left of relations that went: a unit elected between
\* the change of the shared data and its own event ignores the event, and a
\* relation-broken that each unit handles while another one leads is handled by
\* nobody.
ServersShowOffers ==
    OffersDelivered /\ caughtUp =>
        /\ \A r \in offerRelated :
              dashStore[r] = IF IsOffer(r) THEN offered[r] ELSE {}
        /\ leaseMoved \/ \A r \in Offerers \ offerRelated : dashStore[r] = {}
        /\ \A g \in GrafanaUnits : g = grafanaLeader \/ ~leaseMoved
              => inGrafana[g] = Winners(dashStore)

\* And the leader blames the relations that carry an invalid dashboard now
\* and no others, and shows in its status if there are any: "read back to
\* determine whether the relationship currently carries an invalid dashboard"
\* (grafana_dashboard.py:1527).
OnlyInvalidBlamed ==
    OffersDelivered /\ caughtUp =>
        /\ dashInvalid = {r \in offerRelated : IsInvalid(r)}
        /\ HasInvalidDashboards(grafanaLeader) <=> \E r \in offerRelated : IsInvalid(r)

\* Both: what is shown, and who is blamed for what is not.
OffersHandled == ServersShowOffers /\ OnlyInvalidBlamed
=============================================================================
