---------------------------- MODULE GrafanaSource ----------------------------
(***************************************************************************)
(* The grafana_source library, both ends (grafana_k8s/v1/grafana_source.py): *)
(* applications with a data source, Pyroscope among them, offer it in the  *)
(* databags of their relations; Grafana's leader collects the sources in   *)
(* the databag its units share, with the names of those to delete, and     *)
(* every unit of Grafana provisions its own server from there.             *)
(***************************************************************************)
EXTENDS Naturals

CONSTANTS
    Apps,         \* applications that offer data sources
    AppLevel,     \* those with app_datasource
    UnitLevel,    \* those with unit_datasources
    Units,        \* the unit numbers of each application
    Whole,        \* None, the "unit" of an application's own source
    Urls,         \* where an application's own source may be
    UnitUrl,      \* where a unit's source is: its fqdn
    NoUrl,        \* ""
    Grafanas,     \* units of Grafana
    Generations,  \* how often an application may be related to Grafana
    Changing,     \* the kinds of change the environment makes
    MaxChanges    \* bound on the number of those changes

\* A relation has an id of its own each time it is made.
Relations == Apps \X (1..Generations)
App(r) == r[1]

Names   == Apps \X (Units \cup {Whole})
Sources == [name : Names, url : Urls \cup {UnitUrl}]
NamesIn(S) == {s.name : s \in S}

AppBag == [given : BOOLEAN, host : Urls \cup {NoUrl}]
Blank  == [given |-> FALSE, host |-> NoUrl]

ChangeKinds == {"urls", "units", "relations", "lease"}

ASSUME ConstantsAssumption ==
    /\ AppLevel \subseteq Apps /\ UnitLevel \subseteq Apps
    /\ Whole \notin Units
    /\ NoUrl \notin Urls \cup {UnitUrl} /\ UnitUrl \notin Urls
    /\ Generations \in Nat
    /\ Changing \subseteq ChangeKinds
    /\ MaxChanges \in Nat

VARIABLES
    url,       \* url[a]: where the source of a is
    units,     \* units[a]: units of a
    retired,   \* retired[a]: numbers of units that were removed
    open,      \* relations that exist
    made,      \* relations that have ever been made
    appBag,    \* appBag[r]: grafana_source_data given, grafana_source_app_host
    hosted,    \* hosted[r]: units with a grafana_source_host
    leader,    \* Grafana's leader
    former,    \* history: units of Grafana that led before another one did
    view,      \* view[g]: relations Grafana's unit g was told of
    members,   \* members[g][r]: remote units g was told of
    news,      \* news[g]: relations with a relation-changed to come at g
    peerNews,  \* units of Grafana with a peer relation-changed to come
    sources,   \* peer data: sources[r], {} if r is no key
    toDelete,  \* peer data: sources_to_delete
    uids,      \* uids[r]: names given back to the application
    shown,     \* shown[g]: the data sources in g's server
    changes

offers   == <<url, units, retired, open, made>>
bags     == <<appBag, hosted>>
peerData == <<sources, toDelete>>
lease    == <<leader, former>>
grafana  == <<lease, view, members, news, peerNews, peerData, uids, shown>>
vars     == <<offers, bags, grafana, changes>>

-----------------------------------------------------------------------------
(* The provider                                                            *)

Announce(changed) ==
    news' = [g \in Grafanas |-> news[g] \cup (changed \cap view[g])]

\* _set_host_details and _set_sources in a hook of unit u; leads tells whether
\* it is the application's leader.
SetSources(a, u, leads) ==
    LET mine == {r \in open : App(r) = a}
        data == [given |-> TRUE,
                 host  |-> IF a \in AppLevel THEN url[a] ELSE NoUrl]
    IN  /\ u \in units[a]
        /\ hosted' = [r \in Relations |->
                         IF r \in mine /\ a \in UnitLevel
                         THEN hosted[r] \cup {u} ELSE hosted[r]]
        /\ appBag' = [r \in Relations |-> IF r \in mine /\ leads
                                          THEN data ELSE appBag[r]]
        /\ Announce({r \in mine : \/ hosted'[r] # hosted[r]
                                  \/ appBag'[r] # appBag[r]})
        /\ UNCHANGED <<offers, lease, view, members, peerNews, peerData, uids,
                       shown, changes>>

-----------------------------------------------------------------------------
(* The consumer                                                            *)

GetSourceConfigUnchecked(r, M) ==
    {[name |-> <<App(r), u>>, url |-> UnitUrl] : u \in M \cap hosted[r]}
       \cup {[name |-> <<App(r), Whole>>, url |-> appBag[r].host]}

\* _get_source_config: the sources of r for a unit told of the remote units M.
GetSourceConfig(r, M) ==
    IF ~appBag[r].given THEN {}
    ELSE {[name |-> <<App(r), u>>, url |-> UnitUrl] : u \in M \cap hosted[r]}
           \cup {[name |-> <<App(r), Whole>>, url |-> h] :
                    h \in {appBag[r].host} \ {NoUrl}}

\* What Grafana makes of the two lists: first it deletes, then it adds or
\* replaces, and a source in neither stays.
Provision(S, del, list) ==
    LET listed == UNION {list[r] : r \in Relations}
    IN  {s \in S : s.name \notin del \cup NamesIn(listed)} \cup listed

ReplacedNames(found, V) ==
    UNION {NamesIn(sources[r]) \ NamesIn(found[r]) :
              r \in {q \in V : found[q] # {}}}

\* _sources_to_delete, after _get_source_config took out what is there again.
KeepDeleting(found, V) == toDelete \cup ReplacedNames(found, V)
SourcesToDelete(found, V) ==
    (toDelete \ NamesIn(UNION {found[r] : r \in V}))
       \cup ReplacedNames(found, V)

TellNobody(g) == peerNews' = peerNews \ {g}

\* The other units of Grafana are told when the leader has written something.
TellPeers(g) ==
    peerNews' = IF <<sources, toDelete>>' # <<sources, toDelete>>
                THEN peerNews \cup (Grafanas \ {g}) ELSE peerNews \ {g}

Show(g) == shown' = [shown EXCEPT ![g] = Provision(@, toDelete', sources')]

\* _on_grafana_source_relation_changed of unit g, with remote units M.
RelationChangedHandler(g, M) ==
    LET found == [r \in Relations |-> IF r \in view[g]
                                      THEN GetSourceConfig(r, M[r]) ELSE {}]
    IN  /\ IF g = leader
           THEN /\ sources' = found
                /\ toDelete' = SourcesToDelete(found, view[g])
                /\ uids' = [r \in Relations |->
                               IF r \in view[g] /\ appBag[r].given
                               THEN NamesIn(found[r]) ELSE uids[r]]
                /\ TellPeers(g)
           ELSE UNCHANGED <<peerData, uids, peerNews>>
        /\ Show(g)

RelationCreated(g, r) ==
    /\ r \in open \ view[g]
    /\ view' = [view EXCEPT ![g] = @ \cup {r}]
    /\ UNCHANGED <<offers, bags, lease, members, news, peerNews, peerData,
                   uids, shown, changes>>

\* relation-joined, which nobody observes, and the relation-changed after it.
RelationJoined(g, r, u) ==
    /\ r \in open \cap view[g]
    /\ u \in units[App(r)] \ members[g][r]
    /\ members' = [members EXCEPT ![g][r] = @ \cup {u}]
    /\ RelationChangedHandler(g, members'[g])
    /\ UNCHANGED <<offers, bags, lease, view, news, changes>>

RelationChanged(g, r) ==
    /\ r \in news[g]
    /\ news' = [news EXCEPT ![g] = @ \ {r}]
    /\ RelationChangedHandler(g, members[g])
    /\ UNCHANGED <<offers, bags, lease, view, members, changes>>

\* update_sources, which Grafana's charm may call in any hook.
UpdateSources(g) ==
    /\ g = leader
    /\ RelationChangedHandler(g, members[g])
    /\ UNCHANGED <<offers, bags, lease, view, members, news, changes>>

\* _remove_source_from_datastore: the leader forgets one unit's source; the
\* names given back are still those from before.
RelationDeparted(g, r, u) ==
    /\ u \in members[g][r]
    /\ r \notin open \/ u \notin units[App(r)]
    /\ members' = [members EXCEPT ![g][r] = @ \ {u}]
    /\ IF g = leader /\ sources[r] # {}
       THEN /\ sources' = [sources EXCEPT
                             ![r] = {s \in @ : s.name # <<App(r), u>>}]
            /\ toDelete' = toDelete \cup
                             (NamesIn(sources[r]) \cap {<<App(r), u>>})
            /\ uids' = [uids EXCEPT ![r] = NamesIn(sources[r])]
            /\ TellPeers(g)
            /\ Show(g)
       ELSE UNCHANGED <<peerData, uids, peerNews, shown>>
    /\ UNCHANGED <<offers, bags, lease, view, news, changes>>

\* No handler is registered for relation-broken.
RelationBroken(g, r) ==
    /\ r \in view[g] \ open
    /\ members[g][r] = {}
    /\ view' = [view EXCEPT ![g] = @ \ {r}]
    /\ news' = [news EXCEPT ![g] = @ \ {r}]
    /\ UNCHANGED <<offers, bags, lease, members, peerNews, peerData, uids,
                   shown, changes>>

\* _on_grafana_peer_changed
PeerChanged(g) ==
    /\ g \in peerNews
    /\ peerNews' = peerNews \ {g}
    /\ IF g = leader THEN UNCHANGED shown
       ELSE shown' = [shown EXCEPT ![g] = Provision(@, toDelete, sources)]
    /\ UNCHANGED <<offers, bags, lease, view, members, news, peerData, uids,
                   changes>>

-----------------------------------------------------------------------------
(* The environment                                                         *)

Change(kind) ==
    /\ kind \in Changing
    /\ changes < MaxChanges
    /\ changes' = changes + 1

\* The application's ingress comes, moves or goes.
UrlChange(a) ==
    /\ Change("urls")
    /\ url' \in [Apps -> Urls]
    /\ url'[a] # url[a] /\ \A b \in Apps \ {a} : url'[b] = url[b]
    /\ UNCHANGED <<units, retired, open, made, bags, grafana>>

AddUnit(a, u) ==
    /\ Change("units")
    /\ u \notin units[a] \cup retired[a]
    /\ units' = [units EXCEPT ![a] = @ \cup {u}]
    /\ UNCHANGED <<url, retired, open, made, bags, grafana>>

RemoveUnit(a, u) ==
    /\ Change("units")
    /\ u \in units[a] /\ units[a] # {u}
    /\ units' = [units EXCEPT ![a] = @ \ {u}]
    /\ retired' = [retired EXCEPT ![a] = @ \cup {u}]
    /\ UNCHANGED <<url, open, made, bags, grafana>>

\* A relation between the same two applications is made again only when the
\* earlier one is gone on both sides.
Establish(r) ==
    /\ Change("relations")
    /\ r \notin made
    /\ r[2] = 1 \/ <<App(r), r[2] - 1>> \in made
    /\ \A q \in Relations : App(q) = App(r) =>
           q \notin open /\ \A g \in Grafanas : q \notin view[g]
    /\ open' = open \cup {r}
    /\ made' = made \cup {r}
    /\ UNCHANGED <<url, units, retired, bags, grafana>>

Dissolve(r) ==
    /\ Change("relations")
    /\ r \in open
    /\ open' = open \ {r}
    /\ UNCHANGED <<url, units, retired, made, bags, grafana>>

LeaderChange(g) ==
    /\ Change("lease")
    /\ g # leader
    /\ leader' = g
    /\ former' = former \cup {leader}
    /\ UNCHANGED <<offers, bags, view, members, news, peerNews, peerData, uids,
                   shown>>

Environment ==
    \/ \E a \in Apps : UrlChange(a)
    \/ \E a \in Apps, u \in Units : AddUnit(a, u) \/ RemoveUnit(a, u)
    \/ \E r \in Relations : Establish(r) \/ Dissolve(r)
    \/ \E g \in Grafanas : LeaderChange(g)

-----------------------------------------------------------------------------
Init ==
    /\ url \in [Apps -> Urls]
    /\ units \in [Apps -> (SUBSET Units) \ {{}}]
    /\ retired = [a \in Apps |-> {}]
    /\ open \in SUBSET {r \in Relations : r[2] = 1}
    /\ made = open
    /\ appBag = [r \in Relations |-> Blank]
    /\ hosted = [r \in Relations |-> {}]
    /\ leader \in Grafanas /\ former = {}
    /\ view = [g \in Grafanas |-> {}]
    /\ members = [g \in Grafanas |-> [r \in Relations |-> {}]]
    /\ news = [g \in Grafanas |-> {}] /\ peerNews = {}
    /\ sources = [r \in Relations |-> {}] /\ toDelete = {}
    /\ uids = [r \in Relations |-> {}]
    /\ shown = [g \in Grafanas |-> {}]
    /\ changes = 0

\* A pending hook of unit g of Grafana.
Hook(g) ==
    \/ PeerChanged(g)
    \/ \E r \in Relations :
          \/ RelationCreated(g, r)
          \/ RelationChanged(g, r)
          \/ RelationBroken(g, r)
          \/ \E u \in Units : RelationJoined(g, r, u) \/ RelationDeparted(g, r, u)

Next ==
    \/ Environment
    \/ \E a \in Apps, u \in Units, leads \in BOOLEAN : SetSources(a, u, leads)
    \/ \E g \in Grafanas : Hook(g) \/ UpdateSources(g)

Spec == Init /\ [][Next]_vars

\* Every unit runs its pending hooks, in some order; some unit of an
\* application runs one as its leader.
Fairness ==
    /\ \A a \in Apps :
         /\ WF_vars(\E u \in Units : SetSources(a, u, TRUE))
         /\ \A u \in Units : WF_vars(\E leads \in BOOLEAN : SetSources(a, u, leads))
    /\ \A g \in Grafanas : WF_vars(Hook(g))

FairSpec == Spec /\ Fairness

-----------------------------------------------------------------------------
(* Properties                                                              *)

TypeOK ==
    /\ url \in [Apps -> Urls]
    /\ units \in [Apps -> SUBSET Units] /\ retired \in [Apps -> SUBSET Units]
    /\ open \subseteq made /\ made \subseteq Relations
    /\ appBag \in [Relations -> AppBag]
    /\ hosted \in [Relations -> SUBSET Units]
    /\ leader \in Grafanas /\ former \subseteq Grafanas
    /\ peerNews \subseteq Grafanas
    /\ view \in [Grafanas -> SUBSET Relations]
    /\ members \in [Grafanas -> [Relations -> SUBSET Units]]
    /\ news \in [Grafanas -> SUBSET Relations]
    /\ sources \in [Relations -> SUBSET Sources]
    /\ toDelete \subseteq Names
    /\ uids \in [Relations -> SUBSET Names]
    /\ shown \in [Grafanas -> SUBSET Sources]
    /\ changes \in 0..MaxChanges

\* No data source is both offered and up for deletion, although names come
\* back when a relation is made again and the list of deletions never shrinks
\* by itself.
NothingOfferedIsDeleted ==
    \A r \in Relations : NamesIn(sources[r]) \cap toDelete = {}

\* What it rests on: an application has one relation at a time that anybody
\* knows of, sources are filed under a relation of their own application, and
\* under one of them.
OneRelationEach ==
    \A r, q \in open \cup UNION {view[g] : g \in Grafanas} :
        App(r) = App(q) => r = q

FiledUnderOwn ==
    \A r \in Relations : \A s \in sources[r] : s.name[1] = App(r)

FiledOnce ==
    \A r, q \in Relations :
        App(r) = App(q) /\ sources[r] # {} /\ sources[q] # {} => r = q

IInv ==
    /\ TypeOK
    /\ OneRelationEach
    /\ FiledUnderOwn
    /\ FiledOnce
    /\ NothingOfferedIsDeleted

\* While Grafana keeps its leader, every Grafana server has in the end, for each
\* application that is related, its own source where it is now, and the source
\* of every unit, and of no unit that is not there; the application was given
\* the name of its own source.  A change of leader can
\* lose a change of a source: a unit that leads by the time its peer has left
\* the handling to it was none when its own hook ran.
Related == {App(r) : r \in open}
UnitSources(a) == {<<a, u>> : u \in units[a]}
Provisioned(g) ==
    /\ \A a \in Related \cap AppLevel :
          [name |-> <<a, Whole>>, url |-> url[a]] \in shown[g]
    /\ \A r \in open : App(r) \in AppLevel => <<App(r), Whole>> \in uids[r]
    /\ {n \in NamesIn(shown[g]) : n[2] # Whole}
          = UNION {UnitSources(a) : a \in Related \cap UnitLevel}

Converges ==
    <>[](former # {} \/ \A g \in Grafanas : Provisioned(g))

\* "App-level sources [...] only removed when the whole relation is broken"
\* (grafana_source.py:970-972): when Grafana's leader has seen the end of a
\* relation, none of its sources is offered.  It does not hold: no handler
\* runs then.
BrokenRelationForgotten ==
    \A r \in made \ (open \cup view[leader]) : sources[r] = {}

=============================================================================
