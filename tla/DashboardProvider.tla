------------------------- MODULE DashboardProvider --------------------------
(***************************************************************************)
(* The provider of grafana_k8s/v0/grafana_dashboard.py: the units of one   *)
(* application each keep templates in StoredState, and the leader publishes*)
(* its own on every grafana-dashboard relation.                            *)
(*                                                                         *)
(* There are two kinds of templates: the files of the charm, "file:" ids,  *)
(* and what the charm adds at run time, "prog:" ids.                       *)
(***************************************************************************)
EXTENDS Naturals

CONSTANTS
    DashUnits,      \* units of the application
    DashRelations,  \* its grafana-dashboard relations
    Revisions,      \* revisions of the charm
    FilesOf,        \* FilesOf[v]: the dashboard files of revision v
    Added,          \* templates the charm may add
    NothingSent,    \* no dashboards in the databag
    MaxDashChanges  \* bound on the changes of the environment

FileTemplates == UNION {FilesOf[v] : v \in Revisions}
Templates     == FileTemplates \cup Added

\* The templates of a unit name the unit in their topology, so those of two
\* units are never equal.
Signed(u, T) == {<<u, t>> : t \in T}

\* What may be under "dashboards" in a databag.
DashBags == {Signed(u, T) : u \in DashUnits, T \in SUBSET Templates} \cup {NothingSent}

ASSUME DashAssumption ==
    /\ DOMAIN FilesOf = Revisions
    /\ FileTemplates \cap Added = {}
    /\ \A u \in DashUnits, T \in SUBSET Templates : NothingSent # Signed(u, T)
    /\ MaxDashChanges \in Nat

VARIABLES
    revision,     \* revision[u]: the charm that unit u runs
    dashStored,   \* dashStored[u]: _stored.dashboard_templates
    wanted,       \* history: wanted[u]: what the charm of u has added
    dashLeader,   \* the leader of the application
    electedDue,   \* whether its leader-elected is still to come
    dashUnknown,  \* dashUnknown[u]: relations whose relation-created u has to run
    dashRelated,  \* the relations there are
    dashSent,     \* dashSent[r]: the templates in the databag of r
    upgradeDue,   \* units whose upgrade-charm is still to come
    dashChanges

dashVars == <<revision, dashStored, wanted, dashLeader, electedDue, dashUnknown,
              dashRelated, dashSent, upgradeDue, dashChanges>>

\* _upset_dashboards_on_relation, on the relations R of unit u.
Upset(u, stored, R) ==
    dashSent' = [r \in DashRelations |->
                   IF r \in R /\ ~(dashSent[r] = NothingSent /\ stored = {})
                   THEN Signed(u, stored) ELSE dashSent[r]]

KnownRelations(u) == dashRelated \ dashUnknown[u]

\* What a unit that changes its templates to T does with them.
StoreByLeader(u, T, R) ==
    IF u = dashLeader
    THEN dashStored' = [dashStored EXCEPT ![u] = T] /\ Upset(u, T, R)
    ELSE UNCHANGED <<dashStored, dashSent>>
Store(u, T, R) ==
    /\ dashStored' = [dashStored EXCEPT ![u] = T]
    /\ IF u = dashLeader THEN Upset(u, T, R) ELSE UNCHANGED dashSent

\* _update_all_dashboards_from_dir: the templates of files are replaced.
FromDir(u) == (dashStored[u] \ FileTemplates) \cup FilesOf[revision[u]]

-----------------------------------------------------------------------------
(* The provider's hooks and methods                                        *)

\* upgrade-charm
DashUpgrade(u) ==
    /\ u \in upgradeDue
    /\ upgradeDue' = upgradeDue \ {u}
    /\ Store(u, FromDir(u), KnownRelations(u))
    /\ UNCHANGED <<revision, wanted, dashLeader, electedDue, dashUnknown,
                   dashRelated, dashChanges>>

\* config-changed, reload_dashboards, _reinitialize_dashboard_data.  A charm
\* without its directory of dashboards has a revision without files.
DashReload(u) ==
    /\ Store(u, FromDir(u), KnownRelations(u))
    /\ UNCHANGED <<revision, wanted, dashLeader, electedDue, dashUnknown,
                   dashRelated, upgradeDue, dashChanges>>

DashElected(u) ==
    /\ u = dashLeader /\ electedDue
    /\ electedDue' = FALSE
    /\ Store(u, FromDir(u), KnownRelations(u))
    /\ UNCHANGED <<revision, wanted, dashLeader, dashUnknown, dashRelated,
                   upgradeDue, dashChanges>>

\* relation-created, of which only the leader takes notice.
DashCreated(u, r) ==
    /\ r \in dashUnknown[u] \cap dashRelated
    /\ dashUnknown' = [dashUnknown EXCEPT ![u] = @ \ {r}]
    /\ IF u = dashLeader
       THEN Store(u, FromDir(u), KnownRelations(u) \cup {r})
       ELSE UNCHANGED <<dashStored, dashSent>>
    /\ UNCHANGED <<revision, wanted, dashLeader, electedDue, dashRelated,
                   upgradeDue, dashChanges>>

AddDashboard(u, t) ==
    /\ t \notin wanted[u]
    /\ wanted' = [wanted EXCEPT ![u] = @ \cup {t}]
    /\ Store(u, dashStored[u] \cup {t}, KnownRelations(u))
    /\ UNCHANGED <<revision, dashLeader, electedDue, dashUnknown, dashRelated,
                   upgradeDue>>

RemoveNonBuiltin(u) ==
    /\ wanted[u] # {}
    /\ wanted' = [wanted EXCEPT ![u] = {}]
    /\ Store(u, dashStored[u] \cap FileTemplates, KnownRelations(u))
    /\ UNCHANGED <<revision, dashLeader, electedDue, dashUnknown, dashRelated,
                   upgradeDue>>

\* update_dashboards
RepublishDashboards(u) ==
    /\ u = dashLeader
    /\ Upset(u, dashStored[u], KnownRelations(u))
    /\ UNCHANGED <<revision, dashStored, wanted, dashLeader, electedDue,
                   dashUnknown, dashRelated, upgradeDue, dashChanges>>

-----------------------------------------------------------------------------
(* The environment                                                         *)

DashChange == dashChanges < MaxDashChanges /\ dashChanges' = dashChanges + 1

DashRefresh(u, v) ==
    /\ DashChange
    /\ revision[u] # v
    /\ revision' = [revision EXCEPT ![u] = v]
    /\ upgradeDue' = upgradeDue \cup {u}
    /\ UNCHANGED <<dashStored, wanted, dashLeader, electedDue, dashUnknown,
                   dashRelated, dashSent>>

\* Kubernetes moves the pod: StoredState is lost, and the unit starts over
\* with a hook that loads its files.
DashPodMoves(u) ==
    /\ DashChange
    /\ dashStored' = [dashStored EXCEPT ![u] = {}]
    /\ wanted' = [wanted EXCEPT ![u] = {}]
    /\ upgradeDue' = upgradeDue \cup {u}
    /\ UNCHANGED <<revision, dashLeader, electedDue, dashUnknown, dashRelated,
                   dashSent>>

DashLeaseMoves(u) ==
    /\ DashChange
    /\ u # dashLeader
    /\ dashLeader' = u
    /\ electedDue' = TRUE
    /\ UNCHANGED <<revision, dashStored, wanted, dashUnknown, dashRelated,
                   dashSent, upgradeDue>>

RelateDashboards(r) ==
    /\ DashChange
    /\ r \notin dashRelated
    /\ dashRelated' = dashRelated \cup {r}
    /\ dashUnknown' = [u \in DashUnits |-> dashUnknown[u] \cup {r}]
    /\ UNCHANGED <<revision, dashStored, wanted, dashLeader, electedDue, dashSent,
                   upgradeDue>>

UnrelateDashboards(r) ==
    /\ DashChange
    /\ r \in dashRelated
    /\ dashRelated' = dashRelated \ {r}
    /\ dashUnknown' = [u \in DashUnits |-> dashUnknown[u] \ {r}]
    /\ dashSent' = [dashSent EXCEPT ![r] = NothingSent]
    /\ UNCHANGED <<revision, dashStored, wanted, dashLeader, electedDue, upgradeDue>>

-----------------------------------------------------------------------------
DashInit ==
    /\ revision \in {[u \in DashUnits |-> v] : v \in Revisions}
    /\ dashStored = [u \in DashUnits |-> {}]
    /\ wanted = [u \in DashUnits |-> {}]
    /\ dashLeader \in DashUnits
    /\ electedDue = TRUE
    /\ dashUnknown = [u \in DashUnits |-> {}]
    /\ dashRelated = {}
    /\ dashSent = [r \in DashRelations |-> NothingSent]
    /\ upgradeDue = DashUnits     \* the first config-changed
    /\ dashChanges = 0

DashNext ==
    \/ \E u \in DashUnits :
          \/ DashUpgrade(u) \/ DashReload(u) \/ DashElected(u)
          \/ RepublishDashboards(u)
          \/ DashChange /\ ( \/ \E t \in Added : AddDashboard(u, t)
                             \/ RemoveNonBuiltin(u) )
          \/ DashPodMoves(u) \/ DashLeaseMoves(u)
          \/ \E v \in Revisions : DashRefresh(u, v)
          \/ \E r \in DashRelations : DashCreated(u, r)
    \/ \E r \in DashRelations : RelateDashboards(r) \/ UnrelateDashboards(r)

DashSpec == DashInit /\ [][DashNext]_dashVars

-----------------------------------------------------------------------------
(* Properties                                                              *)

DashTypeOK ==
    /\ revision \in [DashUnits -> Revisions]
    /\ dashStored \in [DashUnits -> SUBSET Templates]
    /\ wanted \in [DashUnits -> SUBSET Added]
    /\ dashLeader \in DashUnits
    /\ electedDue \in BOOLEAN
    /\ dashRelated \subseteq DashRelations
    /\ dashUnknown \in [DashUnits -> SUBSET DashRelations]
    /\ \A u \in DashUnits : dashUnknown[u] \subseteq dashRelated
    /\ dashSent \in [DashRelations -> DashBags]
    /\ \A r \in DashRelations \ dashRelated : dashSent[r] = NothingSent
    /\ upgradeDue \subseteq DashUnits
    /\ dashChanges \in 0..MaxDashChanges

\* Once the leader has run its hooks, every relation shows the files of the
\* leader's own revision and all that its charm has added, no file of an older
\* revision and nothing of a unit that led before: whoever ran relation-created,
\* whatever was added while another unit led, and however often the lease
\* moved.  "Update of storage must be done irrespective of leadership, so that
\* the stored state is there when this unit becomes leader"
\* (grafana_dashboard.py:1217).
LeadersTemplatesSent ==
    LET T == FilesOf[revision[dashLeader]] \cup wanted[dashLeader]
    IN  ~electedDue /\ dashLeader \notin upgradeDue
          => \A r \in dashRelated \ dashUnknown[dashLeader] :
                \/ dashSent[r] = Signed(dashLeader, T)
                \/ dashSent[r] = NothingSent /\ T = {}
=============================================================================
