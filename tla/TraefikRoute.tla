---------------------------- MODULE TraefikRoute ----------------------------
(***************************************************************************)
(* The traefik_route library, both ends (traefik_k8s/v0/traefik_route.py): *)
(* how the address of a gateway gets from the configuration of Traefik's   *)
(* leader, through its application databags, to the StoredState of the     *)
(* applications behind it, each of one unit here.  Coordinator models the  *)
(* requirer with several units and leaves Traefik to the environment.      *)
(*                                                                         *)
(* A hook builds the provider object first, which may write all databags,  *)
(* and then handles the event, which may write them again.                 *)
(***************************************************************************)
EXTENDS Naturals

CONSTANTS
    Traefiks,   \* units of Traefik
    Relations,  \* traefik_route relations, one requirer each
    Hosts,
    Schemes,
    Empty,      \* "", of a host or a scheme
    Unset,      \* None
    Gateways,   \* the addresses Traefik's charm may construct a provider with
    Changing,   \* the kinds of change the environment makes
    MaxChanges  \* bound on the number of those changes

Address == [host : Hosts \cup {Empty}, scheme : Schemes \cup {Empty}]

\* StoredState of a provider: what it last published, if it did.
Kept == [host : Hosts \cup {Empty, Unset}, scheme : Schemes \cup {Unset}]

Nothing  == [host |-> Empty, scheme |-> Empty]
NotGiven == [host |-> Unset, scheme |-> Unset]

ChangeKinds == {"gateway", "leader", "state", "relations", "config"}

ASSUME ConstantsAssumption ==
    /\ Empty \notin Hosts \cup Schemes
    /\ Unset \notin Hosts \cup Schemes \cup {Empty}
    /\ Gateways \subseteq [host : Hosts \cup {Empty}, scheme : Schemes]
    /\ Gateways # {}
    /\ Changing \subseteq ChangeKinds
    /\ MaxChanges \in Nat

VARIABLES
    gateway,  \* the address Traefik's charm computes now
    had,      \* history: those it has computed
    withdrawn,\* history: there was none once after there had been a host
    leader,   \* Traefik's leader
    former,   \* history: units that led before another one did
    kept,     \* kept[t]: StoredState of the provider on Traefik unit t
    open,     \* relations that exist
    bag,      \* bag[r]: Traefik's application databag on r
    config,   \* relations whose requirer has submitted a configuration
    news,     \* news[r]: Traefik units with a relation-changed to come from r
    seen,     \* relations whose requirer knows of them
    told,     \* told[r]: StoredState of r's requirer
    changes

traefik  == <<gateway, had, withdrawn, leader, former>>
requirer == <<config, seen, told>>
vars     == <<traefik, kept, open, bag, requirer, news, changes>>

-----------------------------------------------------------------------------
(* The provider                                                            *)

\* Python's "a or b".
OrElse(a, b) == IF a \in {Empty, Unset} THEN b ELSE a

HostCompared(t) == kept[t].host # gateway.host
Outdated(t) == kept[t] # gateway

\* What update_traefik_address writes: the arguments, or what the properties
\* external_host and scheme return.
KeptSchemeFirst(given, k) ==
    [host   |-> OrElse(given.host, OrElse(k.host, Empty)),
     scheme |-> OrElse(k.scheme, OrElse(given.scheme, Empty))]
Published(given, k) ==
    [host   |-> OrElse(given.host, OrElse(k.host, Empty)),
     scheme |-> OrElse(given.scheme, OrElse(k.scheme, Empty))]

\* A hook of Traefik unit t that handles a relation-changed of the relations
\* in events: at most one.  The constructor publishes an address that differs
\* from the one it kept; the handler publishes whatever is kept by then, and
\* keeps None.
TraefikHook(t, events) ==
    LET updates   == t = leader /\ Outdated(t)
        first     == IF updates THEN gateway ELSE kept[t]
        answers   == t = leader /\ events \cap config # {}
        published == IF answers THEN Published(NotGiven, first)
                                ELSE Published(gateway, kept[t])
    IN  /\ bag' = [r \in Relations |-> IF r \in open /\ (updates \/ answers)
                                       THEN published ELSE bag[r]]
        /\ kept' = [kept EXCEPT ![t] = IF answers THEN NotGiven ELSE first]
        /\ UNCHANGED <<traefik, open, requirer, changes>>

TraefikReconcile(t) == TraefikHook(t, {}) /\ UNCHANGED news

RouteChanged(t, r) ==
    /\ r \in open
    /\ t \in news[r]
    /\ news' = [news EXCEPT ![r] = @ \ {t}]
    /\ TraefikHook(t, {r})

-----------------------------------------------------------------------------
(* The requirer                                                            *)

\* _update_stored
UpdateStored(a, b) ==
    [host   |-> OrElse(b.host, a.host),
     scheme |-> OrElse(b.scheme, a.scheme)]

\* _on_relation_broken
Forget(a) == [a EXCEPT !.host = Empty]

\* Any hook with the relation in view: the properties are read, and
\* submit_to_traefik writes a configuration.
RequirerHook(r) ==
    /\ r \in open
    /\ seen' = seen \cup {r}
    /\ told' = [told EXCEPT ![r] = UpdateStored(@, bag[r])]
    /\ config' = config \cup {r}
    /\ news' = IF r \in config THEN news ELSE [news EXCEPT ![r] = Traefiks]
    /\ UNCHANGED <<traefik, kept, open, bag, changes>>

RouteBroken(r) ==
    /\ r \in seen \ open
    /\ seen' = seen \ {r}
    /\ told' = [told EXCEPT ![r] = Forget(@)]
    /\ UNCHANGED <<traefik, kept, open, bag, config, news, changes>>

-----------------------------------------------------------------------------
(* The environment                                                         *)

Change(kind) ==
    /\ kind \in Changing
    /\ changes < MaxChanges
    /\ changes' = changes + 1

GatewayChange(g) ==
    /\ Change("gateway")
    /\ g # gateway
    /\ gateway' = g
    /\ had' = had \cup {g}
    /\ withdrawn' = (withdrawn \/ (g.host = Empty /\ gateway.host # Empty))
    /\ UNCHANGED <<leader, former, kept, open, bag, requirer, news>>

LeaderChange(t) ==
    /\ Change("leader")
    /\ t # leader
    /\ leader' = t
    /\ former' = former \cup {leader}
    /\ UNCHANGED <<gateway, had, withdrawn, kept, open, bag, requirer, news>>

\* A pod of Traefik is rescheduled, and its StoredState is gone.
StateLost(t) ==
    /\ Change("state")
    /\ kept' = [kept EXCEPT ![t] = NotGiven]
    /\ UNCHANGED <<traefik, open, bag, requirer, news>>

Establish(r) ==
    /\ Change("relations")
    /\ r \notin open \cup seen
    /\ open' = open \cup {r}
    /\ bag' = [bag EXCEPT ![r] = Nothing]
    /\ UNCHANGED <<traefik, kept, requirer, news>>

Dissolve(r) ==
    /\ Change("relations")
    /\ r \in open
    /\ open' = open \ {r}
    /\ config' = config \ {r}
    /\ news' = [news EXCEPT ![r] = {}]
    /\ UNCHANGED <<traefik, kept, bag, seen, told>>

\* The requirer submits another configuration: it scaled, or got certificates.
Reconfigure(r) ==
    /\ Change("config")
    /\ r \in config
    /\ news' = [news EXCEPT ![r] = Traefiks]
    /\ UNCHANGED <<traefik, kept, open, bag, requirer>>

Environment ==
    \/ \E g \in Gateways : GatewayChange(g)
    \/ \E t \in Traefiks : LeaderChange(t) \/ StateLost(t)
    \/ \E r \in Relations : Establish(r) \/ Dissolve(r) \/ Reconfigure(r)

-----------------------------------------------------------------------------
Init ==
    /\ gateway \in Gateways
    /\ had = {gateway} /\ withdrawn = FALSE
    /\ leader \in Traefiks /\ former = {}
    /\ kept = [t \in Traefiks |-> NotGiven]
    /\ open \in SUBSET Relations
    /\ bag = [r \in Relations |-> Nothing]
    /\ config = {} /\ seen = {}
    /\ news = [r \in Relations |-> {}]
    /\ told = [r \in Relations |-> Nothing]
    /\ changes = 0

Next ==
    \/ Environment
    \/ \E t \in Traefiks : TraefikReconcile(t)
    \/ \E t \in Traefiks, r \in Relations : RouteChanged(t, r)
    \/ \E r \in Relations : RequirerHook(r) \/ RouteBroken(r)

Spec == Init /\ [][Next]_vars

\* Every unit runs its pending hooks, and an update-status now and then.
Fairness ==
    /\ \A t \in Traefiks : WF_vars(TraefikReconcile(t))
    /\ \A t \in Traefiks, r \in Relations : WF_vars(RouteChanged(t, r))
    /\ \A r \in Relations : WF_vars(RequirerHook(r)) /\ WF_vars(RouteBroken(r))

FairSpec == Spec /\ Fairness

-----------------------------------------------------------------------------
(* Properties                                                              *)

TypeOK ==
    /\ gateway \in Gateways /\ had \subseteq Gateways /\ withdrawn \in BOOLEAN
    /\ leader \in Traefiks /\ former \subseteq Traefiks
    /\ kept \in [Traefiks -> Kept]
    /\ open \subseteq Relations /\ config \subseteq open
    /\ bag \in [Relations -> Address]
    /\ news \in [Relations -> SUBSET Traefiks]
    /\ seen \subseteq Relations
    /\ told \in [Relations -> Address]
    /\ changes \in 0..MaxChanges

\* No requirer builds a URL of a host and a scheme that Traefik did not have
\* together, although both ends replace the two one by one, an empty one never
\* replaces the other, and the databags are written by several leaders.  Only
\* when Traefik had a host and then none is the old host kept with a later
\* scheme; and even then each of the two is one that Traefik had.
WholeAddresses ==
    \A r \in Relations : told[r].host # Empty =>
        /\ \E g, h \in had : told[r] = [host |-> g.host, scheme |-> h.scheme]
        /\ ~withdrawn => told[r] \in had

\* A requirer whose relation is gone has no external host.
NoHostWithoutRelation ==
    \A r \in Relations \ seen : told[r].host = Empty

\* Of an address without a host only the scheme can be passed on.
UpToDate(a) ==
    /\ a.scheme = gateway.scheme
    /\ gateway.host # Empty => a.host = gateway.host

\* The address every requirer has is in the end the one Traefik has, whoever
\* leads Traefik: except a unit that led before, see NothingToUpdate.
Converges ==
    <>[](leader \in former \/ \A r \in open : UpToDate(told[r]))

\* "If traefik endpoint details changed, update" (traefik_route.py:203): when
\* the constructor finds nothing to update on Traefik's leader, the databags
\* that have an address have the present one.  It does not hold: a unit
\* compares the address with the one it published itself, and another leader
\* may have published since.
NothingToUpdate ==
    ~Outdated(leader)
        => \A r \in open : bag[r].host # Empty => bag[r] = gateway

=============================================================================
