--------------------------- MODULE LogForwarding ----------------------------
(***************************************************************************)
(* Log forwarding by Pebble (loki_k8s/v1/loki_push_api.py, the LogForwarder*)
(* end of the logging relation): one unit of an application, the           *)
(* containers it operates, and the units of several Lokis.                 *)
(*                                                                         *)
(* Each container's plan has a log target per unit of Loki it was ever     *)
(* given.  Targets are never removed from a plan, only disabled; a plan is *)
(* lost with its container.                                                *)
(***************************************************************************)
EXTENDS Naturals

CONSTANTS
    Lokis,         \* applications of Loki, one logging relation each
    LokiUnits,     \* their units
    LokiOf,        \* LokiOf[l]: the application of unit l
    Containers,    \* containers of the forwarding unit
    LogUrls,       \* endpoints a unit of Loki may have
    NoUrl,         \* none published
    NoTarget,      \* the plan has no such target
    Disabled,      \* services: ["-all"]
    MaxLogChanges  \* bound on the changes of the environment

ASSUME LogAssumption ==
    /\ LokiOf \in [LokiUnits -> Lokis]
    /\ NoUrl \notin LogUrls
    /\ {NoTarget, Disabled} \cap (LogUrls \cup {NoUrl}) = {}
    /\ MaxLogChanges \in Nat

VARIABLES
    endpoint,    \* endpoint[l]: the url in the databag of l
    deployed,    \* units of Loki that are in the relation
    lokiSeen,    \* units the forwarding unit has been told of
    lokiNews,    \* units with a relation-changed still to come
    connected,   \* containers Pebble answers in
    readyDue,    \* containers whose pebble-ready is still to come
    target,      \* target[c][l]: the log target for l in the plan of c
    logChanges   \* how many changes the environment has made

logVars == <<endpoint, deployed, lokiSeen, lokiNews, connected, readyDue,
             target, logChanges>>

UnitsSeen(k, seen) == {l \in seen : LokiOf[l] = k}

\* is_ready: one unit that has not published makes _extract_urls raise, and
\* the whole relation counts for nothing.
RelationReady(k, seen) ==
    /\ UnitsSeen(k, seen) # {}
    /\ \A l \in UnitsSeen(k, seen) : endpoint[l] # NoUrl

\* _retrieve_endpoints_from_relation
EndpointsOfOne(seen) ==
    {l \in seen : /\ RelationReady(LokiOf[l], seen)
                  /\ LokiOf[l] = CHOOSE k \in Lokis : RelationReady(k, seen)}
ActiveEndpoints(seen) == {l \in seen : RelationReady(LokiOf[l], seen)}

IsEnabled(t) == t \in LogUrls

\* disable_inactive_endpoints
DisableInactive(plan, active) ==
    [l \in LokiUnits |-> IF IsEnabled(plan[l]) /\ l \notin active
                         THEN Disabled ELSE plan[l]]

\* enable_endpoints, whose layer is combined with the plan.
EnableNew(plan, active) ==
    [l \in LokiUnits |-> IF l \in active /\ ~IsEnabled(plan[l])
                         THEN endpoint[l] ELSE plan[l]]
EnableEndpoints(plan, active) ==
    [l \in LokiUnits |-> IF l \in active THEN endpoint[l] ELSE plan[l]]

\* _update_endpoints in the containers C; nothing at all without endpoints.
UpdateEndpoints(C, seen) ==
    LET active == ActiveEndpoints(seen)
    IN  target' = [c \in Containers |->
                     IF c \in C /\ active # {}
                     THEN EnableEndpoints(DisableInactive(target[c], active), active)
                     ELSE target[c]]

-----------------------------------------------------------------------------
(* The hooks of the forwarding unit                                        *)

\* relation-joined
LokiJoined(l) ==
    /\ l \in deployed \ lokiSeen
    /\ lokiSeen' = lokiSeen \cup {l}
    /\ UpdateEndpoints(connected, lokiSeen')
    /\ UNCHANGED <<endpoint, deployed, lokiNews, connected, readyDue, logChanges>>

LokiChanged(l) ==
    /\ l \in lokiNews \cap lokiSeen
    /\ lokiNews' = lokiNews \ {l}
    /\ UpdateEndpoints(connected, lokiSeen)
    /\ UNCHANGED <<endpoint, deployed, lokiSeen, connected, readyDue, logChanges>>

\* relation-departed of a unit; that of the last one is followed by
\* relation-broken, which finds the same units.
LokiDeparted(l) ==
    /\ l \in lokiSeen \ deployed
    /\ lokiSeen' = lokiSeen \ {l}
    /\ UpdateEndpoints(connected, lokiSeen')
    /\ UNCHANGED <<endpoint, deployed, lokiNews, connected, readyDue, logChanges>>

PebbleReady(c) ==
    /\ c \in readyDue \cap connected
    /\ readyDue' = readyDue \ {c}
    /\ UpdateEndpoints({c}, lokiSeen)
    /\ UNCHANGED <<endpoint, deployed, lokiSeen, lokiNews, connected, logChanges>>

-----------------------------------------------------------------------------
(* The environment                                                         *)

LogChange == logChanges < MaxLogChanges /\ logChanges' = logChanges + 1

\* A unit of Loki comes; it publishes in a hook of its own.
LokiAdded(l) ==
    /\ LogChange
    /\ l \notin deployed \cup lokiSeen
    /\ deployed' = deployed \cup {l}
    /\ endpoint' = [endpoint EXCEPT ![l] = NoUrl]
    /\ UNCHANGED <<lokiSeen, lokiNews, connected, readyDue, target>>

LokiRemoved(l) ==
    /\ LogChange
    /\ l \in deployed
    /\ deployed' = deployed \ {l}
    /\ lokiNews' = lokiNews \ {l}
    /\ UNCHANGED <<endpoint, lokiSeen, connected, readyDue, target>>

LokiPublishes(l, url) ==
    /\ l \in deployed
    /\ url # endpoint[l]
    /\ IF endpoint[l] = NoUrl THEN UNCHANGED logChanges ELSE LogChange
    /\ endpoint' = [endpoint EXCEPT ![l] = url]
    /\ lokiNews' = lokiNews \cup {l}
    /\ UNCHANGED <<deployed, lokiSeen, connected, readyDue, target>>

ContainerLost(c) ==
    /\ LogChange
    /\ c \in connected
    /\ connected' = connected \ {c}
    /\ readyDue' = readyDue \ {c}
    /\ target' = [target EXCEPT ![c] = [l \in LokiUnits |-> NoTarget]]
    /\ UNCHANGED <<endpoint, deployed, lokiSeen, lokiNews>>

\* Pebble answers again at once; its event comes when it comes.
ContainerBack(c) ==
    /\ c \notin connected
    /\ connected' = connected \cup {c}
    /\ readyDue' = readyDue \cup {c}
    /\ UNCHANGED <<endpoint, deployed, lokiSeen, lokiNews, target, logChanges>>

-----------------------------------------------------------------------------
LogInit ==
    /\ endpoint = [l \in LokiUnits |-> NoUrl]
    /\ deployed = {}
    /\ lokiSeen = {}
    /\ lokiNews = {}
    /\ connected = {}
    /\ readyDue = {}
    /\ target = [c \in Containers |-> [l \in LokiUnits |-> NoTarget]]
    /\ logChanges = 0

LogNext ==
    \/ \E l \in LokiUnits : \/ LokiJoined(l)
                            \/ LokiChanged(l)
                            \/ LokiDeparted(l)
                            \/ LokiAdded(l)
                            \/ LokiRemoved(l)
                            \/ \E url \in LogUrls : LokiPublishes(l, url)
    \/ \E c \in Containers : PebbleReady(c) \/ ContainerLost(c) \/ ContainerBack(c)

LogSpec == LogInit /\ [][LogNext]_logVars

-----------------------------------------------------------------------------
(* Properties                                                              *)

LogTypeOK ==
    /\ endpoint \in [LokiUnits -> LogUrls \cup {NoUrl}]
    /\ deployed \subseteq LokiUnits /\ lokiSeen \subseteq LokiUnits
    /\ lokiNews \subseteq LokiUnits
    /\ readyDue \subseteq connected /\ connected \subseteq Containers
    /\ target \in [Containers ->
                     [LokiUnits -> LogUrls \cup {NoTarget, Disabled}]]
    /\ logChanges \in 0..MaxLogChanges

\* A hook takes a working target of a unit that is still there away only if
\* some unit of the same Loki has not published its endpoint yet: scaling one
\* Loki up may interrupt the logs to it, but never those to another one, and
\* never after everybody has published.
OnlyUnreadyInterrupted ==
    [][\A c \in connected, l \in lokiSeen \cap lokiSeen' :
         IsEnabled(target[c][l]) /\ ~IsEnabled(target'[c][l]) /\ c \in connected'
           => \E m \in lokiSeen' : /\ LokiOf[m] = LokiOf[l]
                                   /\ endpoint[m] = NoUrl]_logVars

\* Nothing is left to do: every event has been delivered.
LogSettled ==
    /\ connected = Containers /\ readyDue = {}
    /\ lokiSeen = deployed /\ lokiNews = {}
    /\ \A l \in deployed : endpoint[l] # NoUrl

\* Whatever came, went, moved or restarted on the way: when all events are
\* delivered and there is a Loki at all, every container forwards to every
\* unit of every Loki, at its present address, and to nothing else.  Without a
\* Loki nothing is promised: _update_logging returns before it looks at the
\* plans, and the targets of the last units there were stay enabled.
ForwardsToThoseThere ==
    LogSettled /\ deployed # {}
      => \A c \in Containers, l \in LokiUnits :
            IF l \in deployed THEN target[c][l] = endpoint[l]
                              ELSE ~IsEnabled(target[c][l])
=============================================================================
