-------------------------- MODULE LokiPushApiProofs --------------------------
(***************************************************************************)
(* The three parts of the loki_push_api library: logs are forwarded to the *)
(* right units of Loki, Promtail sends to them, and alert rules reach them, *)
(* for any number of units, applications, containers, addresses and changes. *)
(***************************************************************************)
EXTENDS LogForwarding, LogProxy, LokiPush, TLAPS

------------------------------------------------------------------------------
(* Log forwarding                                                          *)

\* A relation-changed or relation-departed that the unit has yet to handle.
LogPending == \E l \in lokiSeen : l \in lokiNews \/ l \notin deployed

\* What a hook with endpoints leaves in the plan of a container.
LogFits(plan, urls, active) ==
    \A l \in LokiUnits : IF l \in active THEN plan[l] = urls[l]
                                         ELSE ~IsEnabled(plan[l])

\* A container that has had its pebble-ready has the plan of the endpoints
\* there are, unless there are none or an event is to come.
LogPlansFit ==
    \A c \in connected \ readyDue :
        \/ LogPending
        \/ ActiveEndpoints(lokiSeen) = {}
        \/ LogFits(target[c], endpoint, ActiveEndpoints(lokiSeen))

LogIInv == LogTypeOK /\ LogPlansFit

-----------------------------------------------------------------------------

\* An endpoint is active only if it has been published.
LEMMA ActivePublished ==
    ASSUME LogTypeOK, NEW seen \in SUBSET LokiUnits, NEW l \in ActiveEndpoints(seen)
    PROVE  l \in seen /\ endpoint[l] \in LogUrls
  BY DEF LogTypeOK, ActiveEndpoints, RelationReady, UnitsSeen

\* _update_endpoints, in one plan.
LEMMA UpdateFits ==
    ASSUME LogTypeOK, NEW seen \in SUBSET LokiUnits, NEW C \in SUBSET Containers,
           UpdateEndpoints(C, seen)
    PROVE  /\ target' \in [Containers -> [LokiUnits -> LogUrls \cup {NoTarget, Disabled}]]
           /\ \A c \in Containers \ C : target'[c] = target[c]
           /\ ActiveEndpoints(seen) = {} => target' = target
           /\ ActiveEndpoints(seen) # {} =>
                \A c \in C : LogFits(target'[c], endpoint, ActiveEndpoints(seen))
  <1> DEFINE active  == ActiveEndpoints(seen)
             plan(c) == EnableEndpoints(DisableInactive(target[c], active), active)
  <1>1. target' = [c \in Containers |-> IF c \in C /\ active # {} THEN plan(c)
                                                                  ELSE target[c]]
    BY DEF UpdateEndpoints
  <1>2. ASSUME NEW c \in Containers
        PROVE  /\ plan(c) \in [LokiUnits -> LogUrls \cup {NoTarget, Disabled}]
               /\ LogFits(plan(c), endpoint, active)
    <2>1. ASSUME NEW l \in LokiUnits
          PROVE  plan(c)[l] = IF l \in active THEN endpoint[l]
                              ELSE IF IsEnabled(target[c][l]) THEN Disabled
                              ELSE target[c][l]
      BY DEF EnableEndpoints, DisableInactive
    <2>2. plan(c) = [l \in LokiUnits |-> plan(c)[l]]
      BY DEF EnableEndpoints
    <2>3. \A l \in active : endpoint[l] \in LogUrls
      BY ActivePublished
    <2>4. target[c] \in [LokiUnits -> LogUrls \cup {NoTarget, Disabled}]
      BY DEF LogTypeOK
    <2>5. ~IsEnabled(Disabled)
      BY LogAssumption DEF IsEnabled
    <2> HIDE DEF plan, active
    <2>6. \A l \in LokiUnits : plan(c)[l] \in LogUrls \cup {NoTarget, Disabled}
      BY <2>1, <2>3, <2>4
    <2>7. LogFits(plan(c), endpoint, active)
      BY <2>1, <2>5 DEF LogFits
    <2> QED BY <2>2, <2>6, <2>7
  <1>3. target = [c \in Containers |-> target[c]]
    BY DEF LogTypeOK
  <1>4. \A c \in Containers :
            target[c] \in [LokiUnits -> LogUrls \cup {NoTarget, Disabled}]
    BY DEF LogTypeOK
  <1> HIDE DEF plan, active
  <1> QED BY <1>1, <1>2, <1>3, <1>4 DEF active

LEMMA LogInitIInv == LogInit => LogIInv
  <1> SUFFICES ASSUME LogInit PROVE LogIInv
    OBVIOUS
  <1>1. /\ endpoint \in [LokiUnits -> LogUrls \cup {NoUrl}]
        /\ target \in [Containers -> [LokiUnits -> LogUrls \cup {NoTarget, Disabled}]]
        /\ logChanges \in 0..MaxLogChanges
    BY LogAssumption DEF LogInit
  <1> QED BY <1>1 DEF LogInit, LogIInv, LogTypeOK, LogPlansFit

-----------------------------------------------------------------------------
(* The hooks                                                               *)

\* An event of the relation updates every container that Pebble answers in.
LEMMA LogRelationHookKeepsIInv ==
    ASSUME LogIInv, lokiSeen' \subseteq LokiUnits, lokiNews' \subseteq LokiUnits,
           UpdateEndpoints(connected, lokiSeen'),
           UNCHANGED <<endpoint, deployed, connected, readyDue, logChanges>>
    PROVE  LogIInv'
  <1> DEFINE active == ActiveEndpoints(lokiSeen')
  <1>1. /\ target' \in [Containers -> [LokiUnits -> LogUrls \cup {NoTarget, Disabled}]]
        /\ active # {} => \A c \in connected : LogFits(target'[c], endpoint, active)
    BY UpdateFits DEF LogIInv, LogTypeOK
  <1>2. ActiveEndpoints(lokiSeen)' = active
    BY DEF ActiveEndpoints, RelationReady, UnitsSeen
  <1>3. LogTypeOK'
    BY <1>1 DEF LogIInv, LogTypeOK
  <1> HIDE DEF active
  <1>4. LogPlansFit'
    BY <1>1, <1>2 DEF LogPlansFit, LogIInv, LogTypeOK, LogFits
  <1> QED BY <1>3, <1>4 DEF LogIInv

LEMMA LokiHooksKeepIInv ==
    ASSUME LogIInv, NEW l \in LokiUnits,
           LokiJoined(l) \/ LokiChanged(l) \/ LokiDeparted(l)
    PROVE  LogIInv'
  <1>1. lokiSeen' \subseteq LokiUnits /\ lokiNews' \subseteq LokiUnits
    BY DEF LokiJoined, LokiChanged, LokiDeparted, LogIInv, LogTypeOK
  <1>2. UpdateEndpoints(connected, lokiSeen')
    BY DEF LokiJoined, LokiChanged, LokiDeparted, UpdateEndpoints
  <1>3. UNCHANGED <<endpoint, deployed, connected, readyDue, logChanges>>
    BY DEF LokiJoined, LokiChanged, LokiDeparted
  <1> QED BY <1>1, <1>2, <1>3, LogRelationHookKeepsIInv

LEMMA LogPebbleReadyKeepsIInv ==
    ASSUME LogIInv, NEW c \in Containers, PebbleReady(c)
    PROVE  LogIInv'
  <1> DEFINE active == ActiveEndpoints(lokiSeen)
  <1>1. /\ UpdateEndpoints({c}, lokiSeen) /\ readyDue' = readyDue \ {c}
        /\ UNCHANGED <<endpoint, deployed, lokiSeen, lokiNews, connected, logChanges>>
    BY DEF PebbleReady
  <1>2. /\ target' \in [Containers -> [LokiUnits -> LogUrls \cup {NoTarget, Disabled}]]
        /\ \A d \in Containers \ {c} : target'[d] = target[d]
        /\ active # {} => LogFits(target'[c], endpoint, active)
    BY <1>1, UpdateFits DEF LogIInv, LogTypeOK
  <1>3. active' = active /\ LogPending' = LogPending
    BY <1>1 DEF ActiveEndpoints, RelationReady, UnitsSeen, LogPending
  <1>4. LogTypeOK'
    BY <1>1, <1>2 DEF LogIInv, LogTypeOK
  <1>5. LogPlansFit'
    <2> HIDE DEF active
    <2> SUFFICES ASSUME NEW d \in connected \ readyDue'
                 PROVE  LogPending \/ active = {} \/ LogFits(target'[d], endpoint, active)
      BY <1>1, <1>3 DEF LogPlansFit, active, LogFits
    <2>1. CASE d = c
      BY <1>2, <2>1
    <2>2. CASE d # c
      BY <1>1, <1>2, <2>2 DEF LogIInv, LogPlansFit, LogTypeOK, active
    <2> QED BY <2>1, <2>2
  <1> QED BY <1>4, <1>5 DEF LogIInv

-----------------------------------------------------------------------------
(* The environment                                                         *)

\* What happens to a unit of Loki is an event to come, if the forwarding unit
\* knows of it at all.
LEMMA LokiChangesKeepPlans ==
    ASSUME LogIInv, NEW k \in LokiUnits, LogTypeOK',
           UNCHANGED <<lokiSeen, connected, readyDue, target>>,
           \A l \in LokiUnits \ {k} : endpoint'[l] = endpoint[l],
           \A l \in LokiUnits \ {k} : /\ l \in lokiNews' <=> l \in lokiNews
                                      /\ l \in deployed' <=> l \in deployed,
           k \in lokiSeen => k \in lokiNews' \/ k \notin deployed'
    PROVE  LogIInv'
  <1>1. CASE k \in lokiSeen
    BY <1>1 DEF LogIInv, LogPlansFit, LogPending
  <1>2. CASE k \notin lokiSeen
    <2>1. \A l \in lokiSeen : endpoint'[l] = endpoint[l]
      BY <1>2 DEF LogIInv, LogTypeOK
    <2>2. \A a \in Lokis : RelationReady(a, lokiSeen)' <=> RelationReady(a, lokiSeen)
      BY <2>1 DEF RelationReady, UnitsSeen
    <2>3. ActiveEndpoints(lokiSeen)' = ActiveEndpoints(lokiSeen)
      BY <2>2, LogAssumption DEF ActiveEndpoints, LogIInv, LogTypeOK
    <2>4. LogPending' <=> LogPending
      BY <1>2 DEF LogPending, LogIInv, LogTypeOK
    <2>5. ActiveEndpoints(lokiSeen) \subseteq lokiSeen
      BY DEF ActiveEndpoints
    <2>6. \A plan : LogFits(plan, endpoint, ActiveEndpoints(lokiSeen))
                      => LogFits(plan, endpoint', ActiveEndpoints(lokiSeen))
      BY <2>1, <2>5 DEF LogFits
    <2>7. LogPlansFit'
      <3> SUFFICES ASSUME NEW c \in connected \ readyDue
                   PROVE  \/ LogPending \/ ActiveEndpoints(lokiSeen) = {}
                          \/ LogFits(target[c], endpoint', ActiveEndpoints(lokiSeen))
        BY <2>3, <2>4 DEF LogPlansFit, LogFits
      <3> QED BY <2>6 DEF LogIInv, LogPlansFit
    <2> QED BY <2>7 DEF LogIInv
  <1> QED BY <1>1, <1>2

LEMMA LogEnvironmentKeepsIInv ==
    ASSUME LogIInv,
           \/ \E l \in LokiUnits : \/ LokiAdded(l)
                                   \/ LokiRemoved(l)
                                   \/ \E url \in LogUrls : LokiPublishes(l, url)
           \/ \E c \in Containers : ContainerLost(c) \/ ContainerBack(c)
    PROVE  LogIInv'
  <1>1. logChanges' \in 0..MaxLogChanges
    BY LogAssumption
       DEF LokiAdded, LokiRemoved, LokiPublishes, ContainerLost, ContainerBack,
           LogChange, LogIInv, LogTypeOK
  <1>2. ASSUME NEW l \in LokiUnits, LokiAdded(l) PROVE LogIInv'
    <2>1. LogTypeOK'
      BY <1>1, <1>2 DEF LokiAdded, LogIInv, LogTypeOK
    <2> QED BY <1>2, <2>1, LokiChangesKeepPlans DEF LokiAdded, LogIInv, LogTypeOK
  <1>3. ASSUME NEW l \in LokiUnits, LokiRemoved(l) PROVE LogIInv'
    <2>1. LogTypeOK'
      BY <1>1, <1>3 DEF LokiRemoved, LogIInv, LogTypeOK
    <2> QED BY <1>3, <2>1, LokiChangesKeepPlans DEF LokiRemoved, LogIInv, LogTypeOK
  <1>4. ASSUME NEW l \in LokiUnits, NEW url \in LogUrls, LokiPublishes(l, url)
        PROVE  LogIInv'
    <2>1. LogTypeOK'
      BY <1>1, <1>4 DEF LokiPublishes, LogIInv, LogTypeOK
    <2> QED BY <1>4, <2>1, LokiChangesKeepPlans DEF LokiPublishes, LogIInv, LogTypeOK
  <1>5. ASSUME NEW c \in Containers, ContainerLost(c) \/ ContainerBack(c)
        PROVE  LogIInv'
    <2>1. LogTypeOK'
      BY <1>1, <1>5 DEF ContainerLost, ContainerBack, LogIInv, LogTypeOK
    <2>2. UNCHANGED <<endpoint, deployed, lokiSeen, lokiNews>>
          /\ connected' \ readyDue' \subseteq connected \ readyDue
          /\ \A d \in connected' \ readyDue' : target'[d] = target[d]
      BY <1>5 DEF ContainerLost, ContainerBack, LogIInv, LogTypeOK
    <2>3. LogPending' = LogPending
          /\ ActiveEndpoints(lokiSeen)' = ActiveEndpoints(lokiSeen)
      BY <2>2 DEF LogPending, ActiveEndpoints, RelationReady, UnitsSeen
    <2>4. LogPlansFit'
      BY <2>2, <2>3 DEF LogIInv, LogPlansFit, LogFits
    <2> QED BY <2>1, <2>4 DEF LogIInv
  <1> QED BY <1>2, <1>3, <1>4, <1>5

LEMMA LogInvariant == LogSpec => []LogIInv
  <1>1. LogIInv /\ LogNext => LogIInv'
    BY LokiHooksKeepIInv, LogPebbleReadyKeepsIInv, LogEnvironmentKeepsIInv DEF LogNext
  <1>2. LogIInv /\ UNCHANGED logVars => LogIInv'
    BY DEF logVars, LogIInv, LogTypeOK, LogPlansFit, LogPending, LogFits, ActiveEndpoints,
           RelationReady, UnitsSeen
  <1> QED BY LogInitIInv, <1>1, <1>2, PTL DEF LogSpec

-----------------------------------------------------------------------------
(* The theorems                                                            *)

\* When every event has been delivered, every container forwards to every unit
\* of every Loki at its present address, and to nothing else
\* (LogForwarder._update_logging).
THEOREM LogsAreForwarded == LogSpec => []ForwardsToThoseThere
  <1>1. LogIInv => ForwardsToThoseThere
    <2> SUFFICES ASSUME LogIInv, LogSettled, deployed # {},
                        NEW c \in Containers, NEW l \in LokiUnits
                 PROVE  IF l \in deployed THEN target[c][l] = endpoint[l]
                                          ELSE ~IsEnabled(target[c][l])
      BY DEF ForwardsToThoseThere
    <2>1. ActiveEndpoints(lokiSeen) = deployed
      BY DEF ActiveEndpoints, RelationReady, UnitsSeen, LogSettled
    <2>2. ~LogPending
      BY DEF LogPending, LogSettled
    <2>3. LogFits(target[c], endpoint, deployed)
      BY <2>1, <2>2 DEF LogIInv, LogPlansFit, LogSettled
    <2> QED BY <2>3 DEF LogFits
  <1> QED BY <1>1, LogInvariant, PTL

\* No hook takes away a working target but to a Loki some unit of which has not
\* published yet (LogForwarder.is_ready, disable_inactive_endpoints).
THEOREM OthersKeepForwarding == LogSpec => OnlyUnreadyInterrupted
  <1> DEFINE Kept == \A c \in connected, l \in lokiSeen \cap lokiSeen' :
                IsEnabled(target[c][l]) /\ ~IsEnabled(target'[c][l]) /\ c \in connected'
                  => \E m \in lokiSeen' : /\ LokiOf[m] = LokiOf[l]
                                          /\ endpoint[m] = NoUrl
  <1>1. ASSUME LogIInv, NEW C \in SUBSET Containers, lokiSeen' \subseteq LokiUnits,
               UpdateEndpoints(C, lokiSeen')
        PROVE  Kept
    <2> SUFFICES ASSUME NEW c \in connected, NEW l \in lokiSeen \cap lokiSeen',
                        IsEnabled(target[c][l]), ~IsEnabled(target'[c][l])
                 PROVE  \E m \in lokiSeen' : /\ LokiOf[m] = LokiOf[l]
                                             /\ endpoint[m] = NoUrl
      OBVIOUS
    <2>1. c \in C /\ ActiveEndpoints(lokiSeen') # {}
          /\ LogFits(target'[c], endpoint, ActiveEndpoints(lokiSeen'))
      BY <1>1, UpdateFits DEF LogIInv, LogTypeOK
    <2>2. l \notin ActiveEndpoints(lokiSeen')
      BY <1>1, <2>1, ActivePublished DEF LogFits, IsEnabled, LogIInv, LogTypeOK
    <2> QED BY <2>2 DEF ActiveEndpoints, RelationReady, UnitsSeen
  <1>2. ASSUME LogIInv, LogNext PROVE Kept
    <2>1. ASSUME NEW l \in LokiUnits, LokiJoined(l) \/ LokiChanged(l) \/ LokiDeparted(l)
          PROVE  Kept
      <3>1. lokiSeen' \subseteq LokiUnits /\ connected \in SUBSET Containers
        BY <1>2, <2>1 DEF LokiJoined, LokiChanged, LokiDeparted, LogIInv, LogTypeOK
      <3>2. UpdateEndpoints(connected, lokiSeen')
        BY <2>1 DEF LokiJoined, LokiChanged, LokiDeparted, UpdateEndpoints
      <3> QED BY <1>1, <1>2, <3>1, <3>2
    <2>2. ASSUME NEW c \in Containers, PebbleReady(c) PROVE Kept
      <3>1. lokiSeen' \subseteq LokiUnits /\ UpdateEndpoints({c}, lokiSeen')
        BY <1>2, <2>2 DEF PebbleReady, UpdateEndpoints, LogIInv, LogTypeOK
      <3> QED BY <1>1, <1>2, <3>1
    <2>3. ASSUME NEW l \in LokiUnits,
                 \/ LokiAdded(l) \/ LokiRemoved(l)
                 \/ \E url \in LogUrls : LokiPublishes(l, url)
          PROVE  Kept
      BY <2>3 DEF LokiAdded, LokiRemoved, LokiPublishes
    <2>4. ASSUME NEW c \in Containers, ContainerLost(c) \/ ContainerBack(c) PROVE Kept
      BY <1>2, <2>4 DEF ContainerLost, ContainerBack, LogIInv, LogTypeOK
    <2> QED BY <1>2, <2>1, <2>2, <2>3, <2>4 DEF LogNext
  <1>3. ASSUME UNCHANGED logVars PROVE Kept
    BY <1>3 DEF logVars
  <1>4. LogIInv /\ [LogNext]_logVars => [Kept]_logVars
    BY <1>2, <1>3
  <1> QED BY <1>4, LogInvariant, PTL DEF LogSpec, OnlyUnreadyInterrupted

------------------------------------------------------------------------------
(* Promtail                                                                *)

Boxes == [installed : BOOLEAN, layered : BOOLEAN, file : SUBSET ProxyUrls, sends : SUBSET ProxyUrls]

\* Promtail runs only with a binary, with the clients of its file, and for
\* units of Loki that have an address; the layer comes with an attached binary.
Sound(b, seen) ==
    /\ b \in Boxes
    /\ b.installed => b.layered
    /\ attached /\ b.layered => b.installed
    /\ b.sends # {} => b.installed /\ b.sends = b.file /\ Clients(seen) # {}

\* The clients are those of seen.
Follows(b, seen) ==
    /\ b.file = Clients(seen)
    /\ b.sends = IF b.installed THEN Clients(seen) ELSE {}

\* What is in the container is lost with it,
BoxKnown == ~boxUp => box = EmptyBox

\* a unit without the relation knows no unit of Loki,
KnownInRelation == ~proxyRelated => lokisKnown = {}

\* the layer comes with the news of the binary, or before anything else,
LayeredInTime ==
    integrated /\ binaryInfo /\ boxUp /\ ~boxReadyDue /\ failedHook = "none"
      => box.layered \/ LokiApp \in proxyNews \/ ~proxyRelated

\* and without news of those it knows, Promtail follows them.
FollowsKnown ==
    box.layered /\ failedHook = "none" /\ lokisKnown \subseteq lokisThere
      /\ proxyNews \cap lokisKnown = {}
      => Follows(box, lokisKnown)

ProxyIInv ==
    /\ ProxyTypeOK /\ Sound(box, lokisKnown)
    /\ BoxKnown /\ KnownInRelation /\ LayeredInTime /\ FollowsKnown

-----------------------------------------------------------------------------

\* Promtail's clients are addresses that units of Loki have published.
LEMMA ClientsAreUrls ==
    ASSUME ProxyTypeOK, NEW seen \in SUBSET ProxyLokis
    PROVE  Clients(seen) \in SUBSET ProxyUrls
  BY DEF ProxyTypeOK, Clients

\* _setup_promtail
LEMMA SetupFollows ==
    ASSUME ProxyTypeOK, NEW seen \in SUBSET ProxyLokis, Sound(box, seen), SetupPromtail(seen)
    PROVE  /\ cached' \in BOOLEAN
           /\ Sound(box', seen)
           /\ binaryInfo => box'.layered /\ Follows(box', seen)
           /\ ~binaryInfo => box' = box
  <1>1. CASE binaryInfo
    <2> DEFINE clients == Clients(seen)
               b == [box EXCEPT !.installed = Installed, !.layered = TRUE, !.file = clients]
    <2>1. /\ EnsureBinary
          /\ box' = IF clients = {} THEN b ELSE [b EXCEPT !.sends = Restarted(b, clients)]
      BY <1>1 DEF SetupPromtail
    <2>2. clients \in SUBSET ProxyUrls
      BY ClientsAreUrls
    <2>3. /\ Installed \in BOOLEAN /\ cached' \in BOOLEAN
          /\ box.installed => Installed
          /\ attached => Installed
      BY <2>1 DEF Installed, MustDownload, EnsureBinary, ProxyTypeOK, Sound, Boxes
    <2> HIDE DEF clients
    <2>4. box \in Boxes
      BY DEF Sound
    <2>5. /\ b \in Boxes /\ b.layered = TRUE /\ b.file = clients
          /\ b.installed = Installed /\ b.sends = box.sends
      BY <2>2, <2>3, <2>4 DEF Boxes
    <2>6. Restarted(b, clients) \in SUBSET ProxyUrls
      BY <2>2 DEF Restarted
    <2> HIDE DEF b
    <2>7. /\ box' \in Boxes /\ box'.layered = TRUE /\ box'.file = clients
          /\ box'.installed = Installed
          /\ box'.sends = IF clients = {} THEN box.sends ELSE Restarted(b, clients)
      BY <2>1, <2>5, <2>6 DEF Boxes
    <2>8. clients = {} => box.sends = {}
      BY DEF Sound, clients
    <2>9. box'.sends = IF Installed THEN clients ELSE {}
      BY <2>3, <2>5, <2>7, <2>8 DEF Restarted
    <2> QED BY <1>1, <2>3, <2>7, <2>9 DEF Sound, Follows, clients
  <1>2. CASE ~binaryInfo
    BY <1>2 DEF SetupPromtail, ProxyTypeOK
  <1> QED BY <1>1, <1>2

\* _on_relation_changed
LEMMA ChangedFollows ==
    ASSUME ProxyTypeOK, BoxKnown, NEW seen \in SUBSET ProxyLokis, Sound(box, seen),
           PromtailChanged(seen)
    PROVE  /\ cached' \in BOOLEAN /\ failedHook' \in {"none", "changed"}
           /\ Sound(box', seen)
           /\ ~boxUp => box' = box
           /\ boxUp /\ binaryInfo => box'.layered
           /\ box'.layered => Follows(box', seen)
  <1>1. CASE ~boxUp
    BY <1>1 DEF PromtailChanged, ProxyTypeOK, BoxKnown, EmptyBox
  <1>2. CASE boxUp /\ ~box.layered
    BY <1>2, SetupFollows DEF PromtailChanged
  <1>3. CASE boxUp /\ box.layered
    <2> DEFINE clients == Clients(seen)
               b == [box EXCEPT !.file = clients]
    <2>1. /\ box' = IF clients = {} THEN b ELSE [b EXCEPT !.sends = Restarted(b, clients)]
          /\ failedHook' \in {"none", "changed"}
          /\ UNCHANGED cached
      BY <1>3 DEF PromtailChanged, UpdatePromtail
    <2>2. clients \in SUBSET ProxyUrls
      BY ClientsAreUrls
    <2>3. clients = {} => box.sends = {}
      BY DEF Sound
    <2> HIDE DEF clients
    <2>4. box \in Boxes
      BY DEF Sound
    <2>5. /\ b \in Boxes /\ b.layered = box.layered /\ b.file = clients
          /\ b.installed = box.installed /\ b.sends = box.sends
      BY <2>2, <2>4 DEF Boxes
    <2>6. Restarted(b, clients) \in SUBSET ProxyUrls
      BY <2>2 DEF Restarted
    <2> HIDE DEF b
    <2>7. /\ box' \in Boxes /\ box'.layered = box.layered /\ box'.file = clients
          /\ box'.installed = box.installed
          /\ box'.sends = IF clients = {} THEN box.sends ELSE Restarted(b, clients)
      BY <2>1, <2>5, <2>6 DEF Boxes
    <2>8. box'.sends = IF box.installed THEN clients ELSE {}
      BY <2>3, <2>5, <2>7 DEF Restarted
    <2> QED BY <1>3, <2>1, <2>7, <2>8 DEF Sound, Follows, clients, ProxyTypeOK
  <1> QED BY <1>1, <1>2, <1>3

\* _on_relation_departed, whatever the unit knew before.
LEMMA DepartedFollows ==
    ASSUME ProxyTypeOK, BoxKnown, NEW before, NEW seen \in SUBSET ProxyLokis,
           Sound(box, before), PromtailDeparted(seen)
    PROVE  /\ cached' = cached /\ failedHook' \in {"none", "departed"}
           /\ Sound(box', seen)
           /\ ~boxUp => box' = box
           /\ boxUp /\ failedHook' = "none" => box'.layered
           /\ box'.layered => Follows(box', seen)
  <1>1. /\ cached' = cached /\ failedHook' \in {"none", "departed"}
        /\ boxUp /\ failedHook' = "none" => box.layered
    BY DEF PromtailDeparted
  <1>2. CASE ~boxUp
    BY <1>1, <1>2 DEF PromtailDeparted, BoxKnown, EmptyBox, Sound
  <1>3. CASE boxUp
    <2> DEFINE clients == Clients(seen)
               b == [box EXCEPT !.file = clients]
    <2>1. box' = PromtailAfter(b, clients)
      BY <1>3 DEF PromtailDeparted
    <2>2. clients \in SUBSET ProxyUrls
      BY ClientsAreUrls
    <2> HIDE DEF clients
    <2>3. box \in Boxes
      BY DEF Sound
    <2>4. /\ b \in Boxes /\ b.layered = box.layered /\ b.file = clients
          /\ b.installed = box.installed /\ b.sends = box.sends
      BY <2>2, <2>3 DEF Boxes
    <2>5. Restarted(b, clients) \in SUBSET ProxyUrls
      BY <2>2 DEF Restarted
    <2> HIDE DEF b
    <2>6. /\ box' \in Boxes /\ box'.layered = box.layered /\ box'.file = clients
          /\ box'.installed = box.installed
          /\ box'.sends = IF ~box.layered THEN box.sends
                          ELSE IF clients = {} THEN {} ELSE Restarted(b, clients)
      BY <2>1, <2>4, <2>5 DEF Boxes, PromtailAfter
    <2>7. ~box.layered => box.sends = {} /\ ~box.installed
      BY DEF Sound
    <2>8. box'.sends = IF box.installed THEN clients ELSE {}
      BY <2>4, <2>6, <2>7 DEF Restarted
    <2> QED BY <1>1, <1>3, <2>6, <2>8 DEF Sound, Follows, clients
  <1> QED BY <1>2, <1>3

LEMMA ProxyInitIInv == ProxyInit => ProxyIInv
  <1> SUFFICES ASSUME ProxyInit PROVE ProxyIInv
    OBVIOUS
  <1>1. box = EmptyBox /\ box \in Boxes /\ ~box.layered /\ ~box.installed /\ box.sends = {}
    BY DEF ProxyInit, EmptyBox, Boxes
  <1>2. proxyChanges \in 0..MaxProxyChanges
    BY ProxyAssumption DEF ProxyInit
  <1>3. ProxyTypeOK
    BY <1>1, <1>2 DEF ProxyInit, ProxyTypeOK, Boxes
  <1> QED BY <1>1, <1>3
          DEF ProxyInit, ProxyIInv, Sound, BoxKnown, KnownInRelation, LayeredInTime,
              FollowsKnown

\* Without the relation, or with no unit that has an address, nothing runs.
LEMMA NothingRuns ==
    ASSUME ProxyIInv, lokisKnown = {}
    PROVE  box.sends = {} /\ Sound(box, {})
  <1>1. Clients({}) = {}
    BY DEF Clients
  <1> QED BY <1>1 DEF ProxyIInv, Sound

\* The hooks, one by one.
LEMMA ProxyCreatedKeeps ==
    ASSUME ProxyIInv, ProxyCreated PROVE ProxyIInv'
  <1>0. ProxyTypeOK
    BY DEF ProxyIInv
  <1>1. /\ failedHook = "none" /\ proxyRelated' = TRUE /\ ~proxyRelated
        /\ UNCHANGED <<integrated, binaryInfo, proxyUrl, lokisThere, lokisKnown, proxyNews,
                       failedHook, boxUp, boxReadyDue, attached, reachable, proxyChanges>>
    BY DEF ProxyCreated, lokiSide, boxLife, origin
  <1>2. lokisKnown = {} /\ Sound(box, {})
    BY <1>1, NothingRuns DEF ProxyIInv, KnownInRelation
  <1>3. /\ cached' \in BOOLEAN /\ Sound(box', {})
        /\ boxUp /\ binaryInfo => box'.layered /\ Follows(box', {})
        /\ ~(boxUp /\ binaryInfo) => box' = box
    <2>1. CASE boxUp
      BY <1>0, <1>2, <2>1, SetupFollows DEF ProxyCreated
    <2>2. CASE ~boxUp
      BY <1>0, <1>2, <2>2 DEF ProxyCreated, ProxyTypeOK
    <2> QED BY <2>1, <2>2
  <1>4. ProxyTypeOK'
    BY <1>0, <1>1, <1>3 DEF ProxyTypeOK, Sound, Boxes
  <1>5. Sound(box, lokisKnown)'
    BY <1>1, <1>2, <1>3 DEF Sound, Clients
  <1>6. FollowsKnown'
    BY <1>1, <1>2, <1>3 DEF ProxyIInv, FollowsKnown, Follows, Clients
  <1>7. BoxKnown' /\ KnownInRelation' /\ LayeredInTime'
    BY <1>1, <1>3 DEF ProxyIInv, BoxKnown, KnownInRelation, LayeredInTime, EmptyBox
  <1> QED BY <1>4, <1>5, <1>6, <1>7 DEF ProxyIInv

LEMMA ProxyJoinedKeeps ==
    ASSUME ProxyIInv, NEW l \in ProxyLokis, ProxyJoined(l) PROVE ProxyIInv'
  <1>0. ProxyTypeOK
    BY DEF ProxyIInv
  <1>1. /\ proxyRelated /\ lokisKnown' = lokisKnown \cup {l} /\ proxyNews' = proxyNews \cup {l}
        /\ UNCHANGED <<integrated, binaryInfo, proxyUrl, lokisThere, proxyRelated, failedHook,
                       boxUp, boxReadyDue, attached, reachable, cached, box, proxyChanges>>
    BY DEF ProxyJoined, lokiSide, boxLife, origin
  <1>2. ProxyTypeOK'
    BY <1>0, <1>1 DEF ProxyTypeOK
  <1>3. Clients(lokisKnown) \subseteq Clients(lokisKnown')
    BY <1>1 DEF Clients
  <1>4. Sound(box, lokisKnown)'
    BY <1>1, <1>3 DEF ProxyIInv, Sound, Clients
  <1> QED BY <1>1, <1>2, <1>4
          DEF ProxyIInv, BoxKnown, KnownInRelation, LayeredInTime, FollowsKnown, EmptyBox

LEMMA ProxyChangedKeeps ==
    ASSUME ProxyIInv,
           PromtailChanged(lokisKnown),
           \/ \E x \in ProxyLokis \cup {LokiApp} : ProxyChanged(x)
           \/ RetryHook
    PROVE  ProxyIInv'
  <1>0. ProxyTypeOK /\ lokisKnown \in SUBSET ProxyLokis
    BY DEF ProxyIInv, ProxyTypeOK
  <1>1. /\ proxyNews' \subseteq proxyNews
        /\ UNCHANGED <<integrated, binaryInfo, proxyUrl, lokisThere, proxyRelated, lokisKnown,
                       boxUp, boxReadyDue, attached, reachable, proxyChanges>>
    BY DEF ProxyChanged, RetryHook, lokiSide, known, boxLife, origin
  <1>2. /\ cached' \in BOOLEAN /\ failedHook' \in {"none", "changed"}
        /\ Sound(box', lokisKnown)
        /\ ~boxUp => box' = box
        /\ boxUp /\ binaryInfo => box'.layered
        /\ box'.layered => Follows(box', lokisKnown)
    BY <1>0, ChangedFollows DEF ProxyIInv
  <1>3. ProxyTypeOK'
    BY <1>0, <1>1, <1>2 DEF ProxyTypeOK, Sound, Boxes
  <1>4. Sound(box, lokisKnown)' /\ FollowsKnown'
    BY <1>1, <1>2 DEF Sound, FollowsKnown, Follows, Clients
  <1>5. BoxKnown' /\ KnownInRelation' /\ LayeredInTime'
    BY <1>1, <1>2 DEF ProxyIInv, BoxKnown, KnownInRelation, LayeredInTime, EmptyBox
  <1> QED BY <1>3, <1>4, <1>5 DEF ProxyIInv

LEMMA ProxyDepartedKeeps ==
    ASSUME ProxyIInv, PromtailDeparted(lokisKnown'),
           (\E l \in ProxyLokis : ProxyDeparted(l)) \/ RetryHook
    PROVE  ProxyIInv'
  <1>0. ProxyTypeOK
    BY DEF ProxyIInv
  <1>1. /\ proxyNews' \subseteq proxyNews /\ lokisKnown' \subseteq lokisKnown
        /\ LokiApp \in proxyNews => LokiApp \in proxyNews'
        /\ UNCHANGED <<integrated, binaryInfo, proxyUrl, lokisThere, proxyRelated,
                       boxUp, boxReadyDue, attached, reachable, proxyChanges>>
    BY ProxyAssumption DEF ProxyDeparted, RetryHook, lokiSide, known, boxLife, origin
  <1>2. lokisKnown' \in SUBSET ProxyLokis
    BY <1>0, <1>1 DEF ProxyTypeOK
  <1>3. /\ cached' = cached /\ failedHook' \in {"none", "departed"}
        /\ Sound(box', lokisKnown')
        /\ ~boxUp => box' = box
        /\ boxUp /\ failedHook' = "none" => box'.layered
        /\ box'.layered => Follows(box', lokisKnown')
    BY <1>0, <1>2, DepartedFollows DEF ProxyIInv
  <1>4. ProxyTypeOK'
    BY <1>0, <1>1, <1>2, <1>3 DEF ProxyTypeOK, Sound, Boxes
  <1>5. Sound(box, lokisKnown)' /\ FollowsKnown'
    BY <1>1, <1>3 DEF Sound, FollowsKnown, Follows, Clients
  <1>6. BoxKnown' /\ KnownInRelation' /\ LayeredInTime'
    BY <1>1, <1>3 DEF ProxyIInv, BoxKnown, KnownInRelation, LayeredInTime, EmptyBox
  <1> QED BY <1>4, <1>5, <1>6 DEF ProxyIInv

LEMMA BoxReadyKeeps ==
    ASSUME ProxyIInv, BoxReady PROVE ProxyIInv'
  <1>0. ProxyTypeOK /\ lokisKnown \in SUBSET ProxyLokis
    BY DEF ProxyIInv, ProxyTypeOK
  <1>1. /\ boxUp /\ boxReadyDue' = FALSE
        /\ UNCHANGED <<integrated, binaryInfo, proxyUrl, lokisThere, proxyRelated, lokisKnown,
                       proxyNews, failedHook, boxUp, attached, reachable, proxyChanges>>
    BY DEF BoxReady, lokiSide, known, origin
  <1>2. /\ cached' \in BOOLEAN /\ Sound(box', lokisKnown)
        /\ proxyRelated /\ binaryInfo => box'.layered /\ Follows(box', lokisKnown)
        /\ ~(proxyRelated /\ binaryInfo) => box' = box
    <2>1. CASE proxyRelated
      BY <1>0, <2>1, SetupFollows DEF BoxReady, ProxyIInv
    <2>2. CASE ~proxyRelated
      BY <1>0, <2>2 DEF BoxReady, ProxyIInv, ProxyTypeOK
    <2> QED BY <2>1, <2>2
  <1>3. ProxyTypeOK'
    BY <1>0, <1>1, <1>2 DEF ProxyTypeOK, Sound, Boxes
  <1>4. Sound(box, lokisKnown)' /\ FollowsKnown'
    BY <1>1, <1>2 DEF ProxyIInv, Sound, FollowsKnown, Follows, Clients
  <1>5. BoxKnown' /\ KnownInRelation' /\ LayeredInTime'
    BY <1>1, <1>2 DEF ProxyIInv, BoxKnown, KnownInRelation, LayeredInTime
  <1> QED BY <1>3, <1>4, <1>5 DEF ProxyIInv

LEMMA ProxyBrokenKeeps ==
    ASSUME ProxyIInv, ProxyBroken PROVE ProxyIInv'
  <1>1. /\ ~integrated /\ lokisKnown = {} /\ proxyRelated' = FALSE /\ binaryInfo' = FALSE
        /\ proxyNews' = {}
        /\ UNCHANGED <<integrated, proxyUrl, lokisThere, lokisKnown, failedHook, boxUp,
                       boxReadyDue, attached, reachable, cached, box, proxyChanges>>
    BY DEF ProxyBroken, boxLife, origin
  <1>2. ProxyTypeOK'
    BY <1>1 DEF ProxyIInv, ProxyTypeOK
  <1>3. Sound(box, lokisKnown)' /\ FollowsKnown'
    BY <1>1 DEF ProxyIInv, Sound, FollowsKnown, Follows, Clients
  <1> QED BY <1>1, <1>2, <1>3
          DEF ProxyIInv, BoxKnown, KnownInRelation, LayeredInTime, EmptyBox

\* Loki and its units.
LEMMA LokiKeeps ==
    ASSUME ProxyIInv,
           \/ IntegrateLoki \/ DisintegrateLoki \/ PublishBinaryInfo
           \/ \E l \in ProxyLokis : \/ LokiUnitComes(l) \/ LokiUnitGoes(l)
                                    \/ \E url \in ProxyUrls : LokiUnitPublishes(l, url)
    PROVE  ProxyIInv'
  <1>0. ProxyTypeOK
    BY DEF ProxyIInv
  <1>1. /\ UNCHANGED <<proxyRelated, lokisKnown, failedHook, boxUp, boxReadyDue, attached,
                       reachable, cached, box>>
        /\ proxyChanges' \in 0..MaxProxyChanges
    BY <1>0, ProxyAssumption
       DEF ProxyTypeOK, IntegrateLoki, DisintegrateLoki, PublishBinaryInfo, LokiUnitComes,
           LokiUnitGoes, LokiUnitPublishes, ProxyChange, known, boxLife, origin
  <1>2. BoxKnown' /\ KnownInRelation'
    BY <1>1 DEF ProxyIInv, BoxKnown, KnownInRelation, EmptyBox
  <1>3. CASE IntegrateLoki
    <2>1. /\ ~proxyRelated /\ integrated' = TRUE
          /\ UNCHANGED <<binaryInfo, proxyUrl, lokisThere, proxyNews>>
      BY <1>3 DEF IntegrateLoki, known
    <2>2. ProxyTypeOK' /\ LayeredInTime'
      BY <1>0, <1>1, <2>1 DEF ProxyTypeOK, LayeredInTime
    <2>3. Sound(box, lokisKnown)' /\ FollowsKnown'
      BY <1>1, <2>1 DEF ProxyIInv, Sound, FollowsKnown, Follows, Clients
    <2> QED BY <1>2, <2>2, <2>3 DEF ProxyIInv
  <1>4. CASE DisintegrateLoki
    <2>1. /\ integrated' = FALSE /\ lokisThere' = {} /\ proxyNews' = {}
          /\ UNCHANGED <<binaryInfo, proxyUrl>>
      BY <1>4 DEF DisintegrateLoki
    <2>2. ProxyTypeOK' /\ LayeredInTime'
      BY <1>0, <1>1, <2>1 DEF ProxyTypeOK, LayeredInTime
    <2>3. Sound(box, lokisKnown)' /\ FollowsKnown'
      BY <1>1, <2>1 DEF ProxyIInv, Sound, FollowsKnown, Follows, Clients
    <2> QED BY <1>2, <2>2, <2>3 DEF ProxyIInv
  <1>5. CASE PublishBinaryInfo
    <2>1. /\ proxyNews' = proxyNews \cup {LokiApp} /\ binaryInfo' = TRUE
          /\ UNCHANGED <<integrated, proxyUrl, lokisThere>>
      BY <1>5 DEF PublishBinaryInfo
    <2>2. ProxyTypeOK' /\ LayeredInTime'
      BY <1>0, <1>1, <2>1 DEF ProxyTypeOK, LayeredInTime
    <2>3. Sound(box, lokisKnown)' /\ FollowsKnown'
      BY <1>1, <2>1 DEF ProxyIInv, Sound, FollowsKnown, Follows, Clients
    <2> QED BY <1>2, <2>2, <2>3 DEF ProxyIInv
  <1>6. ASSUME NEW l \in ProxyLokis, LokiUnitComes(l) PROVE ProxyIInv'
    <2>1. /\ l \notin lokisKnown /\ lokisThere' = lokisThere \cup {l}
          /\ proxyUrl' = [proxyUrl EXCEPT ![l] = NoProxyUrl]
          /\ UNCHANGED <<integrated, binaryInfo, proxyNews>>
      BY <1>6 DEF LokiUnitComes, known
    <2>2. ProxyTypeOK' /\ LayeredInTime'
      BY <1>0, <1>1, <2>1 DEF ProxyIInv, ProxyTypeOK, LayeredInTime
    <2>3. Clients(lokisKnown)' = Clients(lokisKnown)
      BY <1>0, <1>1, <2>1 DEF Clients, ProxyTypeOK
    <2>4. Sound(box, lokisKnown)' /\ FollowsKnown'
      BY <1>1, <2>1, <2>3 DEF ProxyIInv, Sound, FollowsKnown, Follows
    <2> QED BY <1>2, <2>2, <2>4 DEF ProxyIInv
  <1>7. ASSUME NEW l \in ProxyLokis, LokiUnitGoes(l) PROVE ProxyIInv'
    <2>1. /\ lokisThere' = lokisThere \ {l} /\ proxyNews' = proxyNews \ {l}
          /\ UNCHANGED <<integrated, binaryInfo, proxyUrl>>
      BY <1>7 DEF LokiUnitGoes
    <2>2. ProxyTypeOK' /\ LayeredInTime'
      BY <1>0, <1>1, <2>1, ProxyAssumption DEF ProxyIInv, ProxyTypeOK, LayeredInTime
    <2>3. Sound(box, lokisKnown)' /\ FollowsKnown'
      BY <1>1, <2>1 DEF ProxyIInv, Sound, FollowsKnown, Follows, Clients
    <2> QED BY <1>2, <2>2, <2>3 DEF ProxyIInv
  <1>8. ASSUME NEW l \in ProxyLokis, NEW url \in ProxyUrls, LokiUnitPublishes(l, url)
        PROVE  ProxyIInv'
    <2>1. /\ proxyUrl' = [proxyUrl EXCEPT ![l] = url] /\ proxyNews' = proxyNews \cup {l}
          /\ UNCHANGED <<integrated, binaryInfo, lokisThere>>
      BY <1>8 DEF LokiUnitPublishes
    <2>2. ProxyTypeOK' /\ LayeredInTime'
      BY <1>0, <1>1, <2>1 DEF ProxyIInv, ProxyTypeOK, LayeredInTime
    <2>3. /\ l \notin lokisKnown => Clients(lokisKnown)' = Clients(lokisKnown)
          /\ Clients(lokisKnown) # {} => Clients(lokisKnown)' # {}
      <3>1. /\ proxyUrl'[l] = url /\ url # NoProxyUrl
            /\ \A k \in ProxyLokis : k # l => proxyUrl'[k] = proxyUrl[k]
        BY <1>0, <2>1, ProxyAssumption DEF ProxyTypeOK
      <3> QED BY <1>0, <1>1, <3>1 DEF Clients, ProxyTypeOK
    <2>4. Sound(box, lokisKnown)'
      BY <1>1, <2>3 DEF ProxyIInv, Sound
    <2>5. FollowsKnown'
      BY <1>1, <2>1, <2>3 DEF ProxyIInv, FollowsKnown, Follows
    <2> QED BY <1>2, <2>2, <2>4, <2>5 DEF ProxyIInv
  <1> QED BY <1>3, <1>4, <1>5, <1>6, <1>7, <1>8

\* The container, the pod of the charm, and where the binary comes from.
LEMMA BoxLifeKeeps ==
    ASSUME ProxyIInv, BoxLost \/ BoxBack \/ CharmPodRestarts \/ DownloadsChange
    PROVE  ProxyIInv'
  <1>1. /\ proxyChanges' \in 0..MaxProxyChanges
        /\ UNCHANGED <<integrated, binaryInfo, proxyUrl, lokisThere, proxyRelated, lokisKnown,
                       proxyNews, failedHook, attached>>
    BY ProxyAssumption
       DEF ProxyIInv, ProxyTypeOK, BoxLost, BoxBack, CharmPodRestarts, DownloadsChange,
           ProxyChange, lokiSide, known, origin
  <1>2. /\ boxUp' \in BOOLEAN /\ boxReadyDue' \in BOOLEAN
        /\ cached' \in BOOLEAN /\ reachable' \in BOOLEAN
        /\ box' \in {EmptyBox, box}
        /\ boxUp' /\ ~boxReadyDue' => boxUp /\ ~boxReadyDue /\ box' = box
        /\ ~boxUp' => box' = EmptyBox
    <2>1. CASE BoxLost
      BY <2>1 DEF BoxLost, ProxyIInv, ProxyTypeOK, origin
    <2>2. CASE BoxBack
      BY <2>2 DEF BoxBack, ProxyIInv, ProxyTypeOK, BoxKnown, origin
    <2>3. CASE CharmPodRestarts \/ DownloadsChange
      <3>1. cached' \in BOOLEAN /\ reachable' \in BOOLEAN
        BY <2>3 DEF CharmPodRestarts, DownloadsChange, ProxyIInv, ProxyTypeOK, origin
      <3>2. UNCHANGED <<boxUp, boxReadyDue, box>>
        BY <2>3 DEF CharmPodRestarts, DownloadsChange, boxLife
      <3> QED BY <3>1, <3>2 DEF ProxyIInv, ProxyTypeOK, BoxKnown
    <2> QED BY <2>1, <2>2, <2>3
  <1>3. EmptyBox \in Boxes /\ ~EmptyBox.layered /\ ~EmptyBox.installed /\ EmptyBox.sends = {}
    BY DEF EmptyBox, Boxes
  <1>4. Sound(box, lokisKnown)' /\ FollowsKnown'
    BY <1>1, <1>2, <1>3 DEF ProxyIInv, Sound, FollowsKnown, Follows, Clients
  <1>5. ProxyTypeOK'
    BY <1>1, <1>2, <1>4 DEF ProxyIInv, ProxyTypeOK, Sound, Boxes
  <1>6. BoxKnown' /\ KnownInRelation' /\ LayeredInTime'
    BY <1>1, <1>2 DEF ProxyIInv, BoxKnown, KnownInRelation, LayeredInTime, EmptyBox
  <1> QED BY <1>4, <1>5, <1>6 DEF ProxyIInv

LEMMA ProxyKeepsIInv == ProxyIInv /\ [ProxyNext]_proxyVars => ProxyIInv'
  <1> SUFFICES ASSUME ProxyIInv, [ProxyNext]_proxyVars PROVE ProxyIInv'
    OBVIOUS
  <1>1. CASE UNCHANGED proxyVars
    <2>1. UNCHANGED <<integrated, binaryInfo, proxyUrl, lokisThere, proxyRelated, lokisKnown,
                      proxyNews, failedHook, boxUp, boxReadyDue, attached, reachable, cached,
                      box, proxyChanges>>
      BY <1>1 DEF proxyVars, lokiSide, known, boxLife, origin
    <2>2. ProxyTypeOK' /\ BoxKnown' /\ KnownInRelation' /\ LayeredInTime'
      BY <2>1 DEF ProxyIInv, ProxyTypeOK, BoxKnown, KnownInRelation, LayeredInTime, EmptyBox
    <2>3. Sound(box, lokisKnown)' /\ FollowsKnown'
      BY <2>1 DEF ProxyIInv, Sound, FollowsKnown, Follows, Clients
    <2> QED BY <2>2, <2>3 DEF ProxyIInv
  <1>2. CASE \E x \in ProxyLokis \cup {LokiApp} : ProxyChanged(x)
    BY <1>2, ProxyChangedKeeps DEF ProxyChanged
  <1>3. CASE \E l \in ProxyLokis : ProxyDeparted(l)
    BY <1>3, ProxyDepartedKeeps DEF ProxyDeparted
  <1>4. CASE RetryHook
    <2>1. lokisKnown' = lokisKnown
      BY <1>4 DEF RetryHook, known
    <2>2. PromtailChanged(lokisKnown) \/ PromtailDeparted(lokisKnown)
      BY <1>4 DEF RetryHook
    <2>3. CASE PromtailChanged(lokisKnown)
      BY <1>4, <2>3, ProxyChangedKeeps
    <2>4. CASE PromtailDeparted(lokisKnown)
      <3>1. PromtailDeparted(lokisKnown')
        BY <2>1, <2>4
      <3> QED BY <1>4, <3>1, ProxyDepartedKeeps
    <2> QED BY <2>2, <2>3, <2>4
  <1>5. CASE ProxyCreated \/ ProxyBroken \/ BoxReady
    BY <1>5, ProxyCreatedKeeps, ProxyBrokenKeeps, BoxReadyKeeps
  <1>6. CASE \/ IntegrateLoki \/ DisintegrateLoki \/ PublishBinaryInfo
             \/ \E l \in ProxyLokis : \/ LokiUnitComes(l) \/ LokiUnitGoes(l)
                                      \/ \E url \in ProxyUrls : LokiUnitPublishes(l, url)
    BY <1>6, LokiKeeps
  <1>7. CASE \E l \in ProxyLokis : ProxyJoined(l)
    BY <1>7, ProxyJoinedKeeps
  <1>8. CASE BoxLost \/ BoxBack \/ CharmPodRestarts \/ DownloadsChange
    BY <1>8, BoxLifeKeeps
  <1> QED BY <1>1, <1>2, <1>3, <1>4, <1>5, <1>6, <1>7, <1>8 DEF ProxyNext

LEMMA ProxyInvariant == ProxySpec => []ProxyIInv
  BY ProxyInitIInv, ProxyKeepsIInv, PTL DEF ProxySpec

\* Promtail is installed if its binary can be had, and sends to the units of
\* Loki that are there (LogProxyConsumer), for any number of units and
\* addresses, whatever fails or restarts.
THEOREM PromtailAlwaysArrives == ProxySpec => []PromtailArrives
  <1>1. ProxyIInv => PromtailArrives
    <2> SUFFICES ASSUME ProxyIInv PROVE PromtailArrives
      OBVIOUS
    <2>1. box.sends # {} => box.sends = box.file
      BY DEF ProxyIInv, Sound
    <2>2. ASSUME ProxySettled
          PROVE  /\ box.sends = IF box.installed THEN Clients(lokisThere) ELSE {}
                 /\ integrated /\ binaryInfo => box.layered /\ box.file = Clients(lokisThere)
      <3>1. /\ proxyRelated = integrated /\ lokisKnown = lokisThere /\ proxyNews = {}
            /\ boxUp /\ ~boxReadyDue /\ failedHook = "none"
        BY <2>2 DEF ProxySettled
      <3>2. box.layered => Follows(box, lokisThere)
        BY <3>1 DEF ProxyIInv, FollowsKnown
      <3>3. integrated /\ binaryInfo => box.layered
        BY <3>1 DEF ProxyIInv, LayeredInTime
      <3>4. ~box.layered => ~box.installed /\ box.sends = {}
        BY DEF ProxyIInv, Sound
      <3> QED BY <3>2, <3>3, <3>4 DEF Follows
    <2>3. BinaryObtained
      BY DEF BinaryObtained, ProxySettled, ProxyIInv, LayeredInTime, Sound
    <2> QED BY <2>1, <2>2, <2>3 DEF PromtailArrives, PromtailFollows
  <1> QED BY <1>1, ProxyInvariant, PTL

------------------------------------------------------------------------------
(* Alert rules                                                             *)

\* A databag goes with its relation.
BagsOfRelated == \A a \in RuleApps \ rulesRelated : ruleBag[a] = Unset

\* What unit u has loaded is right for the relations in seen.
LoadedFor(L, seen) ==
    /\ \A e \in L : e[2] \in Claims(seen, e[1]) /\ IsValidGroup(ruleBag[e[2]])
    /\ \A d, e \in L : d[1] = e[1] => d = e
    /\ \A a \in seen : IsValidGroup(ruleBag[a])
         => \/ <<ruleBag[a].id, a>> \in L
            \/ \E b \in seen \ {a} :
                  ruleBag[b] \in RuleGroups /\ ruleBag[b].id = ruleBag[a].id

\* Nothing that matters is on its way to u: an event about a databag that has
\* never had rules changes nothing.
Fresh(u) ==
    /\ \A a \in ruleNews[u] : ruleBag[a] = Unset
    /\ rulesSeen[u] \subseteq rulesRelated
FreshAreLoaded == \A u \in RuleUnits : Fresh(u) => LoadedFor(loaded[u], rulesSeen[u])

\* The leader has judged what it has no news of.
RulesJudged ==
    evaluated =>
        \A a \in (rulesSeen[ruleLeader] \ ruleNews[ruleLeader]) \cap rulesRelated :
            /\ IsInvalidGroup(ruleBag[a]) => a \in errors
            /\ IsValidGroup(ruleBag[a])   => a \notin errors

RuleIInv ==
    /\ RuleTypeOK /\ BagsOfRelated
    /\ FreshAreLoaded /\ RulesJudged /\ BlamedAreTold

-----------------------------------------------------------------------------

\* The dictionary "alerts", whichever relation is the last with an identifier.
LEMMA AlertsAreRight ==
    ASSUME RuleTypeOK, NEW seen \in SUBSET RuleApps, NEW last \in Lasts(seen)
    PROVE  /\ Alerts(seen, last) \in SUBSET (Identifiers \X RuleApps)
           /\ LoadedFor(Alerts(seen, last), seen)
  <1>1. /\ last \in [Identifiers -> RuleApps]
        /\ \A i \in Identifiers : Claims(seen, i) # {} => last[i] \in Claims(seen, i)
    BY DEF Lasts
  <1>2. ASSUME NEW e \in Alerts(seen, last)
        PROVE  /\ e[1] \in Identifiers /\ e = <<e[1], last[e[1]]>>
               /\ e[2] \in Claims(seen, e[1]) /\ IsValidGroup(ruleBag[e[2]])
    BY <1>1 DEF Alerts
  <1>3. Alerts(seen, last) \in SUBSET (Identifiers \X RuleApps)
    BY <1>1 DEF Alerts
  <1>4. ASSUME NEW a \in seen, IsValidGroup(ruleBag[a])
        PROVE  \/ <<ruleBag[a].id, a>> \in Alerts(seen, last)
               \/ \E b \in seen \ {a} :
                     ruleBag[b] \in RuleGroups /\ ruleBag[b].id = ruleBag[a].id
    <2> DEFINE i == ruleBag[a].id
    <2>1. i \in Identifiers /\ a \in Claims(seen, i)
      BY <1>4 DEF IsValidGroup, RuleGroups, Claims
    <2>2. last[i] \in Claims(seen, i)
      BY <1>1, <2>1
    <2>3. CASE last[i] = a
      BY <1>4, <2>1, <2>3 DEF Alerts
    <2>4. CASE last[i] # a
      BY <2>2, <2>4 DEF Claims
    <2> QED BY <2>3, <2>4
  <1>5. ASSUME NEW d \in Alerts(seen, last), NEW e \in Alerts(seen, last), d[1] = e[1]
        PROVE  d = e
    BY <1>2, <1>5
  <1> QED BY <1>2, <1>3, <1>4, <1>5 DEF LoadedFor

\* What a unit that reads the rules of seen leaves behind.
LEMMA ReadAlertsRight ==
    ASSUME RuleTypeOK, BagsOfRelated, BlamedAreTold, NEW u \in RuleUnits,
           NEW seen \in SUBSET RuleApps, ReadAlerts(u, seen)
    PROVE  /\ loaded' \in [RuleUnits -> SUBSET (Identifiers \X RuleApps)]
           /\ LoadedFor(loaded'[u], seen)
           /\ \A v \in RuleUnits : v # u => loaded'[v] = loaded[v]
           /\ errors' \subseteq rulesRelated /\ verdictDue' \subseteq rulesRelated
           /\ errors' \subseteq reported \cup verdictDue'
           /\ u # ruleLeader => errors' = errors /\ evaluated' = evaluated
           /\ u = ruleLeader => \A a \in seen :
                                   /\ IsInvalidGroup(ruleBag[a]) => a \in errors'
                                   /\ IsValidGroup(ruleBag[a])   => a \notin errors'
           /\ evaluated' \in BOOLEAN
  <1>1. PICK last \in Lasts(seen) : loaded' = [loaded EXCEPT ![u] = Alerts(seen, last)]
    BY DEF ReadAlerts
  <1>2. /\ errors' = IF u = ruleLeader THEN Errors(seen) ELSE errors
        /\ verdictDue' = verdictDue \cup SymmetricDifference(errors, errors')
        /\ evaluated' = (evaluated \/ u = ruleLeader)
    BY DEF ReadAlerts
  <1>3. /\ loaded' \in [RuleUnits -> SUBSET (Identifiers \X RuleApps)]
        /\ loaded'[u] = Alerts(seen, last)
        /\ \A v \in RuleUnits : v # u => loaded'[v] = loaded[v]
    BY <1>1, AlertsAreRight DEF RuleTypeOK
  <1>4. LoadedFor(loaded'[u], seen)
    BY <1>3, AlertsAreRight
  <1>5. \A a \in seen : ruleBag[a] \in RuleGroups => a \in rulesRelated
    BY RuleAssumption DEF BagsOfRelated
  <1>6. Errors(seen) \subseteq rulesRelated
    BY <1>5 DEF Errors, IsInvalidGroup, RuleTypeOK
  <1>7. /\ errors' \subseteq rulesRelated /\ verdictDue' \subseteq rulesRelated
        /\ errors' \subseteq reported \cup verdictDue'
    BY <1>2, <1>6 DEF RuleTypeOK, SymmetricDifference, BlamedAreTold
  <1>8. ASSUME u = ruleLeader, NEW a \in seen
        PROVE  /\ IsInvalidGroup(ruleBag[a]) => a \in errors'
               /\ IsValidGroup(ruleBag[a])   => a \notin errors'
    BY <1>2, <1>8 DEF Errors, IsInvalidGroup, IsValidGroup
  <1> QED BY <1>2, <1>3, <1>4, <1>7, <1>8 DEF RuleTypeOK

LEMMA RuleInitIInv == RuleInit => RuleIInv
  <1> SUFFICES ASSUME RuleInit PROVE RuleIInv
    OBVIOUS
  <1>1. ruleChanges \in 0..MaxRuleChanges
    BY RuleAssumption DEF RuleInit
  <1>2. RuleTypeOK
    BY <1>1 DEF RuleInit, RuleTypeOK
  <1>3. \A u \in RuleUnits : LoadedFor(loaded[u], rulesSeen[u])
    BY DEF RuleInit, LoadedFor
  <1> QED BY <1>2, <1>3
          DEF RuleInit, RuleIInv, BagsOfRelated, FreshAreLoaded, RulesJudged, BlamedAreTold

\* A hook of u that reads the rules of all that it knows of then.
LEMMA ReadKeeps ==
    ASSUME RuleIInv, NEW u \in RuleUnits, ReadAlerts(u, rulesSeen'[u]),
           UNCHANGED <<ruleFiles, ruleBag, rulesRelated, ruleLeader, reported, ruleChanges>>,
           rulesSeen' \in [RuleUnits -> SUBSET RuleApps],
           ruleNews' \in [RuleUnits -> SUBSET RuleApps],
           ruleNews'[u] \subseteq rulesSeen'[u],
           \A v \in RuleUnits : v # u => rulesSeen'[v] = rulesSeen[v] /\ ruleNews'[v] = ruleNews[v]
    PROVE  RuleIInv'
  <1>0. RuleTypeOK /\ BagsOfRelated /\ BlamedAreTold /\ rulesSeen'[u] \in SUBSET RuleApps
    BY DEF RuleIInv
  <1>1. /\ loaded' \in [RuleUnits -> SUBSET (Identifiers \X RuleApps)]
        /\ LoadedFor(loaded'[u], rulesSeen'[u])
        /\ \A v \in RuleUnits : v # u => loaded'[v] = loaded[v]
        /\ errors' \subseteq rulesRelated /\ verdictDue' \subseteq rulesRelated
        /\ errors' \subseteq reported \cup verdictDue'
        /\ u # ruleLeader => errors' = errors /\ evaluated' = evaluated
        /\ u = ruleLeader => \A a \in rulesSeen'[u] :
                                /\ IsInvalidGroup(ruleBag[a]) => a \in errors'
                                /\ IsValidGroup(ruleBag[a])   => a \notin errors'
        /\ evaluated' \in BOOLEAN
    BY <1>0, ReadAlertsRight
  <1>2. RuleTypeOK'
    BY <1>0, <1>1 DEF RuleTypeOK
  <1>3. BagsOfRelated' /\ BlamedAreTold'
    BY <1>0, <1>1 DEF BagsOfRelated, BlamedAreTold
  <1>4. RulesJudged'
    <2>1. CASE u = ruleLeader
      BY <1>1, <2>1 DEF RulesJudged, IsInvalidGroup, IsValidGroup
    <2>2. CASE u # ruleLeader
      <3>1. ruleLeader \in RuleUnits
        BY <1>0 DEF RuleTypeOK
      <3> QED BY <1>1, <2>2, <3>1 DEF RuleIInv, RulesJudged, IsInvalidGroup, IsValidGroup
    <2> QED BY <2>1, <2>2
  <1>5. ASSUME NEW v \in RuleUnits, Fresh(v)' PROVE LoadedFor(loaded[v], rulesSeen[v])'
    <2>1. CASE v = u
      <3>1. LoadedFor(loaded'[v], rulesSeen'[v])
        BY <1>1, <2>1
      <3> QED BY <3>1 DEF LoadedFor, Claims, IsValidGroup
    <2>2. CASE v # u
      <3>1. Fresh(v)
        BY <1>5, <2>2 DEF Fresh
      <3>2. LoadedFor(loaded[v], rulesSeen[v])
        BY <3>1 DEF RuleIInv, FreshAreLoaded
      <3>3. loaded'[v] = loaded[v] /\ rulesSeen'[v] = rulesSeen[v]
        BY <1>1, <2>2
      <3> QED BY <3>2, <3>3 DEF LoadedFor, Claims, IsValidGroup
    <2> QED BY <2>1, <2>2
  <1> QED BY <1>2, <1>3, <1>4, <1>5 DEF RuleIInv, FreshAreLoaded

\* The hooks, one by one.
LEMMA RulesJoinedKeeps ==
    ASSUME RuleIInv, NEW u \in RuleUnits, NEW a \in RuleApps, RulesJoined(u, a)
    PROVE  RuleIInv'
  <1>0. RuleTypeOK
    BY DEF RuleIInv
  <1>1. /\ a \in rulesRelated \ rulesSeen[u]
        /\ rulesSeen' = [rulesSeen EXCEPT ![u] = @ \cup {a}]
        /\ ruleNews' = [ruleNews EXCEPT ![u] = @ \cup {a}]
        /\ UNCHANGED <<ruleFiles, ruleBag, rulesRelated, ruleLeader, evaluated,
                       loaded, errors, verdictDue, reported, ruleChanges>>
    BY DEF RulesJoined
  <1>2. /\ rulesSeen' \in [RuleUnits -> SUBSET RuleApps]
        /\ ruleNews' \in [RuleUnits -> SUBSET RuleApps]
        /\ rulesSeen'[u] = rulesSeen[u] \cup {a} /\ ruleNews'[u] = ruleNews[u] \cup {a}
        /\ \A v \in RuleUnits : v # u => rulesSeen'[v] = rulesSeen[v] /\ ruleNews'[v] = ruleNews[v]
    BY <1>0, <1>1 DEF RuleTypeOK
  <1>3. RuleTypeOK'
    BY <1>0, <1>1, <1>2 DEF RuleTypeOK
  <1>4. RulesJudged'
    <2>1. rulesSeen'[ruleLeader] \ ruleNews'[ruleLeader]
            \subseteq rulesSeen[ruleLeader] \ ruleNews[ruleLeader]
      BY <1>0, <1>2 DEF RuleTypeOK
    <2> QED BY <1>1, <2>1 DEF RuleIInv, RulesJudged, IsInvalidGroup, IsValidGroup
  <1>5. ASSUME NEW v \in RuleUnits, Fresh(v)' PROVE LoadedFor(loaded[v], rulesSeen[v])'
    <2>1. CASE v = u
      <3>1. Fresh(u) /\ ruleBag[a] = Unset
        BY <1>1, <1>2, <1>5, <2>1 DEF Fresh
      <3>2. LoadedFor(loaded[u], rulesSeen[u])
        BY <3>1 DEF RuleIInv, FreshAreLoaded
      <3>3. ~IsValidGroup(ruleBag[a])
        BY <3>1, RuleAssumption DEF IsValidGroup
      <3>4. LoadedFor(loaded[u], rulesSeen'[u])
        BY <1>2, <3>2, <3>3 DEF LoadedFor, Claims
      <3> QED BY <1>1, <2>1, <3>4 DEF LoadedFor, Claims, IsValidGroup
    <2>2. CASE v # u
      <3>1. Fresh(v)
        BY <1>1, <1>2, <1>5, <2>2 DEF Fresh
      <3>2. LoadedFor(loaded[v], rulesSeen[v])
        BY <3>1 DEF RuleIInv, FreshAreLoaded
      <3> QED BY <1>1, <1>2, <2>2, <3>2 DEF LoadedFor, Claims, IsValidGroup
    <2> QED BY <2>1, <2>2
  <1> QED BY <1>1, <1>3, <1>4, <1>5
          DEF RuleIInv, FreshAreLoaded, BagsOfRelated, BlamedAreTold

LEMMA RulesChangedKeeps ==
    ASSUME RuleIInv, NEW u \in RuleUnits, NEW a \in RuleApps, RulesChanged(u, a)
    PROVE  RuleIInv'
  <1>0. RuleTypeOK
    BY DEF RuleIInv
  <1>1. /\ a \in ruleNews[u]
        /\ ruleNews' = [ruleNews EXCEPT ![u] = @ \ {a}]
        /\ UNCHANGED <<ruleFiles, ruleBag, rulesRelated, rulesSeen, ruleLeader,
                       reported, ruleChanges>>
    BY DEF RulesChanged
  <1>2. /\ ruleNews' \in [RuleUnits -> SUBSET RuleApps]
        /\ ruleNews'[u] = ruleNews[u] \ {a}
        /\ \A v \in RuleUnits : v # u => ruleNews'[v] = ruleNews[v]
    BY <1>0, <1>1 DEF RuleTypeOK
  <1>3. CASE ruleBag[a] # Unset
    <2>1. ReadAlerts(u, rulesSeen'[u])
      BY <1>1, <1>3 DEF RulesChanged
    <2>2. ruleNews'[u] \subseteq rulesSeen'[u]
      BY <1>0, <1>1, <1>2 DEF RuleTypeOK
    <2>3. rulesSeen' \in [RuleUnits -> SUBSET RuleApps]
      BY <1>0, <1>1 DEF RuleTypeOK
    <2> QED BY <1>1, <1>2, <2>1, <2>2, <2>3, ReadKeeps
  <1>4. CASE ruleBag[a] = Unset
    <2>1. UNCHANGED <<loaded, errors, verdictDue, evaluated>>
      BY <1>4 DEF RulesChanged
    <2>2. RuleTypeOK'
      BY <1>0, <1>1, <1>2, <2>1 DEF RuleTypeOK
    <2>3. ~IsValidGroup(ruleBag[a]) /\ ~IsInvalidGroup(ruleBag[a])
      BY <1>4, RuleAssumption DEF IsValidGroup, IsInvalidGroup
    <2>4. RulesJudged'
      <3> SUFFICES ASSUME evaluated,
                          NEW b \in (rulesSeen[ruleLeader] \ ruleNews'[ruleLeader])
                                      \cap rulesRelated
                   PROVE  /\ IsInvalidGroup(ruleBag[b]) => b \in errors
                          /\ IsValidGroup(ruleBag[b])   => b \notin errors
        BY <1>1, <2>1 DEF RulesJudged, IsInvalidGroup, IsValidGroup
      <3>1. b = a \/ b \notin ruleNews[ruleLeader]
        BY <1>0, <1>2 DEF RuleTypeOK
      <3> QED BY <2>3, <3>1 DEF RuleIInv, RulesJudged
    <2>5. ASSUME NEW v \in RuleUnits, Fresh(v)' PROVE LoadedFor(loaded[v], rulesSeen[v])'
      <3>1. Fresh(v)
        BY <1>1, <1>2, <1>4, <2>5 DEF Fresh
      <3>2. LoadedFor(loaded[v], rulesSeen[v])
        BY <3>1 DEF RuleIInv, FreshAreLoaded
      <3> QED BY <1>1, <2>1, <3>2 DEF LoadedFor, Claims, IsValidGroup
    <2> QED BY <1>1, <2>1, <2>2, <2>4, <2>5
            DEF RuleIInv, FreshAreLoaded, BagsOfRelated, BlamedAreTold
  <1> QED BY <1>3, <1>4

LEMMA RulesGoneKeeps ==
    ASSUME RuleIInv, NEW u \in RuleUnits,
           (\E a \in RuleApps : RulesGone(u, a)) \/ RulesUpgrade(u)
    PROVE  RuleIInv'
  <1>0. RuleTypeOK
    BY DEF RuleIInv
  <1>1. ASSUME NEW a \in RuleApps, RulesGone(u, a) PROVE RuleIInv'
    <2>1. /\ rulesSeen' = [rulesSeen EXCEPT ![u] = @ \ {a}]
          /\ ruleNews' = [ruleNews EXCEPT ![u] = @ \ {a}]
          /\ ReadAlerts(u, rulesSeen'[u])
          /\ UNCHANGED <<ruleFiles, ruleBag, rulesRelated, ruleLeader, reported, ruleChanges>>
      BY <1>1 DEF RulesGone
    <2>2. /\ rulesSeen' \in [RuleUnits -> SUBSET RuleApps]
          /\ ruleNews' \in [RuleUnits -> SUBSET RuleApps]
          /\ ruleNews'[u] \subseteq rulesSeen'[u]
          /\ \A v \in RuleUnits : v # u => /\ rulesSeen'[v] = rulesSeen[v]
                                           /\ ruleNews'[v] = ruleNews[v]
      BY <1>0, <2>1 DEF RuleTypeOK
    <2> QED BY <2>1, <2>2, ReadKeeps
  <1>2. CASE RulesUpgrade(u)
    <2>1. /\ ReadAlerts(u, rulesSeen'[u])
          /\ UNCHANGED <<ruleFiles, ruleBag, rulesRelated, rulesSeen, ruleNews,
                         ruleLeader, reported, ruleChanges>>
      BY <1>2 DEF RulesUpgrade
    <2> QED BY <1>0, <2>1, ReadKeeps DEF RuleTypeOK
  <1> QED BY <1>1, <1>2

LEMMA PublishRulesKeeps ==
    ASSUME RuleIInv, NEW a \in RuleApps, PublishRules(a)
    PROVE  RuleIInv'
  <1>0. RuleTypeOK
    BY DEF RuleIInv
  <1>1. /\ a \in rulesRelated /\ ruleBag' = [ruleBag EXCEPT ![a] = ruleFiles[a]]
        /\ ruleNews' = [u \in RuleUnits |-> IF a \in rulesSeen[u]
                                            THEN ruleNews[u] \cup {a} ELSE ruleNews[u]]
        /\ UNCHANGED <<ruleFiles, rulesRelated, rulesSeen, ruleLeader, evaluated,
                       loaded, errors, verdictDue, reported, ruleChanges>>
    BY DEF PublishRules, HandleAlertRules
  <1>2. /\ ruleBag' \in [RuleApps -> RuleSets \cup {Unset}]
        /\ ruleBag'[a] # Unset
        /\ \A b \in RuleApps : b # a => ruleBag'[b] = ruleBag[b]
    BY <1>0, <1>1, RuleAssumption DEF RuleTypeOK, RuleSets
  <1>3. /\ ruleNews' \in [RuleUnits -> SUBSET RuleApps]
        /\ \A u \in RuleUnits : /\ ruleNews'[u] \subseteq rulesSeen[u]
                                /\ ruleNews[u] \subseteq ruleNews'[u]
                                /\ a \in rulesSeen[u] => a \in ruleNews'[u]
    BY <1>0, <1>1 DEF RuleTypeOK
  <1>4. RuleTypeOK'
    BY <1>0, <1>1, <1>2, <1>3 DEF RuleTypeOK
  <1>5. RulesJudged'
    <2> SUFFICES ASSUME evaluated,
                        NEW b \in (rulesSeen[ruleLeader] \ ruleNews'[ruleLeader])
                                    \cap rulesRelated
                 PROVE  /\ IsInvalidGroup(ruleBag'[b]) => b \in errors
                        /\ IsValidGroup(ruleBag'[b])   => b \notin errors
      BY <1>1 DEF RulesJudged, IsInvalidGroup, IsValidGroup
    <2>1. b # a /\ b \notin ruleNews[ruleLeader] /\ b \in RuleApps
      BY <1>0, <1>3 DEF RuleTypeOK
    <2> QED BY <1>2, <2>1 DEF RuleIInv, RulesJudged
  <1>6. ASSUME NEW v \in RuleUnits, Fresh(v)' PROVE LoadedFor(loaded[v], rulesSeen[v])'
    <2>1. a \notin rulesSeen[v]
      BY <1>2, <1>3, <1>6 DEF Fresh
    <2>2. rulesSeen[v] \subseteq RuleApps /\ ruleNews[v] \subseteq rulesSeen[v]
      BY <1>0 DEF RuleTypeOK
    <2>3. \A b \in rulesSeen[v] : ruleBag'[b] = ruleBag[b]
      BY <1>2, <2>1, <2>2
    <2>4. Fresh(v)
      BY <1>1, <1>3, <1>6, <2>2, <2>3 DEF Fresh
    <2>5. LoadedFor(loaded[v], rulesSeen[v])
      BY <2>4 DEF RuleIInv, FreshAreLoaded
    <2> QED BY <1>1, <2>3, <2>5 DEF LoadedFor, Claims, IsValidGroup
  <1>7. BagsOfRelated' /\ BlamedAreTold'
    BY <1>1, <1>2 DEF RuleIInv, BagsOfRelated, BlamedAreTold
  <1> QED BY <1>4, <1>5, <1>6, <1>7 DEF RuleIInv, FreshAreLoaded

\* What leaves the databags, the relations and what Loki's units have read alone.
LEMMA VerdictKeeps ==
    ASSUME RuleIInv, NEW a \in RuleApps,
           Verdict(a) \/ \E r \in RuleSets : ReplaceRules(a, r)
    PROVE  RuleIInv'
  <1>0. RuleTypeOK
    BY DEF RuleIInv
  <1>1. /\ UNCHANGED <<ruleBag, rulesRelated, rulesSeen, ruleNews, ruleLeader, evaluated,
                       loaded, errors>>
        /\ ruleChanges' \in 0..MaxRuleChanges
    BY <1>0, RuleAssumption DEF Verdict, ReplaceRules, RuleChange, RuleTypeOK
  <1>2. RuleTypeOK' /\ BlamedAreTold'
    <2>1. CASE Verdict(a)
      BY <1>0, <1>1, <2>1 DEF Verdict, RuleIInv, RuleTypeOK, BlamedAreTold
    <2>2. ASSUME NEW r \in RuleSets, ReplaceRules(a, r) PROVE RuleTypeOK' /\ BlamedAreTold'
      <3>1. /\ ruleFiles' = [ruleFiles EXCEPT ![a] = r] /\ UNCHANGED <<verdictDue, reported>>
        BY <2>2 DEF ReplaceRules
      <3> QED BY <1>0, <1>1, <3>1 DEF RuleIInv, RuleTypeOK, BlamedAreTold
    <2> QED BY <2>1, <2>2
  <1>3. RulesJudged' /\ BagsOfRelated'
    BY <1>1 DEF RuleIInv, RulesJudged, BagsOfRelated, IsInvalidGroup, IsValidGroup
  <1>4. FreshAreLoaded'
    BY <1>1 DEF RuleIInv, FreshAreLoaded, Fresh, LoadedFor, Claims, IsValidGroup
  <1> QED BY <1>2, <1>3, <1>4 DEF RuleIInv

LEMMA RelateRulesKeeps ==
    ASSUME RuleIInv, NEW a \in RuleApps, RelateRules(a) \/ UnrelateRules(a)
    PROVE  RuleIInv'
  <1>0. RuleTypeOK
    BY DEF RuleIInv
  <1>1. /\ UNCHANGED <<ruleFiles, rulesSeen, ruleNews, ruleLeader, evaluated, loaded>>
        /\ ruleChanges' \in 0..MaxRuleChanges
    BY <1>0, RuleAssumption DEF RelateRules, UnrelateRules, RuleChange, RuleTypeOK
  <1>2. CASE RelateRules(a)
    <2>1. /\ \A u \in RuleUnits : a \notin rulesSeen[u]
          /\ rulesRelated' = rulesRelated \cup {a}
          /\ UNCHANGED <<ruleBag, errors, verdictDue, reported>>
      BY <1>2 DEF RelateRules
    <2>2. RuleTypeOK'
      BY <1>0, <1>1, <2>1 DEF RuleTypeOK
    <2>3. RulesJudged'
      BY <1>0, <1>1, <2>1
         DEF RuleIInv, RulesJudged, RuleTypeOK, IsInvalidGroup, IsValidGroup
    <2>4. FreshAreLoaded'
      BY <1>1, <2>1 DEF RuleIInv, FreshAreLoaded, Fresh, LoadedFor, Claims, IsValidGroup
    <2> QED BY <2>1, <2>2, <2>3, <2>4 DEF RuleIInv, BagsOfRelated, BlamedAreTold
  <1>3. CASE UnrelateRules(a)
    <2>1. /\ rulesRelated' = rulesRelated \ {a}
          /\ ruleBag' = [ruleBag EXCEPT ![a] = Unset]
          /\ errors' = errors \ {a} /\ verdictDue' = verdictDue \ {a}
          /\ reported' = reported \ {a} /\ a \in rulesRelated
      BY <1>3 DEF UnrelateRules
    <2>2. /\ ruleBag' \in [RuleApps -> RuleSets \cup {Unset}]
          /\ ruleBag'[a] = Unset
          /\ \A b \in RuleApps : b # a => ruleBag'[b] = ruleBag[b]
      BY <1>0, <2>1 DEF RuleTypeOK
    <2>3. RuleTypeOK'
      BY <1>0, <1>1, <2>1, <2>2 DEF RuleTypeOK
    <2>4. RulesJudged'
      BY <1>0, <1>1, <2>1, <2>2
         DEF RuleIInv, RulesJudged, RuleTypeOK, IsInvalidGroup, IsValidGroup
    <2>5. ASSUME NEW v \in RuleUnits, Fresh(v)' PROVE LoadedFor(loaded[v], rulesSeen[v])'
      <3>1. /\ a \notin rulesSeen[v] /\ rulesSeen[v] \subseteq RuleApps
            /\ ruleNews[v] \subseteq rulesSeen[v]
        BY <1>0, <1>1, <2>1, <2>5 DEF Fresh, RuleTypeOK
      <3>2. \A b \in rulesSeen[v] : ruleBag'[b] = ruleBag[b]
        BY <2>2, <3>1
      <3>3. Fresh(v)
        BY <1>1, <2>1, <2>5, <3>1, <3>2 DEF Fresh
      <3>4. LoadedFor(loaded[v], rulesSeen[v])
        BY <3>3 DEF RuleIInv, FreshAreLoaded
      <3> QED BY <1>1, <3>2, <3>4 DEF LoadedFor, Claims, IsValidGroup
    <2>6. BagsOfRelated' /\ BlamedAreTold'
      BY <2>1, <2>2 DEF RuleIInv, BagsOfRelated, BlamedAreTold
    <2> QED BY <2>3, <2>4, <2>5, <2>6 DEF RuleIInv, FreshAreLoaded
  <1> QED BY <1>2, <1>3

LEMMA RuleLeaseKeeps ==
    ASSUME RuleIInv, NEW u \in RuleUnits, RuleLeaseMoves(u)
    PROVE  RuleIInv'
  <1>1. /\ ruleLeader' = u /\ evaluated' = FALSE
        /\ ruleChanges' \in 0..MaxRuleChanges
        /\ UNCHANGED <<ruleFiles, ruleBag, rulesRelated, rulesSeen, ruleNews, loaded,
                       errors, verdictDue, reported>>
    BY RuleAssumption DEF RuleLeaseMoves, RuleChange, RuleIInv, RuleTypeOK
  <1>2. RuleTypeOK' /\ RulesJudged' /\ BagsOfRelated' /\ BlamedAreTold'
    BY <1>1 DEF RuleIInv, RuleTypeOK, RulesJudged, BagsOfRelated, BlamedAreTold
  <1>3. FreshAreLoaded'
    BY <1>1 DEF RuleIInv, FreshAreLoaded, Fresh, LoadedFor, Claims, IsValidGroup
  <1> QED BY <1>2, <1>3 DEF RuleIInv

LEMMA RuleKeepsIInv == RuleIInv /\ [RuleNext]_ruleVars => RuleIInv'
  <1> SUFFICES ASSUME RuleIInv, [RuleNext]_ruleVars PROVE RuleIInv'
    OBVIOUS
  <1>1. CASE UNCHANGED ruleVars
    <2>1. RuleTypeOK' /\ BagsOfRelated' /\ BlamedAreTold'
      BY <1>1 DEF ruleVars, RuleIInv, RuleTypeOK, BagsOfRelated, BlamedAreTold
    <2>2. RulesJudged'
      BY <1>1 DEF ruleVars, RuleIInv, RulesJudged, IsInvalidGroup, IsValidGroup
    <2>3. FreshAreLoaded'
      BY <1>1 DEF ruleVars, RuleIInv, FreshAreLoaded, Fresh, LoadedFor, Claims, IsValidGroup
    <2> QED BY <2>1, <2>2, <2>3 DEF RuleIInv
  <1>2. CASE RuleNext
    BY <1>2, RulesJoinedKeeps, RulesChangedKeeps, RulesGoneKeeps, PublishRulesKeeps,
       VerdictKeeps, RelateRulesKeeps, RuleLeaseKeeps
       DEF RuleNext
  <1> QED BY <1>1, <1>2

LEMMA RuleInvariant == RuleSpec => []RuleIInv
  BY RuleInitIInv, RuleKeepsIInv, PTL DEF RuleSpec

\* Alert rules arrive at Loki, and what Loki thinks of them at those they came
\* from (LokiPushApiConsumer, LokiPushApiProvider), for any number of
\* applications, units of Loki and identifiers.
THEOREM RulesAlwaysDistributed == RuleSpec => []RulesDistributed
  <1>1. RuleIInv => RulesDistributed
    <2> SUFFICES ASSUME RuleIInv PROVE RulesDistributed
      OBVIOUS
    <2>1. OwnRulesLoaded
      <3>1. ASSUME NEW u \in RuleUnits, RulesDelivered(u)
            PROVE  LoadedFor(loaded[u], rulesRelated)
        BY <3>1 DEF RuleIInv, FreshAreLoaded, Fresh, RulesDelivered
      <3> QED BY <3>1 DEF OwnRulesLoaded, LoadedFor
    <2>2. BlameIsFair
      BY DEF RuleIInv, RuleTypeOK, RulesJudged, RulesDelivered, BlameIsFair
    <2>3. StatusTellsOfRules
      BY <2>2 DEF BlameIsFair, StatusTellsOfRules, HasInvalidAlertRules, RuleIInv, RuleTypeOK
    <2> QED BY <2>1, <2>2, <2>3 DEF RuleIInv, RulesDistributed
  <1> QED BY <1>1, RuleInvariant, PTL

==============================================================================
