------------------------------ MODULE LogProxy ------------------------------
(***************************************************************************)
(* Promtail (loki_k8s/v1/loki_push_api.py, LogProxyConsumer): one unit     *)
(* with one container and one relation to Loki fetches the binary, writes  *)
(* its configuration with the endpoints of Loki's units, and keeps a       *)
(* service running in the container.                                       *)
(*                                                                         *)
(* What is in the container is lost with it.  Pebble refuses to start a    *)
(* service that is in no plan or has no binary: a hook that does not expect*)
(* this fails, and Juju runs that hook again before any other.             *)
(***************************************************************************)
EXTENDS Naturals

CONSTANTS
    ProxyLokis,      \* units of Loki
    LokiApp,         \* its databag, as the origin of a relation-changed
    ProxyUrls,       \* endpoints; several units may share one behind an ingress
    NoProxyUrl,      \* none published
    MaxProxyChanges  \* bound on the changes of the environment

ASSUME ProxyAssumption ==
    /\ LokiApp \notin ProxyLokis
    /\ NoProxyUrl \notin ProxyUrls
    /\ MaxProxyChanges \in Nat

VARIABLES
    integrated,     \* there is a relation to Loki
    proxyRelated,   \* the unit knows of it: created, not yet broken
    binaryInfo,     \* promtail_binary_zip_url is in the databag of Loki
    proxyUrl,       \* proxyUrl[l]: the endpoint in the databag of l
    lokisThere,     \* units of Loki in the relation
    lokisKnown,     \* those that the unit knows of
    proxyNews,      \* units, or LokiApp, with a relation-changed still to come
    failedHook,     \* the hook to be run again: "changed", "departed", "none"
    boxUp,          \* Pebble answers in the container
    boxReadyDue,    \* its pebble-ready is still to come
    attached,       \* the binary is attached to the charm as a resource
    reachable,      \* the binary can be downloaded
    cached,         \* it is in the charm's own container, with its checksum
    box,            \* what is in the container
    proxyChanges

lokiSide  == <<integrated, binaryInfo, proxyUrl, lokisThere>>
known     == <<proxyRelated, lokisKnown, proxyNews>>
boxLife   == <<boxUp, boxReadyDue>>
origin    == <<attached, reachable>>
proxyVars == <<lokiSide, known, failedHook, boxLife, origin, cached, box, proxyChanges>>

\* The binary and the layer are there or not; the clients in the configuration
\* file, and those of the process, none if it does not run.
EmptyBox == [installed |-> FALSE, layered |-> FALSE, file |-> {}, sends |-> {}]

\* loki_endpoints: each url once.
Clients(seen) == {proxyUrl[l] : l \in seen} \ {NoProxyUrl}

-----------------------------------------------------------------------------
(* Promtail in the container                                               *)

\* _promtail_must_be_downloaded
MustDownload == ~attached /\ ~cached

\* _ensure_promtail_binary: what is installed is kept, and a download that
\* fails is only told of.
Installed == box.installed \/ ~MustDownload \/ reachable
EnsureBinary == cached' = (cached \/ (~box.installed /\ MustDownload /\ reachable))

\* The service after container.restart, in a box that has its binary or not.
Restarted(b, clients) == IF b.installed THEN clients ELSE {}

\* _setup_promtail: nothing before Loki's leader has said where the binary is.
\* That the process does not start is told as well.
SetupPromtail(seen) ==
    IF binaryInfo
    THEN LET clients == Clients(seen)
             b == [box EXCEPT !.installed = Installed, !.layered = TRUE,
                              !.file = clients]
         IN  /\ EnsureBinary
             /\ box' = IF clients = {} THEN b
                       ELSE [b EXCEPT !.sends = Restarted(b, clients)]
    ELSE UNCHANGED <<box, cached>>

\* _on_relation_changed, whose restart must not fail.
UpdatePromtail(seen) ==
    LET clients == Clients(seen)
        b == [box EXCEPT !.file = clients]
    IN  /\ box' = IF clients = {} THEN b
                  ELSE [b EXCEPT !.sends = Restarted(b, clients)]
        /\ failedHook' = IF clients # {} /\ ~box.installed THEN "changed" ELSE "none"

PromtailChanged(seen) ==
    \/ ~boxUp /\ failedHook' = "none" /\ UNCHANGED <<box, cached>>
    \/ boxUp /\ ~box.layered /\ SetupPromtail(seen) /\ failedHook' = "none"
    \/ boxUp /\ box.layered /\ UpdatePromtail(seen) /\ UNCHANGED cached

\* _on_relation_departed, which the relation still outlives: without clients
\* Promtail is stopped.  Neither that nor a restart is possible without a layer.
PromtailKept(b, clients) == b
PromtailAfter(b, clients) ==
    IF b.layered
    THEN [b EXCEPT !.sends = IF clients = {} THEN {} ELSE Restarted(b, clients)] ELSE b
PromtailDeparted(seen) ==
    LET clients == Clients(seen)
    IN  /\ box' = IF boxUp THEN PromtailAfter([box EXCEPT !.file = clients], clients) ELSE box
        /\ failedHook' = IF boxUp /\ (~box.layered \/ (clients # {} /\ ~box.installed))
                         THEN "departed" ELSE "none"
        /\ UNCHANGED cached

-----------------------------------------------------------------------------
(* The hooks of the unit                                                   *)

ProxyCreated ==
    /\ failedHook = "none"
    /\ integrated /\ ~proxyRelated
    /\ proxyRelated' = TRUE
    /\ IF boxUp THEN SetupPromtail({}) ELSE UNCHANGED <<box, cached>>
    /\ UNCHANGED <<lokiSide, lokisKnown, proxyNews, failedHook, boxLife, origin,
                   proxyChanges>>

\* relation-joined brings nothing; the relation-changed that follows does.
ProxyJoined(l) ==
    /\ failedHook = "none"
    /\ proxyRelated /\ l \in lokisThere \ lokisKnown
    /\ lokisKnown' = lokisKnown \cup {l}
    /\ proxyNews' = proxyNews \cup {l}
    /\ UNCHANGED <<lokiSide, proxyRelated, failedHook, boxLife, origin, cached, box,
                   proxyChanges>>

ProxyChanged(x) ==
    /\ failedHook = "none"
    /\ proxyRelated /\ x \in proxyNews \cap (lokisKnown \cup {LokiApp})
    /\ proxyNews' = proxyNews \ {x}
    /\ PromtailChanged(lokisKnown)
    /\ UNCHANGED <<lokiSide, proxyRelated, lokisKnown, boxLife, origin, proxyChanges>>

ProxyDeparted(l) ==
    /\ failedHook = "none"
    /\ l \in lokisKnown \ lokisThere
    /\ lokisKnown' = lokisKnown \ {l}
    /\ proxyNews' = proxyNews \ {l}
    /\ PromtailDeparted(lokisKnown')
    /\ UNCHANGED <<lokiSide, proxyRelated, boxLife, origin, proxyChanges>>

\* relation-broken, after the last unit departed, is not observed.
ProxyBroken ==
    /\ failedHook = "none"
    /\ proxyRelated /\ ~integrated /\ lokisKnown = {}
    /\ proxyRelated' = FALSE
    /\ binaryInfo' = FALSE
    /\ proxyNews' = {}
    /\ UNCHANGED <<integrated, proxyUrl, lokisThere, lokisKnown, failedHook, boxLife,
                   origin, cached, box, proxyChanges>>

BoxReady ==
    /\ failedHook = "none"
    /\ boxUp /\ boxReadyDue
    /\ boxReadyDue' = FALSE
    /\ IF proxyRelated THEN SetupPromtail(lokisKnown) ELSE UNCHANGED <<box, cached>>
    /\ UNCHANGED <<lokiSide, known, failedHook, boxUp, origin, proxyChanges>>

RetryHook ==
    /\ \/ failedHook = "changed" /\ PromtailChanged(lokisKnown)
       \/ failedHook = "departed" /\ PromtailDeparted(lokisKnown)
    /\ UNCHANGED <<lokiSide, known, boxLife, origin, proxyChanges>>

-----------------------------------------------------------------------------
(* The environment                                                         *)

ProxyChange == proxyChanges < MaxProxyChanges /\ proxyChanges' = proxyChanges + 1

IntegrateLoki ==
    /\ ProxyChange
    /\ ~integrated /\ ~proxyRelated
    /\ integrated' = TRUE
    /\ UNCHANGED <<binaryInfo, proxyUrl, lokisThere, known, failedHook, boxLife, origin,
                   cached, box>>

DisintegrateLoki ==
    /\ ProxyChange
    /\ integrated /\ proxyRelated
    /\ integrated' = FALSE
    /\ lokisThere' = {}
    /\ proxyNews' = {}
    /\ UNCHANGED <<binaryInfo, proxyUrl, proxyRelated, lokisKnown, failedHook, boxLife,
                   origin, cached, box>>

LokiUnitComes(l) ==
    /\ ProxyChange
    /\ integrated /\ l \notin lokisThere \cup lokisKnown
    /\ lokisThere' = lokisThere \cup {l}
    /\ proxyUrl' = [proxyUrl EXCEPT ![l] = NoProxyUrl]
    /\ UNCHANGED <<integrated, binaryInfo, known, failedHook, boxLife, origin, cached, box>>

LokiUnitGoes(l) ==
    /\ ProxyChange
    /\ l \in lokisThere
    /\ lokisThere' = lokisThere \ {l}
    /\ proxyNews' = proxyNews \ {l}
    /\ UNCHANGED <<integrated, binaryInfo, proxyUrl, proxyRelated, lokisKnown,
                   failedHook, boxLife, origin, cached, box>>

\* relation-changed in a unit of Loki, or another address.
LokiUnitPublishes(l, url) ==
    /\ l \in lokisThere /\ url # proxyUrl[l]
    /\ IF proxyUrl[l] = NoProxyUrl THEN UNCHANGED proxyChanges ELSE ProxyChange
    /\ proxyUrl' = [proxyUrl EXCEPT ![l] = url]
    /\ proxyNews' = proxyNews \cup {l}
    /\ UNCHANGED <<integrated, binaryInfo, lokisThere, proxyRelated, lokisKnown,
                   failedHook, boxLife, origin, cached, box>>

\* relation-joined, or a later relation-changed, in the leader of Loki.
PublishBinaryInfo ==
    /\ lokisThere # {} /\ ~binaryInfo
    /\ binaryInfo' = TRUE
    /\ proxyNews' = proxyNews \cup {LokiApp}
    /\ UNCHANGED <<integrated, proxyUrl, lokisThere, proxyRelated, lokisKnown,
                   failedHook, boxLife, origin, cached, box, proxyChanges>>

BoxLost ==
    /\ ProxyChange
    /\ boxUp
    /\ boxUp' = FALSE /\ boxReadyDue' = FALSE
    /\ box' = EmptyBox
    /\ UNCHANGED <<lokiSide, known, failedHook, origin, cached>>

BoxBack ==
    /\ ~boxUp
    /\ boxUp' = TRUE /\ boxReadyDue' = TRUE
    /\ UNCHANGED <<lokiSide, known, failedHook, origin, cached, box, proxyChanges>>

CharmPodRestarts ==
    /\ ProxyChange
    /\ cached /\ cached' = FALSE
    /\ UNCHANGED <<lokiSide, known, failedHook, boxLife, origin, box>>

DownloadsChange ==
    /\ ProxyChange
    /\ reachable' = ~reachable
    /\ UNCHANGED <<lokiSide, known, failedHook, boxLife, attached, cached, box>>

-----------------------------------------------------------------------------
ProxyInit ==
    /\ integrated = FALSE /\ proxyRelated = FALSE /\ binaryInfo = FALSE
    /\ proxyUrl = [l \in ProxyLokis |-> NoProxyUrl]
    /\ lokisThere = {} /\ lokisKnown = {} /\ proxyNews = {}
    /\ failedHook = "none"
    /\ boxUp = FALSE /\ boxReadyDue = FALSE
    /\ attached \in BOOLEAN /\ reachable \in BOOLEAN /\ cached = FALSE
    /\ box = EmptyBox
    /\ proxyChanges = 0

ProxyNext ==
    \/ ProxyCreated \/ ProxyBroken \/ BoxReady \/ RetryHook
    \/ \E x \in ProxyLokis \cup {LokiApp} : ProxyChanged(x)
    \/ IntegrateLoki \/ DisintegrateLoki \/ PublishBinaryInfo
    \/ \E l \in ProxyLokis : \/ ProxyJoined(l) \/ ProxyDeparted(l)
                             \/ LokiUnitComes(l) \/ LokiUnitGoes(l)
                             \/ \E url \in ProxyUrls : LokiUnitPublishes(l, url)
    \/ BoxLost \/ BoxBack \/ CharmPodRestarts \/ DownloadsChange

ProxySpec == ProxyInit /\ [][ProxyNext]_proxyVars

-----------------------------------------------------------------------------
(* Properties                                                              *)

ProxyTypeOK ==
    /\ integrated \in BOOLEAN /\ proxyRelated \in BOOLEAN /\ binaryInfo \in BOOLEAN
    /\ proxyUrl \in [ProxyLokis -> ProxyUrls \cup {NoProxyUrl}]
    /\ lokisThere \subseteq ProxyLokis /\ lokisKnown \subseteq ProxyLokis
    /\ proxyNews \subseteq ProxyLokis \cup {LokiApp}
    /\ failedHook \in {"none", "changed", "departed"}
    /\ boxUp \in BOOLEAN /\ boxReadyDue \in BOOLEAN
    /\ attached \in BOOLEAN /\ reachable \in BOOLEAN /\ cached \in BOOLEAN
    /\ box \in [installed : BOOLEAN, layered : BOOLEAN,
                file : SUBSET ProxyUrls, sends : SUBSET ProxyUrls]
    /\ proxyChanges \in 0..MaxProxyChanges

\* Every event has been delivered, and no hook is being run again.
ProxySettled ==
    /\ proxyRelated = integrated /\ lokisKnown = lokisThere /\ proxyNews = {}
    /\ boxUp /\ ~boxReadyDue /\ failedHook = "none"

\* Whatever the order in which Loki says where the binary is, its units come,
\* go and move, and the container restarts: in the end Promtail, if its binary
\* could be had, sends to all units of Loki at their present addresses, and
\* without a unit of Loki it does not run.  At no moment does it run with
\* other clients than those in its file, which a later restart by Pebble reads.
PromtailFollows ==
    /\ ProxySettled =>
          /\ box.sends = IF box.installed THEN Clients(lokisThere) ELSE {}
          /\ integrated /\ binaryInfo => box.layered /\ box.file = Clients(lokisThere)
    /\ box.sends # {} => box.sends = box.file

\* A binary that can be had is had.
BinaryObtained ==
    ProxySettled /\ integrated /\ binaryInfo /\ attached => box.installed

\* Both: Promtail is installed, and it follows Loki.
PromtailArrives == PromtailFollows /\ BinaryObtained
=============================================================================
