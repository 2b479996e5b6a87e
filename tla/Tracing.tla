------------------------------- MODULE Tracing -------------------------------
(***************************************************************************)
(* The tracing relation (tempo_coordinator_k8s/v0/tracing.py): several     *)
(* applications request protocols; the leader of Tempo enables a receiver  *)
(* for each protocol that anybody requests and publishes all of them to    *)
(* everybody; the applications configure the tracing of their charms.      *)
(***************************************************************************)
EXTENDS Naturals

CONSTANTS
    Traced,            \* applications that may be related to Tempo
    Protocols,         \* protocols of receivers
    OtlpHttp,          \* "otlp_http", the one that charms send their own traces by
    TempoUnits,        \* units of Tempo
    Unpublished,       \* no receivers, or none requested, in the databag
    MaxTracingChanges  \* bound on the changes of the environment

ASSUME TracingAssumption ==
    /\ \A P \in SUBSET Protocols : P # Unpublished
    /\ OtlpHttp \in Protocols
    /\ MaxTracingChanges \in Nat

VARIABLES
    protocols,      \* protocols[a]: what the charm of a sends traces with
    hasCert,        \* applications with a certificate on disk
    tracedBy,       \* applications that are related
    requested,      \* requested[a]: receivers in the databag of a
    tempoSeen,      \* tempoSeen[t]: relations unit t of Tempo knows of
    tempoNews,      \* tempoNews[t]: relation-changed events of t to come
    tempoLeader,    \* the leader of Tempo
    tempoTls,       \* whether its receivers have https urls
    served,         \* history: the leader has published since it was elected
    receivers,      \* receivers[a]: receivers in Tempo's databag for a
    publishedTls,   \* publishedTls[a]: and whether their urls are https
    hookDue,        \* applications with an event to come
    endpoints,      \* endpoints[a]: protocols a uses, of those it requested
    tracingChanges

tracingVars == <<protocols, hasCert, tracedBy, requested, tempoSeen, tempoNews,
                 tempoLeader, tempoTls, served, receivers, publishedTls, hookDue,
                 endpoints, tracingChanges>>

tempo == <<tempoLeader, tempoTls>>

\* is_ready and get_endpoint: nothing before Tempo has published, then what it
\* offers of what is asked for; and charm_tracing_config: no otlp_http over https
\* without a certificate on disk.
Endpoints(a) ==
    IF a \notin tracedBy \/ receivers[a] = Unpublished THEN {}
    ELSE {p \in receivers[a] \cap protocols[a] :
            p = OtlpHttp /\ publishedTls[a] => a \in hasCert}

\* requested_protocols: those of all relations that are ready.
RequestedByOne(R) ==
    IF \A a \in R : requested[a] = Unpublished THEN {}
    ELSE requested[CHOOSE a \in R : requested[a] # Unpublished]
RequestedProtocols(R) ==
    UNION {requested[a] : a \in {b \in R : requested[b] # Unpublished}}

\* publish_receivers in the relations of a leader, of which R are still there.
PublishReceivers(R, P) ==
    /\ receivers' = [a \in Traced |-> IF a \in R THEN P ELSE receivers[a]]
    /\ publishedTls' = [a \in Traced |-> IF a \in R THEN tempoTls ELSE publishedTls[a]]
    /\ hookDue' = hookDue \cup
         {a \in R : <<P, tempoTls>> # <<receivers[a], publishedTls[a]>>}

\* What Tempo's charm does in an event of the library.
ServeIfLeading(t, R) ==
    IF t = tempoLeader
    THEN PublishReceivers(R \cap tracedBy, RequestedProtocols(R)) /\ served' = TRUE
    ELSE UNCHANGED <<receivers, publishedTls, hookDue, served>>

-----------------------------------------------------------------------------
(* The hooks of the applications' leaders                                  *)

\* Protocols are requested when the requirer is constructed, in any hook.
ReadEndpoints(a) ==
    /\ endpoints' = [endpoints EXCEPT ![a] = Endpoints(a)]
    /\ hookDue' = hookDue \ {a}
    /\ UNCHANGED <<protocols, hasCert, tracedBy, tempo, tempoSeen, served, receivers,
                   publishedTls, tracingChanges>>

Request(a) ==
    /\ a \in tracedBy
    /\ requested' = [requested EXCEPT ![a] = protocols[a]]
    /\ tempoNews' = [t \in TempoUnits |->
                       IF requested[a] # protocols[a] /\ a \in tempoSeen[t]
                       THEN tempoNews[t] \cup {a} ELSE tempoNews[t]]

TracedHook(a) ==
    /\ a \in hookDue
    /\ IF a \in tracedBy THEN Request(a) ELSE UNCHANGED <<requested, tempoNews>>
    /\ ReadEndpoints(a)

-----------------------------------------------------------------------------
(* The hooks of Tempo's units                                              *)

\* relation-created, relation-joined: a request event if there are requests.
TempoJoined(t, a) ==
    /\ a \in tracedBy \ tempoSeen[t]
    /\ tempoSeen' = [tempoSeen EXCEPT ![t] = @ \cup {a}]
    /\ IF requested[a] # Unpublished
       THEN ServeIfLeading(t, tempoSeen'[t])
       ELSE UNCHANGED <<receivers, publishedTls, hookDue, served>>
    /\ UNCHANGED <<protocols, hasCert, tracedBy, requested, tempoNews, tempo,
                   endpoints, tracingChanges>>

TempoChanged(t, a) ==
    /\ a \in tempoNews[t]
    /\ tempoNews' = [tempoNews EXCEPT ![t] = @ \ {a}]
    /\ IF requested[a] # Unpublished
       THEN ServeIfLeading(t, tempoSeen[t])
       ELSE UNCHANGED <<receivers, publishedTls, hookDue, served>>
    /\ UNCHANGED <<protocols, hasCert, tracedBy, requested, tempoSeen, tempo,
                   endpoints, tracingChanges>>

TempoBroken(t, a) ==
    /\ a \in tempoSeen[t] \ tracedBy
    /\ tempoSeen' = [tempoSeen EXCEPT ![t] = @ \ {a}]
    /\ tempoNews' = [tempoNews EXCEPT ![t] = @ \ {a}]
    /\ ServeIfLeading(t, tempoSeen'[t])
    /\ UNCHANGED <<protocols, hasCert, tracedBy, requested, tempo, endpoints,
                   tracingChanges>>

\* Any other hook in which Tempo's charm publishes, after a change of its own.
TempoReconcile(t) ==
    /\ t = tempoLeader
    /\ ServeIfLeading(t, tempoSeen[t])
    /\ UNCHANGED <<protocols, hasCert, tracedBy, requested, tempoSeen, tempoNews,
                   tempo, endpoints, tracingChanges>>

-----------------------------------------------------------------------------
(* The environment                                                         *)

TracingChange ==
    tracingChanges < MaxTracingChanges /\ tracingChanges' = tracingChanges + 1

\* The charm is upgraded to one that sends traces otherwise.
ChangeProtocols(a, P) ==
    /\ TracingChange
    /\ P # protocols[a]
    /\ protocols' = [protocols EXCEPT ![a] = P]
    /\ hookDue' = hookDue \cup {a}
    /\ UNCHANGED <<hasCert, tracedBy, requested, tempoSeen, tempoNews, tempo, served,
                   receivers, publishedTls, endpoints>>

CertChanges(a) ==
    /\ TracingChange
    /\ hasCert' = IF a \in hasCert THEN hasCert \ {a} ELSE hasCert \cup {a}
    /\ hookDue' = hookDue \cup {a}
    /\ UNCHANGED <<protocols, tracedBy, requested, tempoSeen, tempoNews, tempo,
                   served, receivers, publishedTls, endpoints>>

Trace(a) ==
    /\ TracingChange
    /\ a \notin tracedBy /\ a \notin hookDue
    /\ \A t \in TempoUnits : a \notin tempoSeen[t]
    /\ tracedBy' = tracedBy \cup {a}
    /\ hookDue' = hookDue \cup {a}
    /\ UNCHANGED <<protocols, hasCert, requested, tempoSeen, tempoNews, tempo, served,
                   receivers, publishedTls, endpoints>>

Untrace(a) ==
    /\ TracingChange
    /\ a \in tracedBy
    /\ tracedBy' = tracedBy \ {a}
    /\ requested' = [requested EXCEPT ![a] = Unpublished]
    /\ receivers' = [receivers EXCEPT ![a] = Unpublished]
    /\ hookDue' = hookDue \cup {a}
    /\ UNCHANGED <<protocols, hasCert, tempoSeen, tempoNews, tempo, served,
                   publishedTls, endpoints>>

\* Tempo is given a certificate, or loses it; it will publish again.
TempoTlsChanges ==
    /\ TracingChange
    /\ tempoTls' = ~tempoTls
    /\ served' = FALSE
    /\ UNCHANGED <<protocols, hasCert, tracedBy, requested, tempoSeen, tempoNews,
                   tempoLeader, receivers, publishedTls, hookDue, endpoints>>

TempoLeaseMoves(t) ==
    /\ TracingChange
    /\ t # tempoLeader
    /\ tempoLeader' = t
    /\ served' = FALSE
    /\ UNCHANGED <<protocols, hasCert, tracedBy, requested, tempoSeen, tempoNews,
                   tempoTls, receivers, publishedTls, hookDue, endpoints>>

-----------------------------------------------------------------------------
TracingInit ==
    /\ protocols \in [Traced -> (SUBSET Protocols) \ {{}}]
    /\ hasCert = {} /\ tracedBy = {}
    /\ requested = [a \in Traced |-> Unpublished]
    /\ tempoSeen = [t \in TempoUnits |-> {}]
    /\ tempoNews = [t \in TempoUnits |-> {}]
    /\ tempoLeader \in TempoUnits /\ tempoTls = FALSE
    /\ served = TRUE
    /\ receivers = [a \in Traced |-> Unpublished]
    /\ publishedTls = [a \in Traced |-> FALSE]
    /\ hookDue = {}
    /\ endpoints = [a \in Traced |-> {}]
    /\ tracingChanges = 0

TracingNext ==
    \/ \E a \in Traced :
          \/ TracedHook(a)
          \/ \E t \in TempoUnits : \/ TempoJoined(t, a)
                                   \/ TempoChanged(t, a)
                                   \/ TempoBroken(t, a)
          \/ \E P \in (SUBSET Protocols) \ {{}} : ChangeProtocols(a, P)
          \/ CertChanges(a) \/ Trace(a) \/ Untrace(a)
    \/ \E t \in TempoUnits : TempoReconcile(t) \/ TempoLeaseMoves(t)
    \/ TempoTlsChanges

TracingSpec == TracingInit /\ [][TracingNext]_tracingVars

-----------------------------------------------------------------------------
(* Properties                                                              *)

TracingTypeOK ==
    /\ protocols \in [Traced -> SUBSET Protocols]
    /\ hasCert \subseteq Traced /\ tracedBy \subseteq Traced
    /\ requested \in [Traced -> (SUBSET Protocols) \cup {Unpublished}]
    /\ tempoSeen \in [TempoUnits -> SUBSET Traced]
    /\ tempoNews \in [TempoUnits -> SUBSET Traced]
    /\ \A t \in TempoUnits : tempoNews[t] \subseteq tempoSeen[t]
    /\ tempoLeader \in TempoUnits /\ tempoTls \in BOOLEAN /\ served \in BOOLEAN
    /\ receivers \in [Traced -> (SUBSET Protocols) \cup {Unpublished}]
    /\ publishedTls \in [Traced -> BOOLEAN]
    /\ hookDue \subseteq Traced
    /\ endpoints \in [Traced -> SUBSET Protocols]
    /\ \A a \in Traced \ tracedBy : requested[a] = Unpublished
    /\ tracingChanges \in 0..MaxTracingChanges

\* The applications have run their hooks, and Tempo's leader its own and
\* published once since it was elected or its certificate changed.
TracingSettled ==
    /\ hookDue \cap tracedBy = {} /\ served
    /\ tempoSeen[tempoLeader] = tracedBy /\ tempoNews[tempoLeader] = {}

\* Every application is then offered what it requests, and nobody is offered a
\* receiver that no related application requests: what one of them asks for,
\* withdraws or takes along when it goes leaves the others' requests as they are.
RequestsServed ==
    TracingSettled =>
        \A a \in tracedBy : receivers[a] = UNION {protocols[b] : b \in tracedBy}

\* And every application sends traces by all the protocols it has, except that
\* its charm sends none to a Tempo with a certificate while it has none itself,
\* whoever got and lost a certificate, led Tempo or was related meanwhile; an
\* application that is not related any more sends none once it has run a hook.
TracesSent ==
    /\ TracingSettled =>
         \A a \in tracedBy :
             endpoints[a] = IF tempoTls /\ a \notin hasCert
                            THEN protocols[a] \ {OtlpHttp} ELSE protocols[a]
    /\ \A a \in Traced \ (tracedBy \cup hookDue) : endpoints[a] = {}

\* Both: the receivers that are asked for are offered, and used.
TracesArrive == RequestsServed /\ TracesSent
=============================================================================
