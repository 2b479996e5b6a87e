---------------------------- MODULE RequestPath ----------------------------
(***************************************************************************)
(* The way of a request from outside to a worker: Traefik, configured by   *)
(* the leaders of one or more coordinators (traefik_config.py, charm.py),  *)
(* and the nginx of a coordinator's units (nginx_config.py).  Traefik      *)
(* merges what the applications submit.  The names of models and           *)
(* applications are sequences of the words between their dashes; a path    *)
(* starts with "/".                                                        *)
(***************************************************************************)
EXTENDS Naturals, SequencesExt

CONSTANTS
    Apps,             \* coordinator applications that may have this ingress
    ModelOf, NameOf,  \* ModelOf[a], NameOf[a]: the words of the two names of a
    UnitsOf,          \* UnitsOf[a]: the fqdns of its units
    Paths,            \* paths that clients ask for
    NoConfig,         \* nothing in the databag of the ingress relation
    MaxPathChanges    \* bound on the changes of the environment

\* What there is between dashes is no "/", with which every path starts.
Words == STRING \ {"/"}

ASSUME PathAssumption ==
    /\ \A a \in Apps : ModelOf[a] \in Seq(Words) /\ NameOf[a] \in Seq(Words)
    /\ \A p \in Paths : p \in Seq(STRING) /\ p # <<>> /\ p[1] = "/"
    /\ \A a, b \in Apps : a # b => UnitsOf[a] \cap UnitsOf[b] = {}
    /\ \A a, b \in Apps :
          a # b => <<ModelOf[a], NameOf[a]>> # <<ModelOf[b], NameOf[b]>>
    /\ MaxPathChanges \in Nat

VARIABLES
    routed,           \* applications with the ingress relation
    secured,          \* applications whose leader has its certificates on disk
    members,          \* members[a]: fqdns in the peers databag of a
    submitted,        \* submitted[a]: what Traefik has been given by a
    guarded,          \* history: those of them whose leader had its certificates
                      \* when it last submitted
    pathChanges

pathVars == <<routed, secured, members, submitted, guarded, pathChanges>>

-----------------------------------------------------------------------------
(* traefik_config.py                                                       *)

Http == [entryPoint |-> "web", grpc |-> FALSE, port |-> 8080]
Grpc == [entryPoint |-> "pyroscope-grpc-server", grpc |-> TRUE, port |-> 42424]
EndpointTable == {Http, Grpc}

\* The ingress prefix, and "juju-<model>-<app>-" of the names in the
\* configuration: where one name ends and the other begins is not in it.
Prefix(a) == ModelOf[a] \o NameOf[a]
NameFor(a, kind, e) == <<Prefix(a), kind, e.entryPoint>>

NoRedirect == 0

\* PathPrefix, with a middleware that strips it, or any client; and with
\* certificates a middleware that redirects to https at the port of nginx.
RouterUnredirected(a, tls, e) ==
    [name |-> NameFor(a, "router", e), entryPoint |-> e.entryPoint,
     service |-> NameFor(a, "service", e),
     rule |-> IF e.grpc THEN <<>> ELSE Prefix(a),
     redirect |-> NoRedirect]
Router(a, tls, e) ==
    [name |-> NameFor(a, "router", e), entryPoint |-> e.entryPoint,
     service |-> NameFor(a, "service", e),
     rule |-> IF e.grpc THEN <<>> ELSE Prefix(a),
     redirect |-> IF tls THEN e.port ELSE NoRedirect]

Service(a, tls, fqdns, e) ==
    [name |-> NameFor(a, "service", e),
     servers |-> {[scheme |-> IF tls THEN "https" ELSE IF e.grpc THEN "h2c" ELSE "http",
                   fqdn |-> f, port |-> e.port] : f \in fqdns}]

\* static_ingress_config: one key, written for every gRPC endpoint in turn.
Opened == {CHOOSE e \in EndpointTable : e.grpc}

TraefikConfig(a, tls, fqdns) ==
    [routers |-> {Router(a, tls, e) : e \in EndpointTable},
     services |-> {Service(a, tls, fqdns, e) : e \in EndpointTable},
     static |-> {[entryPoint |-> e.entryPoint, port |-> e.port] : e \in Opened}]

-----------------------------------------------------------------------------
(* nginx_config.py                                                         *)

Location(path, exact, backend) == [path |-> path, exact |-> exact, backend |-> backend]

ServerPortsToLocations(port) ==
    IF port = 8080
    THEN {Location(<<"/">>, TRUE, "worker"),
          Location(<<"/", "assets">>, FALSE, "worker"),
          Location(<<"/", "ingest">>, TRUE, "distributor"),
          Location(<<"/", "pyroscope">>, FALSE, "query-frontend"),
          Location(<<"/", "querier">>, FALSE, "query-frontend"),
          Location(<<"/", "settings">>, FALSE, "tenant-settings"),
          Location(<<"/", "adhocprofiles">>, FALSE, "ad-hoc-profiles")}
    ELSE {Location(<<"/", "opentelemetry.proto.collector">>, FALSE, "distributor")}

\* The upstream of nginx for a path, {} for none.
Backend(port, path) ==
    {l.backend : l \in {m \in ServerPortsToLocations(port) :
        IF m.exact THEN m.path = path ELSE IsPrefix(m.path, path)}}

-----------------------------------------------------------------------------
(* Traefik                                                                 *)

\* Of the routers of all applications that match, one with a longest rule; if
\* names are defined twice, any of the definitions.
Configs == {submitted[a] : a \in {b \in routed : submitted[b] # NoConfig}}
Matching(entryPoint, path) ==
    {r \in UNION {c.routers : c \in Configs} :
        r.entryPoint = entryPoint /\ IsPrefix(r.rule, path)}
Taken(entryPoint, path) ==
    {r \in Matching(entryPoint, path) :
        \A s \in Matching(entryPoint, path) : Len(s.rule) <= Len(r.rule)}

ServersOf(r) ==
    UNION {s.servers : s \in {t \in UNION {c.services : c \in Configs} :
                                t.name = r.service}}

\* A request comes over https at some port, or plain.  A redirect lets through
\* what comes over https at its port, and answers anything else.
Plain == NoRedirect
Passes(r, https) == r.redirect \in {NoRedirect, https}

Redirects(entryPoint, https, path) ==
    {r.redirect : r \in {q \in Taken(entryPoint, path) : ~Passes(q, https)}}

\* Where Traefik sends a request: the servers, and the path that remains.
Sent(entryPoint, https, path) ==
    UNION {{[server |-> v, path |-> SubSeq(path, Len(r.rule) + 1, Len(path))] :
             v \in ServersOf(r)} :
           r \in {q \in Taken(entryPoint, path) : Passes(q, https)}}

-----------------------------------------------------------------------------
\* _reconcile_ingress, in a hook of the leader of a.
ReconcileIngress(a) ==
    /\ a \in routed
    /\ submitted' = [submitted EXCEPT ![a] =
                       TraefikConfig(a, a \in secured, members[a])]
    /\ guarded' = (guarded \ {a}) \cup (secured \cap {a})
    /\ UNCHANGED <<routed, secured, members, pathChanges>>

PathChange == pathChanges < MaxPathChanges /\ pathChanges' = pathChanges + 1

AddRoute(a) ==
    /\ PathChange
    /\ a \notin routed
    /\ routed' = routed \cup {a}
    /\ UNCHANGED <<secured, members, submitted, guarded>>

RemoveRoute(a) ==
    /\ PathChange
    /\ a \in routed
    /\ routed' = routed \ {a}
    /\ submitted' = [submitted EXCEPT ![a] = NoConfig]
    /\ guarded' = guarded \ {a}
    /\ UNCHANGED <<secured, members>>

CertificatesCome(a) ==
    /\ PathChange
    /\ secured' = IF a \in secured THEN secured \ {a} ELSE secured \cup {a}
    /\ UNCHANGED <<routed, members, submitted, guarded>>

Scale(a, M) ==
    /\ PathChange
    /\ M # members[a]
    /\ members' = [members EXCEPT ![a] = M]
    /\ UNCHANGED <<routed, secured, submitted, guarded>>

PathInit ==
    /\ routed = {} /\ secured = {} /\ guarded = {}
    /\ members \in [Apps -> UNION {(SUBSET UnitsOf[a]) \ {{}} : a \in Apps}]
    /\ \A a \in Apps : members[a] \subseteq UnitsOf[a]
    /\ submitted = [a \in Apps |-> NoConfig]
    /\ pathChanges = 0

PathNext ==
    \E a \in Apps :
       \/ ReconcileIngress(a) \/ AddRoute(a) \/ RemoveRoute(a) \/ CertificatesCome(a)
       \/ \E M \in (SUBSET UnitsOf[a]) \ {{}} : Scale(a, M)

PathSpec == PathInit /\ [][PathNext]_pathVars

-----------------------------------------------------------------------------
(* Properties                                                              *)

PathTypeOK ==
    /\ routed \subseteq Apps /\ secured \subseteq Apps /\ guarded \subseteq routed
    /\ DOMAIN members = Apps /\ DOMAIN submitted = Apps
    /\ \A a \in Apps : members[a] \subseteq UnitsOf[a] /\ members[a] # {}
    /\ \A a \in Apps \ routed : submitted[a] = NoConfig
    /\ pathChanges \in 0..MaxPathChanges

Serving == {a \in routed : submitted[a] # NoConfig}

\* A plain request for the external URL of an application reaches units of that
\* application and no other, with the path and at the backend it would have
\* inside the model, whichever applications with longer or shorter names are
\* behind the same Traefik; unless two applications have the same prefix.  When
\* the application has its certificates, no plain request reaches a unit: it is
\* answered with a redirect to https at the port of nginx.
HttpArrives ==
    \A a \in Serving, p \in Paths :
        (\A b \in Serving \ {a} : Prefix(b) # Prefix(a)) =>
            LET url  == Prefix(a) \o p
                sent == Sent("web", Plain, url)
            IN  IF a \in guarded
                THEN sent = {} /\ Redirects("web", Plain, url) = {8080}
                ELSE /\ sent # {} /\ Redirects("web", Plain, url) = {}
                     /\ \A s \in sent :
                          /\ s.server.fqdn \in UnitsOf[a]
                          /\ s.server.scheme = "http"
                          /\ Backend(s.server.port, s.path) = Backend(8080, p)

\* The gRPC server of a coordinator that has the ingress to itself: its entry
\* point is opened by the static part, and leads to distributors; with
\* certificates, plain calls are redirected to https at the port of that very
\* entry point, and come through there.  (The rule of its router matches
\* everything: two coordinators would share the requests.)
GrpcArrives ==
    \A a \in Serving : Serving = {a} =>
        \A r \in submitted[a].routers : r.entryPoint # "web" =>
            \E e \in submitted[a].static :
                LET call  == <<"/", "opentelemetry.proto.collector">>
                    https == IF a \in guarded THEN e.port ELSE Plain
                    sent  == Sent(r.entryPoint, https, call)
                IN  /\ e.entryPoint = r.entryPoint
                    /\ Redirects(r.entryPoint, Plain, call) = {https} \ {Plain}
                    /\ sent # {}
                    /\ \A s \in sent :
                         /\ s.server.fqdn \in UnitsOf[a]
                         /\ s.server.scheme = IF a \in guarded THEN "https" ELSE "h2c"
                         /\ Backend(s.server.port, s.path) = {"distributor"}

RequestsArrive == HttpArrives /\ GrpcArrives
=============================================================================
