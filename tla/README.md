# Pyroscope operators in TLA+

A verification project for the two Juju charms that run Grafana Pyroscope on
Kubernetes: the *coordinator* (`coordinator/`), which configures the cluster
and tells the rest of the model where it is, and the *worker* (`worker/`),
which runs Pyroscope itself. Paths are relative to the repository's root.

1. [The system](#1-the-system)
2. [Modules and how they map to the code](#2-modules)
3. [Runs: what is model-checked](#3-runs)
4. [Fairness](#4-fairness)
5. [Proofs](#5-proofs)
6. [Where code and documentation disagree](#6-findings)
7. [What is not modelled](#7-not-modelled)
8. [Plan](#8-plan)

## 1. The system

A charm has no main loop. Juju runs it once per event (a *hook*): the charm
object is built, every library it holds registers observers and may act in its
constructor, the handlers of the event run, and the process ends. Databag
writes and `StoredState` are committed only if the hook succeeds; a failed hook
is run again, with the remote data of that later moment. Files pushed to the
workload container are there at once, whatever becomes of the hook. Between two
hooks of a unit anything may happen to the others. That is where the hard
behaviour of this program is: not in one hook, which unit tests with `scenario`
cover well, but in the order of the hooks of several units and applications and
in what survives between them.

| part | state | operations | talks to |
|---|---|---|---|
| coordinator charm (`coordinator/src/charm.py`) | files on nginx's disk, the adverts in the databags of `profiling`, `grafana-source` and `catalogue`, the routes given to Traefik | `__init__`, `_reconcile`, `_reconcile_ingress`, `_on_collect_unit_status` | all of the following |
| peers (`coordinator/src/peers.py`) | the fqdn in each unit's own databag of the peers relation | `reconcile`, `get_fqdns` | the coordinator's units |
| charm options (`coordinator/src/charm_config.py`, `charmcraft.yaml`) | the operator's options | validation, replacement of a bad configuration | configuration generator |
| configuration generator (`coordinator/src/pyroscope.py`, `pyroscope_config.py`) | none: a function of options, workers and endpoints | `config` | `pyroscope-cluster` databag |
| worker charm (`worker/src/charm.py`, `pyroscope.py`) | configuration file, Pebble layer, address, roles | `pyroscope_layer`, hooks | coordinator |
| traefik_route library | provider: `StoredState`, application databags; requirer: `StoredState`, configuration | both constructors, relation-changed, relation-broken, `update_traefik_address`, `submit_to_traefik` | Traefik and the applications behind it |
| grafana_source library | provider: application and unit databags; consumer: the databag of Grafana's peers (`sources`, `sources_to_delete`), the names given back | provider: `_set_sources`, `_set_host_details`, `update_app_source`; consumer: relation-changed, relation-departed, peer-changed, `update_sources` | applications with a data source and Grafana's units |
| tls_certificates library | requirer: private key, requests in the unit's databag, a secret for each certificate; provider: certificates in its databag | requirer: `_configure`, secret-expired, `regenerate_private_key`, `renew_certificate`; provider: relation-changed, `set_relation_certificate`, `revoke_all_certificates` | the provider of certificates |
| profiling, catalogue libraries | databags of their relations | publish | other charms |
| Traefik configuration and nginx (`coordinator/src/traefik_config.py`, `nginx_config.py`) | none: functions of the endpoints, the fqdns and TLS | `traefik_config`, `static_ingress_config`, upstreams and locations | Traefik, the workers |
| s3 library | requirer: a bucket in its databag; provider: credentials and what it has seen in its databag | relation-joined, -changed, -broken; `update_connection_info`, `set_*` | the provider of storage |
| tracing library | requirer: requested protocols; provider: receivers and their URLs | `request_protocols`, `publish_receivers`, `charm_tracing_config` | Tempo |
| resources patch library | the StatefulSet in Kubernetes | config-changed, `apply`, `is_ready`, `get_status` | Kubernetes |
| service mesh library | policies in the databag, identities of applications of other models, labels in Kubernetes and a ConfigMap that remembers them | `update_service_mesh`, `reconcile_charm_labels`, `PolicyResourceManager.reconcile` | the beacon, Kubernetes |
| loki_push_api library | log targets in Pebble's plans; alert rules and what is wrong with them in databags; Promtail in a container | `LogForwarder`, `LokiPushApiConsumer`, `LokiPushApiProvider`, `LogProxyConsumer` | Loki, Pebble |
| grafana_dashboard library | provider: templates in `StoredState`; consumer: dashboards in the databag of Grafana's peers | `add_dashboard`, `reload_dashboards`, relation-changed, -broken, peer-changed | Grafana |
| prometheus_scrape library | addresses, jobs and rules in databags | `_set_unit_ip`, `set_scrape_job_spec`, `jobs`, `alerts` | Prometheus |
| coordinated_workers (a Python dependency, not in the repository) | the cluster databag, certificates on disk, worker files | publish, apply | both charms |

What makes each part correct:

* *coordinator charm*: whatever it publishes in one hook agrees with itself;
  nothing it publishes refers to a unit that has not run or to an ingress that
  is gone; once the world is quiet, everything it published is what it would
  publish now, whichever unit leads and whatever failed on the way.
* *options and generator*: profiles are deleted only by a retention the
  operator chose, a mistake stops deletion, a ring is not asked for more
  replicas than it has members.
* *worker*: ends up with the coordinator's latest configuration, and its
  process is not replanned (restarted) without a reason.
* *traefik_route*: host and scheme travel one by one through two
  `StoredState`s, yet nobody combines a host with a foreign scheme; the
  requirer has the gateway's address in the end.
* *tls_certificates*: a unit has one request for what it wants, never gives a
  good one up, and has a valid certificate in the end, whatever expires, is
  revoked or answered late.
* *grafana_source*: Grafana's leader collects sources and names to delete in
  data that its peers read later; a source is never in both lists, and every
  Grafana server shows in the end the sources that there are.

* *traefik and nginx configuration*: a request for the external URL of an
  application reaches that application, at the backend it would reach inside
  the model, whoever else is behind the same Traefik.
* *integrations* (s3, tracing, mesh, limits): both ends agree in the end; no half
  of the credentials is used, nobody unrelated is let in, "active" means that
  the pods have their limits.
* *telemetry*: logs, rules, dashboards and metrics arrive where they belong and
  under the right name, and whoever sends something invalid is told, and nobody
  else.

The hazards of the code, each at its line, are in `PROJECT.json` under
`hazards`; every property in section 3 is there because of one of them.

## 2. Modules

```
Coordinator ──EXTENDS── CoordinatorProofs          PyroscopeCluster ── PyroscopeClusterProofs
     └── MCCoordinator                                    └── MCPyroscopeCluster
TraefikRoute ── IngressProofs ── RequestPath       GrafanaSource ── GrafanaSourceProofs
     └── MCTraefikRoute                                   └── MCGrafanaSource
TLSCertificates ── TLSCertificatesProofs           PyroscopeCluster ── implements ── Distribution
     └── MCTLSCertificates

Telemetry ── MCTelemetry
     └── of LogForwarding, LogProxy, LokiPush ── LokiPushApiProofs
         and DashboardProvider, DashboardConsumer, MetricsEndpoint ── ObservabilityProofs
Integrations ── MCIntegrations
     └── of MeshPolicies, MeshLabels, ResourcesPatch,
         S3Credentials, Tracing ── IntegrationsProofs, and RequestPath
```

The first five specifications are five views of the system that meet at databags:
what one treats as its environment another one models. `Coordinator` leaves
Traefik and the workers out; `TraefikRoute` has Traefik's units and one-unit
applications behind them; `PyroscopeCluster` has the coordinator's
configuration side and the workers; `GrafanaSource` has applications like the
coordinator and the units of Grafana; `TLSCertificates` has one unit of the
coordinator and its provider, whose outcome is `CertificateChange` in
`Coordinator`. The others are one library, or one half of it, each, with both of
its ends and Juju between them; `RequestPath` is what the coordinator's routes and
nginx do to a request. What `Coordinator` and `PyroscopeCluster` leave to the
environment, a bucket, a tracing endpoint or a pod that restarts, comes from
these. `Telemetry` and `Integrations` put the libraries of a kind side by side in
one deployment: each has databags and objects of its own, and a step of one leaves
the state of the others alone, so that what is shown of each holds there.
`PROJECT.json`, under `map`, names the lines of every definition.

### Coordinator

One action is one whole hook of one unit. `Dispatch(u, e, view, peers)` is its
body: `view` is the set of relations `ops` shows the charm in this hook and
`peers` the peer units it shows. In the order of the code:

| in the code | in the model |
|---|---|
| `__init__` reads `_most_external_http_url` for the catalogue, which refreshes `StoredState` (`traefik_route.py:338-406`) | `StoredAtInit`, `UpdateStored` |
| the catalogue item, before the Coordinator handles the certificates | `CatalogueItem`, on the files that were on disk when the hook began |
| the Coordinator pushes the certificate to nginx or removes it | `DiskAfter` |
| relation-broken of the ingress forgets the host | `StoredAfter` |
| `_peers.reconcile()` | `Announce` |
| `_reconcile_ingress()` on the leader | `SubmitToTraefik`; it raises if a peer has no fqdn yet: `PeersReadable`, and the hook fails |
| `publish_endpoint`, `update_app_source`, `update_item` | `Advertise` |

A failing hook keeps the certificate files it pushed and nothing else, and
`retry[u]` says which hook Juju runs again; until it succeeds the unit runs no
other. `seen[u]` and `members[u]` are what the unit was told of relations and
peers, which lags behind `established` and `live`. `hostsSoFar` is a history
variable used only by properties.

The environment adds and removes units, moves the leadership, makes and removes
relations, announces and withdraws hosts, gives and takes certificates, and
restarts containers (which lose the files) and pods (which lose `StoredState`
too). Every such change costs one of `MaxChanges`; elections and containers
that come back are free, so that the system can always settle.

Abstracted: a URL is its host and whether it is https; the ports, paths, the
prefix and the texts of the catalogue are constants and left out; the Traefik
configuration is the two things in it that vary, the units and the TLS flag.

### PyroscopeCluster

`SetOptions` gives the operator any of `Settings`, mistaken ones included.
`CoordinatorHook(u)` replaces a bad configuration (`EffectiveCleanup`), builds
the file (`Config`) and publishes it if `u` leads and the deployment is coherent
and has a bucket. `WorkerHook` publishes the worker's address and, on its
application's leader, the roles; it then writes the file and the layer.
`GatherRoles` and `AddressesOf` are the dependency's methods, modelled from how
the charm uses them. A worker knows no roles until its leader has published
them, and its address is missing until it has run a hook.

The order in which Python enumerates the set of roles is a choice (`order`),
different in every hook; `Layer` sorts it as `worker/src/pyroscope.py:62` does.
`Sorted` says what the sorted sequence of a set is, by how many of its members come
before each, and not how Python gets there.

Abstracted: the fields of the file with constant values, and the wording of the
status. A time span is a model value; `Zero` is `"0"` and `Malformed` anything
the regular expression rejects.

### TraefikRoute

`TraefikHook(t, events)` is one hook of a unit of Traefik: the constructor
compares the gateway with what it kept and publishes it, then relation-changed
publishes what is kept, if a configuration is there, and keeps None.
`Published` is `update_traefik_address`, with Python's `or` as `OrElse`.
`RequirerHook` and `RouteBroken` are the other end: the properties that refresh
`StoredState`, and relation-broken. News of a configuration reach each unit of
Traefik separately (`news`), so that followers' hooks and late ones are
possible. The gateway may have no host, as when Traefik's load balancer has none
yet or no longer (`Gateways` of `MCTraefikRoute`); `withdrawn` remembers that it
lost one.
`Coordinator` relies on this module for its `TraefikAnnounce`, in which host and
scheme of an announcement belong together.

### GrafanaSource

Juju gives a relation a new id each time it is made, and the consumer files
sources by that id; so a relation is an application and a generation
(`Relations`), and data of an old one stays where the code leaves it.

| in the code (`grafana_source.py`) | in the model |
|---|---|
| a provider's hook: `_set_sources`, `_set_host_details` | `SetSources(a, u, leads)` |
| `_get_source_config`, which also takes what is there again off the deletions; `_sources_to_delete` | `GetSourceConfig`, `SourcesToDelete` |
| `_on_grafana_source_relation_changed`, called by relation-changed and `update_sources` | `RelationChangedHandler` in `RelationJoined`, `RelationChanged`, `UpdateSources` |
| `_on_grafana_source_relation_departed`, `_remove_source_from_datastore` | `RelationDeparted` |
| nothing observes relation-broken | `RelationBroken`, which changes only what Juju shows |
| `_on_grafana_peer_changed` | `PeerChanged` |
| what Grafana's charm does with the two lists when told | `Provision`, external |

`view`, `members`, `news` and `peerNews` are what Juju has told each unit of
Grafana and what it has still to tell it. `shown[g]` is the set of sources in
the server of unit g. `AppLevel` and `UnitLevel` are the two flags of a
provider, `app_datasource` and `unit_datasources`; Pyroscope sets the first
only (`coordinator/src/charm.py:77-81`), but the two share lists and
handlers and the code that goes wrong is where they meet. Left out: the uid's
text (a source is known by its application and unit), types, extra fields and
`upgrade_keys`, which rewrites data of an older version of the library.

### TLSCertificates

| in the code (`tls_certificates.py`) | in the model |
|---|---|
| `_configure`: private key, `_cleanup_certificate_requests`, `_send_certificate_requests`, `_find_available_certificates`, `_renew_expiring_certificates` | `Configure`, of `CleanUp`, `Send`, `FindAvailable`, `Expiring`, `Send` in this order |
| the events that `_configure` observes; `sync` | `ConfigureEvent`; `Refresh` |
| `_on_secret_expired`, `renew_certificate`, both by `_renew_certificate_request` | `SecretExpired`, `RenewCertificate`, both by `Renew` |
| `regenerate_private_key` | `RegeneratePrivateKey` |
| the provider's relation-changed and update-status, and its charm reading `get_outstanding_certificate_requests` | `ProviderHook`, `Outstanding` |
| `set_relation_certificate`, `revoke_all_certificates` | `SetRelationCertificate`, `RevokeAllCertificates` |

A request is its attributes, the number of its private key and a number of its
own, because the library puts a fresh UUID in every request. A certificate is
its request and a serial number. Between taking a request up (`pending`) and
answering it the provider may take any time; the request may be gone by then.
Time is three moments in the life of a certificate (`Moments`): its secret
expires, the threshold of the safety net is passed, the certificate expires.
The first two come in either order, since the secret's time is computed from
when the unit saw the certificate. `news` is true while an event in which the
unit configures is still to come.

Left out: APP mode and private keys given by the charm (parameters Pyroscope's
dependency leaves at their defaults), CA certificates, revisions of secrets, and
the X.509 classes. A provider that answers with a certificate for another key is
left out too, so that the check of the key in `Assigned` is never decisive.

### Distribution

The abstract specification of the worker side: one source, members that come and
go, and copies, each of which is empty or the whole of what the source had when
it was made. `PyroscopeCluster` implements it with its published configuration
as the source and the workers' files as the copies (`Promise`, `Distributes`):
a worker never makes up, mixes or takes over from another worker what it runs.

### Log forwarding, Promtail and alert rules (loki_push_api)

`LogForwarding` is one forwarding unit, its containers and the units of several
Lokis. `ActiveEndpoints` keeps the code's all-or-nothing reading of a relation:
a unit that has not published makes the whole relation count for nothing.
`UpdateEndpoints` disables what is not active and enables the rest, in the plan of
each container that Pebble answers in, and does nothing without any endpoint. A
container loses its plan when it restarts and gets it back in `PebbleReady`.

`LogProxy` is `LogProxyConsumer` in one container: `SetupPromtail` gets the
binary from where it can (`Installed`: in place, attached, cached, downloaded),
writes the configuration and the layer, and tolerates a process that does not
start; `UpdatePromtail` and `PromtailDeparted` do not, and their hook is run again
(`failedHook`) before any other. `box` is what a container loses.

`LokiPush` is the alert rules: `PublishRules` by the applications, `Alerts` as
the dictionary that the loop over relations leaves, whose last claimant of an
identifier decides, `Errors` as what Loki's leader writes on the way,
`HasInvalidAlertRules` as what it shows. A set of rules has an identifier and is
valid or not.

### Dashboards (grafana_dashboard)

`DashboardProvider` has the units of one application, each with its own
`StoredState` (`dashStored`): what every hook stores and what only the leader
publishes are told apart, since the next leader publishes from its own store.
`DashboardConsumer` has Grafana's units: the leader renders what relations offer
(`Rendered`, `ErrorsAfter`) into the peers' databag, all units provision from it
(`Winners`: per uid the highest version, then the relation id as a string). A
template is a record of uid, version and whether it renders.

### MetricsEndpoint (prometheus_scrape)

Units publish addresses, leaders jobs and rules; `ExpandJob` turns a job into
targets for the units that have its addresses, `DedupeJobNames` keeps names
apart, and one invalid job takes all those of its relation away (`IsRejected`).
Pods that restart get another address, and addresses are given again to others:
`hadIp` is a history of who had which. A fixed target of a job may name a unit by
its address or by its fqdn (`IdentifiersOf`), for which the unit itself stands.
Left out is `external_url`, under which all units would publish the ingress host:
neither charm passes it.

### MeshPolicies and MeshLabels (service_mesh)

`MeshPolicies` has the leader's policies in the databag (`UpdateServiceMesh`),
who an application of another model is (`Source`), and the beacon, whose hook
deletes and applies in steps of their own and may fail between
(`BeaconDeletes`, `BeaconApplies`, `BeaconFails`). `MeshLabels` has the calls of
`reconcile_charm_labels` one by one (`call[u]`), since two units patch the same
objects and a patch of the StatefulSet restarts the very pods that make it.
A policy is only whether it is there.

### ResourcesPatch

A unit computes requirements from the option (`Adjusted`), patches, and shows a
status from what Kubernetes answers (`StatusWhen`, `InProgress`). Kubernetes has
an observed generation, a rollout, and pods that are replaced and become ready
one after another. The patch, the dry run behind the status and the reading of the
StatefulSet are requests of their own, and each may fail without the others; a
StatefulSet that cannot be read counts as rolled out, as in the code (`unread`). An
error that the library does not catch fails the hook (`ConfigChangedFails`). One
resource stands for cpu and memory.

### S3Credentials and Tracing

`S3Credentials`: the requirer's leader asks for a bucket, the provider recognises
the request once, by its difference to what it had seen, and answers with keys
that arrive together or one by one. `Tracing`: several applications request
protocols, Tempo's leader publishes the receivers of all to all, and an
application uses what it asked for; its charm uses otlp_http (`OtlpHttp`), and over
https only with a certificate, while workloads use the other protocols as they are.

### RequestPath

`TraefikConfig` is what a coordinator submits; Traefik merges the submissions of
several (`Sent` is where it sends a request), and `ServerPortsToLocations` is
nginx behind it (`Backend`). Names of models and applications are the sequences
of words between their dashes, which is what the ingress prefix joins; a word has
no slash (`Words`), as Juju's names have none, and a path begins with one. A coordinator
whose leader had its certificates when it submitted (`guarded`) has a redirect to
https, at the port of its nginx, on all its routers: `Passes` says which requests
such a router lets through, `Redirects` what the others are answered.

## 3. Runs

Every property is a statement that several hooks, usually of several actors, can
break; `PROJECT.json` under `mutants` has for each one a plausible bug of the
code that breaks it in the run given.

| run | properties | instance | states |
|---|---|---|---|
| `adverts` | `TypeOK`, `NoHostFromOldIngress`, `AdvertsAgree`, `CatalogueAgrees` | 1 unit, 2 hosts, one relation of each kind, 4 changes of any kind | 359 k |
| `recovery` | `RoutesAnnounced`, `Converges`, `FailedHookRecovers` | 2 units, 1 host, no Grafana and no catalogue, 2 changes | 94 k |
| `worker_config` | `TypeOK`, `DeletionChosen`, `ReplicasFitRoles`, `NoNeedlessReplan`, `Distributes` | 3 workers in 2 applications with all roles, two or one, 1 change of each of 4 kinds | 1.3 M |
| `rollout` | `Converges`, `MistakeStopsDeletion` | 2 workers, 2 coordinator units, 1 change of each of 4 kinds | 192 k |
| `hasty_deletion` | `NoHastyDeletion`, violated | 2 workers | stops at the first |
| `route` | `WholeAddresses`, `Converges` | 2 Traefik units, 1 relation, 2 hosts and 2 schemes, a gateway without a host, 4 changes | 314 k |
| `route_leader` | `NothingToUpdate`, violated | 2 Traefik units | stops at the first |
| `grafana` | `TypeOK`, `NothingOfferedIsDeleted`, `Converges` | 1 application with 2 units and both kinds of sources, 2 URLs, 2 Grafana units, a relation made up to twice, 2 changes of any kind | 208 k |
| `grafana_broken` | `BrokenRelationForgotten`, violated | 1 application, 1 unit | stops at the first |
| `certificates` | `TypeOK`, `OneRequest`, `RenewalArmed`, `NoNeedlessRenewal`, `Converges` | 2 attributes, 3 changes of any kind | 279 k |
| `telemetry` | `TelemetryTypeOK`, `ForwardsToThoseThere`, `OnlyUnreadyInterrupted`, `PromtailArrives`, `RulesDistributed`, `LeadersTemplatesSent`, `OffersHandled`, `TargetsAreRight` | 3 units of 2 Lokis; 2 units of Loki for Promtail; 2 applications with rules and 2 units of Loki; 2 units with dashboards; 2 units of Grafana and 2 offers; 3 scraped units of 2 applications with 3 addresses; 2 (scraping) to 5 changes | 297 k |
| `integrations` | `IntegrationsTypeOK`, `AuthorizationFollows`, `LabelsFollow`, `LimitsHold`, `ActiveMeansRolledOut`, `CredentialsFollow`, `TracesArrive`, `RequestsArrive` | 2 callers, one of another model; 2 units for labels and limits; 2 units at both ends of s3; 2 traced applications; 3 coordinators behind one Traefik; 2 (limits) to 5 changes | 854 k |

What the runs show, and why the bounds are enough:

* **adverts.** Within a hook the endpoints given to profilers, Grafana and the
  catalogue are computed by different code from `StoredState`, the ingress and
  the files on disk. They agree, and no host survives its ingress. One unit is
  enough here because a hook reads nothing of its peers to make these endpoints, and
  `PublicationsAgree` and the others are proved for any number of units (section
  5). Four changes allow an ingress to go and come back with another host and a
  restart in between.
* **recovery.** With two units the interesting thing is the unit that joined and
  has not run: the leader's hook fails until the peer publishes its fqdn. The
  run shows that it does recover, that Traefik is never given a unit that has
  not announced itself, and that after any two changes everything published
  becomes current again. It has the profiling adverts only; those of Grafana and
  the catalogue are compared with them in `adverts`.
* **worker_config.** Three workers are the least number for which the
  replication factor is 3; two applications make roles and members arrive
  separately, and one of them may be left with ingesters only, so that there are
  three members and three ingesters, but one or two store gateways: a factor
  computed from all members is seen to be wrong.
* **rollout.** Once the operator stops, each worker has the one configuration
  that fits; a mistake in the options ends deletion everywhere, though only in a
  deployment that can be configured at all (`CanPublish`): without a bucket or
  with a role missing nothing is published, which the dependency decides, and the
  workers go on as before. The property says nothing of that case.
* **route.** Two hosts times two schemes are the least with which a host
  can be combined with a foreign scheme. A gateway without a host keeps the databags
  as they were, so that a host that is taken back meets the next scheme:
  `WholeAddresses` says what is left then. `Converges` makes an exception for a
  leader that led before, which is the finding of `route_leader`.
* **grafana.** One application is enough: names of different applications never
  meet. Two units are needed for a departure, two generations for a relation
  that is made again under a new id. `Converges` asks nothing of a Grafana whose
  leader has changed: relation-departed and relation-changed act only on the
  leader, and a unit that is elected after its own hook of the event has run,
  but before the old leader's, handles the event never. TLC finds this
  when `former # {}` is dropped; the next event repairs it. `MCInit` picks one of
  the initial leaders and URLs, which differ in their names only.
* **certificates.** Three changes are what a certificate needs to pass all its
  moments, and enough for a secret of an old key to expire while a new request
  waits, for a revoked certificate to be replaced before the unit has seen it, or
  for a relation to be made again. Two attributes let the unit want one, the
  other, or both. `MCInit` starts with a relation and one of the attributes.
* **telemetry** and **integrations** check libraries that share no state: the
  variable `part` chooses one of them, and the others stay as they are at first,
  so that a behaviour is one of that library and the states add up instead of
  multiplying. Nothing is lost by it: a step of `Telemetry` or `Integrations` is
  written as a step of one library that leaves the others alone. Each library has two of whatever can take turns, race or
  be mistaken for another: two units where a lease moves, two relations where one
  must not disturb the other, two Lokis where one is not ready. Addresses are
  three for three units, one of which starts with a free one, so that an address can
  pass from one pod to another. Three to five changes let something come, be told
  late, go and come back. Scraping has two, which let a pod restart and another take
  its address, or a unit come and go, while its leases move as often as they like;
  the limits have two, another option and a pod that fails or trust that is
  withdrawn, while requests to Kubernetes fail as often as they like. The jobs include one with an address that
  another unit may get beside the fqdn of a unit, two jobs of one name, and an invalid one beside a valid one;
  the names of the three coordinators make one prefix a part of another, and two
  prefixes equal.

  What the properties promise ends where the code's promise does, and the comments
  at the properties say so: nothing to log targets while there is no Loki at
  all, nothing to applications whose rules claim the same identifier, no exoneration of
  an application that withdrew its invalid rules, nothing of the status of a unit that
  could not read the StatefulSet, nothing to a
  Grafana whose lease moved during a relation-broken, nothing to labels when the
  relation changed under an interrupted hook, nothing to two coordinators with
  one prefix.

`CHECK_DEADLOCK FALSE` is given where the environment's budget can be spent and
no hook has anything left to change: the system may really come to rest.
`SYMMETRY` is used over `Hosts` in `adverts` and over the workers of one application
in `worker_config`, where no liveness property is checked.

## 4. Fairness

Weak fairness, on these actions only:

* *every unit runs its hooks* (`OtherEvent`, `RelationCreated`, ... and the
  hooks of the other modules): Juju delivers the events of a unit one after the
  other, retries a failed hook, and sends `update-status` every few minutes for
  ever. All charms reconcile on every event (`observe_events(self, all_events,
  ...)`, `charm.py:132`), so that a missed event does not matter.
* *a leader is elected* when there is none: Juju's leases expire.
* *a container comes back* (`ContainerReady`): Kubernetes restarts it.
* *some unit of a worker application runs a hook as its leader*
  (`PyroscopeCluster`): a lease is not moved around so fast that no holder ever
  runs one.
* *every unit of Grafana runs its pending hooks*, and *some unit of an
  application runs one as its leader* (`GrafanaSource`); `UpdateSources`, which
  Grafana's charm may call or not, is not fair.
* *the unit runs the hooks of its events and expired secrets, the provider runs
  its own and answers what it has taken up* (`TLSCertificates`). `Refresh` is not
  fair: convergence does not need events other than those the library observes,
  and one after a change of attributes.

The modules of `telemetry` and `integrations` state safety only: instead of
"in the end" their properties say what holds whenever all events have been
delivered, which needs no fairness.

Nothing is assumed of the operator, of Traefik's address, of certificates or of
S3: their changes are not fair, only bounded.

## 5. Proofs

Checked by TLAPS for every value of the constants. A module's assumptions
(`ConstantsAssumption`, `ScrapeAssumption`, ...) say of the constants what the
code takes for granted: special values are none of the ordinary ones, different
applications have different names, a unit has one application. TLC evaluates
them in every run. They bound no number of units, relations, values or changes;
only the workers must be finitely many.

Every safety property of every passing run is a theorem: all 27 invariants, and the
action properties `AdvertsAgree`, `CatalogueAgrees`, `NoNeedlessReplan`,
`Distributes`, `NoNeedlessRenewal` and `OnlyUnreadyInterrupted`. Hardly any is
inductive as it stands. The properties speak of quiet moments ("when all events
have been handled"), and the invariants have to say what is true before: of each
piece of state, which pending event excuses it.

### The coordinator and the workers

* **CoordinatorProofs.** `IInv` is inductive: `TypeOK`, the three safety
  invariants, and what they need. `RoutesAnnounced` needs only that an announced
  unit stays announced. `HostOnlyWithIngress` needs that the hook which hides
  the ingress also forgets the host, and that a hook that fails changes neither
  (`retry`). `NoHostFromOldIngress` is the interesting one: it compares a stored
  host with a *history of the present relation*, so one has to know that a unit
  that has not been told of the new relation has no host at all
  (`HostOnlyWithIngress`), that a unit that was never there saw nothing
  (`UnbornUntouched`), that peers come first (`PeersFirst`) and that what Traefik
  says now is in the history (`HistoryKept`). From these follow `TypeCorrect`,
  `RoutesAreAnnounced`, `HostNeedsIngress`, `OldIngressForgotten`;
  `PublicationsAgree` proves the two action properties `AdvertsAgree` and
  `CatalogueAgrees` hook by hook.
* **PyroscopeClusterProofs.** The invariant adds to `TypeOK` that valid options
  are in the history `chosen`, and states for a *configuration* that its
  clean-up is chosen; a configuration is built once and then copied, so this
  travels from `Config` to `published` to `running`. `ReplicasFit` compares the
  factors in the file with `serving`, the workers of each role when the file was
  made: `MembersServe` says that those of them among the members, which are gathered
  over all roles, are just the ones whose number the factor was computed from.

  `PlansChangeForAReason` (`NoNeedlessReplan`) needs that a sorted plan is
  determined by its set of roles. `SortedEnumerates` proves it without induction:
  the number of roles before a role is an injection of a finite set of roles into as
  many numbers, hence onto them, so that each role is in the plan once. With
  `PlansSorted`, that every plan is one of these, two plans with the same roles and
  the same endpoint are the same.

  `ClusterDistributes` is the refinement. Every hook of the coordinator publishes
  or stutters, every hook of a worker fetches or stutters, and what comes, goes or
  is configured maps to a join, a leave or a stutter; `TypeOK` is what makes the
  published value one of `Values`.

### The way in

* **IngressProofs**, of `TraefikRoute`. `AddressesAreWhole` assumes nothing of
  Traefik's address. Two invariants carry it. `HalvesHad`: on the way (kept, in a
  databag, told) host and scheme are each one that the gateway had. `WholesHad`:
  unless the gateway lost its host once (`withdrawn`), they are host and scheme of
  one address; for this one has to know that such a gateway without a host never
  had one, and that a requirer with a host reads a databag with one.
  `RouteTypesKept` adds that a requirer whose relation is gone has no host
  (`NoHostWithoutRelation`).
* **IngressProofs**, of `RequestPath`. The state needs little: what Traefik has of
  an application was made by a hook of its leader (`MadeByHooks`). The rest is about
  what Traefik makes of it. `OwnPrefix` and `NoLongerPrefix`: a path behind the
  prefix of an application starts with that prefix, and with no longer one of
  another application, because no word of a prefix is a slash and what follows the
  prefix begins with one; so Traefik, which takes the longest prefix, takes the
  right router unless two are equal. `ServiceNames` and `ServersOfOwn`: routers and services of several
  applications are merged under names that differ, so the router's service has the
  servers of that application. `RequestsAlwaysArrive` then follows the request
  through nginx, endpoint by endpoint, for http and for gRPC. What is true of the
  redirect needs that a submitted configuration is the one of its leader's
  certificates (`guarded`): plain requests then have the same router as ever and
  are turned away by it, and a gRPC call over https passes because the port of the
  redirect is that of its own entry point.

### Data sources and certificates

* **GrafanaSourceProofs.** `NoOfferIsDeleted`: the list of deletions never
  shrinks by itself, and a name comes back with every new relation of the same
  application, so that a source could be offered under one relation and deleted
  for another. It is not, because an application has one relation that anybody
  knows of at a time (`OneRelationEach`, from Juju), because sources are filed
  under a relation of their own application (`FiledUnderOwn`), and because they
  are filed under one of its relations only (`FiledOnce`): relation-changed
  rebuilds the whole store from the relations in view. The four together are
  inductive; `ChangedHandler` and `DepartedHandler` are the two steps that
  matter.
* **TLSCertificatesProofs.** `RequestsAreSingle`, `CertificatesAreArmed` and the
  action property `RenewalsHaveReason`. Two facts carry them: all requests in
  the databag are of the present key (`RequestsOfKey`), so a request for some
  attributes is found if there is one; and numbers only grow (`Numbered`), so a
  new request has no certificate, of which a secret could be missing. The predicate
  `Fits` says what each of the operators that a hook composes leaves of the
  databag, and `Configured` puts them together.

### Telemetry

* **LokiPushApiProofs**, log forwarding. `PlansFit` is the inductive part: a
  container that has had its pebble-ready has the plan of the endpoints there are
  now, unless an event is still to come or there are no endpoints. What a relation
  gains or loses makes an event, so the exception covers it; a hook of the relation
  or of the container then makes the plan fit. `LogsAreForwarded` follows;
  `OthersKeepForwarding` is an action property, hook by hook.
* **LokiPushApiProofs**, Promtail. `FollowsKnown`: with its layer and without news of
  the units it knows, Promtail's file and process have the clients of *those it
  knows*, which are those that are there once all events are handled. A process
  needs a binary and a layer (`Sound`), and `LayeredInTime` says when there is a
  layer: with the news of the binary, unless that news, the first pebble-ready or a
  hook that failed is still to come. A failed hook excuses all of it, so its retry
  must restore all of it.
* **LokiPushApiProofs**, rules. `LoadedFor(L, seen)` says what one pass over the
  relations of `seen` leaves in a unit, an identifier's last claimant deciding;
  `FreshAreLoaded`, that each unit without events to come is there for what it
  knows, and `BagsOfRelated`, that a relation that is gone has left no databag.
  `AlertsAreRight` proves the loop: what `Alerts` leaves is `LoadedFor` whatever the
  order of the ids. Who is blamed follows from `RulesJudged`, for the leader alone.
* **ObservabilityProofs**, `DashboardProvider`. What is sent is the *leader's* store,
  so the invariant speaks of all stores: of what a unit stores, all that is no
  file was added by its charm (`StoresWhatIsAdded`) and the files are those of its
  own revision unless its upgrade is to come (`StoresItsFiles`). A unit that is
  elected then has the right store to publish from.
* **ObservabilityProofs**, `DashboardConsumer`. `OffersJudged`: the leader's store has
  the offers of the relations that it knows of and has no news of; `OthersShow`:
  the other servers show the store, or are to be told. Both are conditional on
  what the code loses when the lease moves (`caughtUp`, `leaseMoved`), and
  `KeptAreKnown` is why nothing is left of a relation that went: as long as the
  lease did not move the leader knows every relation it has kept something of.
* **ObservabilityProofs**, `MetricsEndpoint`. `LabelsWereTrue` holds at every moment:
  it needs `AddressesHad`, that what a unit publishes it has had. For the rest
  `Current(seen)` says what Prometheus has made of the databags for the units of
  `seen`, and `CurrentWhenTold` that it is current for those it knows, unless it has
  news to read. The lemmas are about the functions: `ExpandJob` gives every unit its
  target and nothing else (`ExpandShape`, `ExpandsIf`), renaming gives names that
  differ and changes nothing else (`DedupeKeeps`), and what has been read stays
  right as long as the databags do (`CurrentKept`).
* **ObservabilityProofs**, together. `TelemetryTypesKept`. Its lemma
  `TelemetryComposes`, that `TelemetrySpec` implies the specification of each library,
  says how the composition is written, not what the code does.

### Integrations

* **IntegrationsProofs**, the mesh's policies. `PoliciesCurrent`: the databag is what
  the leader would publish now, unless it has an event to come or has not computed
  them since it was elected; `BeaconCurrent`: without an event to come Kubernetes
  has just what is in the databag between two hooks of the beacon, and in the
  middle of a hook the beacon has read that and has deleted the rest. The two meet
  in the databag.
* **IntegrationsProofs**, the mesh's labels. The calls of two units interleave, so the
  invariant, `PatchFits`, is one of program counters: what the objects have before
  each call of `reconcile_charm_labels`, and what of it is still true if the record
  was overwritten by the other unit since it was read (`outdated`). `Reached` is
  "whoever has something to do will get there, or everybody has". All of it is
  lost when the relation changes under a hook that failed (`overlapped`), and
  stays so: this is an assumption of the property and not of the proof, as
  `LabelIInv` includes those states.
* **IntegrationsProofs**, resource limits. `TemplateCurrent`: any unit without an event
  to come that has not failed vouches for the template, since all compute the same;
  `RolloutKnown`: what the controller says of the rollout is right once it has seen
  the template. `ActiveIsRolledOut` follows for every report: a unit that has read
  the StatefulSet and found it seen and rolled out has every pod on the template, by
  `RolloutKnown`, and one that has not read it is in `unread`.
* **IntegrationsProofs**, object storage. Credentials are told in events, so
  `CredentialsCurrent` is inductive together with `NothingTooEarly` (nobody has
  credentials before they are complete); `RequestOnItsWay` follows the request from
  the first hook of the leader that asks to the answer.
* **IntegrationsProofs**, tracing. `ServedAsRequested` says what the receivers are when
  Tempo's leader has published: those of the relations it knows of. Together with
  `RequestsMade` it gives `RequestsServed`; with `EndpointsCurrent`, that an
  application uses what it was offered in its last hook, it gives `TracesSent`.
* **IntegrationsProofs**, together. `IntegrationsTypesKept`, by a lemma like the one for
  `Telemetry`.

### Only model-checked

The liveness properties: `Converges` of each module, `FailedHookRecovers` and
`MistakeStopsDeletion`. They need fairness, whose `ENABLED` is out of the prover's
reach. The three properties that are refuted are the other ones without a theorem.

TLC and the proofs check each other. TLC has evaluated each of the inductive
invariants above on the instances of section 3, and found the properties' mutants;
the proofs need no bounds.

## 6. Findings

Three runs expect a violation; each is a disagreement between what a text of
the repository says and what its code does.

* **A mistake in the options can delete data at once** (`hasty_deletion`).
  With one bad option the charm replaces all three and says "Disabling profiles
  cleanup to prevent data loss." (`coordinator/src/charm.py:85`). The
  replacement also sets the deletion delay to `"0"` (`charm.py:36`), and "If 0,
  blocks will be deleted straight away" (`coordinator/charmcraft.yaml:183-184`):
  blocks that an earlier retention had marked, and that the operator wanted to
  keep for a day, have no delay any more. Retention itself is off, as
  `DeletionChosen` shows.
* **A unit of Traefik that leads again may leave an old address**
  (`route_leader`). The provider compares the gateway with what *this unit*
  published last (`traefik_route.py:200`), under the comment "If traefik
  endpoint details changed, update" (`:203`). Unit A publishes a; B leads and
  publishes b; A leads again when the address is back to a, and finds nothing
  to update while the databags say b.
* **An application's own source outlives its relation** (`grafana_broken`).
  "App-level sources (unit is None) are load-balanced and must survive
  individual unit departures, so they are skipped here and only removed when the
  whole relation is broken." (`grafana_source.py:970-972`). The consumer observes
  relation-changed and relation-departed (`:741-746`), never relation-broken, and
  in relation-departed the unit is always set, so the branch that removes all
  sources of a relation is never taken. The source stays in the store; the next
  relation-changed of anything drops it from there without listing it for
  deletion, so Grafana's servers keep it. Pyroscope's source is of this kind.

Met on the way, and told by the properties rather than by a run of their own:

* A withdrawn host stays: an empty host in Traefik's databag leaves the stored one
  (`traefik_route.py:400`) until the relation goes.
* A coordinator with certificates behind a Traefik without TLS advertises
  `http://host/prefix` (`charm.py:173`), but its router answers every plain request
  with a permanent redirect to https at port 8080 (`traefik_config.py:49`, `:91-101`),
  the port of nginx; Traefik has no entry point there, as `static_ingress_config` opens
  the gRPC port only (`:197-205`). `RequestsArrive` states the redirect; no text of
  the repository promises more.
* A unit reports active during a rollout when it cannot read the StatefulSet: after
  the dry run has succeeded a failed GET counts as "not in progress", until the next
  run (`kubernetes_compute_resources_patch.py:469-473`). Such units are in `unread`.
* A renewal is a downtime: it removes the request from the databag
  (`tls_certificates.py:1847`), and certificates are found by the requests.
  `CertificateChange` in `Coordinator` shows what follows: nginx loses its files
  and every advert goes from https to http and back.
* An application that withdraws its alert rules altogether goes on being blamed
  for them, in Loki and in Prometheus (`BlameIsFair`, `RulesAreEvaluated`), while
  `has_invalid_alert_rules` is to tell whether a relation *currently* carries
  invalid rules (`loki_push_api.py:1217-1218`): an empty set is skipped before the errors
  are removed (`:1167`).
* Promtail's relation-departed fails in a container that restarted a moment before
  (`loki_push_api.py:1841`), and goes on failing: the pebble-ready that would help is
  behind it in the queue. A state of `LogProxy` with `failedHook = "departed"` and
  `boxUp` has no step of the unit that leaves it.

## 7. Not modelled

* coordinated_workers and ops: outside the repository; modelled from their use,
  as external definitions.
* `GrafanaDashboardAggregator`, `MetricsEndpointAggregator`,
  `PrometheusRulesProvider`: classes of the vendored libraries that neither charm
  uses, nor what it talks to through the modelled ones.
* How files become alert rules or dashboards (`AlertRules`, `CosTool`, the rewriting
  of panels and data sources): text in, text out. The models keep whether the result is
  valid and whose it is.
* X.509 (the certificate classes of tls_certificates) and the wording of URLs.
* Of the service mesh the paths, ports and methods of a policy.
* Terraform, probes, scripts, dashboards, alert rules: data.
* What Pyroscope makes of its configuration. So the hazard of
  `cleanup_interval = "0"`, which the validation accepts, has no property.

## 8. Plan

Done: the modules above, in this order because the coordinator's hooks are where
most of the hazards are, the workers' data is what can be lost, `Coordinator`
rests on what `TraefikRoute` promises, Pyroscope's profiles are seen through the
source that `GrafanaSource` delivers, every URL depends on the certificates of
`TLSCertificates`; then the integrations and the telemetry, which the charms
configure and leave to the libraries.

What would come next:

1. `TraefikRoute` as an implementation of `Distribution` while no host is withdrawn.
2. Convergence's safety part in `Coordinator`: a hook without a change of the
   environment writes what is already there.
3. For the libraries of section 5 that keep a history variable to excuse a lease
   that moved (`leaseMoved`, `leaseLost`), theorems of what still holds after it.
