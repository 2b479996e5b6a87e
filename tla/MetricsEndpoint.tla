-------------------------- MODULE MetricsEndpoint ---------------------------
(***************************************************************************)
(* Scraping (prometheus_k8s/v0/prometheus_scrape.py): the units of several *)
(* applications publish their addresses, the leaders the scrape jobs, with *)
(* MetricsEndpointProvider; one unit of Prometheus turns them into targets *)
(* labelled with the unit they belong to, with MetricsEndpointConsumer.  The*)
(* alert rules of the applications go the same way, and what is wrong with *)
(* either is told in one event, under a key of its own.                    *)
(*                                                                         *)
(* A pod that restarts has another address, and the one it had may be given*)
(* to another pod before anybody has been told.                            *)
(***************************************************************************)
EXTENDS Naturals, FiniteSets, Sequences

CONSTANTS
    Scraped,           \* applications with a metrics endpoint
    ScrapedUnits,      \* their units
    ScrapedOf,         \* ScrapedOf[u]: the application of unit u
    Ips,               \* addresses of pods
    Wildcard,          \* the target "*"
    Outside,           \* a target that is no unit's address
    NoAddress,         \* nothing in the unit databag
    NoUnit,            \* no juju_unit label
    NoJobs,            \* no scrape_jobs in the databag
    JobSets,           \* the sets of jobs a charm may ask for
    MaxScrapeChanges   \* bound on the changes of the environment but leases

\* A unit among the targets stands for its fqdn, which its pods keep.
Targets == Ips \cup ScrapedUnits \cup {Wildcard, Outside}
Jobs    == [job : Nat, targets : SUBSET Targets, valid : BOOLEAN]

\* The alert rules of a charm; "none" is an empty set of them.
AlertRules == {"none", "valid", "invalid"}

ASSUME ScrapeAssumption ==
    /\ ScrapedOf \in [ScrapedUnits -> Scraped]
    /\ {Wildcard, Outside, NoAddress} \cap (Ips \cup ScrapedUnits) = {}
    /\ Ips \cap ScrapedUnits = {} /\ Wildcard # Outside
    /\ NoUnit \notin ScrapedUnits /\ ScrapedUnits \cap Scraped = {}
    /\ JobSets \subseteq SUBSET Jobs /\ NoJobs \notin JobSets
    /\ MaxScrapeChanges \in Nat

VARIABLES
    podIp,          \* podIp[u]: the address of the pod of u
    hadIp,          \* history: hadIp[u]: the addresses u has had
    charmJobs,      \* charmJobs[a]: the jobs the charm of a asks for
    charmRules,     \* charmRules[a]: its alert rules
    scrapeLeader,   \* scrapeLeader[a]: the leader of a
    unitAddress,    \* unitAddress[u]: prometheus_scrape_unit_address
    scrapeJobs,     \* scrapeJobs[a]: scrape_jobs in the databag of a
    alertRules,     \* alertRules[a]: alert_rules there, at first "none"
    inModel,        \* the units there are
    unitsSeen,      \* the units Prometheus knows of
    scrapeNews,     \* units and applications with a relation-changed to come
    scraping,       \* the targets in the configuration of Prometheus
    jobErrors,      \* applications with "scrape_job_errors" in their event
    alerting,       \* applications whose alert rules Prometheus evaluates
    alertErrors,    \* applications with "errors" in their event
    scrapeChanges

prometheus == <<scraping, jobErrors, alerting, alertErrors>>
asked      == <<charmJobs, charmRules>>
published  == <<scrapeJobs, alertRules>>
scrapeVars == <<podIp, hadIp, asked, scrapeLeader, unitAddress, published, inModel,
                unitsSeen, scrapeNews, prometheus, scrapeChanges>>

-----------------------------------------------------------------------------
(* PrometheusConfig and MetricsEndpointConsumer.jobs                       *)

UnitsOf(a, seen) == {u \in seen : ScrapedOf[u] = a}

\* _relation_hosts: the units that have published an address.
Hosts(a, seen) == {u \in UnitsOf(a, seen) : unitAddress[u] # NoAddress}

\* _match_non_wildcard_targets: the unit with that address or fqdn, if there is
\* one.  Of two units with the same address one is taken.
IdentifiersOf(u) == {unitAddress[u], u}
FirstHost(a, t, seen) ==
    IF Hosts(a, seen) # {} THEN CHOOSE u \in Hosts(a, seen) : TRUE ELSE NoUnit
MatchedUnit(a, t, seen) ==
    IF \E u \in Hosts(a, seen) : t \in IdentifiersOf(u)
    THEN CHOOSE u \in Hosts(a, seen) : t \in IdentifiersOf(u) ELSE NoUnit

\* expand_wildcard_targets_into_individual_jobs, job by job: one for each unit
\* that is found among the fixed targets, one for the rest of them, one for each
\* unit if there is a wildcard.
Unexpanded(a, j, seen) ==
    {[app |-> a, name |-> <<j.job>>, unit |-> NoUnit, addresses |-> j.targets]}
ExpandJob(a, j, seen) ==
    LET fixed == j.targets \ {Wildcard}
    IN  {[app |-> a, name |-> <<j.job>>, unit |-> u,
          addresses |-> {t \in fixed : MatchedUnit(a, t, seen) = u}] :
            u \in {MatchedUnit(a, t, seen) : t \in fixed}}
        \cup {[app |-> a, name |-> <<j.job>>, unit |-> u,
               addresses |-> {unitAddress[u]}] :
                 u \in IF Wildcard \in j.targets THEN Hosts(a, seen) ELSE {}}

\* _dedupe_job_names: jobs that share their name get a hash of the job in it,
\* and copies are dropped.  The number of the unit is in the name as well.
DedupeJobNames(S) ==
    {IF \E s \in S \ {t} : s.name = t.name /\ s.unit = t.unit
     THEN [t EXCEPT !.name = Append(@, t.addresses)] ELSE t : t \in S}

\* _static_scrape_config: nothing without a unit or without jobs.
JobsOf(a, seen) ==
    IF UnitsOf(a, seen) = {} \/ scrapeJobs[a] = NoJobs THEN {} ELSE scrapeJobs[a]
StaticScrapeConfig(a, seen) == UNION {ExpandJob(a, j, seen) : j \in JobsOf(a, seen)}

\* One job that does not pass the validation takes those of the relation away.
\* A relation without targets is neither validated nor cleared of its errors.
IsRejected(a, seen) ==
    \E j \in JobsOf(a, seen) : ~j.valid /\ ExpandJob(a, j, seen) # {}
IsAccepted(a, seen) == StaticScrapeConfig(a, seen) # {} /\ ~IsRejected(a, seen)

\* jobs(), where names are made unique once more, those of two applications
\* being different already.
AllJobs(seen) ==
    UNION {DedupeJobNames(StaticScrapeConfig(a, seen)) :
             a \in {b \in Scraped : IsAccepted(b, seen)}}

JobErrorsAfter(seen) == (jobErrors \cup {a \in Scraped : IsRejected(a, seen)})
                          \ {a \in Scraped : IsAccepted(a, seen)}

\* The property "alerts".  The name of a set of rules has the id of its relation
\* in it: no two applications share one.
WithRules(r, seen) == {a \in Scraped : UnitsOf(a, seen) # {} /\ alertRules[a] = r}
AlertErrorsAfter(seen) ==
    (alertErrors \cup WithRules("invalid", seen)) \ WithRules("valid", seen)

\* _has_relation_error: has_invalid_scrape_jobs with jobErrors and
\* has_invalid_alert_rules with alertErrors, for the status of Prometheus.
HasRelationError(errs) == errs # {}

\* targets_changed, on which the charm of Prometheus reads both.
ReadJobs(seen) ==
    /\ scraping' = AllJobs(seen) /\ jobErrors' = JobErrorsAfter(seen)
    /\ alerting' = WithRules("valid", seen) /\ alertErrors' = AlertErrorsAfter(seen)

-----------------------------------------------------------------------------
(* The hooks of Prometheus                                                 *)

UnitJoins(u) ==
    /\ u \in inModel \ unitsSeen
    /\ unitsSeen' = unitsSeen \cup {u}
    /\ scrapeNews' = scrapeNews \cup {u}
    /\ UNCHANGED <<podIp, hadIp, asked, scrapeLeader, unitAddress, published, inModel,
                   prometheus, scrapeChanges>>

TargetChanged(x) ==
    /\ x \in scrapeNews
    /\ x \in Scraped => UnitsOf(x, unitsSeen) # {}
    /\ x \in ScrapedUnits => x \in unitsSeen
    /\ scrapeNews' = scrapeNews \ {x}
    /\ ReadJobs(unitsSeen)
    /\ UNCHANGED <<podIp, hadIp, asked, scrapeLeader, unitAddress, published, inModel,
                   unitsSeen, scrapeChanges>>

UnitDeparts(u) ==
    /\ u \in unitsSeen \ inModel
    /\ unitsSeen' = unitsSeen \ {u}
    /\ scrapeNews' = scrapeNews \ {u}
    /\ ReadJobs(unitsSeen')
    /\ UNCHANGED <<podIp, hadIp, asked, scrapeLeader, unitAddress, published, inModel,
                   scrapeChanges>>

-----------------------------------------------------------------------------
(* The hooks of the applications                                           *)

\* _set_unit_ip, without an external_url, which neither charm gives, and with
\* an address that is one: the unit publishes it together with its fqdn.
SetUnitIp(u) ==
    /\ unitAddress' = [unitAddress EXCEPT ![u] = podIp[u]]
    /\ scrapeNews' = IF unitAddress[u] # podIp[u] THEN scrapeNews \cup {u}
                                                  ELSE scrapeNews

\* relation-changed, update-status
UpdateAddress(u) ==
    /\ u \in inModel
    /\ SetUnitIp(u)
    /\ UNCHANGED <<podIp, hadIp, asked, scrapeLeader, published, inModel, unitsSeen,
                   prometheus, scrapeChanges>>

\* relation-joined, the refresh events, update_scrape_job_spec
SetScrapeJobSpec(u) ==
    LET a == ScrapedOf[u]
        new == <<scrapeJobs[a], alertRules[a]>> # <<charmJobs[a], charmRules[a]>>
    IN  /\ u \in inModel /\ u = scrapeLeader[a]
        /\ unitAddress' = [unitAddress EXCEPT ![u] = podIp[u]]
        /\ scrapeJobs' = [scrapeJobs EXCEPT ![a] = charmJobs[a]]
        /\ alertRules' = [alertRules EXCEPT ![a] = charmRules[a]]
        /\ scrapeNews' = scrapeNews
             \cup (IF unitAddress[u] # podIp[u] THEN {u} ELSE {})
             \cup (IF new THEN {a} ELSE {})
        /\ UNCHANGED <<podIp, hadIp, asked, scrapeLeader, inModel, unitsSeen,
                       prometheus, scrapeChanges>>

-----------------------------------------------------------------------------
(* The environment                                                         *)

ScrapeChange == scrapeChanges < MaxScrapeChanges /\ scrapeChanges' = scrapeChanges + 1

FreeIps == Ips \ {podIp[u] : u \in inModel}

PodRestarts(u, ip) ==
    /\ ScrapeChange
    /\ u \in inModel /\ ip \in FreeIps
    /\ podIp' = [podIp EXCEPT ![u] = ip]
    /\ hadIp' = [hadIp EXCEPT ![u] = @ \cup {ip}]
    /\ UNCHANGED <<asked, scrapeLeader, unitAddress, published, inModel, unitsSeen,
                   scrapeNews, prometheus>>

AskForJobs(a, J) ==
    /\ ScrapeChange
    /\ J # charmJobs[a]
    /\ charmJobs' = [charmJobs EXCEPT ![a] = J]
    /\ UNCHANGED <<podIp, hadIp, charmRules, scrapeLeader, unitAddress, published,
                   inModel, unitsSeen, scrapeNews, prometheus>>

HaveRules(a, r) ==
    /\ ScrapeChange
    /\ r # charmRules[a]
    /\ charmRules' = [charmRules EXCEPT ![a] = r]
    /\ UNCHANGED <<podIp, hadIp, charmJobs, scrapeLeader, unitAddress, published,
                   inModel, unitsSeen, scrapeNews, prometheus>>

ScaleUp(u, ip) ==
    /\ ScrapeChange
    /\ u \notin inModel \cup unitsSeen
    /\ ip \in FreeIps
    /\ inModel' = inModel \cup {u}
    /\ podIp' = [podIp EXCEPT ![u] = ip]
    /\ hadIp' = [hadIp EXCEPT ![u] = @ \cup {ip}]
    /\ unitAddress' = [unitAddress EXCEPT ![u] = NoAddress]
    /\ UNCHANGED <<asked, scrapeLeader, published, unitsSeen, scrapeNews, prometheus>>

\* The leader is not removed, the lease having moved before.
ScaleDown(u) ==
    /\ ScrapeChange
    /\ u \in inModel /\ u # scrapeLeader[ScrapedOf[u]]
    /\ inModel' = inModel \ {u}
    /\ scrapeNews' = scrapeNews \ {u}
    /\ UNCHANGED <<podIp, hadIp, asked, scrapeLeader, unitAddress, published, unitsSeen,
                   prometheus>>

\* The lease moves back and forth between the units there are, any number of times.
ScrapeLeaseMoves(u) ==
    /\ u \in inModel /\ u # scrapeLeader[ScrapedOf[u]]
    /\ scrapeLeader' = [scrapeLeader EXCEPT ![ScrapedOf[u]] = u]
    /\ UNCHANGED <<podIp, hadIp, asked, unitAddress, published, inModel, unitsSeen,
                   scrapeNews, prometheus, scrapeChanges>>

-----------------------------------------------------------------------------
\* One unit of every application is there and has run nothing yet.
ScrapeInit ==
    /\ scrapeLeader \in {f \in [Scraped -> ScrapedUnits] :
                           \A a \in Scraped : ScrapedOf[f[a]] = a}
    /\ inModel = {scrapeLeader[a] : a \in Scraped}
    /\ podIp \in {f \in [ScrapedUnits -> Ips] :
                    \A u, v \in inModel : f[u] = f[v] => u = v}
    /\ hadIp = [u \in ScrapedUnits |-> IF u \in inModel THEN {podIp[u]} ELSE {}]
    /\ charmJobs \in [Scraped -> JobSets]
    /\ charmRules \in [Scraped -> AlertRules]
    /\ unitAddress = [u \in ScrapedUnits |-> NoAddress]
    /\ scrapeJobs = [a \in Scraped |-> NoJobs]
    /\ alertRules = [a \in Scraped |-> "none"]
    /\ unitsSeen = {}
    /\ scrapeNews = {}
    /\ scraping = {}
    /\ jobErrors = {}
    /\ alerting = {} /\ alertErrors = {}
    /\ scrapeChanges = 0

ScrapeNext ==
    \/ \E u \in ScrapedUnits :
          \/ UnitJoins(u) \/ TargetChanged(u) \/ UnitDeparts(u)
          \/ UpdateAddress(u) \/ SetScrapeJobSpec(u)
          \/ \E ip \in Ips : PodRestarts(u, ip) \/ ScaleUp(u, ip)
          \/ ScaleDown(u) \/ ScrapeLeaseMoves(u)
    \/ \E a \in Scraped : \/ TargetChanged(a)
                          \/ \E J \in JobSets : AskForJobs(a, J)
                          \/ \E r \in AlertRules : HaveRules(a, r)

ScrapeSpec == ScrapeInit /\ [][ScrapeNext]_scrapeVars

-----------------------------------------------------------------------------
(* Properties                                                              *)

ScrapeTypeOK ==
    /\ podIp \in [ScrapedUnits -> Ips] /\ hadIp \in [ScrapedUnits -> SUBSET Ips]
    /\ charmJobs \in [Scraped -> JobSets] /\ charmRules \in [Scraped -> AlertRules]
    /\ scrapeLeader \in [Scraped -> ScrapedUnits]
    /\ \A a \in Scraped : scrapeLeader[a] \in inModel /\ ScrapedOf[scrapeLeader[a]] = a
    /\ unitAddress \in [ScrapedUnits -> Ips \cup {NoAddress}]
    /\ scrapeJobs \in [Scraped -> JobSets \cup {NoJobs}]
    /\ alertRules \in [Scraped -> AlertRules]
    /\ inModel \subseteq ScrapedUnits /\ unitsSeen \subseteq ScrapedUnits
    /\ scrapeNews \subseteq ScrapedUnits \cup Scraped
    /\ \A t \in scraping : /\ t.app \in Scraped
                           /\ t.unit \in ScrapedUnits \cup {NoUnit}
                           /\ t.addresses \subseteq Ips \cup ScrapedUnits \cup {Outside}
    /\ jobErrors \subseteq Scraped
    /\ alerting \subseteq Scraped /\ alertErrors \subseteq Scraped
    /\ scrapeChanges \in 0..MaxScrapeChanges

\* What is scraped under the name of a unit is its fqdn or an address that this
\* unit has had: whatever restarts, is scaled or is told late, the metrics of one
\* application are never taken for those of another that did not have its
\* address before.
LabelsWereTrue ==
    \A t \in scraping :
        t.unit # NoUnit => /\ t.addresses \subseteq hadIp[t.unit] \cup {t.unit}
                           /\ ScrapedOf[t.unit] = t.app

\* Everybody has published what there is, and Prometheus has been told.
ScrapeSettled ==
    /\ unitsSeen = inModel /\ scrapeNews = {}
    /\ \A u \in inModel : unitAddress[u] = podIp[u]
    /\ \A a \in Scraped : scrapeJobs[a] = charmJobs[a] /\ alertRules[a] = charmRules[a]

\* Then Prometheus scrapes every unit of every application at its present
\* address, once for each job, and under a unit's name nothing else; no two jobs
\* have one name, for which Prometheus would refuse them all; a relation
\* with a job that is invalid is scraped by none of its jobs, is blamed for it,
\* and nobody else is.
UnitsAreScraped ==
    ScrapeSettled =>
        /\ \A a \in Scraped, j \in UNION JobSets :
              j \in charmJobs[a] /\ IsAccepted(a, unitsSeen) /\ Wildcard \in j.targets
                => \A u \in inModel : ScrapedOf[u] = a =>
                      \E t \in scraping : /\ t.app = a /\ t.unit = u
                                          /\ Head(t.name) = j.job
                                          /\ t.addresses = {podIp[u]}
        /\ \A t \in scraping :
              /\ IsAccepted(t.app, unitsSeen)
              /\ t.unit # NoUnit => /\ t.unit \in inModel
                                    /\ t.addresses \subseteq {podIp[t.unit], t.unit}
              /\ \A s \in scraping : <<s.app, s.name, s.unit>> = <<t.app, t.name, t.unit>>
                                     => s = t
        /\ \A a \in Scraped : /\ IsRejected(a, unitsSeen) => a \in jobErrors
                              /\ IsAccepted(a, unitsSeen) => a \notin jobErrors
        /\ (\E a \in Scraped : IsRejected(a, unitsSeen)) => HasRelationError(jobErrors)
        /\ HasRelationError(jobErrors) => \E a \in Scraped : ~IsAccepted(a, unitsSeen)

\* And it evaluates the valid alert rules of each application, whatever is wrong
\* with its jobs or with the rules of others; invalid rules are blamed, and
\* valid ones are not, in the same event as jobs and independently of them.
RulesAreEvaluated ==
    ScrapeSettled =>
        /\ alerting = {a \in Scraped : charmRules[a] = "valid"}
        /\ \A a \in Scraped : /\ charmRules[a] = "invalid" => a \in alertErrors
                              /\ charmRules[a] = "valid"   => a \notin alertErrors
        /\ HasRelationError(alertErrors) => \E a \in Scraped : charmRules[a] # "valid"

\* All three: true labels at any moment, all of the targets in the end, and the
\* alerts on them.
TargetsAreRight == LabelsWereTrue /\ UnitsAreScraped /\ RulesAreEvaluated
=============================================================================
