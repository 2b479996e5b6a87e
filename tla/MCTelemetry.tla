----------------------------- MODULE MCTelemetry -----------------------------
(***************************************************************************)
(* The libraries that carry telemetry, for TLC: they share no state, and   *)
(* in each behaviour one of them, "part", runs.                            *)
(***************************************************************************)
EXTENDS Telemetry

VARIABLE part

CONSTANTS k1, k2, la, lb, lc,         \* Lokis and their units
          u1, u2, g1, g2, f1, v1, v2, \* dashboards: units, files, revisions
          r9, r10, x, y,              \* relations and uids
          p, q, p0, p1, q0, i1, i2, i3

\* Loki k1 has two units.
MCLokiOf == [l \in LokiUnits |-> IF l = lc THEN k2 ELSE k1]

MCFilesOf == [v \in Revisions |-> IF v = v1 THEN {f1} ELSE {}]

Dashboard(uid, version, renders) ==
    [uid |-> uid, version |-> version, renders |-> renders]
MCDashboards == {Dashboard(x, 1, TRUE), Dashboard(x, 2, TRUE),
                 Dashboard(y, 1, FALSE), Dashboard(NoUid, 1, TRUE)}
MCOffers == {{}, {Dashboard(x, 1, TRUE)},
             {Dashboard(x, 2, TRUE), Dashboard(NoUid, 1, TRUE)},
             {Dashboard(x, 1, TRUE), Dashboard(y, 1, FALSE)}}
\* "9" comes after "10".
MCIdOrder == [r \in Offerers |-> IF r = r9 THEN 2 ELSE 1]

Job(name, targets, valid) == [job |-> name, targets |-> targets, valid |-> valid]
MCJobSets == {{Job(1, {Wildcard}, TRUE)},
              {Job(1, {i1, p1, Outside}, TRUE), Job(1, {i2, Wildcard}, TRUE)},
              {Job(1, {Wildcard}, TRUE), Job(2, {Wildcard}, FALSE)}}
MCScrapedOf == [u \in ScrapedUnits |-> IF u = q0 THEN q ELSE p]

\* Of each library one of the initial states that differ in names only.
MCInit ==
    /\ part \in {"logs", "promtail", "rules", "dashboards", "offers", "metrics"}
    /\ LogInit
    /\ ProxyInit /\ (part # "promtail" => attached /\ reachable)
    /\ RuleInit
    /\ ruleFiles = [a \in RuleApps |-> NoRules]
    /\ ruleLeader = CHOOSE u \in RuleUnits : TRUE
    /\ DashInit /\ revision = [u \in DashUnits |-> v1] /\ dashLeader = u1
    /\ OfferInit /\ grafanaLeader = g1
    /\ podIp = [u \in ScrapedUnits |-> IF u = p0 THEN i1 ELSE i2]
    /\ charmRules = [a \in Scraped |-> IF a = p THEN "invalid" ELSE "valid"]
    /\ ScrapeInit
    /\ scrapeLeader[p] = p0
    /\ charmJobs[p] = {Job(1, {i1, p1, Outside}, TRUE), Job(1, {i2, Wildcard}, TRUE)}
    /\ charmJobs[q] = {Job(1, {Wildcard}, TRUE)}

MCNext ==
    /\ UNCHANGED part
    /\ \/ part = "logs" /\ LogStep
       \/ part = "promtail" /\ ProxyStep
       \/ part = "rules" /\ RuleStep
       \/ part = "dashboards" /\ DashStep
       \/ part = "offers" /\ OfferStep
       \/ part = "metrics" /\ ScrapeStep

MCSpec == MCInit /\ [][MCNext]_<<part, telemetryVars>>
==============================================================================
