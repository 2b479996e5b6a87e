------------------------------ MODULE Telemetry ------------------------------
(***************************************************************************)
(* The libraries that carry telemetry, side by side in one deployment:     *)
(* logs, Promtail, alert rules, dashboards on both sides, and scraping.    *)
(* Each keeps its own keys in databags of its own relations, so a step of  *)
(* one leaves the state of the others alone.                               *)
(***************************************************************************)
EXTENDS LogForwarding, LogProxy, LokiPush, DashboardProvider, DashboardConsumer,
        MetricsEndpoint

telemetryVars == <<logVars, proxyVars, ruleVars, dashVars, offerVars, scrapeVars>>

LogStep == LogNext
    /\ UNCHANGED <<proxyVars, ruleVars, dashVars, offerVars, scrapeVars>>
ProxyStep == ProxyNext
    /\ UNCHANGED <<logVars, ruleVars, dashVars, offerVars, scrapeVars>>
RuleStep == RuleNext
    /\ UNCHANGED <<logVars, proxyVars, dashVars, offerVars, scrapeVars>>
DashStep == DashNext
    /\ UNCHANGED <<logVars, proxyVars, ruleVars, offerVars, scrapeVars>>
OfferStep == OfferNext
    /\ UNCHANGED <<logVars, proxyVars, ruleVars, dashVars, scrapeVars>>
ScrapeStep == ScrapeNext
    /\ UNCHANGED <<logVars, proxyVars, ruleVars, dashVars, offerVars>>

TelemetryInit ==
    LogInit /\ ProxyInit /\ RuleInit /\ DashInit /\ OfferInit /\ ScrapeInit

TelemetryNext ==
    LogStep \/ ProxyStep \/ RuleStep \/ DashStep \/ OfferStep \/ ScrapeStep

TelemetrySpec == TelemetryInit /\ [][TelemetryNext]_telemetryVars

\* The variables of all six libraries have their types.
TelemetryTypeOK ==
    /\ LogTypeOK /\ ProxyTypeOK /\ RuleTypeOK
    /\ DashTypeOK /\ OfferTypeOK /\ ScrapeTypeOK
==============================================================================
