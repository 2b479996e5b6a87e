------------------------------ MODULE LokiPush ------------------------------
(***************************************************************************)
(* Alert rules on the logging relation (loki_k8s/v1/loki_push_api.py):     *)
(* applications publish theirs with LokiPushApiConsumer, the units of Loki *)
(* gather them with LokiPushApiProvider, and its leader reports the ones   *)
(* that are invalid back to the application they came from.                *)
(*                                                                         *)
(* Rules are kept under the Juju topology in their labels, which need not  *)
(* be that of the application that published them: a forwarder publishes   *)
(* the rules of others.  Two relations can so claim the same identifier.   *)
(***************************************************************************)
EXTENDS Naturals, FiniteSets

CONSTANTS
    RuleApps,       \* applications with alert rules, one relation each
    RuleUnits,      \* units of Loki
    Identifiers,    \* topology identifiers in the labels of rules
    NoRules,        \* alert_rules: "{}"
    Unset,          \* no alert_rules in the databag
    MaxRuleChanges  \* bound on the changes of the environment

RuleGroups == [id : Identifiers, valid : BOOLEAN]
RuleSets   == RuleGroups \cup {NoRules}

ASSUME RuleAssumption ==
    /\ {NoRules, Unset} \cap RuleGroups = {} /\ NoRules # Unset
    /\ MaxRuleChanges \in Nat

VARIABLES
    ruleFiles,    \* ruleFiles[a]: the rules the charm of a would publish
    ruleBag,      \* ruleBag[a]: alert_rules in the databag of a
    rulesRelated, \* applications with a relation to Loki
    rulesSeen,    \* rulesSeen[u]: those that unit u of Loki knows of
    ruleNews,     \* ruleNews[u]: relation-changed events u has still to handle
    ruleLeader,   \* Loki's leader
    evaluated,    \* history: the leader has read the rules since its election
    loaded,       \* loaded[u]: <<id, a>> for the rules of a in the files of u
    errors,       \* applications with "errors" in the event that Loki publishes
    verdictDue,   \* applications with a relation-changed still to come
    reported,     \* applications that were told that their rules are invalid
    ruleChanges

ruleVars == <<ruleFiles, ruleBag, rulesRelated, rulesSeen, ruleNews, ruleLeader,
              evaluated, loaded, errors, verdictDue, reported, ruleChanges>>

IsValidGroup(r)   == r \in RuleGroups /\ r.valid
IsInvalidGroup(r) == r \in RuleGroups /\ ~r.valid

Claims(seen, i) == {a \in seen : ruleBag[a] \in RuleGroups /\ ruleBag[a].id = i}

\* The dictionary "alerts" after the loop over relations.  The last relation
\* with an identifier decides: its rules replace the earlier ones if they are
\* valid, and delete them if they are not.  Which one is last depends on the
\* ids of the relations.
Alerts(seen, last) ==
    {<<i, last[i]>> : i \in {j \in Identifiers : /\ Claims(seen, j) # {}
                                                 /\ IsValidGroup(ruleBag[last[j]])}}

Lasts(seen) == {last \in [Identifiers -> RuleApps] :
                  \A i \in Identifiers :
                     Claims(seen, i) # {} => last[i] \in Claims(seen, i)}

\* An empty set of rules is skipped before errors are written or removed.
RuleErrorsForever(seen) == errors \cup {a \in seen : IsInvalidGroup(ruleBag[a])}
Errors(seen) ==
    (errors \cup {a \in seen : IsInvalidGroup(ruleBag[a])})
      \ {a \in seen : IsValidGroup(ruleBag[a])}

\* has_invalid_alert_rules, what Loki's charm shows in its status: only the
\* leader can read the data that has the errors.
HasInvalidAlertRules(u) == u = ruleLeader /\ errors # {}

SymmetricDifference(S, T) == (S \ T) \cup (T \ S)

\* Loki's charm, told that alert rules changed, reads "alerts" and writes them
\* to its files; the leader writes errors on the way.
ReadAlerts(u, seen) ==
    /\ \E last \in Lasts(seen) : loaded' = [loaded EXCEPT ![u] = Alerts(seen, last)]
    /\ errors' = IF u = ruleLeader THEN Errors(seen) ELSE errors
    /\ verdictDue' = verdictDue \cup SymmetricDifference(errors, errors')
    /\ evaluated' = (evaluated \/ u = ruleLeader)

-----------------------------------------------------------------------------
(* The hooks of Loki's units                                               *)

RulesJoined(u, a) ==
    /\ a \in rulesRelated \ rulesSeen[u]
    /\ rulesSeen' = [rulesSeen EXCEPT ![u] = @ \cup {a}]
    /\ ruleNews' = [ruleNews EXCEPT ![u] = @ \cup {a}]
    /\ UNCHANGED <<ruleFiles, ruleBag, rulesRelated, ruleLeader, evaluated,
                   loaded, errors, verdictDue, reported, ruleChanges>>

\* The charm is told if there is anything under alert_rules.
RulesChanged(u, a) ==
    /\ a \in ruleNews[u]
    /\ ruleNews' = [ruleNews EXCEPT ![u] = @ \ {a}]
    /\ IF ruleBag[a] # Unset
       THEN ReadAlerts(u, rulesSeen[u])
       ELSE UNCHANGED <<loaded, errors, verdictDue, evaluated>>
    /\ UNCHANGED <<ruleFiles, ruleBag, rulesRelated, rulesSeen, ruleLeader,
                   reported, ruleChanges>>

\* relation-departed and relation-broken both tell the charm.
RulesGone(u, a) ==
    /\ a \in rulesSeen[u] \ rulesRelated
    /\ rulesSeen' = [rulesSeen EXCEPT ![u] = @ \ {a}]
    /\ ruleNews' = [ruleNews EXCEPT ![u] = @ \ {a}]
    /\ ReadAlerts(u, rulesSeen'[u])
    /\ UNCHANGED <<ruleFiles, ruleBag, rulesRelated, ruleLeader, reported,
                   ruleChanges>>

\* upgrade-charm: the charm is told once if any relation has rules.
RulesUpgrade(u) ==
    /\ \E a \in rulesSeen[u] : ruleBag[a] # Unset
    /\ ReadAlerts(u, rulesSeen[u])
    /\ UNCHANGED <<ruleFiles, ruleBag, rulesRelated, rulesSeen, ruleNews,
                   ruleLeader, reported, ruleChanges>>

-----------------------------------------------------------------------------
(* The hooks of the applications                                           *)

\* _handle_alert_rules: the leader's rules, labelled, replace what was there.
HandleAlertRules(a) == ruleBag' = [ruleBag EXCEPT ![a] = ruleFiles[a]]

\* relation-joined, config-changed, upgrade-charm, reload_alerts.
PublishRules(a) ==
    /\ a \in rulesRelated
    /\ ruleBag[a] # ruleFiles[a]
    /\ HandleAlertRules(a)
    /\ ruleNews' = [u \in RuleUnits |-> IF a \in rulesSeen[u]
                                        THEN ruleNews[u] \cup {a} ELSE ruleNews[u]]
    /\ UNCHANGED <<ruleFiles, rulesRelated, rulesSeen, ruleLeader, evaluated,
                   loaded, errors, verdictDue, reported, ruleChanges>>

\* relation-changed: alert_rule_status_changed.  Nothing is emitted for an
\* empty event, which is what is left of it when its errors are removed.
Verdict(a) ==
    /\ a \in verdictDue
    /\ verdictDue' = verdictDue \ {a}
    /\ reported' = IF a \in errors THEN reported \cup {a} ELSE reported
    /\ UNCHANGED <<ruleFiles, ruleBag, rulesRelated, rulesSeen, ruleNews,
                   ruleLeader, evaluated, loaded, errors, ruleChanges>>

-----------------------------------------------------------------------------
(* The environment                                                         *)

RuleChange == ruleChanges < MaxRuleChanges /\ ruleChanges' = ruleChanges + 1

\* Another revision of the charm, or rules forwarded for other applications.
ReplaceRules(a, r) ==
    /\ RuleChange
    /\ r # ruleFiles[a]
    /\ ruleFiles' = [ruleFiles EXCEPT ![a] = r]
    /\ UNCHANGED <<ruleBag, rulesRelated, rulesSeen, ruleNews, ruleLeader,
                   evaluated, loaded, errors, verdictDue, reported>>

RelateRules(a) ==
    /\ RuleChange
    /\ a \notin rulesRelated
    /\ \A u \in RuleUnits : a \notin rulesSeen[u]
    /\ rulesRelated' = rulesRelated \cup {a}
    /\ UNCHANGED <<ruleFiles, ruleBag, rulesSeen, ruleNews, ruleLeader, evaluated,
                   loaded, errors, verdictDue, reported>>

\* The databags of both sides go with the relation.
UnrelateRules(a) ==
    /\ RuleChange
    /\ a \in rulesRelated
    /\ rulesRelated' = rulesRelated \ {a}
    /\ ruleBag' = [ruleBag EXCEPT ![a] = Unset]
    /\ errors' = errors \ {a}
    /\ verdictDue' = verdictDue \ {a}
    /\ reported' = reported \ {a}
    /\ UNCHANGED <<ruleFiles, rulesSeen, ruleNews, ruleLeader, evaluated, loaded>>

RuleLeaseMoves(u) ==
    /\ RuleChange
    /\ u # ruleLeader
    /\ ruleLeader' = u
    /\ evaluated' = FALSE
    /\ UNCHANGED <<ruleFiles, ruleBag, rulesRelated, rulesSeen, ruleNews, loaded,
                   errors, verdictDue, reported>>

-----------------------------------------------------------------------------
RuleInit ==
    /\ ruleFiles \in [RuleApps -> RuleSets]
    /\ ruleBag = [a \in RuleApps |-> Unset]
    /\ rulesRelated = {}
    /\ rulesSeen = [u \in RuleUnits |-> {}]
    /\ ruleNews = [u \in RuleUnits |-> {}]
    /\ ruleLeader \in RuleUnits
    /\ evaluated = FALSE
    /\ loaded = [u \in RuleUnits |-> {}]
    /\ errors = {}
    /\ verdictDue = {}
    /\ reported = {}
    /\ ruleChanges = 0

RuleNext ==
    \/ \E a \in RuleApps :
          \/ \E u \in RuleUnits : RulesJoined(u, a) \/ RulesChanged(u, a)
                                                    \/ RulesGone(u, a)
          \/ PublishRules(a) \/ Verdict(a)
          \/ \E r \in RuleSets : ReplaceRules(a, r)
          \/ RelateRules(a) \/ UnrelateRules(a)
    \/ \E u \in RuleUnits : RulesUpgrade(u) \/ RuleLeaseMoves(u)

RuleSpec == RuleInit /\ [][RuleNext]_ruleVars

-----------------------------------------------------------------------------
(* Properties                                                              *)

RuleTypeOK ==
    /\ ruleFiles \in [RuleApps -> RuleSets]
    /\ ruleBag \in [RuleApps -> RuleSets \cup {Unset}]
    /\ rulesRelated \subseteq RuleApps
    /\ rulesSeen \in [RuleUnits -> SUBSET RuleApps]
    /\ ruleNews \in [RuleUnits -> SUBSET RuleApps]
    /\ \A u \in RuleUnits : ruleNews[u] \subseteq rulesSeen[u]
    /\ ruleLeader \in RuleUnits
    /\ evaluated \in BOOLEAN
    /\ loaded \in [RuleUnits -> SUBSET (Identifiers \X RuleApps)]
    /\ errors \subseteq rulesRelated /\ verdictDue \subseteq rulesRelated
    /\ reported \subseteq rulesRelated
    /\ ruleChanges \in 0..MaxRuleChanges

\* Unit u of Loki has handled all its events.
RulesDelivered(u) == rulesSeen[u] = rulesRelated /\ ruleNews[u] = {}

\* A unit that has handled its events loads valid rules of present relations
\* only, at most one set for an identifier, and an application's valid rules
\* are missing only if another relation claims the same identifier: neither an
\* invalid neighbour nor a relation that went, came back or was read in another
\* order takes anybody else's rules away.
OwnRulesLoaded ==
    \A u \in RuleUnits : RulesDelivered(u) =>
        /\ \A e \in loaded[u] : e[2] \in Claims(rulesRelated, e[1])
                                /\ IsValidGroup(ruleBag[e[2]])
        /\ \A d, e \in loaded[u] : d[1] = e[1] => d = e
        /\ \A a \in rulesRelated :
              IsValidGroup(ruleBag[a])
                => \/ <<ruleBag[a].id, a>> \in loaded[u]
                   \/ \E b \in rulesRelated \ {a} :
                         ruleBag[b] \in RuleGroups /\ ruleBag[b].id = ruleBag[a].id

\* If the present leader has read the rules once and handled its events, the
\* databags blame every application with invalid rules, and none with valid
\* ones, whoever led before.  An application that withdrew its rules
\* altogether goes on being blamed: an empty set is skipped before the errors
\* are removed.
BlameIsFair ==
    evaluated /\ RulesDelivered(ruleLeader)
      => \A a \in rulesRelated :
            /\ IsInvalidGroup(ruleBag[a]) => a \in errors
            /\ IsValidGroup(ruleBag[a])   => a \notin errors

\* Then the leader's status tells of invalid rules if there are any, and if it
\* tells of some, there is an application whose rules are not valid ones.
StatusTellsOfRules ==
    \A u \in RuleUnits : evaluated /\ RulesDelivered(u) /\ u = ruleLeader =>
        /\ (\E a \in rulesRelated : IsInvalidGroup(ruleBag[a])) => HasInvalidAlertRules(u)
        /\ HasInvalidAlertRules(u) => \E a \in rulesRelated : ~IsValidGroup(ruleBag[a])

\* And an application that is blamed has been told so, or will be.
BlamedAreTold == errors \subseteq reported \cup verdictDue

\* All of these: rules arrive, and so does what Loki thinks of them.
RulesDistributed == OwnRulesLoaded /\ BlameIsFair /\ StatusTellsOfRules /\ BlamedAreTold
=============================================================================
