--------------------------- MODULE ResourcesPatch ---------------------------
(***************************************************************************)
(* Limits of a container (observability_libs/v0/                           *)
(* kubernetes_compute_resources_patch.py): every unit patches the          *)
(* StatefulSet of the application when its configuration changes and when  *)
(* it starts; Kubernetes then replaces the pods, one after another, and    *)
(* with each pod a unit starts.  One resource stands for cpu and memory,   *)
(* which are adjusted one by one.                                          *)
(***************************************************************************)
EXTENDS Naturals

CONSTANTS
    PatchUnits,       \* units of the application
    Quantities,       \* the limits a user may configure, numbers
    ResourceRequest,  \* what the charm requests
    Unlimited,        \* an empty option: no limit
    Malformed,        \* not a quantity, or a negative one
    Fractional,       \* memory of less than a byte
    Untouched,        \* the StatefulSet as Juju made it
    MaxPatchChanges   \* bound on the changes of the environment

LimitOptions == Quantities \cup {Unlimited, Malformed, Fractional}
Requirements == [request : {ResourceRequest}, limit : Nat \cup {Unlimited}]

ASSUME PatchAssumption ==
    /\ Quantities \subseteq Nat /\ ResourceRequest \in Nat
    /\ {Unlimited, Malformed, Fractional} \cap Nat = {}
    /\ Unlimited # Malformed /\ Unlimited # Fractional /\ Malformed # Fractional
    /\ Untouched \notin Requirements
    /\ MaxPatchChanges \in Nat

VARIABLES
    limitOption,    \* the option of the application
    trusted,        \* whether Kubernetes lets the charm patch
    configDue,      \* units whose config-changed is to come
    template,       \* resources in the template of the StatefulSet
    observed,       \* observedGeneration = generation
    rolledOut,      \* currentRevision = updateRevision
    pod,            \* pod[u]: resources of the pod of u
    readyPods,      \* units whose pods are ready
    patchFailed,    \* units whose last config-changed emitted patch_failed
    patchStatus,    \* patchStatus[u]: get_status in the last hook of u
    unread,         \* units that could not read the StatefulSet in that hook
    premature,      \* history: those that reported active in it while some pod
                    \* did not have the template
    patchChanges

patchVars == <<limitOption, trusted, configDue, template, observed, rolledOut, pod,
               readyPods, patchFailed, patchStatus, unread, premature, patchChanges>>

reports == <<patchStatus, unread, premature>>
cluster == <<template, observed, rolledOut, pod, readyPods>>

\* adjust_resource_requirements, adhering to requests: limits are raised.
Adjusted(o) ==
    [request |-> ResourceRequest,
     limit   |-> IF o = Unlimited THEN Unlimited
                 ELSE IF o < ResourceRequest THEN ResourceRequest ELSE o]

\* sanitize_resource_spec_dict divides by the number of whole bytes.
IsComputable(o) == o # Fractional
IsSpec(o)       == o \in Quantities \cup {Unlimited}

\* is_in_progress.  A StatefulSet without a ready pod has no readyReplicas, and
\* is not waited for.
InProgressIfOld(tpl, seen, rolled, up) ==
    \/ ~rolled
    \/ up # {} /\ up # PatchUnits
InProgress(tpl, seen, rolled, up) ==
    \/ ~seen
    \/ up # {} /\ up # PatchUnits
    \/ ~rolled

\* is_failed: the options are no limits, or a dry run of the patch fails.
IsFailed(answers) == ~IsSpec(limitOption) \/ ~trusted \/ ~answers

\* get_status.  If the StatefulSet cannot be read, or has no status yet, it
\* counts as not in progress.
StatusWhen(answers, reads) ==
    IF IsFailed(answers) THEN "blocked"
    ELSE IF reads /\ InProgress(template', observed', rolledOut', readyPods')
         THEN "waiting"
    ELSE "active"

\* What u reports at the end of a hook.
Report(u, answers, reads) ==
    /\ patchStatus' = [patchStatus EXCEPT ![u] = StatusWhen(answers, reads)]
    /\ unread' = IF IsFailed(answers) \/ reads THEN unread \ {u} ELSE unread \cup {u}
    /\ premature' = IF /\ patchStatus'[u] = "active"
                       /\ \E v \in PatchUnits : pod'[v] # template'
                    THEN premature \cup {u} ELSE premature \ {u}

-----------------------------------------------------------------------------
(* The hooks of the units                                                  *)

\* apply: nothing is patched that is there already.  A new template counts as
\* not rolled out once the controller has seen it.
ApplyOnce(reqs) ==
    IF template # Untouched THEN UNCHANGED <<template, observed>>
    ELSE template' = reqs /\ observed' = FALSE
ApplyTemplate(reqs) ==
    IF template = reqs THEN UNCHANGED <<template, observed>>
    ELSE template' = reqs /\ observed' = FALSE

\* _patch, which tries again for a while when the API answers with an error.
PatchOnce(u, answers) ==
    IF IsSpec(limitOption) /\ trusted /\ answers
    THEN ApplyTemplate(Adjusted(limitOption)) /\ patchFailed' = patchFailed \ {u}
    ELSE UNCHANGED <<template, observed>> /\ patchFailed' = patchFailed \cup {u}

\* config-changed.  The patch, its dry run and the reading of the StatefulSet are
\* requests of their own, each of which may be answered with an error.
ConfigChanged(u, patches, answers, reads) ==
    /\ u \in configDue
    /\ IsComputable(limitOption)
    /\ configDue' = configDue \ {u}
    /\ PatchOnce(u, patches)
    /\ UNCHANGED <<limitOption, trusted, rolledOut, pod, readyPods, patchChanges>>
    /\ Report(u, answers, reads)

\* An error that is not expected, as when the API does not answer at all, ends
\* the hook, and it stays due: here, after the patch.
ConfigChangedFails(u) ==
    /\ u \in configDue
    /\ IsSpec(limitOption) /\ trusted
    /\ PatchOnce(u, TRUE)
    /\ UNCHANGED <<limitOption, trusted, configDue, rolledOut, pod, readyPods,
                   reports, patchChanges>>

\* update-status
UpdateStatus(u, answers, reads) ==
    /\ u \notin configDue
    /\ IsComputable(limitOption)
    /\ UNCHANGED <<limitOption, trusted, configDue, cluster, patchFailed,
                   patchChanges>>
    /\ Report(u, answers, reads)

-----------------------------------------------------------------------------
(* Kubernetes: the controller of the StatefulSet                           *)

Observe ==
    /\ ~observed
    /\ observed' = TRUE
    /\ rolledOut' = (\A u \in PatchUnits : pod[u] = template)
    /\ UNCHANGED <<limitOption, trusted, configDue, template, pod, readyPods,
                   patchFailed, reports, patchChanges>>

\* The controller replaces a pod when the others are ready; its unit starts
\* with config-changed.
ReplacePod(u) ==
    /\ observed /\ ~rolledOut
    /\ pod[u] # template /\ PatchUnits \ {u} \subseteq readyPods
    /\ pod' = [pod EXCEPT ![u] = template]
    /\ readyPods' = readyPods \ {u}
    /\ configDue' = configDue \cup {u}
    /\ UNCHANGED <<limitOption, trusted, template, observed, rolledOut, patchFailed,
                   reports, patchChanges>>

PodBecomesReady(u) ==
    /\ u \notin readyPods
    /\ readyPods' = readyPods \cup {u}
    /\ rolledOut' = (rolledOut \/ /\ observed
                                  /\ readyPods' = PatchUnits
                                  /\ \A v \in PatchUnits : pod[v] = template)
    /\ UNCHANGED <<limitOption, trusted, configDue, template, observed, pod,
                   patchFailed, reports, patchChanges>>

-----------------------------------------------------------------------------
(* The environment                                                         *)

PatchChange == patchChanges < MaxPatchChanges /\ patchChanges' = patchChanges + 1

Configure(o) ==
    /\ PatchChange
    /\ o # limitOption
    /\ limitOption' = o
    /\ configDue' = PatchUnits
    /\ UNCHANGED <<trusted, cluster, patchFailed, reports>>

\* juju trust
Trust ==
    /\ PatchChange
    /\ trusted' = ~trusted
    /\ UNCHANGED <<limitOption, configDue, cluster, patchFailed, reports>>

PodFails(u) ==
    /\ PatchChange
    /\ u \in readyPods
    /\ readyPods' = readyPods \ {u}
    /\ configDue' = configDue \cup {u}
    /\ UNCHANGED <<limitOption, trusted, template, observed, rolledOut, pod,
                   patchFailed, reports>>

-----------------------------------------------------------------------------
PatchInit ==
    /\ limitOption \in LimitOptions
    /\ trusted \in BOOLEAN
    /\ configDue = PatchUnits
    /\ template = Untouched
    /\ observed = TRUE /\ rolledOut = TRUE
    /\ pod = [u \in PatchUnits |-> Untouched]
    /\ readyPods \in SUBSET PatchUnits
    /\ patchFailed = {}
    /\ patchStatus = [u \in PatchUnits |-> "unknown"]
    /\ unread = {} /\ premature = {}
    /\ patchChanges = 0

PatchNext ==
    \/ \E u \in PatchUnits :
          \/ \E patches, answers, reads \in BOOLEAN :
                ConfigChanged(u, patches, answers, reads)
          \/ ConfigChangedFails(u)
          \/ \E answers, reads \in BOOLEAN : UpdateStatus(u, answers, reads)
          \/ ReplacePod(u) \/ PodBecomesReady(u) \/ PodFails(u)
    \/ Observe \/ Trust
    \/ \E o \in LimitOptions : Configure(o)

PatchSpec == PatchInit /\ [][PatchNext]_patchVars

-----------------------------------------------------------------------------
(* Properties                                                              *)

PatchTypeOK ==
    /\ limitOption \in LimitOptions /\ trusted \in BOOLEAN
    /\ configDue \subseteq PatchUnits
    /\ template \in Requirements \cup {Untouched}
    /\ observed \in BOOLEAN /\ rolledOut \in BOOLEAN
    /\ pod \in [PatchUnits -> Requirements \cup {Untouched}]
    /\ readyPods \subseteq PatchUnits /\ patchFailed \subseteq PatchUnits
    /\ patchStatus \in [PatchUnits -> {"unknown", "blocked", "waiting", "active"}]
    /\ unread \subseteq PatchUnits /\ premature \subseteq PatchUnits
    /\ patchChanges \in 0..MaxPatchChanges

\* Kubernetes refuses pods whose limit is below their request: no pod is ever
\* asked for that, whatever the user configures and however often.
LimitCoversRequest ==
    \A r \in {template} \cup {pod[u] : u \in PatchUnits} :
        r # Untouched /\ r.limit # Unlimited => r.limit >= r.request

\* A unit that reports active ended that hook with every pod replaced: also when
\* it reported active before, right after a patch, which the controller has not
\* seen, and while the last pod is starting; unless it could not read the
\* StatefulSet, of which the code hopes that the next hook will tell.
ActiveMeansRolledOut == premature \subseteq unread

\* When every unit has handled its events and not failed to patch, the limit
\* that is configured is in effect in every pod once the rollout is over,
\* whichever pods were replaced or failed on the way.  A patch that failed is
\* not tried again before the next config-changed, whatever the status says.
LimitInEffect ==
    configDue \cup patchFailed = {} /\ observed /\ rolledOut
      => \A u \in PatchUnits : pod[u] = Adjusted(limitOption)

\* Both: the pods have limits that Kubernetes accepts, and the right ones.
LimitsHold == LimitCoversRequest /\ LimitInEffect
=============================================================================
