----------------------------- MODULE MeshLabels -----------------------------
(***************************************************************************)
(* The labels that put a charm on the service mesh                         *)
(* (reconcile_charm_labels of istio_beacon_k8s/v0/service_mesh.py): every  *)
(* unit of an application patches the same StatefulSet, Service and        *)
(* ConfigMap, call by call, each unit in hooks of its own.  The ConfigMap  *)
(* remembers what to take away later.                                      *)
(*                                                                         *)
(* To patch the StatefulSet restarts the pods, the one whose hook is       *)
(* running among them: a hook may end between any two calls, and is then   *)
(* run again from the start.                                               *)
(***************************************************************************)
EXTENDS Naturals

CONSTANTS
    Labels,          \* labels a mesh may ask for
    LabelUnits,      \* units of the application
    Missing,         \* there is no ConfigMap
    MaxLabelChanges  \* bound on the changes of the environment

ASSUME LabelAssumption ==
    /\ \A L \in SUBSET Labels : L # Missing
    /\ MaxLabelChanges \in Nat

VARIABLES
    meshLabels,     \* "labels" in the databag of the beacon; {} if unpublished
    onMesh,         \* whether the relation exists
    changedDue,     \* units whose relation-changed is to come
    brokenDue,      \* units whose relation-broken is to come
    labelLeader,    \* the leader of the application
    podLabels,      \* labels of the StatefulSet's pods
    serviceLabels,  \* labels of the Service
    labelRecord,    \* the labels in the ConfigMap, or Missing
    hook,           \* hook[u]: the hook u is running, if any
    call,           \* call[u]: the next call of that hook
    patch,          \* patch[u]: labels that hook sets and takes away
    outdated,       \* units whose copy of the ConfigMap has been overtaken
    unversioned,    \* units whose copy has no version: they created it themselves
    begun,          \* units whose hook has begun and never ended well
    overlapped,     \* history: the relation changed while there were such units
    leaseLost,      \* history: the leader has changed
    labelChanges

mesh    == <<meshLabels, onMesh>>
objects == <<podLabels, serviceLabels, labelRecord>>
labelVars == <<mesh, changedDue, brokenDue, labelLeader, objects, hook, call,
               patch, outdated, unversioned, begun, overlapped, leaseLost, labelChanges>>
others  == <<mesh, labelLeader, overlapped, leaseLost, labelChanges>>

Calls == {"none", "create", "statefulset", "service", "configmap", "delete"}

Goto(u, c) == /\ call' = [call EXCEPT ![u] = c]
              /\ UNCHANGED <<hook, changedDue, brokenDue, begun>>

\* What u does next if a call of its fails, or its pod goes: the event is
\* still to be handled.
Abandon(u) ==
    /\ hook' = [hook EXCEPT ![u] = "none"]
    /\ call' = [call EXCEPT ![u] = "none"]
    /\ changedDue' = IF hook[u] = "changed" THEN changedDue \cup {u} ELSE changedDue
    /\ brokenDue' = IF hook[u] = "broken" THEN brokenDue \cup {u} ELSE brokenDue
    /\ UNCHANGED begun

End(u) ==
    /\ hook' = [hook EXCEPT ![u] = "none"]
    /\ call' = [call EXCEPT ![u] = "none"]
    /\ begun' = begun \ {u}
    /\ UNCHANGED <<changedDue, brokenDue>>

\* u takes up an event, relation-changed before relation-broken, of which only
\* the leader takes notice.
Begin(u, L) ==
    /\ hook[u] = "none"
    /\ \/ /\ u \in changedDue
          /\ L = meshLabels
          /\ hook' = [hook EXCEPT ![u] = "changed"]
          /\ changedDue' = changedDue \ {u} /\ UNCHANGED brokenDue
       \/ /\ u \in brokenDue \ changedDue /\ u = labelLeader
          /\ L = {}
          /\ hook' = [hook EXCEPT ![u] = "broken"]
          /\ brokenDue' = brokenDue \ {u} /\ UNCHANGED changedDue
    /\ begun' = begun \cup {u}

\* Labels that were set and are wanted no longer are set to None.
Outgoing(record, wants) == IF record = Missing THEN {} ELSE record \ wants

Apply(labels, p) == (labels \ p.unset) \cup p.set

-----------------------------------------------------------------------------
(* reconcile_charm_labels, call by call                                    *)

RecordFirst(u, L) ==
    /\ Begin(u, L)
    /\ patch' = [patch EXCEPT ![u] = [set |-> L, unset |-> Outgoing(labelRecord, L)]]
    /\ call' = [call EXCEPT ![u] = IF labelRecord = Missing THEN "create"
                                                            ELSE "statefulset"]
    /\ labelRecord' = IF labelRecord = Missing THEN Missing ELSE L
    /\ outdated' = outdated \ {u} /\ unversioned' = unversioned \ {u}
    /\ UNCHANGED <<others, podLabels, serviceLabels>>

\* get ConfigMap
GetRecord(u, L) ==
    /\ Begin(u, L)
    /\ patch' = [patch EXCEPT ![u] = [set |-> L, unset |-> Outgoing(labelRecord, L)]]
    /\ call' = [call EXCEPT ![u] = IF labelRecord = Missing THEN "create"
                                                            ELSE "statefulset"]
    /\ outdated' = outdated \ {u} /\ unversioned' = unversioned \ {u}
    /\ UNCHANGED <<others, objects>>

\* _init_label_configmap fails if another unit was faster.
CreateRecord(u) ==
    /\ call[u] = "create"
    /\ IF labelRecord = Missing
       THEN /\ labelRecord' = {} /\ unversioned' = unversioned \cup {u}
            /\ Goto(u, "statefulset")
       ELSE Abandon(u) /\ UNCHANGED <<labelRecord, unversioned>>
    /\ UNCHANGED <<others, podLabels, serviceLabels, patch, outdated>>

PatchStatefulSet(u) ==
    /\ call[u] = "statefulset"
    /\ podLabels' = Apply(podLabels, patch[u])
    /\ Goto(u, "service")
    /\ UNCHANGED <<others, serviceLabels, labelRecord, patch, outdated, unversioned>>

PatchService(u) ==
    /\ call[u] = "service"
    /\ serviceLabels' = Apply(serviceLabels, patch[u])
    /\ Goto(u, "configmap")
    /\ UNCHANGED <<others, podLabels, labelRecord, patch, outdated, unversioned>>

\* A copy that was read has a version, and is refused if it is not the last; one
\* that was created has none.
Overtaken(u) == outdated' = IF labelRecord' = labelRecord THEN outdated
                            ELSE outdated \cup (LabelUnits \ {u})

PatchRecord(u) ==
    /\ call[u] = "configmap"
    /\ IF labelRecord = Missing \/ u \in outdated \ unversioned
       THEN Abandon(u) /\ UNCHANGED <<labelRecord, outdated>>
       ELSE /\ labelRecord' = patch[u].set
            /\ Overtaken(u)
            /\ IF hook[u] = "changed" THEN End(u) ELSE Goto(u, "delete")
    /\ UNCHANGED <<others, podLabels, serviceLabels, patch, unversioned>>

\* _delete_label_configmap, in relation-broken.
DeleteRecord(u) ==
    /\ call[u] = "delete"
    /\ IF labelRecord = Missing THEN Abandon(u) ELSE End(u)
    /\ labelRecord' = Missing
    /\ Overtaken(u)
    /\ UNCHANGED <<others, podLabels, serviceLabels, patch, unversioned>>

\* relation-broken of a unit that does not lead
BrokenElsewhere(u) ==
    /\ u \in brokenDue \ changedDue /\ u # labelLeader
    /\ hook[u] = "none"
    /\ brokenDue' = brokenDue \ {u}
    /\ begun' = begun \ {u}
    /\ UNCHANGED <<others, changedDue, objects, hook, call, patch, outdated, unversioned>>

-----------------------------------------------------------------------------
(* The environment                                                         *)

LabelChange == labelChanges < MaxLabelChanges /\ labelChanges' = labelChanges + 1

PodRestarted(u) ==
    /\ LabelChange
    /\ hook[u] # "none"
    /\ Abandon(u)
    /\ UNCHANGED <<mesh, labelLeader, overlapped, leaseLost, objects, patch, outdated,
                   unversioned>>

\* The beacon publishes labels, or others after its own upgrade.
PublishLabels(L) ==
    /\ LabelChange
    /\ onMesh /\ L # meshLabels
    /\ meshLabels' = L
    /\ changedDue' = LabelUnits
    /\ overlapped' = (overlapped \/ begun # {})
    /\ UNCHANGED <<onMesh, brokenDue, labelLeader, leaseLost, objects, hook, call,
                   patch, outdated, unversioned, begun>>

\* Juju refuses a second relation while the first one is not gone.
OnToMesh ==
    /\ LabelChange
    /\ ~onMesh /\ changedDue \cup brokenDue \cup begun = {}
    /\ onMesh' = TRUE
    /\ meshLabels' = {}
    /\ UNCHANGED <<changedDue, brokenDue, labelLeader, leaseLost, overlapped,
                   objects, hook, call, patch, outdated, unversioned, begun>>

OffMesh ==
    /\ LabelChange
    /\ onMesh
    /\ onMesh' = FALSE
    /\ brokenDue' = LabelUnits
    /\ changedDue' = changedDue \cap begun
    /\ overlapped' = (overlapped \/ begun # {})
    /\ UNCHANGED <<meshLabels, labelLeader, leaseLost, objects, hook, call,
                   patch, outdated, unversioned, begun>>

LabelLeaseMoves(u) ==
    /\ LabelChange
    /\ u # labelLeader
    /\ hook[labelLeader] = "none"
    /\ labelLeader' = u
    /\ leaseLost' = TRUE
    /\ UNCHANGED <<mesh, changedDue, brokenDue, overlapped, objects, hook, call,
                   patch, outdated, unversioned, begun>>

-----------------------------------------------------------------------------
LabelInit ==
    /\ meshLabels = {} /\ onMesh = FALSE
    /\ changedDue = {} /\ brokenDue = {}
    /\ labelLeader \in LabelUnits
    /\ podLabels = {} /\ serviceLabels = {} /\ labelRecord = Missing
    /\ hook = [u \in LabelUnits |-> "none"]
    /\ call = [u \in LabelUnits |-> "none"]
    /\ patch = [u \in LabelUnits |-> [set |-> {}, unset |-> {}]]
    /\ outdated = {} /\ unversioned = {} /\ begun = {}
    /\ overlapped = FALSE /\ leaseLost = FALSE
    /\ labelChanges = 0

LabelNext ==
    \/ \E u \in LabelUnits :
          \/ \E L \in SUBSET Labels : GetRecord(u, L)
          \/ CreateRecord(u)
          \/ PatchStatefulSet(u) \/ PatchService(u)
          \/ PatchRecord(u) \/ DeleteRecord(u) \/ BrokenElsewhere(u)
          \/ PodRestarted(u) \/ LabelLeaseMoves(u)
    \/ \E L \in SUBSET Labels : PublishLabels(L)
    \/ OnToMesh \/ OffMesh

LabelSpec == LabelInit /\ [][LabelNext]_labelVars

-----------------------------------------------------------------------------
(* Properties                                                              *)

LabelTypeOK ==
    /\ meshLabels \subseteq Labels /\ onMesh \in BOOLEAN
    /\ changedDue \subseteq LabelUnits /\ brokenDue \subseteq LabelUnits
    /\ labelLeader \in LabelUnits
    /\ podLabels \subseteq Labels /\ serviceLabels \subseteq Labels
    /\ labelRecord \in (SUBSET Labels) \cup {Missing}
    /\ call \in [LabelUnits -> Calls]
    /\ patch \in [LabelUnits -> [set : SUBSET Labels, unset : SUBSET Labels]]
    /\ outdated \subseteq LabelUnits /\ unversioned \subseteq LabelUnits
    /\ hook \in [LabelUnits -> {"none", "changed", "broken"}]
    /\ \A u \in LabelUnits : /\ call[u] = "none" <=> hook[u] = "none"
                             /\ call[u] = "delete" => hook[u] = "broken"
                             /\ hook[u] # "none" => u \in begun
    /\ begun \subseteq LabelUnits
    /\ overlapped \in BOOLEAN /\ leaseLost \in BOOLEAN
    /\ labelChanges \in 0..MaxLabelChanges

\* Whatever the order of the units' calls, and wherever a hook ends, no label
\* is on an object that neither the record nor an unfinished hook knows of, so
\* that a later call will take it away.  It is lost only if the relation
\* changed under an unfinished hook: the hook sets labels, is interrupted before
\* it records them, and the next one wants others and does not know of them.
NoLabelForgotten ==
    ~overlapped =>
        podLabels \cup serviceLabels
          \subseteq (IF labelRecord = Missing THEN {} ELSE labelRecord)
                      \cup (IF begun = {} THEN {} ELSE meshLabels)

\* When every unit is done, pods and service carry the labels of the mesh and
\* no others, and off the mesh none: unless, again, the relation changed under
\* an unfinished hook or, off the mesh, relation-broken was run by each unit
\* while another one led.
LabelsReconciled ==
    ~overlapped /\ changedDue \cup brokenDue \cup begun = {} =>
        IF onMesh THEN {podLabels, serviceLabels} = {meshLabels}
                       \/ (leaseLost /\ meshLabels = {})
        ELSE leaseLost \/ (/\ podLabels = {} /\ serviceLabels = {}
                           /\ labelRecord = Missing)

\* Both: on the way and in the end.
LabelsFollow == NoLabelForgotten /\ LabelsReconciled
=============================================================================
