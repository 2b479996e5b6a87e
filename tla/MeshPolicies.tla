---------------------------- MODULE MeshPolicies ----------------------------
(***************************************************************************)
(* Authorization in the service mesh (istio_beacon_k8s/v0/service_mesh.py):*)
(* the leader of an application publishes a policy for every application   *)
(* that may call it (ServiceMeshConsumer), and the beacon turns those into *)
(* resources of Kubernetes (ServiceMeshProvider, PolicyResourceManager).   *)
(*                                                                         *)
(* An application of another model is known here by an alias.  Who it is   *)
(* comes over a cross-model-mesh relation, when it comes.                  *)
(***************************************************************************)
EXTENDS Naturals

CONSTANTS
    Callers,        \* applications that may be related
    CrossModel,     \* those of another model
    MeshUnits,      \* units of the application that is called
    Policies,       \* the policies it declares
    NoPolicies,     \* none in the databag
    MaxMeshChanges  \* bound on the changes of the environment

\* An AuthorizationPolicy: for whom, as an alias or an application, and which.
Resources == {"alias", "application"} \X Callers \X Policies

ASSUME MeshAssumption ==
    /\ CrossModel \subseteq Callers
    /\ \A X \in SUBSET Resources : X # NoPolicies
    /\ MaxMeshChanges \in Nat

VARIABLES
    callers,      \* applications that are related
    callersSeen,  \* callersSeen[u]: those unit u has run relation-created for
    cmrs,         \* applications with a cross-model-mesh relation
    cmrData,      \* those that have sent "cmr_data"
    cmrNews,      \* cmrNews[u]: cmr relation-changed events of u to come
    meshed,       \* whether there is a relation to the beacon
    meshNews,     \* units whose relation-created for it is to come
    meshLeader,   \* the leader of the application
    computed,     \* history: the leader has computed the policies since it was
                  \* elected and since a cmr relation went
    policies,     \* "policies" in the databag of the application
    beaconNews,   \* whether the beacon has an event to come
    desired,      \* what the beacon's present hook has read; NoPolicies: none
    authorized,   \* the AuthorizationPolicies in Kubernetes
    meshChanges

meshVars == <<callers, callersSeen, cmrs, cmrData, cmrNews, meshed, meshNews,
              meshLeader, computed, policies, beaconNews, desired, authorized,
              meshChanges>>

meshEnv    == <<callers, cmrs, cmrData, meshed, meshLeader, meshChanges>>
meshBeacon == <<desired, authorized>>

\* get_data_from_cmr_relation and the choice in build_mesh_policies.
AliasAlways(a) == <<"alias", a>>
Source(a) == <<IF a \in CrossModel /\ a \notin cmrData THEN "alias"
                                                       ELSE "application", a>>
MeshPoliciesFor(A) == {<<Source(a)[1], a, p>> : a \in A, p \in Policies}

\* _relations_changed of unit u that knows the applications A.
UpdateUnmeshed(u, A) ==
    IF u = meshLeader
    THEN /\ computed' = TRUE
         /\ policies' = MeshPoliciesFor(A)
         /\ beaconNews' = (beaconNews \/ policies' # policies)
    ELSE UNCHANGED <<computed, policies, beaconNews>>
UpdateServiceMesh(u, A) ==
    IF u = meshLeader
    THEN /\ computed' = TRUE
         /\ IF meshed /\ u \notin meshNews'
            THEN /\ policies' = MeshPoliciesFor(A)
                 /\ beaconNews' = (beaconNews \/ policies' # policies)
            ELSE UNCHANGED <<policies, beaconNews>>
    ELSE UNCHANGED <<computed, policies, beaconNews>>

-----------------------------------------------------------------------------
(* The hooks of the units                                                  *)

CallerCreated(u, a) ==
    /\ a \in callers \ callersSeen[u]
    /\ callersSeen' = [callersSeen EXCEPT ![u] = @ \cup {a}]
    /\ UNCHANGED <<meshEnv, meshBeacon, cmrNews, meshNews>>
    /\ UpdateServiceMesh(u, callersSeen'[u])

CallerBroken(u, a) ==
    /\ a \in callersSeen[u] \ callers
    /\ callersSeen' = [callersSeen EXCEPT ![u] = @ \ {a}]
    /\ UNCHANGED <<meshEnv, meshBeacon, cmrNews, meshNews>>
    /\ UpdateServiceMesh(u, callersSeen'[u])

CmrChanged(u, a) ==
    /\ a \in cmrNews[u]
    /\ cmrNews' = [cmrNews EXCEPT ![u] = @ \ {a}]
    /\ UNCHANGED <<meshEnv, meshBeacon, callersSeen, meshNews>>
    /\ UpdateServiceMesh(u, callersSeen[u])

MeshCreated(u) ==
    /\ u \in meshNews
    /\ meshNews' = meshNews \ {u}
    /\ UNCHANGED <<meshEnv, meshBeacon, callersSeen, cmrNews>>
    /\ UpdateServiceMesh(u, callersSeen[u])

\* upgrade-charm
MeshUpgrade(u) ==
    /\ UNCHANGED <<meshEnv, meshBeacon, callersSeen, cmrNews, meshNews>>
    /\ UpdateServiceMesh(u, callersSeen[u])

-----------------------------------------------------------------------------
(* The beacon: reconcile deletes what is not desired, then applies.        *)

MeshInfo == IF policies = NoPolicies THEN {} ELSE policies

BeaconDeletes ==
    /\ beaconNews /\ desired = NoPolicies
    /\ beaconNews' = FALSE
    /\ desired' = MeshInfo
    /\ authorized' = authorized \cap MeshInfo
    /\ UNCHANGED <<meshEnv, callersSeen, cmrNews, meshNews, computed, policies>>

BeaconApplies ==
    /\ desired # NoPolicies
    /\ authorized' = authorized \cup desired
    /\ desired' = NoPolicies
    /\ UNCHANGED <<meshEnv, callersSeen, cmrNews, meshNews, computed, policies,
                   beaconNews>>

\* The hook fails between the two, and is run again.
BeaconFails ==
    /\ desired # NoPolicies
    /\ desired' = NoPolicies
    /\ beaconNews' = TRUE
    /\ UNCHANGED <<meshEnv, callersSeen, cmrNews, meshNews, computed, policies,
                   authorized>>

-----------------------------------------------------------------------------
(* The environment                                                         *)

MeshChange == meshChanges < MaxMeshChanges /\ meshChanges' = meshChanges + 1

Call(a) ==
    /\ MeshChange
    /\ a \notin callers /\ \A u \in MeshUnits : a \notin callersSeen[u]
    /\ callers' = callers \cup {a}
    /\ UNCHANGED <<callersSeen, cmrs, cmrData, cmrNews, meshed, meshNews,
                   meshLeader, computed, policies, beaconNews, meshBeacon>>

NoLongerCall(a) ==
    /\ MeshChange
    /\ a \in callers
    /\ callers' = callers \ {a}
    /\ UNCHANGED <<callersSeen, cmrs, cmrData, cmrNews, meshed, meshNews,
                   meshLeader, computed, policies, beaconNews, meshBeacon>>

\* cross_model_mesh, in which the caller's leader sends its data when it can.
RelateCmr(a) ==
    /\ MeshChange
    /\ a \in CrossModel \ cmrs
    /\ cmrs' = cmrs \cup {a}
    /\ UNCHANGED <<callers, callersSeen, cmrData, cmrNews, meshed, meshNews,
                   meshLeader, computed, policies, beaconNews, meshBeacon>>

SendCmrData(a) ==
    /\ a \in cmrs \ cmrData
    /\ cmrData' = cmrData \cup {a}
    /\ cmrNews' = [u \in MeshUnits |-> cmrNews[u] \cup {a}]
    /\ UNCHANGED <<callers, callersSeen, cmrs, meshed, meshNews, meshLeader,
                   computed, policies, beaconNews, meshBeacon, meshChanges>>

\* Nothing observes the end of that relation.
UnrelateCmr(a) ==
    /\ MeshChange
    /\ a \in cmrs
    /\ cmrs' = cmrs \ {a} /\ cmrData' = cmrData \ {a}
    /\ cmrNews' = [u \in MeshUnits |-> cmrNews[u] \ {a}]
    /\ computed' = FALSE
    /\ UNCHANGED <<callers, callersSeen, meshed, meshNews, meshLeader, policies,
                   beaconNews, meshBeacon>>

JoinMesh ==
    /\ MeshChange
    /\ ~meshed
    /\ meshed' = TRUE
    /\ meshNews' = MeshUnits
    /\ UNCHANGED <<callers, callersSeen, cmrs, cmrData, cmrNews, meshLeader,
                   computed, policies, beaconNews, meshBeacon>>

LeaveMesh ==
    /\ MeshChange
    /\ meshed
    /\ meshed' = FALSE
    /\ meshNews' = {}
    /\ policies' = NoPolicies
    /\ beaconNews' = TRUE
    /\ UNCHANGED <<callers, callersSeen, cmrs, cmrData, cmrNews, meshLeader,
                   computed, meshBeacon>>

MeshLeaseMoves(u) ==
    /\ MeshChange
    /\ u # meshLeader
    /\ meshLeader' = u
    /\ computed' = FALSE
    /\ UNCHANGED <<callers, callersSeen, cmrs, cmrData, cmrNews, meshed, meshNews,
                   policies, beaconNews, meshBeacon>>

-----------------------------------------------------------------------------
MeshInit ==
    /\ callers = {} /\ cmrs = {} /\ cmrData = {}
    /\ callersSeen = [u \in MeshUnits |-> {}]
    /\ cmrNews = [u \in MeshUnits |-> {}]
    /\ meshed = FALSE /\ meshNews = {}
    /\ meshLeader \in MeshUnits
    /\ computed = TRUE
    /\ policies = NoPolicies
    /\ beaconNews = FALSE
    /\ desired = NoPolicies
    /\ authorized = {}
    /\ meshChanges = 0

MeshNext ==
    \/ \E u \in MeshUnits :
          \/ \E a \in Callers : \/ CallerCreated(u, a)
                                \/ CallerBroken(u, a)
                                \/ CmrChanged(u, a)
          \/ MeshCreated(u) \/ MeshUpgrade(u) \/ MeshLeaseMoves(u)
    \/ BeaconDeletes \/ BeaconApplies \/ BeaconFails
    \/ \E a \in Callers : \/ Call(a) \/ NoLongerCall(a)
                          \/ RelateCmr(a) \/ SendCmrData(a) \/ UnrelateCmr(a)
    \/ JoinMesh \/ LeaveMesh

MeshSpec == MeshInit /\ [][MeshNext]_meshVars

-----------------------------------------------------------------------------
(* Properties                                                              *)

MeshTypeOK ==
    /\ callers \subseteq Callers
    /\ callersSeen \in [MeshUnits -> SUBSET Callers]
    /\ cmrs \subseteq CrossModel /\ cmrData \subseteq cmrs
    /\ cmrNews \in [MeshUnits -> SUBSET CrossModel]
    /\ \A u \in MeshUnits : cmrNews[u] \subseteq cmrData
    /\ meshed \in BOOLEAN /\ meshNews \subseteq MeshUnits
    /\ meshLeader \in MeshUnits
    /\ computed \in BOOLEAN /\ beaconNews \in BOOLEAN
    /\ policies = NoPolicies \/ (meshed /\ policies \subseteq Resources)
    /\ desired = NoPolicies \/ desired \subseteq Resources
    /\ authorized \subseteq Resources
    /\ meshChanges \in 0..MaxMeshChanges

\* The leader has handled its events, and so has the beacon.
LeaderDelivered == /\ callersSeen[meshLeader] = callers
                   /\ cmrNews[meshLeader] = {} /\ meshLeader \notin meshNews
BeaconDelivered == ~beaconNews /\ desired = NoPolicies

\* Who the application behind a relation is, as far as it is known.
Identity(a) == IF a \notin CrossModel \/ a \in cmrData THEN "application" ELSE "alias"

\* When the events have been handled and the leader has computed the policies
\* since its election, Kubernetes lets in the applications that are related,
\* each with every policy, and nobody else; an application of another model
\* under its own identity if that has arrived, in whichever order the two
\* relations were made.  Outside the mesh nothing is left behind.
OnlyRelatedAuthorized ==
    BeaconDelivered =>
        /\ meshed /\ computed /\ LeaderDelivered
             => authorized = {<<Identity(a), a, p>> : a \in callers, p \in Policies}
        /\ ~meshed => authorized = {}

\* At any moment, even in the middle of a hook of the beacon: what is let in
\* was published and not withdrawn, or the beacon has an event or a hook that
\* will see to it.
WithdrawnIsSeenTo ==
    authorized \subseteq MeshInfo \/ beaconNews

\* Both: nobody else is let in for good, nor forgotten on the way.
AuthorizationFollows == OnlyRelatedAuthorized /\ WithdrawnIsSeenTo
=============================================================================
