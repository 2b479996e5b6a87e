------------------------- MODULE IntegrationsProofs --------------------------
(***************************************************************************)
(* The other integrations of the coordinator: who is let in by the mesh, the *)
(* labels it needs, limits, credentials and traces, for any number of units, *)
(* callers, labels, quantities and changes; and all of them side by side.  *)
(***************************************************************************)
EXTENDS Integrations, IngressProofs

------------------------------------------------------------------------------
(* Authorization in the service mesh                                       *)

\* What the leader would publish now.
Current == MeshPoliciesFor(callersSeen[meshLeader])

\* The leader's databag is what it would publish now, unless it has an event to
\* come or has not computed the policies since.
PoliciesCurrent ==
    meshed /\ computed /\ meshLeader \notin meshNews /\ cmrNews[meshLeader] = {}
      => policies = Current

\* Without an event to come, the beacon's hook has read what is in the databag, and
\* has deleted the rest; between two hooks Kubernetes has just that.
BeaconCurrent ==
    beaconNews \/ IF desired = NoPolicies THEN authorized = MeshInfo
                  ELSE desired = MeshInfo /\ authorized \subseteq MeshInfo

MeshIInv == MeshTypeOK /\ PoliciesCurrent /\ BeaconCurrent

-----------------------------------------------------------------------------

LEMMA MeshInitIInv == MeshInit => MeshIInv
  <1> SUFFICES ASSUME MeshInit PROVE MeshIInv
    OBVIOUS
  <1>1. meshChanges \in 0..MaxMeshChanges
    BY MeshAssumption DEF MeshInit
  <1>2. PoliciesCurrent /\ BeaconCurrent
    BY DEF MeshInit, PoliciesCurrent, BeaconCurrent, MeshInfo
  <1>3. MeshTypeOK
    BY <1>1 DEF MeshInit, MeshTypeOK
  <1> QED BY <1>2, <1>3 DEF MeshIInv

\* What is published are resources, which the beacon can tell from nothing.
LEMMA PoliciesAreResources ==
    ASSUME NEW A \in SUBSET Callers
    PROVE  MeshPoliciesFor(A) \subseteq Resources
  BY DEF MeshPoliciesFor, Source, Resources

\* Policies of nobody, or of whom was there, are among all there may be.
LEMMA ResourcesAreSome ==
    ASSUME NEW X \in SUBSET Resources
    PROVE  X # NoPolicies
  BY MeshAssumption

\* _relations_changed, which computes with what u knows, in any hook of u.
LEMMA UpdateKeepsIInv ==
    ASSUME MeshIInv, NEW u \in MeshUnits,
           callersSeen' \in [MeshUnits -> SUBSET Callers],
           \A v \in MeshUnits \ {u} : callersSeen'[v] = callersSeen[v],
           cmrNews' \in [MeshUnits -> SUBSET CrossModel],
           \A v \in MeshUnits : cmrNews'[v] \subseteq cmrNews[v],
           \A v \in MeshUnits \ {u} : cmrNews'[v] = cmrNews[v],
           meshNews' \subseteq meshNews, meshNews \subseteq meshNews' \cup {u},
           UNCHANGED <<meshEnv, meshBeacon>>,
           UpdateServiceMesh(u, callersSeen'[u])
    PROVE  MeshIInv'
  <1> USE DEF meshEnv, meshBeacon
  <1>1. callersSeen'[u] \in SUBSET Callers /\ callersSeen'[meshLeader] \in SUBSET Callers
    BY DEF MeshIInv, MeshTypeOK
  <1> DEFINE new == MeshPoliciesFor(callersSeen'[u])
  <1>2. new \subseteq Resources /\ new # NoPolicies
    BY <1>1, PoliciesAreResources, ResourcesAreSome
  <1>3. Current' = MeshPoliciesFor(callersSeen'[meshLeader])
    BY DEF Current, MeshPoliciesFor, Source
  <1>4. CASE u = meshLeader /\ meshed /\ u \notin meshNews'
    <2>1. policies' = new /\ computed' = TRUE /\ beaconNews' = (beaconNews \/ new # policies)
      BY <1>4 DEF UpdateServiceMesh
    <2> HIDE DEF new
    <2>2. MeshTypeOK'
      BY <1>2, <2>1, <1>4 DEF MeshIInv, MeshTypeOK
    <2>3. PoliciesCurrent'
      BY <1>3, <1>4, <2>1 DEF PoliciesCurrent, new
    <2>4. BeaconCurrent'
      BY <1>2, <2>1 DEF MeshIInv, BeaconCurrent, MeshInfo
    <2> QED BY <2>2, <2>3, <2>4 DEF MeshIInv
  <1>5. CASE ~(u = meshLeader /\ meshed /\ u \notin meshNews')
    <2>1. UNCHANGED <<policies, beaconNews>>
          /\ (computed' = computed \/ (computed' = TRUE /\ u = meshLeader))
      BY <1>5 DEF UpdateServiceMesh
    <2>2. MeshTypeOK'
      BY <2>1 DEF MeshIInv, MeshTypeOK
    <2>3. PoliciesCurrent'
      <3>1. CASE u = meshLeader
        BY <1>5, <2>1, <3>1 DEF PoliciesCurrent, MeshIInv, MeshTypeOK
      <3>2. CASE u # meshLeader
        <4>1. callersSeen'[meshLeader] = callersSeen[meshLeader]
              /\ cmrNews'[meshLeader] = cmrNews[meshLeader]
              /\ (meshLeader \in meshNews <=> meshLeader \in meshNews')
          BY <3>2 DEF MeshIInv, MeshTypeOK
        <4>2. Current' = Current
          BY <4>1, <1>3 DEF Current
        <4> QED BY <2>1, <4>1, <4>2, <3>2 DEF PoliciesCurrent, MeshIInv
      <3> QED BY <3>1, <3>2
    <2>4. BeaconCurrent'
      BY <2>1 DEF MeshIInv, BeaconCurrent, MeshInfo
    <2> QED BY <2>2, <2>3, <2>4 DEF MeshIInv
  <1> QED BY <1>4, <1>5

LEMMA MeshHooksKeepIInv ==
    ASSUME MeshIInv, NEW u \in MeshUnits,
           \/ \E a \in Callers : \/ CallerCreated(u, a)
                                 \/ CallerBroken(u, a)
                                 \/ CmrChanged(u, a)
           \/ MeshCreated(u) \/ MeshUpgrade(u)
    PROVE  MeshIInv'
  <1>1. /\ callersSeen' \in [MeshUnits -> SUBSET Callers]
        /\ \A v \in MeshUnits \ {u} : callersSeen'[v] = callersSeen[v]
    BY DEF CallerCreated, CallerBroken, CmrChanged, MeshCreated, MeshUpgrade,
       MeshIInv, MeshTypeOK
  <1>2. /\ cmrNews' \in [MeshUnits -> SUBSET CrossModel]
        /\ \A v \in MeshUnits : cmrNews'[v] \subseteq cmrNews[v]
        /\ \A v \in MeshUnits \ {u} : cmrNews'[v] = cmrNews[v]
    BY DEF CallerCreated, CallerBroken, CmrChanged, MeshCreated, MeshUpgrade,
       MeshIInv, MeshTypeOK
  <1>3. /\ meshNews' \subseteq meshNews /\ meshNews \subseteq meshNews' \cup {u}
        /\ UNCHANGED <<meshEnv, meshBeacon>>
        /\ UpdateServiceMesh(u, callersSeen'[u])
    BY DEF CallerCreated, CallerBroken, CmrChanged, MeshCreated, MeshUpgrade
  <1> QED BY <1>1, <1>2, <1>3, UpdateKeepsIInv

LEMMA BeaconKeepsIInv ==
    ASSUME MeshIInv, BeaconDeletes \/ BeaconApplies \/ BeaconFails
    PROVE  MeshIInv'
  <1>1. MeshInfo \subseteq Resources /\ MeshInfo # NoPolicies
    BY ResourcesAreSome DEF MeshInfo, MeshIInv, MeshTypeOK
  <1>2. UNCHANGED <<meshEnv, callersSeen, cmrNews, meshNews, computed, policies>>
    BY DEF BeaconDeletes, BeaconApplies, BeaconFails
  <1>3. MeshInfo' = MeshInfo /\ Current' = Current
    BY <1>2 DEF MeshInfo, Current, MeshPoliciesFor, Source, meshEnv
  <1>4. PoliciesCurrent'
    BY <1>2, <1>3 DEF PoliciesCurrent, MeshIInv, meshEnv
  <1>5. MeshTypeOK' /\ BeaconCurrent'
    <2>1. CASE BeaconDeletes
      <3>1. /\ beaconNews' = FALSE /\ desired' = MeshInfo
            /\ authorized' = authorized \cap MeshInfo
        BY <2>1 DEF BeaconDeletes
      <3>2. MeshTypeOK'
        BY <1>1, <1>2, <3>1 DEF MeshIInv, MeshTypeOK, meshEnv
      <3> QED BY <1>1, <1>3, <3>1, <3>2 DEF BeaconCurrent
    <2>2. CASE BeaconApplies
      BY <1>2, <1>3, <2>2
         DEF BeaconApplies, MeshIInv, MeshTypeOK, BeaconCurrent, meshEnv
    <2>3. CASE BeaconFails
      BY <1>2, <1>3, <2>3
         DEF BeaconFails, MeshIInv, MeshTypeOK, BeaconCurrent, meshEnv
    <2> QED BY <2>1, <2>2, <2>3
  <1> QED BY <1>4, <1>5 DEF MeshIInv

-----------------------------------------------------------------------------

\* What is known of the applications of other models changes with an event to
\* come, or is forgotten with what was computed.
LEMMA CallersKeepIInv ==
    ASSUME MeshIInv, NEW a \in Callers,
           \/ Call(a) \/ NoLongerCall(a)
           \/ RelateCmr(a) \/ SendCmrData(a) \/ UnrelateCmr(a)
    PROVE  MeshIInv'
  <1>1. UNCHANGED <<callersSeen, meshed, meshNews, meshLeader, policies, beaconNews,
                    meshBeacon>>
    BY DEF Call, NoLongerCall, RelateCmr, SendCmrData, UnrelateCmr
  <1>2. BeaconCurrent'
    BY <1>1 DEF MeshIInv, BeaconCurrent, MeshInfo, meshBeacon
  <1>3. meshChanges' \in 0..MaxMeshChanges
    BY MeshAssumption DEF Call, NoLongerCall, RelateCmr, SendCmrData, UnrelateCmr,
       MeshChange, MeshIInv, MeshTypeOK
  <1>4. MeshTypeOK' /\ PoliciesCurrent'
    <2>1. CASE Call(a) \/ NoLongerCall(a) \/ RelateCmr(a)
      <3>1. UNCHANGED <<cmrData, cmrNews, computed>> /\ callers' \subseteq Callers
            /\ cmrs' \subseteq CrossModel /\ cmrs \subseteq cmrs'
        BY <2>1 DEF Call, NoLongerCall, RelateCmr, MeshIInv, MeshTypeOK
      <3>2. MeshTypeOK'
        BY <1>1, <1>3, <3>1 DEF MeshIInv, MeshTypeOK, meshBeacon
      <3>3. Current' = Current
        BY <1>1, <3>1 DEF Current, MeshPoliciesFor, Source
      <3>4. PoliciesCurrent'
        BY <1>1, <3>1, <3>3 DEF MeshIInv, PoliciesCurrent
      <3> QED BY <3>2, <3>4
    <2>2. CASE SendCmrData(a)
      <3>1. /\ a \in CrossModel /\ cmrData' = cmrData \cup {a}
            /\ cmrNews' = [u \in MeshUnits |-> cmrNews[u] \cup {a}]
            /\ UNCHANGED <<callers, cmrs, computed>> /\ cmrData' \subseteq cmrs
        BY <2>2 DEF SendCmrData, MeshIInv, MeshTypeOK
      <3>2. MeshTypeOK'
        BY <1>1, <1>3, <3>1 DEF MeshIInv, MeshTypeOK, meshBeacon
      <3>3. cmrNews'[meshLeader'] # {}
        BY <1>1, <3>1 DEF MeshIInv, MeshTypeOK
      <3> QED BY <3>2, <3>3 DEF PoliciesCurrent
    <2>3. CASE UnrelateCmr(a)
      <3>1. /\ cmrData' = cmrData \ {a} /\ cmrs' = cmrs \ {a}
            /\ cmrNews' = [u \in MeshUnits |-> cmrNews[u] \ {a}]
            /\ UNCHANGED callers /\ computed' = FALSE
        BY <2>3 DEF UnrelateCmr
      <3>2. MeshTypeOK'
        BY <1>1, <1>3, <3>1 DEF MeshIInv, MeshTypeOK, meshBeacon
      <3> QED BY <3>1, <3>2 DEF PoliciesCurrent
    <2> QED BY <2>1, <2>2, <2>3
  <1> QED BY <1>2, <1>4 DEF MeshIInv

LEMMA MeshKeepsIInv ==
    ASSUME MeshIInv,
           JoinMesh \/ LeaveMesh \/ \E u \in MeshUnits : MeshLeaseMoves(u)
    PROVE  MeshIInv'
  <1>1. UNCHANGED <<callers, callersSeen, cmrs, cmrData, cmrNews, meshBeacon>>
    BY DEF JoinMesh, LeaveMesh, MeshLeaseMoves
  <1>2. meshChanges' \in 0..MaxMeshChanges
    BY MeshAssumption DEF JoinMesh, LeaveMesh, MeshLeaseMoves,
       MeshChange, MeshIInv, MeshTypeOK
  <1>3. CASE JoinMesh
    <2>1. /\ meshed' = TRUE /\ meshNews' = MeshUnits
          /\ UNCHANGED <<meshLeader, computed, policies, beaconNews>>
      BY <1>3 DEF JoinMesh
    <2>2. MeshTypeOK'
      BY <1>1, <1>2, <2>1 DEF MeshIInv, MeshTypeOK, meshBeacon
    <2> QED BY <1>1, <2>1, <2>2
            DEF MeshIInv, MeshTypeOK, PoliciesCurrent, BeaconCurrent, MeshInfo, meshBeacon
  <1>4. CASE LeaveMesh
    <2>1. /\ meshed' = FALSE /\ meshNews' = {} /\ policies' = NoPolicies
          /\ beaconNews' = TRUE /\ UNCHANGED <<meshLeader, computed>>
      BY <1>4 DEF LeaveMesh
    <2>2. MeshTypeOK'
      BY <1>1, <1>2, <2>1 DEF MeshIInv, MeshTypeOK, meshBeacon
    <2> QED BY <2>1, <2>2 DEF MeshIInv, PoliciesCurrent, BeaconCurrent
  <1>5. ASSUME NEW u \in MeshUnits, MeshLeaseMoves(u)
        PROVE  MeshIInv'
    <2>1. /\ meshLeader' = u /\ computed' = FALSE
          /\ UNCHANGED <<meshed, meshNews, policies, beaconNews>>
      BY <1>5 DEF MeshLeaseMoves
    <2>2. MeshTypeOK'
      BY <1>1, <1>2, <2>1 DEF MeshIInv, MeshTypeOK, meshBeacon
    <2> QED BY <1>1, <2>1, <2>2
            DEF MeshIInv, PoliciesCurrent, BeaconCurrent, MeshInfo, meshBeacon
  <1> QED BY <1>3, <1>4, <1>5

-----------------------------------------------------------------------------

LEMMA MeshInvariant == MeshSpec => []MeshIInv
  <1>1. MeshIInv /\ [MeshNext]_meshVars => MeshIInv'
    <2> SUFFICES ASSUME MeshIInv, [MeshNext]_meshVars PROVE MeshIInv'
      OBVIOUS
    <2>1. CASE UNCHANGED meshVars
      <3>1. Current' = Current /\ MeshInfo' = MeshInfo
        BY <2>1 DEF meshVars, Current, MeshInfo, MeshPoliciesFor, Source
      <3> QED BY <2>1, <3>1 DEF meshVars, MeshIInv, MeshTypeOK, PoliciesCurrent, BeaconCurrent
    <2>2. CASE MeshNext
      BY <2>2, MeshHooksKeepIInv, BeaconKeepsIInv, CallersKeepIInv, MeshKeepsIInv
         DEF MeshNext
    <2> QED BY <2>1, <2>2
  <1> QED BY <1>1, MeshInitIInv, PTL DEF MeshSpec

\* Once the events are handled, Kubernetes lets in exactly the applications that
\* are related, and whatever it lets in meanwhile is published or seen to
\* (ServiceMeshConsumer, PolicyResourceManager), for any applications, policies,
\* units and changes.
THEOREM AuthorizationAlwaysFollows == MeshSpec => []AuthorizationFollows
  <1>1. MeshIInv => AuthorizationFollows
    <2> SUFFICES ASSUME MeshIInv PROVE AuthorizationFollows
      OBVIOUS
    <2>1. MeshPoliciesFor(callers) = {<<Identity(a), a, p>> : a \in callers, p \in Policies}
      BY DEF MeshPoliciesFor, Source, Identity
    <2>2. WithdrawnIsSeenTo
      BY DEF MeshIInv, BeaconCurrent, WithdrawnIsSeenTo
    <2>3. ASSUME BeaconDelivered
          PROVE  authorized = MeshInfo
      BY <2>3 DEF MeshIInv, BeaconCurrent, BeaconDelivered
    <2>4. ASSUME meshed, computed, LeaderDelivered
          PROVE  MeshInfo = MeshPoliciesFor(callers)
      <3>1. policies = MeshPoliciesFor(callers)
        BY <2>4 DEF MeshIInv, PoliciesCurrent, LeaderDelivered, Current
      <3>2. policies # NoPolicies
        BY <3>1, PoliciesAreResources, ResourcesAreSome DEF MeshIInv, MeshTypeOK
      <3> QED BY <3>1, <3>2 DEF MeshInfo
    <2>5. ~meshed => MeshInfo = {}
      BY DEF MeshIInv, MeshTypeOK, MeshInfo
    <2>6. OnlyRelatedAuthorized
      BY <2>1, <2>3, <2>4, <2>5 DEF OnlyRelatedAuthorized
    <2> QED BY <2>2, <2>6 DEF AuthorizationFollows
  <1> QED BY <1>1, MeshInvariant, PTL

------------------------------------------------------------------------------
(* Labels of the service mesh                                              *)

\* What the charm wants on its objects, and what the record says there is.
Wanted == IF onMesh THEN meshLabels ELSE {}
Recorded == IF labelRecord = Missing THEN {} ELSE labelRecord

\* On the mesh there is no relation-broken, off the mesh no relation-changed.
OneKindOfHook ==
    IF onMesh THEN brokenDue = {} /\ \A u \in LabelUnits : hook[u] # "broken"
              ELSE changedDue = {} /\ \A u \in LabelUnits : hook[u] # "changed"

\* What the hook of u has done, and takes away as long as its copy of the record
\* is not overtaken.  If it created the record, nothing else is in there since.
PatchFits(u) ==
    /\ call[u] # "none" /\ u \in unversioned => Recorded \subseteq Wanted
    /\ call[u] # "none" => patch[u].set = Wanted
    /\ u \notin outdated /\ call[u] \in {"create", "statefulset", "service"}
         => Recorded \subseteq patch[u].unset \cup Wanted
    /\ call[u] \in {"service", "configmap", "delete"}
         => /\ Wanted \subseteq podLabels
            /\ u \notin outdated => podLabels \subseteq Wanted
    /\ call[u] \in {"configmap", "delete"}
         => /\ Wanted \subseteq serviceLabels
            /\ u \notin outdated => serviceLabels \subseteq Wanted
    /\ call[u] = "delete" => Recorded = {}
PatchesFit == \A u \in LabelUnits : PatchFits(u)

\* No label that nobody knows of.
LabelsKnown ==
    podLabels \cup serviceLabels
      \subseteq Recorded \cup (IF begun = {} THEN {} ELSE Wanted)

\* Whoever has something to do will get there, or everybody has got there.
Reached ==
    /\ onMesh => \/ changedDue \cup begun # {}
                 \/ podLabels = Wanted /\ serviceLabels = Wanted
                 \/ leaseLost /\ meshLabels = {}
    /\ ~onMesh /\ ~leaseLost
         => /\ begun \subseteq {labelLeader}
            /\ \/ labelLeader \in brokenDue \cup begun
               \/ podLabels = {} /\ serviceLabels = {} /\ labelRecord = Missing

LabelsGood == OneKindOfHook /\ PatchesFit /\ LabelsKnown /\ Reached

LabelIInv == LabelTypeOK /\ (~overlapped => LabelsGood)

-----------------------------------------------------------------------------

LEMMA LabelInitIInv == LabelInit => LabelIInv
  <1> SUFFICES ASSUME LabelInit PROVE LabelIInv
    OBVIOUS
  <1>1. labelChanges \in 0..MaxLabelChanges
    BY LabelAssumption DEF LabelInit
  <1>2. LabelTypeOK
    BY <1>1 DEF LabelInit, LabelTypeOK, Calls
  <1>3. OneKindOfHook /\ PatchesFit /\ LabelsKnown /\ Reached
    BY DEF LabelInit, OneKindOfHook, PatchesFit, PatchFits, LabelsKnown, Reached
  <1> QED BY <1>2, <1>3 DEF LabelIInv, LabelsGood

\* How a hook of u ends, or goes on.
LEMMA AbandonType ==
    ASSUME LabelTypeOK, NEW u \in LabelUnits, Abandon(u)
    PROVE  /\ hook' \in [LabelUnits -> {"none", "changed", "broken"}]
           /\ call' \in [LabelUnits -> Calls]
           /\ hook'[u] = "none" /\ call'[u] = "none"
           /\ \A v \in LabelUnits \ {u} : hook'[v] = hook[v] /\ call'[v] = call[v]
           /\ changedDue' \subseteq LabelUnits /\ brokenDue' \subseteq LabelUnits
           /\ begun' = begun
  BY DEF Abandon, LabelTypeOK, Calls

\* The types of what the calls of a hook leave.
LEMMA EndType ==
    ASSUME LabelTypeOK, NEW u \in LabelUnits, End(u)
    PROVE  /\ hook' \in [LabelUnits -> {"none", "changed", "broken"}]
           /\ call' \in [LabelUnits -> Calls]
           /\ hook'[u] = "none" /\ call'[u] = "none"
           /\ \A v \in LabelUnits \ {u} : hook'[v] = hook[v] /\ call'[v] = call[v]
           /\ UNCHANGED <<changedDue, brokenDue>>
           /\ begun' = begun \ {u}
  BY DEF End, LabelTypeOK, Calls

LEMMA GotoType ==
    ASSUME LabelTypeOK, NEW u \in LabelUnits, NEW c \in Calls \ {"none"},
           call[u] # "none", Goto(u, c)
    PROVE  /\ call' \in [LabelUnits -> Calls]
           /\ call'[u] = c
           /\ \A v \in LabelUnits \ {u} : call'[v] = call[v]
           /\ UNCHANGED <<hook, changedDue, brokenDue, begun>>
  BY DEF Goto, LabelTypeOK

LEMMA ApplyType ==
    ASSUME LabelTypeOK, NEW L \in SUBSET Labels, NEW u \in LabelUnits
    PROVE  Apply(L, patch[u]) \in SUBSET Labels
  BY DEF Apply, LabelTypeOK

LEMMA BeginType ==
    ASSUME LabelTypeOK, NEW u \in LabelUnits, NEW L \in SUBSET Labels, GetRecord(u, L)
    PROVE  /\ hook[u] = "none"
           /\ hook' \in [LabelUnits -> {"none", "changed", "broken"}]
           /\ hook'[u] # "none" /\ call'[u] \in {"create", "statefulset"}
           /\ call' \in [LabelUnits -> Calls]
           /\ patch' \in [LabelUnits -> [set : SUBSET Labels, unset : SUBSET Labels]]
           /\ patch'[u] = [set |-> L, unset |-> Outgoing(labelRecord, L)]
           /\ \A v \in LabelUnits \ {u} : /\ hook'[v] = hook[v] /\ call'[v] = call[v]
                                          /\ patch'[v] = patch[v]
           /\ changedDue' \subseteq LabelUnits /\ brokenDue' \subseteq LabelUnits
           /\ begun' = begun \cup {u} /\ outdated' = outdated \ {u}
           /\ unversioned' = unversioned \ {u}
           /\ UNCHANGED <<others, objects>>
  <1>1. Outgoing(labelRecord, L) \in SUBSET Labels
    BY DEF Outgoing, LabelTypeOK
  <1> QED BY <1>1 DEF GetRecord, Begin, LabelTypeOK, Calls

LEMMA LabelTypeKept == LabelTypeOK /\ [LabelNext]_labelVars => LabelTypeOK'
  <1> SUFFICES ASSUME LabelTypeOK, [LabelNext]_labelVars PROVE LabelTypeOK'
    OBVIOUS
  <1> USE DEF others, mesh, objects
  <1>1. ASSUME NEW u \in LabelUnits, NEW L \in SUBSET Labels, GetRecord(u, L)
        PROVE  LabelTypeOK'
    <2>1. \A v \in LabelUnits : /\ call'[v] = "none" <=> hook'[v] = "none"
                                /\ call'[v] = "delete" => hook'[v] = "broken"
                                /\ hook'[v] # "none" => v \in begun'
      <3> TAKE v \in LabelUnits
      <3>1. CASE v = u
        BY <1>1, <3>1, BeginType
      <3>2. CASE v # u
        BY <1>1, <3>2, BeginType DEF LabelTypeOK
      <3> QED BY <3>1, <3>2
    <2>2. /\ hook' \in [LabelUnits -> {"none", "changed", "broken"}]
          /\ call' \in [LabelUnits -> Calls]
          /\ patch' \in [LabelUnits -> [set : SUBSET Labels, unset : SUBSET Labels]]
          /\ changedDue' \subseteq LabelUnits /\ brokenDue' \subseteq LabelUnits
          /\ begun' = begun \cup {u} /\ outdated' = outdated \ {u}
          /\ unversioned' = unversioned \ {u}
          /\ UNCHANGED <<others, objects>>
      BY <1>1, BeginType
    <2> QED BY <2>1, <2>2 DEF LabelTypeOK
  <1>2. ASSUME NEW u \in LabelUnits, CreateRecord(u)
        PROVE  LabelTypeOK'
    <2>1. CASE labelRecord = Missing
      BY <1>2, <2>1, GotoType DEF CreateRecord, LabelTypeOK, Calls
    <2>2. CASE labelRecord # Missing
      BY <1>2, <2>2, AbandonType DEF CreateRecord, LabelTypeOK
    <2> QED BY <2>1, <2>2
  <1>3. ASSUME NEW u \in LabelUnits, PatchStatefulSet(u)
        PROVE  LabelTypeOK'
    BY <1>3, ApplyType, GotoType DEF PatchStatefulSet, LabelTypeOK, Calls
  <1>4. ASSUME NEW u \in LabelUnits, PatchService(u)
        PROVE  LabelTypeOK'
    BY <1>4, ApplyType, GotoType DEF PatchService, LabelTypeOK, Calls
  <1>5. ASSUME NEW u \in LabelUnits, PatchRecord(u)
        PROVE  LabelTypeOK'
    <2>1. outdated' \subseteq LabelUnits /\ labelRecord' \in (SUBSET Labels) \cup {Missing}
      BY <1>5 DEF PatchRecord, Overtaken, LabelTypeOK
    <2>2. UNCHANGED <<others, podLabels, serviceLabels, patch, unversioned>>
      BY <1>5 DEF PatchRecord
    <2>3. CASE Abandon(u)
      BY <2>1, <2>2, <2>3, AbandonType DEF LabelTypeOK
    <2>4. CASE End(u)
      BY <2>1, <2>2, <2>4, EndType DEF LabelTypeOK
    <2>5. CASE Goto(u, "delete") /\ hook[u] # "changed"
      BY <1>5, <2>1, <2>2, <2>5, GotoType DEF PatchRecord, LabelTypeOK, Calls
    <2> QED BY <1>5, <2>3, <2>4, <2>5 DEF PatchRecord
  <1>6. ASSUME NEW u \in LabelUnits, DeleteRecord(u)
        PROVE  LabelTypeOK'
    <2>1. outdated' \subseteq LabelUnits /\ labelRecord' = Missing
          /\ UNCHANGED <<others, podLabels, serviceLabels, patch, unversioned>>
      BY <1>6 DEF DeleteRecord, Overtaken, LabelTypeOK
    <2>3. CASE Abandon(u)
      BY <2>1, <2>3, AbandonType DEF LabelTypeOK
    <2>4. CASE End(u)
      BY <2>1, <2>4, EndType DEF LabelTypeOK
    <2> QED BY <1>6, <2>3, <2>4 DEF DeleteRecord
  <1>7. ASSUME NEW u \in LabelUnits, BrokenElsewhere(u)
        PROVE  LabelTypeOK'
    BY <1>7 DEF BrokenElsewhere, LabelTypeOK
  <1>8. ASSUME NEW u \in LabelUnits, PodRestarted(u)
        PROVE  LabelTypeOK'
    BY <1>8, AbandonType, LabelAssumption DEF PodRestarted, LabelChange, LabelTypeOK
  <1>9. ASSUME NEW u \in LabelUnits, LabelLeaseMoves(u)
        PROVE  LabelTypeOK'
    BY <1>9, LabelAssumption DEF LabelLeaseMoves, LabelChange, LabelTypeOK
  <1>10. ASSUME NEW L \in SUBSET Labels, PublishLabels(L)
         PROVE  LabelTypeOK'
    BY <1>10, LabelAssumption DEF PublishLabels, LabelChange, LabelTypeOK
  <1>11. CASE OnToMesh
    BY <1>11, LabelAssumption DEF OnToMesh, LabelChange, LabelTypeOK
  <1>13. CASE OffMesh
    <2>1. labelChanges' \in 0..MaxLabelChanges /\ changedDue' \subseteq LabelUnits
          /\ overlapped' \in BOOLEAN
      BY <1>13, LabelAssumption DEF OffMesh, LabelChange, LabelTypeOK
    <2> QED BY <1>13, <2>1 DEF OffMesh, LabelTypeOK
  <1>12. CASE UNCHANGED labelVars
    BY <1>12 DEF labelVars, LabelTypeOK
  <1> QED BY <1>1, <1>2, <1>3, <1>4, <1>5, <1>6, <1>7, <1>8, <1>9, <1>10, <1>11, <1>12,
             <1>13
          DEF LabelNext

-----------------------------------------------------------------------------
(* The calls of a hook                                                     *)

\* A patch of u leaves what is wanted, and of what its record knew of no more.
LEMMA AppliedFits ==
    ASSUME LabelTypeOK, NEW u \in LabelUnits, NEW S \in SUBSET Labels,
           patch[u].set = Wanted
    PROVE  /\ Wanted \subseteq Apply(S, patch[u])
           /\ Apply(S, patch[u]) \subseteq S \cup Wanted
           /\ S \subseteq Wanted => Apply(S, patch[u]) \subseteq Wanted
           /\ S = Wanted => Apply(S, patch[u]) = Wanted
           /\ S \subseteq patch[u].unset \cup Wanted => Apply(S, patch[u]) \subseteq Wanted
  BY DEF Apply

\* An interrupted hook leaves what it did, and is still to be handled.
LEMMA AbandonKeeps ==
    ASSUME LabelTypeOK, LabelsGood, NEW u \in LabelUnits, Abandon(u), u \in begun,
           Wanted' = Wanted, Recorded' = Recorded,
           UNCHANGED <<onMesh, meshLabels, labelLeader, leaseLost, podLabels,
                       serviceLabels, labelRecord, patch, unversioned>>,
           outdated \subseteq outdated'
    PROVE  LabelsGood'
  <1>1. OneKindOfHook'
    BY DEF LabelsGood, OneKindOfHook, Abandon, LabelTypeOK
  <1>2. PatchesFit'
    <2> SUFFICES ASSUME NEW v \in LabelUnits PROVE PatchFits(v)'
      BY DEF PatchesFit
    <2>1. PatchFits(v) /\ (call'[v] = "none" \/ call'[v] = call[v])
      BY AbandonType DEF LabelsGood, PatchesFit
    <2> QED BY <2>1 DEF PatchFits
  <1>3. LabelsKnown'
    BY AbandonType DEF LabelsGood, LabelsKnown
  <1>4. Reached'
    BY DEF LabelsGood, Reached, Abandon
  <1> QED BY <1>1, <1>2, <1>3, <1>4 DEF LabelsGood

\* A hook begins with what is wanted and with the labels that have been recorded.
LEMMA GetRecordKeeps ==
    ASSUME LabelTypeOK, LabelsGood, NEW u \in LabelUnits, NEW L \in SUBSET Labels,
           GetRecord(u, L)
    PROVE  LabelsGood'
  <1>1. /\ Wanted' = Wanted /\ Recorded' = Recorded
        /\ UNCHANGED <<onMesh, meshLabels, labelLeader, leaseLost, podLabels, serviceLabels,
                       labelRecord>>
    <2>1. UNCHANGED <<others, objects>>
      BY BeginType
    <2> QED BY <2>1 DEF others, objects, mesh, Wanted, Recorded
  <1>2. /\ L = Wanted /\ OneKindOfHook'
        /\ ~onMesh => u = labelLeader
    BY DEF GetRecord, Begin, LabelsGood, OneKindOfHook, Wanted, LabelTypeOK, others, mesh
  <1>3. PatchesFit'
    <2> SUFFICES ASSUME NEW v \in LabelUnits PROVE PatchFits(v)'
      BY DEF PatchesFit
    <2>1. CASE v = u
      <3>1. Recorded \subseteq Outgoing(labelRecord, L) \cup Wanted
        BY <1>2 DEF Recorded, Outgoing
      <3>2. /\ patch'[u] = [set |-> L, unset |-> Outgoing(labelRecord, L)]
            /\ call'[u] \in {"create", "statefulset"} /\ u \notin unversioned'
        BY BeginType
      <3> QED BY <1>1, <1>2, <2>1, <3>1, <3>2 DEF PatchFits
    <2>2. CASE v # u
      <3>1. /\ call'[v] = call[v] /\ patch'[v] = patch[v]
            /\ v \in outdated' <=> v \in outdated
            /\ v \in unversioned' <=> v \in unversioned
        BY <2>2, BeginType
      <3>2. PatchFits(v)
        BY DEF LabelsGood, PatchesFit
      <3> QED BY <1>1, <3>1, <3>2 DEF PatchFits
    <2> QED BY <2>1, <2>2
  <1>4. begun' = begun \cup {u} /\ u \in begun'
    BY BeginType
  <1>5. LabelsKnown'
    BY <1>1, <1>4 DEF LabelsGood, LabelsKnown
  <1>6. Reached'
    BY <1>1, <1>2, <1>4 DEF LabelsGood, Reached
  <1> QED BY <1>2, <1>3, <1>5, <1>6 DEF LabelsGood

\* The record of a hook that has none is empty.
LEMMA CreateRecordKeeps ==
    ASSUME LabelTypeOK, LabelsGood, NEW u \in LabelUnits, CreateRecord(u)
    PROVE  LabelsGood'
  <1>1. /\ Wanted' = Wanted
        /\ UNCHANGED <<onMesh, meshLabels, labelLeader, leaseLost, podLabels, serviceLabels,
                       patch, outdated>>
    BY DEF CreateRecord, others, mesh, Wanted
  <1>2. call[u] = "create" /\ hook[u] # "none" /\ u \in begun
    BY DEF CreateRecord, LabelTypeOK
  <1>3. CASE labelRecord = Missing
    <2>1. /\ labelRecord' = {} /\ Goto(u, "statefulset")
          /\ unversioned' = unversioned \cup {u}
      BY <1>3 DEF CreateRecord
    <2>2. /\ call'[u] = "statefulset"
          /\ \A v \in LabelUnits \ {u} : call'[v] = call[v]
          /\ UNCHANGED <<hook, changedDue, brokenDue, begun>>
      BY <1>2, <2>1, GotoType DEF Calls
    <2>3. Recorded' = {} /\ Recorded = {}
      BY <1>3, <2>1 DEF Recorded
    <2>4. PatchesFit'
      <3> SUFFICES ASSUME NEW v \in LabelUnits PROVE PatchFits(v)'
        BY DEF PatchesFit
      <3>1. PatchFits(v)
        BY DEF LabelsGood, PatchesFit
      <3> QED BY <1>1, <1>2, <2>2, <2>3, <3>1 DEF PatchFits
    <2>5. OneKindOfHook' /\ LabelsKnown'
      BY <1>1, <2>2, <2>3 DEF LabelsGood, OneKindOfHook, LabelsKnown
    <2>6. Reached'
      BY <1>1, <1>2, <2>2 DEF LabelsGood, Reached
    <2> QED BY <2>4, <2>5, <2>6 DEF LabelsGood
  <1>4. CASE labelRecord # Missing
    <2>1. UNCHANGED <<labelRecord, unversioned>> /\ Abandon(u)
      BY <1>4 DEF CreateRecord
    <2>2. Recorded' = Recorded
      BY <2>1 DEF Recorded
    <2> QED BY <1>1, <1>2, <2>1, <2>2, AbandonKeeps
  <1> QED BY <1>3, <1>4

\* The patches of u, to pods and to the Service.
LEMMA PatchObjectKeeps ==
    ASSUME LabelTypeOK, LabelsGood, NEW u \in LabelUnits,
           PatchStatefulSet(u) \/ PatchService(u)
    PROVE  LabelsGood'
  <1>1. /\ Wanted' = Wanted /\ Recorded' = Recorded
        /\ UNCHANGED <<onMesh, meshLabels, labelLeader, leaseLost, labelRecord, patch,
                       outdated, unversioned, hook, changedDue, brokenDue, begun>>
    BY DEF PatchStatefulSet, PatchService, Goto, others, mesh, Wanted, Recorded
  <1>2. call[u] \in {"statefulset", "service"} /\ u \in begun /\ begun # {}
    BY DEF PatchStatefulSet, PatchService, LabelTypeOK
  <1>3. PatchFits(u) /\ patch[u].set = Wanted
    BY <1>2 DEF LabelsGood, PatchesFit, PatchFits
  <1>4. podLabels \in SUBSET Labels /\ serviceLabels \in SUBSET Labels
    BY DEF LabelTypeOK
  <1>5. OneKindOfHook'
    BY <1>1 DEF LabelsGood, OneKindOfHook
  <1>6. podLabels \cup serviceLabels \subseteq Recorded \cup Wanted
    BY <1>2 DEF LabelsGood, LabelsKnown
  <1>7. CASE PatchStatefulSet(u)
    <2> DEFINE new == Apply(podLabels, patch[u])
    <2>1. podLabels' = new /\ serviceLabels' = serviceLabels /\ call[u] = "statefulset"
      BY <1>7 DEF PatchStatefulSet
    <2>2. /\ call'[u] = "service"
          /\ \A v \in LabelUnits \ {u} : call'[v] = call[v]
      BY <1>7, <1>2, GotoType DEF PatchStatefulSet, Calls
    <2>3. /\ Wanted \subseteq new /\ new \subseteq podLabels \cup Wanted
          /\ podLabels \subseteq Wanted => new \subseteq Wanted
          /\ podLabels = Wanted => new = Wanted
          /\ podLabels \subseteq patch[u].unset \cup Wanted => new \subseteq Wanted
      BY <1>3, <1>4, AppliedFits
    <2> HIDE DEF new
    <2>4. PatchesFit'
      <3> SUFFICES ASSUME NEW v \in LabelUnits PROVE PatchFits(v)'
        BY DEF PatchesFit
      <3>1. CASE v = u
        BY <1>1, <1>3, <1>6, <2>1, <2>2, <2>3, <3>1 DEF PatchFits
      <3>2. CASE v # u
        <4>1. PatchFits(v)
          BY DEF LabelsGood, PatchesFit
        <4> QED BY <1>1, <2>1, <2>2, <2>3, <3>2, <4>1 DEF PatchFits
      <3> QED BY <3>1, <3>2
    <2>5. LabelsKnown'
      BY <1>1, <1>2, <1>6, <2>1, <2>3 DEF LabelsKnown
    <2>6. Reached'
      BY <1>1, <1>2, <2>1, <2>3 DEF LabelsGood, Reached
    <2> QED BY <1>5, <2>4, <2>5, <2>6 DEF LabelsGood
  <1>8. CASE PatchService(u)
    <2> DEFINE new == Apply(serviceLabels, patch[u])
    <2>1. serviceLabels' = new /\ podLabels' = podLabels /\ call[u] = "service"
      BY <1>8 DEF PatchService
    <2>2. /\ call'[u] = "configmap"
          /\ \A v \in LabelUnits \ {u} : call'[v] = call[v]
      BY <1>8, <1>2, GotoType DEF PatchService, Calls
    <2>3. /\ Wanted \subseteq new /\ new \subseteq serviceLabels \cup Wanted
          /\ serviceLabels \subseteq Wanted => new \subseteq Wanted
          /\ serviceLabels = Wanted => new = Wanted
          /\ serviceLabels \subseteq patch[u].unset \cup Wanted => new \subseteq Wanted
      BY <1>3, <1>4, AppliedFits
    <2> HIDE DEF new
    <2>4. PatchesFit'
      <3> SUFFICES ASSUME NEW v \in LabelUnits PROVE PatchFits(v)'
        BY DEF PatchesFit
      <3>1. CASE v = u
        BY <1>1, <1>3, <1>6, <2>1, <2>2, <2>3, <3>1 DEF PatchFits
      <3>2. CASE v # u
        <4>1. PatchFits(v)
          BY DEF LabelsGood, PatchesFit
        <4> QED BY <1>1, <2>1, <2>2, <2>3, <3>2, <4>1 DEF PatchFits
      <3> QED BY <3>1, <3>2
    <2>5. LabelsKnown'
      BY <1>1, <1>2, <1>6, <2>1, <2>3 DEF LabelsKnown
    <2>6. Reached'
      BY <1>1, <1>2, <2>1, <2>3 DEF LabelsGood, Reached
    <2> QED BY <1>5, <2>4, <2>5, <2>6 DEF LabelsGood
  <1> QED BY <1>7, <1>8

\* The record of a hook whose copy has not been overtaken: pods and service carry
\* just what is wanted then.
LEMMA PatchRecordKeeps ==
    ASSUME LabelTypeOK, LabelsGood, NEW u \in LabelUnits, PatchRecord(u)
    PROVE  LabelsGood'
  <1>1. /\ Wanted' = Wanted
        /\ UNCHANGED <<onMesh, meshLabels, labelLeader, leaseLost, podLabels, serviceLabels,
                       patch, unversioned>>
    BY DEF PatchRecord, others, mesh, Wanted
  <1>2. call[u] = "configmap" /\ hook[u] # "none" /\ u \in begun
    BY DEF PatchRecord, LabelTypeOK
  <1>3. CASE labelRecord = Missing \/ u \in outdated \ unversioned
    <2>1. Abandon(u) /\ UNCHANGED <<labelRecord, outdated>>
      BY <1>3 DEF PatchRecord
    <2>2. Recorded' = Recorded
      BY <2>1 DEF Recorded
    <2> QED BY <1>1, <1>2, <2>1, <2>2, AbandonKeeps
  <1>4. CASE labelRecord # Missing /\ u \notin outdated \ unversioned
    <2>1. labelRecord' = patch[u].set /\ Overtaken(u)
      BY <1>4 DEF PatchRecord
    <2>2. PatchFits(u)
      BY DEF LabelsGood, PatchesFit
    <2>3. /\ labelRecord' = Wanted /\ labelRecord' # Missing
          /\ podLabels = Wanted /\ serviceLabels = Wanted
      <3>1. Wanted \subseteq podLabels /\ Wanted \subseteq serviceLabels
        BY <1>2, <2>2 DEF PatchFits
      <3>2. podLabels \subseteq Wanted /\ serviceLabels \subseteq Wanted
        <4>1. CASE u \notin outdated
          BY <1>2, <2>2, <4>1 DEF PatchFits
        <4>2. CASE u \in unversioned
          BY <1>2, <2>2, <4>2 DEF PatchFits, LabelsGood, LabelsKnown
        <4> QED BY <1>4, <4>1, <4>2
      <3>3. labelRecord' = Wanted /\ labelRecord' # Missing
        BY <1>2, <2>1, <2>2, LabelAssumption DEF PatchFits, LabelTypeOK, Wanted
      <3> QED BY <3>1, <3>2, <3>3
    <2>4. Recorded' = Wanted
      BY <2>3 DEF Recorded
    <2>5. /\ call'[u] \in {"none", "delete"}
          /\ \A v \in LabelUnits \ {u} : call'[v] = call[v] /\ hook'[v] = hook[v]
          /\ UNCHANGED <<changedDue, brokenDue>>
          /\ hook'[u] \in {"none", hook[u]}
          /\ \/ call'[u] = "none" /\ begun' = begun \ {u} /\ hook[u] = "changed"
             \/ call'[u] = "delete" /\ begun' = begun /\ hook[u] = "broken"
      <3>1. CASE hook[u] = "changed"
        <4>1. End(u)
          BY <1>4, <3>1 DEF PatchRecord
        <4> QED BY <3>1, <4>1, EndType
      <3>2. CASE hook[u] # "changed"
        BY <1>2, <1>4, <3>2, GotoType DEF PatchRecord, LabelTypeOK, Calls
      <3> QED BY <3>1, <3>2
    <2>6. OneKindOfHook'
      BY <1>1, <2>5 DEF LabelsGood, OneKindOfHook
    <2>7. hook[u] = "broken" => Wanted = {}
      BY DEF LabelsGood, OneKindOfHook, Wanted
    <2>8. PatchesFit'
      <3> SUFFICES ASSUME NEW v \in LabelUnits PROVE PatchFits(v)'
        BY DEF PatchesFit
      <3>1. CASE v = u
        BY <1>1, <2>2, <2>3, <2>4, <2>5, <2>7, <3>1, <1>2 DEF PatchFits
      <3>2. CASE v # u
        <4>1. PatchFits(v) /\ call'[v] = call[v]
          BY <2>5, <3>2 DEF LabelsGood, PatchesFit
        <4>2. v \notin outdated' => v \notin outdated /\ labelRecord' = labelRecord
          BY <2>1, <3>2 DEF Overtaken
        <4>3. call[v] = "delete" => Wanted = {}
          BY DEF LabelsGood, OneKindOfHook, Wanted, LabelTypeOK
        <4> QED BY <1>1, <2>3, <2>4, <4>1, <4>2, <4>3 DEF PatchFits
      <3> QED BY <3>1, <3>2
    <2>9. LabelsKnown'
      BY <1>1, <2>3, <2>4 DEF LabelsKnown
    <2>10. Reached'
      BY <1>1, <1>2, <2>3, <2>5 DEF LabelsGood, OneKindOfHook, Reached
    <2> QED BY <2>6, <2>8, <2>9, <2>10 DEF LabelsGood
  <1> QED BY <1>3, <1>4

LEMMA DeleteRecordKeeps ==
    ASSUME LabelTypeOK, LabelsGood, NEW u \in LabelUnits, DeleteRecord(u)
    PROVE  LabelsGood'
  <1>1. /\ Wanted' = Wanted
        /\ UNCHANGED <<onMesh, meshLabels, labelLeader, leaseLost, podLabels, serviceLabels,
                       patch, unversioned>>
        /\ labelRecord' = Missing /\ Overtaken(u)
    BY DEF DeleteRecord, others, mesh, Wanted
  <1>2. /\ call[u] = "delete" /\ hook[u] = "broken" /\ u \in begun
        /\ Wanted = {} /\ ~onMesh
    BY DEF DeleteRecord, LabelTypeOK, LabelsGood, OneKindOfHook, Wanted
  <1>3. Recorded = {} /\ Recorded' = {}
    BY <1>1, <1>2 DEF LabelsGood, PatchesFit, PatchFits, Recorded
  <1>4. podLabels = {} /\ serviceLabels = {}
    BY <1>2, <1>3 DEF LabelsGood, LabelsKnown
  <1>5. outdated \subseteq outdated'
    BY <1>1 DEF Overtaken
  <1>6. CASE labelRecord = Missing
    <2>1. Abandon(u)
      BY <1>6 DEF DeleteRecord
    <2> QED BY <1>1, <1>2, <1>3, <1>5, <1>6, <2>1, AbandonKeeps
  <1>7. CASE labelRecord # Missing
    <2>1. /\ hook'[u] = "none" /\ call'[u] = "none"
          /\ \A v \in LabelUnits \ {u} : hook'[v] = hook[v] /\ call'[v] = call[v]
          /\ UNCHANGED <<changedDue, brokenDue>>
          /\ begun' = begun \ {u}
      BY <1>7, EndType DEF DeleteRecord
    <2>2. OneKindOfHook'
      BY <1>1, <2>1 DEF LabelsGood, OneKindOfHook
    <2>3. PatchesFit'
      <3> SUFFICES ASSUME NEW v \in LabelUnits PROVE PatchFits(v)'
        BY DEF PatchesFit
      <3>1. PatchFits(v) /\ (call'[v] = call[v] \/ call'[v] = "none")
        BY <2>1 DEF LabelsGood, PatchesFit
      <3> QED BY <1>1, <1>3, <1>5, <3>1 DEF PatchFits
    <2>4. LabelsKnown'
      BY <1>1, <1>4 DEF LabelsKnown
    <2>5. Reached'
      BY <1>1, <1>2, <1>4, <2>1 DEF LabelsGood, Reached
    <2> QED BY <2>2, <2>3, <2>4, <2>5 DEF LabelsGood
  <1> QED BY <1>6, <1>7

LEMMA BrokenElsewhereKeeps ==
    ASSUME LabelTypeOK, LabelsGood, NEW u \in LabelUnits, BrokenElsewhere(u)
    PROVE  LabelsGood'
  <1>1. /\ UNCHANGED <<onMesh, meshLabels, labelLeader, leaseLost, changedDue, hook, call,
                       podLabels, serviceLabels, labelRecord, patch, outdated, unversioned>>
        /\ brokenDue' = brokenDue \ {u} /\ begun' = begun \ {u}
        /\ u \in brokenDue /\ u # labelLeader
    BY DEF BrokenElsewhere, others, mesh, objects
  <1>2. ~onMesh /\ Wanted = {} /\ Wanted' = {} /\ Recorded' = Recorded
    BY <1>1 DEF LabelsGood, OneKindOfHook, Wanted, Recorded
  <1>3. OneKindOfHook'
    BY <1>1, <1>2 DEF LabelsGood, OneKindOfHook
  <1>4. PatchesFit'
    BY <1>1, <1>2 DEF LabelsGood, PatchesFit, PatchFits
  <1>5. LabelsKnown'
    BY <1>1, <1>2 DEF LabelsGood, LabelsKnown
  <1>6. Reached'
    BY <1>1, <1>2 DEF LabelsGood, Reached
  <1> QED BY <1>3, <1>4, <1>5, <1>6 DEF LabelsGood

-----------------------------------------------------------------------------
(* The environment                                                         *)

\* What the charm wants changes while no hook is unfinished, or there is no promise.
LEMMA WantsKeep ==
    ASSUME LabelTypeOK, LabelsGood, ~overlapped',
           OnToMesh \/ OffMesh \/ \E L \in SUBSET Labels : PublishLabels(L)
    PROVE  LabelsGood'
  <1>1. /\ begun = {} /\ begun' = {}
        /\ UNCHANGED <<labelLeader, leaseLost, hook, call, podLabels, serviceLabels,
                       labelRecord, patch, outdated, unversioned>>
    BY DEF OnToMesh, OffMesh, PublishLabels, objects
  <1>2. /\ \A u \in LabelUnits : hook[u] = "none" /\ call[u] = "none"
        /\ Recorded' = Recorded
    BY <1>1 DEF LabelTypeOK, Recorded
  <1>3. PatchesFit'
    BY <1>1, <1>2 DEF PatchesFit, PatchFits
  <1>4. LabelsKnown'
    BY <1>1, <1>2 DEF LabelsGood, LabelsKnown
  <1>5. OneKindOfHook' /\ Reached'
    <2>1. CASE OnToMesh
      BY <1>1, <1>2, <2>1 DEF OnToMesh, LabelsGood, OneKindOfHook, Reached, Wanted
    <2>2. CASE OffMesh
      BY <1>1, <1>2, <2>2 DEF OffMesh, LabelTypeOK, OneKindOfHook, Reached
    <2>3. ASSUME NEW L \in SUBSET Labels, PublishLabels(L)
          PROVE  OneKindOfHook' /\ Reached'
      <3>1. /\ onMesh /\ onMesh' /\ changedDue' = LabelUnits
            /\ UNCHANGED brokenDue /\ labelLeader \in LabelUnits
        BY <2>3 DEF PublishLabels, LabelTypeOK
      <3> QED BY <1>1, <1>2, <3>1 DEF LabelsGood, OneKindOfHook, Reached
    <2> QED BY <2>1, <2>2, <2>3
  <1> QED BY <1>3, <1>4, <1>5 DEF LabelsGood

LEMMA LabelLeaseKeeps ==
    ASSUME LabelTypeOK, LabelsGood, NEW u \in LabelUnits, LabelLeaseMoves(u)
    PROVE  LabelsGood'
  <1>1. /\ UNCHANGED <<onMesh, meshLabels, changedDue, brokenDue, hook, call, podLabels,
                       serviceLabels, labelRecord, patch, outdated, unversioned, begun>>
        /\ leaseLost' = TRUE
    BY DEF LabelLeaseMoves, mesh, objects
  <1>2. Wanted' = Wanted /\ Recorded' = Recorded
    BY <1>1 DEF Wanted, Recorded
  <1> QED BY <1>1, <1>2
          DEF LabelsGood, OneKindOfHook, PatchesFit, PatchFits, LabelsKnown, Reached

LEMMA PodRestartKeeps ==
    ASSUME LabelTypeOK, LabelsGood, NEW u \in LabelUnits, PodRestarted(u)
    PROVE  LabelsGood'
  <1>1. /\ UNCHANGED <<onMesh, meshLabels, labelLeader, leaseLost, podLabels,
                       serviceLabels, labelRecord, patch, outdated, unversioned>>
        /\ Abandon(u) /\ u \in begun
    BY DEF PodRestarted, mesh, objects, LabelTypeOK
  <1>2. Wanted' = Wanted /\ Recorded' = Recorded
    BY <1>1 DEF Wanted, Recorded
  <1> QED BY <1>1, <1>2, AbandonKeeps

-----------------------------------------------------------------------------

LEMMA LabelInvariant == LabelSpec => []LabelIInv
  <1>1. LabelIInv /\ [LabelNext]_labelVars => LabelIInv'
    <2> SUFFICES ASSUME LabelTypeOK, ~overlapped => LabelsGood, [LabelNext]_labelVars,
                        ~overlapped'
                 PROVE  LabelsGood'
      BY LabelTypeKept DEF LabelIInv
    <2>1. CASE UNCHANGED labelVars
      <3>1. Wanted' = Wanted /\ Recorded' = Recorded
        BY <2>1 DEF labelVars, mesh, objects, Wanted, Recorded
      <3> QED BY <2>1, <3>1 DEF labelVars, mesh, objects,
              LabelsGood, OneKindOfHook, PatchesFit, PatchFits, LabelsKnown, Reached
    <2>2. CASE LabelNext
      <3>1. ~overlapped
        BY <2>2 DEF LabelNext, GetRecord, CreateRecord, PatchStatefulSet, PatchService,
           PatchRecord, DeleteRecord, BrokenElsewhere, PodRestarted, LabelLeaseMoves,
           PublishLabels, OnToMesh, OffMesh, others, LabelTypeOK
      <3> QED BY <2>2, <3>1, GetRecordKeeps, CreateRecordKeeps, PatchObjectKeeps,
              PatchRecordKeeps, DeleteRecordKeeps, BrokenElsewhereKeeps,
              PodRestartKeeps, LabelLeaseKeeps, WantsKeep DEF LabelNext
    <2> QED BY <2>1, <2>2
  <1> QED BY <1>1, LabelInitIInv, PTL DEF LabelSpec

\* Labels of the mesh are neither forgotten on pods and Service nor missing from
\* them in the end (reconcile_charm_labels), for any labels, any number of units
\* whose calls interleave, and any failures between two calls.
THEOREM LabelsAlwaysFollow == LabelSpec => []LabelsFollow
  <1>1. LabelIInv => LabelsFollow
    <2> SUFFICES ASSUME LabelTypeOK, ~overlapped, LabelsGood PROVE LabelsFollow
      BY DEF LabelIInv, LabelsFollow, NoLabelForgotten, LabelsReconciled
    <2>1. NoLabelForgotten
      BY DEF LabelsGood, LabelsKnown, NoLabelForgotten, Recorded, Wanted
    <2>2. LabelsReconciled
      BY DEF LabelsGood, Reached, LabelsReconciled, Wanted
    <2> QED BY <2>1, <2>2 DEF LabelsFollow
  <1> QED BY <1>1, LabelInvariant, PTL

------------------------------------------------------------------------------
(* Resource limits                                                         *)

Covers(r) == r # Untouched /\ r.limit # Unlimited => r.limit >= r.request

\* A unit that has nothing to handle and has not failed has patched what is
\* configured, or another one has.
TemplateCurrent ==
    \A u \in PatchUnits \ (configDue \cup patchFailed) :
        IsSpec(limitOption) /\ template = Adjusted(limitOption)

\* What the controller says of the rollout is right once it has seen the template.
RolloutKnown == observed /\ rolledOut => \A u \in PatchUnits : pod[u] = template

PatchIInv ==
    /\ PatchTypeOK /\ TemplateCurrent /\ RolloutKnown /\ ActiveMeansRolledOut
    /\ Covers(template) /\ \A u \in PatchUnits : Covers(pod[u])

-----------------------------------------------------------------------------

\* adjust_resource_requirements raises a limit to the request.
LEMMA AdjustedCovers ==
    ASSUME NEW o, IsSpec(o)
    PROVE  Adjusted(o) \in Requirements /\ Covers(Adjusted(o))
  BY PatchAssumption DEF IsSpec, Adjusted, Requirements, Covers

LEMMA PatchInitIInv == PatchInit => PatchIInv
  <1> SUFFICES ASSUME PatchInit PROVE PatchIInv
    OBVIOUS
  <1>1. patchChanges \in 0..MaxPatchChanges
    BY PatchAssumption DEF PatchInit
  <1>2. PatchTypeOK
    BY <1>1 DEF PatchInit, PatchTypeOK
  <1> QED BY <1>2 DEF PatchInit, PatchIInv, TemplateCurrent, RolloutKnown, Covers,
                      ActiveMeansRolledOut

\* What a unit reports at the end of a hook: active only if the controller has
\* seen the template and replaced every pod, or the StatefulSet was not read.
LEMMA ReportKeeps ==
    ASSUME PatchTypeOK, ActiveMeansRolledOut, RolloutKnown',
           NEW u \in PatchUnits, NEW answers \in BOOLEAN, NEW reads \in BOOLEAN,
           Report(u, answers, reads)
    PROVE  /\ patchStatus' \in [PatchUnits -> {"unknown", "blocked", "waiting", "active"}]
           /\ unread' \subseteq PatchUnits /\ premature' \subseteq PatchUnits
           /\ ActiveMeansRolledOut'
  <1>1. /\ patchStatus' = [patchStatus EXCEPT ![u] = StatusWhen(answers, reads)]
        /\ unread' = IF IsFailed(answers) \/ reads THEN unread \ {u} ELSE unread \cup {u}
        /\ premature' = IF /\ patchStatus'[u] = "active"
                           /\ \E v \in PatchUnits : pod'[v] # template'
                        THEN premature \cup {u} ELSE premature \ {u}
    BY DEF Report
  <1>2. StatusWhen(answers, reads) \in {"unknown", "blocked", "waiting", "active"}
    BY DEF StatusWhen
  <1>3. patchStatus'[u] = StatusWhen(answers, reads)
    BY <1>1 DEF PatchTypeOK
  <1>4. ASSUME StatusWhen(answers, reads) = "active",
               \E v \in PatchUnits : pod'[v] # template'
        PROVE  u \in unread'
    <2>1. ~IsFailed(answers) /\ ~(reads /\ InProgress(template', observed', rolledOut', readyPods'))
      BY <1>4 DEF StatusWhen
    <2>2. InProgress(template', observed', rolledOut', readyPods')
      BY <1>4 DEF InProgress, RolloutKnown
    <2> QED BY <1>1, <2>1, <2>2
  <1>5. premature' \subseteq unread'
    BY <1>1, <1>3, <1>4 DEF ActiveMeansRolledOut
  <1> QED BY <1>1, <1>2, <1>5 DEF PatchTypeOK, ActiveMeansRolledOut

\* A patch, whatever the unit reports after it: it leaves what is known of the
\* template, the rollout and the pods.
LEMMA PatchKeeps ==
    ASSUME PatchIInv, NEW u \in PatchUnits, NEW patches \in BOOLEAN, PatchOnce(u, patches),
           UNCHANGED <<limitOption, trusted, rolledOut, pod, readyPods, patchChanges>>,
           configDue' \in {configDue, configDue \ {u}}
    PROVE  /\ template' \in Requirements \cup {Untouched} /\ observed' \in BOOLEAN
           /\ patchFailed' \subseteq PatchUnits
           /\ TemplateCurrent' /\ RolloutKnown'
           /\ Covers(template') /\ \A v \in PatchUnits : Covers(pod'[v])
  <1>1. CASE IsSpec(limitOption) /\ trusted /\ patches
    <2>1. ApplyTemplate(Adjusted(limitOption)) /\ patchFailed' = patchFailed \ {u}
      BY <1>1 DEF PatchOnce
    <2>2. /\ template' = Adjusted(limitOption) /\ observed' \in BOOLEAN
          /\ UNCHANGED <<template, observed>> \/ observed' = FALSE
      BY <2>1 DEF ApplyTemplate, PatchIInv, PatchTypeOK
    <2>3. Covers(template') /\ template' \in Requirements
      BY <1>1, <2>2, AdjustedCovers
    <2>4. TemplateCurrent'
      BY <1>1, <2>2 DEF TemplateCurrent, IsSpec, Adjusted
    <2>5. RolloutKnown'
      BY <2>2 DEF PatchIInv, RolloutKnown
    <2> QED BY <2>1, <2>2, <2>3, <2>4, <2>5 DEF PatchIInv, PatchTypeOK
  <1>2. CASE ~(IsSpec(limitOption) /\ trusted /\ patches)
    <2>1. UNCHANGED <<template, observed>> /\ patchFailed' = patchFailed \cup {u}
      BY <1>2 DEF PatchOnce
    <2>2. TemplateCurrent'
      BY <2>1 DEF PatchIInv, TemplateCurrent, IsSpec, Adjusted
    <2> QED BY <2>1, <2>2 DEF PatchIInv, PatchTypeOK, RolloutKnown
  <1> QED BY <1>1, <1>2

LEMMA ConfigChangedKeeps ==
    ASSUME PatchIInv, NEW u \in PatchUnits, NEW patches \in BOOLEAN,
           NEW answers \in BOOLEAN, NEW reads \in BOOLEAN,
           ConfigChanged(u, patches, answers, reads)
    PROVE  PatchIInv'
  <1>1. /\ UNCHANGED <<limitOption, trusted, rolledOut, pod, readyPods, patchChanges>>
        /\ configDue' = configDue \ {u}
        /\ PatchOnce(u, patches) /\ Report(u, answers, reads)
    BY DEF ConfigChanged
  <1>2. /\ template' \in Requirements \cup {Untouched} /\ observed' \in BOOLEAN
        /\ patchFailed' \subseteq PatchUnits
        /\ TemplateCurrent' /\ RolloutKnown'
        /\ Covers(template') /\ \A v \in PatchUnits : Covers(pod'[v])
    BY <1>1, PatchKeeps
  <1>3. /\ patchStatus' \in [PatchUnits -> {"unknown", "blocked", "waiting", "active"}]
        /\ unread' \subseteq PatchUnits /\ premature' \subseteq PatchUnits
        /\ ActiveMeansRolledOut'
    BY <1>1, <1>2, ReportKeeps DEF PatchIInv
  <1>4. PatchTypeOK'
    BY <1>1, <1>2, <1>3 DEF PatchIInv, PatchTypeOK
  <1> QED BY <1>2, <1>3, <1>4 DEF PatchIInv, Covers

LEMMA ConfigChangedFailsKeeps ==
    ASSUME PatchIInv, NEW u \in PatchUnits, ConfigChangedFails(u)
    PROVE  PatchIInv'
  <1>1. /\ UNCHANGED <<limitOption, trusted, rolledOut, pod, readyPods, patchChanges>>
        /\ UNCHANGED <<configDue, patchStatus, unread, premature>> /\ PatchOnce(u, TRUE)
    BY DEF ConfigChangedFails, reports
  <1>2. /\ template' \in Requirements \cup {Untouched} /\ observed' \in BOOLEAN
        /\ patchFailed' \subseteq PatchUnits
        /\ TemplateCurrent' /\ RolloutKnown'
        /\ Covers(template') /\ \A v \in PatchUnits : Covers(pod'[v])
    BY <1>1, PatchKeeps
  <1>3. PatchTypeOK'
    BY <1>1, <1>2 DEF PatchIInv, PatchTypeOK
  <1>4. ActiveMeansRolledOut'
    BY <1>1 DEF PatchIInv, ActiveMeansRolledOut
  <1> QED BY <1>2, <1>3, <1>4 DEF PatchIInv, Covers

LEMMA UpdateStatusKeeps ==
    ASSUME PatchIInv, NEW u \in PatchUnits, NEW answers \in BOOLEAN, NEW reads \in BOOLEAN,
           UpdateStatus(u, answers, reads)
    PROVE  PatchIInv'
  <1>1. /\ UNCHANGED <<limitOption, trusted, configDue, template, observed, rolledOut, pod,
                       readyPods, patchFailed, patchChanges>>
        /\ Report(u, answers, reads)
    BY DEF UpdateStatus, cluster
  <1>2. RolloutKnown' /\ TemplateCurrent'
    BY <1>1 DEF PatchIInv, RolloutKnown, TemplateCurrent, IsSpec, Adjusted
  <1>3. /\ patchStatus' \in [PatchUnits -> {"unknown", "blocked", "waiting", "active"}]
        /\ unread' \subseteq PatchUnits /\ premature' \subseteq PatchUnits
        /\ ActiveMeansRolledOut'
    BY <1>1, <1>2, ReportKeeps DEF PatchIInv
  <1>4. PatchTypeOK'
    BY <1>1, <1>3 DEF PatchIInv, PatchTypeOK
  <1> QED BY <1>1, <1>2, <1>3, <1>4 DEF PatchIInv, Covers

LEMMA ControllerKeeps ==
    ASSUME PatchIInv,
           Observe \/ \E u \in PatchUnits : ReplacePod(u) \/ PodBecomesReady(u)
    PROVE  PatchIInv'
  <1>1. UNCHANGED <<limitOption, trusted, template, patchFailed, patchStatus, unread,
                   premature, patchChanges>>
    BY DEF Observe, ReplacePod, PodBecomesReady, reports
  <1>2. CASE Observe
    <2>1. /\ observed' = TRUE /\ rolledOut' = (\A u \in PatchUnits : pod[u] = template)
          /\ UNCHANGED <<configDue, pod, readyPods>>
      BY <1>2 DEF Observe
    <2>2. PatchTypeOK'
      BY <1>1, <2>1 DEF PatchIInv, PatchTypeOK
    <2> QED BY <1>1, <2>1, <2>2
            DEF PatchIInv, TemplateCurrent, RolloutKnown, ActiveMeansRolledOut, Covers,
                IsSpec, Adjusted
  <1>3. ASSUME NEW u \in PatchUnits, ReplacePod(u)
        PROVE  PatchIInv'
    <2>1. /\ pod' = [pod EXCEPT ![u] = template] /\ readyPods' = readyPods \ {u}
          /\ configDue' = configDue \cup {u} /\ ~rolledOut
          /\ UNCHANGED <<observed, rolledOut>>
      BY <1>3 DEF ReplacePod
    <2>2. PatchTypeOK'
      BY <1>1, <2>1 DEF PatchIInv, PatchTypeOK
    <2>3. \A v \in PatchUnits : Covers(pod[v])'
      BY <1>1, <2>1 DEF PatchIInv, PatchTypeOK, Covers
    <2>4. TemplateCurrent' /\ RolloutKnown'
      BY <1>1, <2>1 DEF PatchIInv, TemplateCurrent, RolloutKnown, IsSpec, Adjusted
    <2> QED BY <1>1, <2>2, <2>3, <2>4 DEF PatchIInv, Covers, ActiveMeansRolledOut
  <1>4. ASSUME NEW u \in PatchUnits, PodBecomesReady(u)
        PROVE  PatchIInv'
    <2>1. /\ readyPods' = readyPods \cup {u} /\ UNCHANGED <<configDue, observed, pod>>
          /\ rolledOut' \in BOOLEAN
          /\ rolledOut' => rolledOut \/ \A v \in PatchUnits : pod[v] = template
      BY <1>4 DEF PodBecomesReady
    <2>2. PatchTypeOK'
      BY <1>1, <2>1 DEF PatchIInv, PatchTypeOK
    <2>3. RolloutKnown'
      BY <1>1, <2>1 DEF PatchIInv, RolloutKnown
    <2> QED BY <1>1, <2>1, <2>2, <2>3
            DEF PatchIInv, TemplateCurrent, ActiveMeansRolledOut, Covers, IsSpec, Adjusted
  <1> QED BY <1>2, <1>3, <1>4

LEMMA PatchEnvironmentKeeps ==
    ASSUME PatchIInv,
           \/ \E u \in PatchUnits : PodFails(u)
           \/ Trust \/ \E o \in LimitOptions : Configure(o)
    PROVE  PatchIInv'
  <1>1. /\ UNCHANGED <<template, observed, rolledOut, pod, patchFailed, patchStatus, unread,
                     premature>>
        /\ patchChanges' \in 0..MaxPatchChanges
    BY PatchAssumption
       DEF PodFails, Trust, Configure, PatchChange, PatchIInv, PatchTypeOK, cluster, reports
  <1>2. /\ limitOption' \in LimitOptions /\ trusted' \in BOOLEAN
        /\ configDue' \subseteq PatchUnits /\ readyPods' \subseteq PatchUnits
        /\ (limitOption' = limitOption /\ configDue \subseteq configDue') \/ configDue' = PatchUnits
    BY DEF PodFails, Trust, Configure, PatchIInv, PatchTypeOK, cluster
  <1>3. PatchTypeOK'
    BY <1>1, <1>2 DEF PatchIInv, PatchTypeOK
  <1>4. TemplateCurrent'
    BY <1>1, <1>2 DEF PatchIInv, TemplateCurrent, IsSpec, Adjusted
  <1> QED BY <1>1, <1>3, <1>4 DEF PatchIInv, RolloutKnown, Covers, ActiveMeansRolledOut

LEMMA PatchKeepsIInv == PatchIInv /\ [PatchNext]_patchVars => PatchIInv'
  <1> SUFFICES ASSUME PatchIInv, [PatchNext]_patchVars PROVE PatchIInv'
    OBVIOUS
  <1>1. CASE UNCHANGED patchVars
    BY <1>1 DEF patchVars, reports, PatchIInv, PatchTypeOK, TemplateCurrent, RolloutKnown,
       ActiveMeansRolledOut, Covers, IsSpec, Adjusted
  <1>2. CASE PatchNext
    BY <1>2, ConfigChangedKeeps, ConfigChangedFailsKeeps, UpdateStatusKeeps, ControllerKeeps, PatchEnvironmentKeeps
       DEF PatchNext
  <1> QED BY <1>1, <1>2

LEMMA PatchInvariant == PatchSpec => []PatchIInv
  BY PatchInitIInv, PatchKeepsIInv, PTL DEF PatchSpec

\* No pod is asked for a limit below its request, and every unit gets the limit
\* that is configured (KubernetesComputeResourcesPatch), for any quantities, any
\* number of units and changes.
THEOREM LimitsAlwaysHold == PatchSpec => []LimitsHold
  <1>1. PatchIInv => LimitsHold
    <2> SUFFICES ASSUME PatchIInv PROVE LimitsHold
      OBVIOUS
    <2>1. LimitCoversRequest
      BY DEF PatchIInv, LimitCoversRequest, Covers
    <2>2. LimitInEffect
      BY DEF PatchIInv, LimitInEffect, TemplateCurrent, RolloutKnown
    <2> QED BY <2>1, <2>2 DEF LimitsHold
  <1> QED BY <1>1, PatchInvariant, PTL

\* A unit that reports active has read that every pod is replaced (get_status and
\* is_in_progress), also right after a patch, which the controller has not seen;
\* or it could not read the StatefulSet.
THEOREM ActiveIsRolledOut == PatchSpec => []ActiveMeansRolledOut
  <1>1. PatchIInv => ActiveMeansRolledOut
    BY DEF PatchIInv
  <1> QED BY <1>1, PatchInvariant, PTL

------------------------------------------------------------------------------
(* Object storage                                                          *)

\* Credentials only ever become complete while a relation lasts, so a unit has
\* none to lose before they are.
NothingTooEarly ==
    ~IsComplete => \A u \in S3Units \ s3Broken : using[u] = NoCredentials

\* A request is on its way from the first hook of the leader that asks to the
\* leader that answers, and its answer is complete.
RequestOnItsWay ==
    /\ s3Seen => IsComplete
    /\ s3Related /\ ~s3Moved =>
         /\ s3Leader \in s3Joined \/ bucket
         /\ bucket => s3Seen \/ storeLeader \in storeNews

S3IInv == S3TypeOK /\ CredentialsCurrent /\ NothingTooEarly /\ RequestOnItsWay

-----------------------------------------------------------------------------

LEMMA S3InitIInv == S3Init => S3IInv
  <1> SUFFICES ASSUME S3Init PROVE S3IInv
    OBVIOUS
  <1>1. S3TypeOK
    <2>1. using \in [S3Units -> Nat \cup {NoCredentials}]
      BY DEF S3Init
    <2>2. s3Changes \in 0..MaxS3Changes
      BY S3Assumption DEF S3Init
    <2> QED BY <2>1, <2>2 DEF S3Init, S3TypeOK
  <1>2. ~IsComplete
    BY DEF S3Init, IsComplete, S3Keys
  <1>3. CredentialsCurrent /\ NothingTooEarly /\ RequestOnItsWay
    BY <1>2 DEF S3Init, CredentialsCurrent, NothingTooEarly, RequestOnItsWay
  <1> QED BY <1>1, <1>3 DEF S3IInv

\* What the requirer's events do: ask, use and forget.
LEMMA S3RequirerKeepsIInv ==
    ASSUME S3IInv, NEW u \in S3Units,
           S3RelationJoined(u) \/ S3RelationChanged(u) \/ S3RelationBroken(u)
    PROVE  S3IInv'
  <1> USE DEF S3IInv, IsComplete
  <1>1. CASE S3RelationJoined(u)
    <2> HIDE DEF IsComplete
    <2>1. UNCHANGED <<s3Keys, s3Version, s3Changed, s3Broken, using>>
      BY <1>1 DEF S3RelationJoined
    <2>2. S3TypeOK'
      <3>1. bucket' \in BOOLEAN /\ s3Related
        BY <1>1 DEF S3RelationJoined, S3TypeOK
      <3> QED BY <1>1, <3>1 DEF S3RelationJoined, S3TypeOK, s3Leases
    <2>3. CredentialsCurrent' /\ NothingTooEarly'
      BY <2>1 DEF CredentialsCurrent, NothingTooEarly, IsComplete
    <2>4. RequestOnItsWay'
      <3>1. /\ UNCHANGED <<s3Seen, s3Related, s3Moved, s3Leader, storeLeader>>
            /\ s3Joined' = s3Joined \ {u}
            /\ bucket' = (bucket \/ u = s3Leader)
            /\ storeNews' = IF bucket' # bucket THEN S3Stores ELSE storeNews
        BY <1>1 DEF S3RelationJoined, s3Leases
      <3>2. bucket' => bucket \/ storeNews' = S3Stores
        BY <3>1 DEF S3TypeOK
      <3>3. storeLeader \in S3Stores
        BY DEF S3TypeOK
      <3>4. IsComplete' = IsComplete
        BY <2>1 DEF IsComplete
      <3>5. CASE u = s3Leader
        BY <3>1, <3>2, <3>3, <3>4, <3>5 DEF RequestOnItsWay, S3TypeOK
      <3>6. CASE u # s3Leader
        BY <3>1, <3>2, <3>3, <3>4, <3>6 DEF RequestOnItsWay, S3TypeOK
      <3> QED BY <3>5, <3>6
    <2> QED BY <2>2, <2>3, <2>4
  <1>2. CASE S3RelationChanged(u)
    <2>1. S3TypeOK'
      BY <1>2 DEF S3RelationChanged, S3TypeOK, s3Leases
    <2>2. CredentialsCurrent'
      BY <1>2 DEF S3RelationChanged, S3TypeOK, CredentialsCurrent, NothingTooEarly
    <2>3. NothingTooEarly' /\ RequestOnItsWay'
      BY <1>2 DEF S3RelationChanged, NothingTooEarly, RequestOnItsWay, s3Leases
    <2> QED BY <2>1, <2>2, <2>3
  <1>3. CASE S3RelationBroken(u)
    <2>1. s3Related = FALSE /\ s3Keys = {}
      BY <1>3 DEF S3RelationBroken, S3TypeOK
    <2>2. S3TypeOK'
      BY <1>3 DEF S3RelationBroken, S3TypeOK, s3Leases
    <2>3. CredentialsCurrent' /\ NothingTooEarly' /\ RequestOnItsWay'
      BY <1>3, <2>1, S3Assumption
         DEF S3RelationBroken, S3TypeOK, CredentialsCurrent, NothingTooEarly,
             RequestOnItsWay, S3Keys, s3Leases
    <2> QED BY <2>2, <2>3
  <1> QED BY <1>1, <1>2, <1>3

\* What the provider writes: new credentials that everybody will be told of.
LEMMA AnswerKeepsCredentials ==
    ASSUME S3IInv, s3Related, NEW keys \in SUBSET S3Keys, Answer(keys),
           UNCHANGED <<s3Related, s3Broken, using>>
    PROVE  /\ s3Keys' \subseteq S3Keys /\ s3Version' \in Nat
           /\ s3Changed' = S3Units
           /\ IsComplete => IsComplete'
           /\ CredentialsCurrent' /\ NothingTooEarly'
  BY DEF S3IInv, S3TypeOK, Answer, IsComplete, CredentialsCurrent, NothingTooEarly

LEMMA S3ProviderKeepsIInv ==
    ASSUME S3IInv,
           \/ \E p \in S3Stores : StoreChanged(p)
           \/ \E keys \in (SUBSET S3Keys) \ {{}} : SetKeys(keys)
    PROVE  S3IInv'
  <1>1. ASSUME NEW p \in S3Stores, StoreChanged(p) PROVE S3IInv'
    <2>1. CASE p = storeLeader /\ bucket /\ ~s3Seen
      <3>1. s3Related /\ Answer(S3Keys) /\ s3Seen' = bucket
            /\ UNCHANGED <<s3Related, s3Broken, using>>
        BY <1>1, <2>1 DEF StoreChanged, S3IInv, S3TypeOK
      <3>2. /\ s3Keys' \subseteq S3Keys /\ s3Version' \in Nat
            /\ s3Changed' = S3Units /\ IsComplete'
            /\ CredentialsCurrent' /\ NothingTooEarly'
        BY <3>1, AnswerKeepsCredentials DEF Answer, S3IInv, S3TypeOK, IsComplete
      <3>3. S3TypeOK'
        BY <1>1, <3>1, <3>2 DEF StoreChanged, S3TypeOK, S3IInv, s3Leases
      <3>4. RequestOnItsWay'
        BY <1>1, <2>1, <3>1, <3>2 DEF StoreChanged, RequestOnItsWay, S3IInv, s3Leases
      <3> QED BY <3>2, <3>3, <3>4 DEF S3IInv
    <2>2. CASE ~(p = storeLeader /\ bucket /\ ~s3Seen)
      <3>1. UNCHANGED <<s3Keys, s3Version, s3Changed, s3Broken, using, s3Related,
                        bucket, s3Joined, s3Leases, s3Changes>>
            /\ storeNews' = storeNews \ {p}
            /\ s3Seen' = IF p = storeLeader THEN bucket ELSE s3Seen
        BY <1>1, <2>2 DEF StoreChanged
      <3>2. CredentialsCurrent' /\ NothingTooEarly'
        BY <3>1 DEF S3IInv, CredentialsCurrent, NothingTooEarly, IsComplete
      <3>3. S3TypeOK'
        BY <3>1 DEF S3IInv, S3TypeOK, s3Leases
      <3>4. RequestOnItsWay'
        BY <2>2, <3>1 DEF S3IInv, S3TypeOK, RequestOnItsWay, IsComplete, s3Leases
      <3> QED BY <3>2, <3>3, <3>4 DEF S3IInv
    <2> QED BY <2>1, <2>2
  <1>2. ASSUME NEW keys \in (SUBSET S3Keys) \ {{}}, SetKeys(keys) PROVE S3IInv'
    <2>1. /\ s3Related /\ Answer(keys)
          /\ UNCHANGED <<s3Related, s3Broken, using>>
      BY <1>2 DEF SetKeys
    <2>2. /\ s3Keys' \subseteq S3Keys /\ s3Version' \in Nat
          /\ s3Changed' = S3Units /\ (IsComplete => IsComplete')
          /\ CredentialsCurrent' /\ NothingTooEarly'
      BY <2>1, AnswerKeepsCredentials
    <2>3. S3TypeOK'
      BY <1>2, <2>2, S3Assumption DEF SetKeys, S3Change, S3IInv, S3TypeOK, s3Leases
    <2>4. RequestOnItsWay'
      BY <1>2, <2>2 DEF SetKeys, S3IInv, RequestOnItsWay, s3Leases
    <2> QED BY <2>2, <2>3, <2>4 DEF S3IInv
  <1> QED BY <1>1, <1>2

\* The relation comes, goes, and leases move.
LEMMA S3EnvironmentKeepsIInv ==
    ASSUME S3IInv,
           RelateS3 \/ UnrelateS3 \/ \E u \in S3Units \cup S3Stores : S3LeaseMoves(u)
    PROVE  S3IInv'
  <1> USE DEF S3IInv, IsComplete
  <1>1. ASSUME S3Change PROVE s3Changes' \in 0..MaxS3Changes
    BY <1>1, S3Assumption DEF S3Change, S3TypeOK
  <1>2. CASE RelateS3
    <2>1. S3TypeOK'
      BY <1>1, <1>2 DEF RelateS3, S3TypeOK, s3Leases
    <2>2. CredentialsCurrent' /\ NothingTooEarly'
      BY <1>2 DEF RelateS3, CredentialsCurrent, NothingTooEarly
    <2>3. RequestOnItsWay'
      BY <1>2 DEF RelateS3, RequestOnItsWay, S3TypeOK, s3Leases
    <2> QED BY <2>1, <2>2, <2>3
  <1>3. CASE UnrelateS3
    <2>1. S3TypeOK'
      BY <1>1, <1>3 DEF UnrelateS3, S3TypeOK, s3Leases
    <2>2. CredentialsCurrent' /\ NothingTooEarly' /\ RequestOnItsWay'
      BY <1>3 DEF UnrelateS3, CredentialsCurrent, NothingTooEarly, RequestOnItsWay
    <2> QED BY <2>1, <2>2
  <1>4. ASSUME NEW u \in S3Units \cup S3Stores, S3LeaseMoves(u) PROVE S3IInv'
    <2>1. S3TypeOK'
      BY <1>1, <1>4 DEF S3LeaseMoves, S3TypeOK
    <2>2. CredentialsCurrent' /\ NothingTooEarly' /\ RequestOnItsWay'
      BY <1>4 DEF S3LeaseMoves, CredentialsCurrent, NothingTooEarly, RequestOnItsWay
    <2> QED BY <2>1, <2>2
  <1> QED BY <1>2, <1>3, <1>4

LEMMA S3Invariant == S3Spec => []S3IInv
  <1>1. S3IInv /\ S3Next => S3IInv'
    BY S3RequirerKeepsIInv, S3ProviderKeepsIInv, S3EnvironmentKeepsIInv DEF S3Next
  <1>2. S3IInv /\ UNCHANGED s3Vars => S3IInv'
    BY DEF s3Vars, S3IInv, S3TypeOK, CredentialsCurrent, NothingTooEarly,
           RequestOnItsWay, IsComplete
  <1> QED BY S3InitIInv, <1>1, <1>2, PTL DEF S3Spec

\* With its events handled a unit uses the present, complete credentials or
\* none (S3Requirer._on_relation_changed, _on_relation_broken), and a bucket
\* that was asked for while no lease moved is answered
\* (S3Provider._on_relation_changed).
THEOREM CredentialsAlwaysFollow == S3Spec => []CredentialsFollow
  <1>1. S3IInv => CredentialsFollow
    BY DEF S3IInv, RequestOnItsWay, CredentialsFollow, RequestsAnswered
  <1> QED BY <1>1, S3Invariant, PTL

------------------------------------------------------------------------------
(* Tracing                                                                 *)

\* An application that has run its hooks requests what its charm uses.
RequestsMade == \A a \in tracedBy \ hookDue : requested[a] = protocols[a]

\* And it uses what it was offered when it ran the last of them.
EndpointsCurrent == \A a \in Traced \ hookDue : endpoints[a] = Endpoints(a)

\* Once the leader has published, the receivers are those requested by the
\* relations it knows of, with urls of its kind, unless one of them is gone, has
\* not requested yet or has an event to come.
ServedAsRequested ==
    LET R == tempoSeen[tempoLeader]
    IN  (/\ served /\ tempoNews[tempoLeader] = {} /\ R \subseteq tracedBy
         /\ \A a \in R : requested[a] # Unpublished)
        => \A a \in R : /\ receivers[a] = RequestedProtocols(R)
                         /\ publishedTls[a] = tempoTls

TracingIInv == TracingTypeOK /\ EndpointsCurrent /\ RequestsMade /\ ServedAsRequested

-----------------------------------------------------------------------------

LEMMA TracingInitIInv == TracingInit => TracingIInv
  <1> SUFFICES ASSUME TracingInit PROVE TracingIInv
    OBVIOUS
  <1>1. /\ requested \in [Traced -> (SUBSET Protocols) \cup {Unpublished}]
        /\ tempoSeen \in [TempoUnits -> SUBSET Traced]
        /\ tempoNews \in [TempoUnits -> SUBSET Traced]
        /\ receivers \in [Traced -> (SUBSET Protocols) \cup {Unpublished}]
        /\ publishedTls \in [Traced -> BOOLEAN]
        /\ endpoints \in [Traced -> SUBSET Protocols]
    BY DEF TracingInit
  <1>2. TracingTypeOK
    <2>1. tracingChanges \in 0..MaxTracingChanges
      BY TracingAssumption DEF TracingInit
    <2>2. protocols \in [Traced -> SUBSET Protocols]
      BY DEF TracingInit
    <2> QED BY <1>1, <2>1, <2>2 DEF TracingInit, TracingTypeOK
  <1>3. EndpointsCurrent /\ RequestsMade /\ ServedAsRequested
    BY DEF TracingInit, EndpointsCurrent, Endpoints, RequestsMade, ServedAsRequested
  <1> QED BY <1>2, <1>3 DEF TracingIInv

\* What is requested are protocols.
LEMMA RequestedAreProtocols ==
    ASSUME TracingTypeOK, NEW R \in SUBSET Traced
    PROVE  RequestedProtocols(R) \in SUBSET Protocols
  <1>1. \A a \in R : requested[a] # Unpublished => requested[a] \subseteq Protocols
    BY DEF TracingTypeOK
  <1> QED BY <1>1 DEF RequestedProtocols

-----------------------------------------------------------------------------
(* Tempo's hooks                                                           *)

\* Whatever an event tells Tempo's unit, if it answers it by publishing, the
\* invariant holds: those whose receivers change have an event to come.
LEMMA ServingKeepsIInv ==
    ASSUME TracingIInv, NEW t \in TempoUnits,
           ServeIfLeading(t, tempoSeen'[t]),
           tempoSeen' \in [TempoUnits -> SUBSET Traced],
           tempoNews' \in [TempoUnits -> SUBSET Traced],
           \A u \in TempoUnits : tempoNews'[u] \subseteq tempoSeen'[u],
           \A u \in TempoUnits \ {t} : /\ tempoSeen'[u] = tempoSeen[u]
                                       /\ tempoNews'[u] = tempoNews[u],
           UNCHANGED <<protocols, hasCert, tracedBy, requested, tempo, endpoints,
                       tracingChanges>>
    PROVE  TracingIInv'
  <1> DEFINE R == tempoSeen'[t]
             P == RequestedProtocols(R)
  <1>1. R \in SUBSET Traced /\ P \in SUBSET Protocols
    BY RequestedAreProtocols DEF TracingIInv
  <1>2. CASE t = tempoLeader
    <2> HIDE DEF R, P
    <2>1. /\ receivers' = [a \in Traced |-> IF a \in R \cap tracedBy THEN P
                                                                     ELSE receivers[a]]
          /\ publishedTls' = [a \in Traced |-> IF a \in R \cap tracedBy THEN tempoTls
                                                                  ELSE publishedTls[a]]
          /\ hookDue' = hookDue \cup
               {a \in R \cap tracedBy :
                  <<P, tempoTls>> # <<receivers[a], publishedTls[a]>>}
          /\ served' = TRUE
      BY <1>2 DEF ServeIfLeading, PublishReceivers, R, P
    <2>2. receivers' \in [Traced -> (SUBSET Protocols) \cup {Unpublished}]
          /\ publishedTls' \in [Traced -> BOOLEAN]
          /\ hookDue' \subseteq Traced
      BY <1>1, <2>1 DEF TracingIInv, TracingTypeOK
    <2>3. TracingTypeOK'
      BY <2>1, <2>2 DEF TracingIInv, TracingTypeOK, tempo
    <2>4. EndpointsCurrent'
      <3>1. ASSUME NEW a \in Traced \ hookDue'
            PROVE  /\ receivers'[a] = receivers[a] /\ publishedTls'[a] = publishedTls[a]
                   /\ a \notin hookDue
        BY <2>1, <3>1 DEF TracingIInv, TracingTypeOK
      <3> QED BY <3>1 DEF TracingIInv, EndpointsCurrent, Endpoints
    <2>5. RequestsMade'
      BY <2>1 DEF TracingIInv, RequestsMade
    <2>6. ServedAsRequested'
      <3>1. tempoLeader' = t /\ tempoSeen'[tempoLeader'] = R
        BY <1>2 DEF tempo, R
      <3>2. \A S : RequestedProtocols(S)' = RequestedProtocols(S)
        BY DEF RequestedProtocols
      <3>3. R \subseteq tracedBy =>
               \A a \in R : receivers'[a] = P /\ publishedTls'[a] = tempoTls'
        BY <1>1, <2>1 DEF tempo
      <3> QED BY <3>1, <3>2, <3>3 DEF ServedAsRequested, P
    <2> QED BY <2>3, <2>4, <2>5, <2>6 DEF TracingIInv
  <1>3. CASE t # tempoLeader
    <2>1. UNCHANGED <<receivers, publishedTls, hookDue, served>>
      BY <1>3 DEF ServeIfLeading
    <2>2. TracingTypeOK'
      BY <2>1 DEF TracingIInv, TracingTypeOK, tempo
    <2>3. EndpointsCurrent' /\ RequestsMade'
      BY <2>1 DEF TracingIInv, EndpointsCurrent, Endpoints, RequestsMade
    <2>4. ServedAsRequested'
      BY <1>3, <2>1
         DEF TracingIInv, TracingTypeOK, ServedAsRequested, RequestedProtocols, tempo
    <2> QED BY <2>2, <2>3, <2>4 DEF TracingIInv
  <1> QED BY <1>2, <1>3

\* An event of a relation that has no requests is not answered; the relation
\* will have some, or is gone.
LEMMA WaitingKeepsIInv ==
    ASSUME TracingIInv, NEW t \in TempoUnits, NEW a \in Traced,
           requested[a] = Unpublished, a \in tempoSeen'[t],
           tempoSeen' \in [TempoUnits -> SUBSET Traced],
           tempoNews' \in [TempoUnits -> SUBSET Traced],
           \A u \in TempoUnits : tempoNews'[u] \subseteq tempoSeen'[u],
           \A u \in TempoUnits \ {t} : /\ tempoSeen'[u] = tempoSeen[u]
                                       /\ tempoNews'[u] = tempoNews[u],
           UNCHANGED <<protocols, hasCert, tracedBy, requested, tempo, endpoints,
                       receivers, publishedTls, hookDue, served, tracingChanges>>
    PROVE  TracingIInv'
  <1>1. TracingTypeOK' /\ EndpointsCurrent' /\ RequestsMade'
    BY DEF TracingIInv, TracingTypeOK, EndpointsCurrent, Endpoints, RequestsMade, tempo
  <1>2. ServedAsRequested'
    BY DEF TracingIInv, TracingTypeOK, ServedAsRequested, RequestedProtocols, tempo
  <1> QED BY <1>1, <1>2 DEF TracingIInv

LEMMA TempoKeepsIInv ==
    ASSUME TracingIInv, NEW t \in TempoUnits,
           \/ \E a \in Traced :
                TempoJoined(t, a) \/ TempoChanged(t, a) \/ TempoBroken(t, a)
           \/ TempoReconcile(t)
    PROVE  TracingIInv'
  <1> USE DEF TracingIInv, TracingTypeOK
  <1>1. tempoSeen' \in [TempoUnits -> SUBSET Traced]
        /\ tempoNews' \in [TempoUnits -> SUBSET Traced]
    BY DEF TempoJoined, TempoChanged, TempoBroken, TempoReconcile
  <1>2. \A u \in TempoUnits : tempoNews'[u] \subseteq tempoSeen'[u]
    BY DEF TempoJoined, TempoChanged, TempoBroken, TempoReconcile
  <1>3. \A u \in TempoUnits \ {t} : /\ tempoSeen'[u] = tempoSeen[u]
                                    /\ tempoNews'[u] = tempoNews[u]
    BY DEF TempoJoined, TempoChanged, TempoBroken, TempoReconcile
  <1>4. UNCHANGED <<protocols, hasCert, tracedBy, requested, tempo, endpoints,
                    tracingChanges>>
    BY DEF TempoJoined, TempoChanged, TempoBroken, TempoReconcile
  <1>5. \/ ServeIfLeading(t, tempoSeen'[t])
        \/ \E a \in Traced :
             /\ requested[a] = Unpublished /\ a \in tempoSeen'[t]
             /\ UNCHANGED <<receivers, publishedTls, hookDue, served>>
    BY DEF TempoJoined, TempoChanged, TempoBroken, TempoReconcile, ServeIfLeading,
           PublishReceivers, RequestedProtocols
  <1> HIDE DEF TracingIInv, TracingTypeOK
  <1> QED
    BY <1>1, <1>2, <1>3, <1>4, <1>5, ServingKeepsIInv, WaitingKeepsIInv

-----------------------------------------------------------------------------
(* The applications' hooks                                                 *)

LEMMA TracedKeepsIInv ==
    ASSUME TracingIInv, NEW a \in Traced, TracedHook(a)
    PROVE  TracingIInv'
  <1>1. /\ endpoints' = [endpoints EXCEPT ![a] = Endpoints(a)]
        /\ hookDue' = hookDue \ {a}
        /\ UNCHANGED <<protocols, hasCert, tracedBy, tempo, tempoSeen, served,
                       receivers, publishedTls, tracingChanges>>
    BY DEF TracedHook, ReadEndpoints
  <1>2. Endpoints(a) \in SUBSET Protocols
    BY DEF Endpoints, TracingIInv, TracingTypeOK
  <1>3. protocols[a] \in SUBSET Protocols /\ protocols[a] # Unpublished
    BY TracingAssumption DEF TracingIInv, TracingTypeOK
  <1>4. EndpointsCurrent'
    <2>1. \A b \in Traced : Endpoints(b)' = Endpoints(b)
      BY <1>1 DEF Endpoints
    <2>2. \A b \in Traced \ hookDue' :
             endpoints'[b] = IF b = a THEN Endpoints(a) ELSE endpoints[b]
      BY <1>1 DEF TracingIInv, TracingTypeOK
    <2>3. \A b \in Traced \ hookDue' : b = a \/ b \notin hookDue
      BY <1>1
    <2> QED BY <2>1, <2>2, <2>3 DEF TracingIInv, EndpointsCurrent
  <1>5. CASE a \in tracedBy
    <2>1. /\ requested' = [requested EXCEPT ![a] = protocols[a]]
          /\ tempoNews' = [t \in TempoUnits |->
                             IF requested[a] # protocols[a] /\ a \in tempoSeen[t]
                             THEN tempoNews[t] \cup {a} ELSE tempoNews[t]]
      BY <1>5 DEF TracedHook, Request
    <2>2. requested' \in [Traced -> (SUBSET Protocols) \cup {Unpublished}]
          /\ \A t \in TempoUnits : tempoNews'[t] \subseteq tempoSeen[t]
      BY <1>3, <2>1 DEF TracingIInv, TracingTypeOK
    <2>3. TracingTypeOK'
      BY <1>1, <1>2, <1>5, <2>1, <2>2 DEF TracingIInv, TracingTypeOK, tempo
    <2>4. RequestsMade'
      BY <1>1, <2>1 DEF TracingIInv, TracingTypeOK, RequestsMade
    <2>5. ServedAsRequested'
      <3> DEFINE R == tempoSeen[tempoLeader]
      <3>1. R \in SUBSET Traced /\ tempoLeader \in TempoUnits
            /\ tempoSeen'[tempoLeader'] = R
        BY <1>1 DEF TracingIInv, TracingTypeOK, tempo
      <3>2. CASE a \in R /\ requested[a] # protocols[a]
        <4>1. tempoNews'[tempoLeader'] # {}
          BY <1>1, <2>1, <3>1, <3>2 DEF tempo
        <4> QED BY <4>1 DEF ServedAsRequested
      <3>3. CASE ~(a \in R /\ requested[a] # protocols[a])
        <4>1. \A b \in R : requested'[b] = requested[b]
          BY <2>1, <3>1, <3>3 DEF TracingIInv, TracingTypeOK
        <4>2. RequestedProtocols(R)' = RequestedProtocols(R)
          BY <1>1, <4>1 DEF RequestedProtocols, tempo
        <4>3. tempoNews'[tempoLeader'] = tempoNews[tempoLeader]
          BY <1>1, <2>1, <3>1, <3>3 DEF tempo
        <4> QED BY <1>1, <3>1, <4>1, <4>2, <4>3
                DEF TracingIInv, ServedAsRequested, RequestedProtocols, tempo
      <3> QED BY <3>2, <3>3
    <2> QED BY <1>4, <2>3, <2>4, <2>5 DEF TracingIInv
  <1>6. CASE a \notin tracedBy
    <2>1. UNCHANGED <<requested, tempoNews>>
      BY <1>6 DEF TracedHook
    <2>2. TracingTypeOK'
      BY <1>1, <1>2, <2>1 DEF TracingIInv, TracingTypeOK, tempo
    <2>3. RequestsMade' /\ ServedAsRequested'
      BY <1>1, <1>6, <2>1
         DEF TracingIInv, RequestsMade, ServedAsRequested, RequestedProtocols, tempo
    <2> QED BY <1>4, <2>2, <2>3 DEF TracingIInv
  <1> QED BY <1>5, <1>6

-----------------------------------------------------------------------------
(* The environment                                                         *)

LEMMA TracingEnvironmentKeepsIInv ==
    ASSUME TracingIInv,
           \/ \E a \in Traced :
                 \/ \E P \in (SUBSET Protocols) \ {{}} : ChangeProtocols(a, P)
                 \/ CertChanges(a) \/ Trace(a) \/ Untrace(a)
           \/ \E t \in TempoUnits : TempoLeaseMoves(t)
           \/ TempoTlsChanges
    PROVE  TracingIInv'
  <1>1. ASSUME TracingChange PROVE tracingChanges' \in 0..MaxTracingChanges
    BY <1>1, TracingAssumption DEF TracingChange, TracingIInv, TracingTypeOK
  <1> USE DEF TracingIInv, TracingTypeOK, tempo
  <1>2. ASSUME NEW a \in Traced, NEW P \in SUBSET Protocols, ChangeProtocols(a, P)
        PROVE  TracingIInv'
    <2>1. TracingTypeOK'
      BY <1>1, <1>2 DEF ChangeProtocols
    <2>2. EndpointsCurrent' /\ RequestsMade'
      BY <1>2 DEF ChangeProtocols, EndpointsCurrent, Endpoints, RequestsMade
    <2>3. ServedAsRequested'
      BY <1>2 DEF ChangeProtocols, ServedAsRequested, RequestedProtocols
    <2> QED BY <2>1, <2>2, <2>3
  <1>3. ASSUME NEW a \in Traced, CertChanges(a) PROVE TracingIInv'
    <2>1. TracingTypeOK'
      BY <1>1, <1>3 DEF CertChanges
    <2>2. EndpointsCurrent' /\ RequestsMade'
      BY <1>3 DEF CertChanges, EndpointsCurrent, Endpoints, RequestsMade
    <2>3. ServedAsRequested'
      BY <1>3 DEF CertChanges, ServedAsRequested, RequestedProtocols
    <2> QED BY <2>1, <2>2, <2>3
  <1>4. ASSUME NEW a \in Traced, Trace(a) PROVE TracingIInv'
    <2>1. TracingTypeOK'
      BY <1>1, <1>4 DEF Trace
    <2>2. EndpointsCurrent' /\ RequestsMade'
      BY <1>4 DEF Trace, EndpointsCurrent, Endpoints, RequestsMade
    <2>3. ServedAsRequested'
      BY <1>4 DEF Trace, ServedAsRequested, RequestedProtocols
    <2> QED BY <2>1, <2>2, <2>3
  <1>5. ASSUME NEW a \in Traced, Untrace(a) PROVE TracingIInv'
    <2>1. TracingTypeOK'
      BY <1>1, <1>5 DEF Untrace
    <2>2. EndpointsCurrent' /\ RequestsMade'
      BY <1>5 DEF Untrace, EndpointsCurrent, Endpoints, RequestsMade
    <2>3. ServedAsRequested'
      <3> DEFINE R == tempoSeen[tempoLeader]
      <3>1. CASE a \in R
        BY <1>5, <3>1 DEF Untrace, ServedAsRequested
      <3>2. CASE a \notin R
        <4>1. \A b \in R : requested'[b] = requested[b] /\ receivers'[b] = receivers[b]
          BY <1>5, <3>2 DEF Untrace
        <4>2. RequestedProtocols(R)' = RequestedProtocols(R)
          BY <1>5, <4>1 DEF Untrace, RequestedProtocols
        <4>3. tracedBy' \subseteq tracedBy
          BY <1>5 DEF Untrace
        <4> QED BY <1>5, <4>1, <4>2, <4>3
                DEF Untrace, ServedAsRequested, RequestedProtocols
      <3> QED BY <3>1, <3>2
    <2> QED BY <2>1, <2>2, <2>3
  <1>6. ASSUME TempoTlsChanges \/ \E t \in TempoUnits : TempoLeaseMoves(t)
        PROVE  TracingIInv'
    <2>1. TracingTypeOK'
      BY <1>1, <1>6 DEF TempoTlsChanges, TempoLeaseMoves
    <2>2. EndpointsCurrent'
      BY <1>6 DEF TempoTlsChanges, TempoLeaseMoves, EndpointsCurrent, Endpoints
    <2>3. RequestsMade'
      BY <1>6 DEF TempoTlsChanges, TempoLeaseMoves, RequestsMade
    <2>4. ServedAsRequested'
      BY <1>6 DEF TempoTlsChanges, TempoLeaseMoves, ServedAsRequested
    <2> QED BY <2>1, <2>2, <2>3, <2>4
  <1> QED BY <1>2, <1>3, <1>4, <1>5, <1>6

LEMMA TracingInvariant == TracingSpec => []TracingIInv
  <1>1. TracingIInv /\ TracingNext => TracingIInv'
    BY TempoKeepsIInv, TracedKeepsIInv, TracingEnvironmentKeepsIInv DEF TracingNext
  <1>2. TracingIInv /\ UNCHANGED tracingVars => TracingIInv'
    BY DEF tracingVars, tempo, TracingIInv, TracingTypeOK, EndpointsCurrent, Endpoints,
           RequestsMade, ServedAsRequested, RequestedProtocols
  <1> QED BY TracingInitIInv, <1>1, <1>2, PTL DEF TracingSpec

\* With the hooks run, every application is offered just what related
\* applications request, and sends traces by all the protocols it has, but for
\* its charm without a certificate to a Tempo that has one
\* (TracingEndpointProvider.requested_protocols, publish_receivers;
\* TracingEndpointRequirer.is_ready, get_endpoint; charm_tracing_config).
THEOREM TracesAlwaysArrive == TracingSpec => []TracesArrive
  <1>1. TracingIInv => RequestsServed /\ TracesSent
    <2> SUFFICES ASSUME TracingIInv PROVE RequestsServed /\ TracesSent
      OBVIOUS
    <2>1. ASSUME TracingSettled, NEW a \in tracedBy
          PROVE  /\ receivers[a] = UNION {protocols[b] : b \in tracedBy}
                 /\ publishedTls[a] = tempoTls
      <3>1. \A b \in tracedBy : requested[b] = protocols[b] /\ requested[b] # Unpublished
        BY <2>1, TracingAssumption
           DEF TracingSettled, TracingIInv, TracingTypeOK, RequestsMade
      <3>2. RequestedProtocols(tracedBy) = UNION {protocols[b] : b \in tracedBy}
        BY <3>1 DEF RequestedProtocols
      <3> QED BY <2>1, <3>1, <3>2 DEF TracingSettled, TracingIInv, ServedAsRequested
    <2>2. ASSUME TracingSettled, NEW a \in tracedBy
          PROVE  endpoints[a] = IF tempoTls /\ a \notin hasCert
                                THEN protocols[a] \ {OtlpHttp} ELSE protocols[a]
      <3>1. a \in Traced \ hookDue
        BY <2>2 DEF TracingSettled, TracingIInv, TracingTypeOK
      <3>2. protocols[a] \subseteq receivers[a] /\ publishedTls[a] = tempoTls
        BY <2>1, <2>2
      <3>3. receivers[a] # Unpublished
        <4>1. UNION {protocols[b] : b \in tracedBy} \subseteq Protocols
          BY DEF TracingIInv, TracingTypeOK
        <4> QED BY <2>1, <2>2, <4>1, TracingAssumption
      <3>4. endpoints[a] =
              {p \in receivers[a] \cap protocols[a] :
                  p = OtlpHttp /\ publishedTls[a] => a \in hasCert}
        BY <2>2, <3>1, <3>3 DEF TracingIInv, EndpointsCurrent, Endpoints
      <3> QED BY <3>2, <3>4
    <2>3. \A a \in Traced \ (tracedBy \cup hookDue) : endpoints[a] = {}
      BY DEF TracingIInv, EndpointsCurrent, Endpoints
    <2> QED BY <2>1, <2>2, <2>3 DEF RequestsServed, TracesSent
  <1> QED BY <1>1, TracingInvariant, PTL DEF TracesArrive

------------------------------------------------------------------------------
(* Side by side                                                            *)

\* Side by side in one deployment, each integration behaves as it does alone:
\* a step of one of them changes nothing of the others', so that all that is
\* proved of each of them holds there.
LEMMA IntegrationsCompose ==
    IntegrationsSpec => /\ MeshSpec /\ LabelSpec /\ PatchSpec
                        /\ S3Spec /\ TracingSpec /\ PathSpec
PROOF
  <1>1. IntegrationsInit => /\ MeshInit /\ LabelInit /\ PatchInit
                            /\ S3Init /\ TracingInit /\ PathInit
    BY DEF IntegrationsInit
  <1>2. [IntegrationsNext]_integrationsVars
          => /\ [MeshNext]_meshVars /\ [LabelNext]_labelVars /\ [PatchNext]_patchVars
             /\ [S3Next]_s3Vars /\ [TracingNext]_tracingVars /\ [PathNext]_pathVars
    <2> SUFFICES ASSUME [IntegrationsNext]_integrationsVars
                 PROVE  /\ [MeshNext]_meshVars /\ [LabelNext]_labelVars
                        /\ [PatchNext]_patchVars /\ [S3Next]_s3Vars
                        /\ [TracingNext]_tracingVars /\ [PathNext]_pathVars
      OBVIOUS
    <2>1. CASE MeshStep
      BY <2>1 DEF MeshStep
    <2>2. CASE LabelStep
      BY <2>2 DEF LabelStep
    <2>3. CASE PatchStep
      BY <2>3 DEF PatchStep
    <2>4. CASE S3Step
      BY <2>4 DEF S3Step
    <2>5. CASE TracingStep
      BY <2>5 DEF TracingStep
    <2>6. CASE PathStep
      BY <2>6 DEF PathStep
    <2>7. CASE UNCHANGED integrationsVars
      BY <2>7 DEF integrationsVars
    <2> QED
      BY <2>1, <2>2, <2>3, <2>4, <2>5, <2>6, <2>7 DEF IntegrationsNext
  <1> QED
    BY <1>1, <1>2, PTL DEF IntegrationsSpec, MeshSpec, LabelSpec, PatchSpec, S3Spec,
                           TracingSpec, PathSpec

\* The variables of all the integrations keep their types, whichever runs.
THEOREM IntegrationsTypesKept == IntegrationsSpec => []IntegrationsTypeOK
PROOF
  <1>1. /\ MeshIInv => MeshTypeOK
        /\ LabelIInv => LabelTypeOK
        /\ PatchIInv => PatchTypeOK
        /\ S3IInv => S3TypeOK
        /\ TracingIInv => TracingTypeOK
        /\ PathIInv => PathTypeOK
    BY DEF MeshIInv, LabelIInv, PatchIInv, S3IInv, TracingIInv, PathIInv
  <1>2. MeshTypeOK /\ LabelTypeOK /\ PatchTypeOK /\ S3TypeOK /\ TracingTypeOK /\ PathTypeOK
          => IntegrationsTypeOK
    BY DEF IntegrationsTypeOK
  <1> QED
    BY <1>1, <1>2, IntegrationsCompose, MeshInvariant, LabelInvariant, PatchInvariant,
       S3Invariant, TracingInvariant, PathInvariant, PTL

==============================================================================
