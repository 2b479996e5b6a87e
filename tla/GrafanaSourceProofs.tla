------------------------ MODULE GrafanaSourceProofs ------------------------
(***************************************************************************)
(* Proofs about GrafanaSource: its types, and that no data source is both  *)
(* offered and up for deletion, for any number of applications, units and  *)
(* relations.                                                              *)
(***************************************************************************)
EXTENDS GrafanaSource, TLAPS

\* The sources found in a relation are sources, filed under its application.
LEMMA ConfigIsOwn ==
    ASSUME TypeOK, NEW r \in Relations, NEW M \in SUBSET Units
    PROVE  /\ GetSourceConfig(r, M) \in SUBSET Sources
           /\ \A s \in GetSourceConfig(r, M) : s.name[1] = App(r)
<1>1. App(r) \in Apps
  BY DEF Relations, App
<1>2. appBag[r].host \in Urls \cup {NoUrl}
  BY DEF TypeOK, AppBag
<1> QED
  BY <1>1, <1>2 DEF GetSourceConfig, Sources, Names

\* Grafana's server shows sources only.
LEMMA ProvisionType ==
    ASSUME NEW S \in SUBSET Sources, NEW del,
           NEW list \in [Relations -> SUBSET Sources]
    PROVE  Provision(S, del, list) \in SUBSET Sources
BY DEF Provision

\* The names of what a relation found are names.
LEMMA NamesType ==
    ASSUME NEW S \in SUBSET Sources
    PROVE  NamesIn(S) \in SUBSET Names
BY DEF NamesIn, Sources

\* What the handler of relation-changed leaves of the types and of the filing.
LEMMA ChangedHandler ==
    ASSUME IInv, NEW g \in Grafanas, NEW M \in [Relations -> SUBSET Units],
           RelationChangedHandler(g, M)
    PROVE  /\ sources' \in [Relations -> SUBSET Sources]
           /\ toDelete' \in SUBSET Names
           /\ uids' \in [Relations -> SUBSET Names]
           /\ peerNews' \in SUBSET Grafanas
           /\ shown' \in [Grafanas -> SUBSET Sources]
           /\ FiledUnderOwn'
           /\ FiledOnce'
           /\ NothingOfferedIsDeleted'
<1> DEFINE found == [r \in Relations |-> IF r \in view[g]
                                         THEN GetSourceConfig(r, M[r]) ELSE {}]
<1>v. view[g] \subseteq Relations
  BY DEF IInv, TypeOK
<1>f. /\ found \in [Relations -> SUBSET Sources]
      /\ \A r \in Relations : \A s \in found[r] : s.name[1] = App(r)
      /\ \A r \in Relations : r \notin view[g] => found[r] = {}
  BY ConfigIsOwn DEF IInv
<1>q. \A r, q \in view[g] : App(r) = App(q) => r = q
  BY DEF IInv, OneRelationEach
<1> HIDE DEF found
<1>s. ASSUME sources' \in [Relations -> SUBSET Sources]
      PROVE  shown' \in [Grafanas -> SUBSET Sources]
  BY <1>s, ProvisionType DEF RelationChangedHandler, Show, IInv, TypeOK
<1>1. CASE g # leader
  <2>1. UNCHANGED <<sources, toDelete, uids, peerNews>>
    BY <1>1 DEF RelationChangedHandler, peerData
  <2> QED
    BY <2>1, <1>s DEF IInv, TypeOK, FiledUnderOwn, FiledOnce,
                      NothingOfferedIsDeleted
<1>2. CASE g = leader
  <2>1. /\ sources' = found
        /\ toDelete' = SourcesToDelete(found, view[g])
        /\ uids' = [r \in Relations |-> IF r \in view[g] /\ appBag[r].given
                                        THEN NamesIn(found[r]) ELSE uids[r]]
        /\ TellPeers(g)
    BY <1>2 DEF RelationChangedHandler, found
  <2>2. ReplacedNames(found, view[g]) \in SUBSET Names
    BY <1>v, <1>f, NamesType DEF ReplacedNames, IInv, TypeOK
  <2>3. toDelete' \in SUBSET Names
    BY <2>1, <2>2 DEF SourcesToDelete, IInv, TypeOK
  <2>4. uids' \in [Relations -> SUBSET Names]
    BY <2>1, <1>f, NamesType DEF IInv, TypeOK
  <2>5. peerNews' \in SUBSET Grafanas
    BY <2>1 DEF TellPeers, IInv, TypeOK
  <2>6. FiledUnderOwn'
    BY <2>1, <1>f DEF FiledUnderOwn, App
  <2>7. FiledOnce'
    BY <1>q, <2>1, <1>f DEF FiledOnce, App
  <2>8. NothingOfferedIsDeleted'
    <3> SUFFICES ASSUME NEW r \in Relations, NEW n \in NamesIn(found[r]),
                        n \in toDelete'
                 PROVE  FALSE
      BY <2>1 DEF NothingOfferedIsDeleted, NamesIn
    <3>1. r \in view[g] /\ n[1] = App(r)
      BY <1>f DEF NamesIn
    <3>2. n \in NamesIn(UNION {found[q] : q \in view[g]})
      BY <3>1 DEF NamesIn
    <3>3. n \in ReplacedNames(found, view[g])
      BY <3>2, <2>1 DEF SourcesToDelete
    <3>4. PICK q \in view[g] : n \in NamesIn(sources[q]) \ NamesIn(found[q])
      BY <3>3 DEF ReplacedNames
    <3>5. n[1] = App(q)
      BY <3>4, <1>v DEF IInv, FiledUnderOwn, NamesIn
    <3>6. q = r
      BY <3>1, <3>4, <3>5, <1>q
    <3> QED
      BY <3>4, <3>6
  <2> QED
    BY <2>1, <2>3, <2>4, <2>5, <2>6, <2>7, <2>8, <1>f, <1>s
<1> QED
  BY <1>1, <1>2

\* What the handler of relation-departed leaves of them.
LEMMA DepartedHandler ==
    ASSUME IInv, NEW g \in Grafanas, NEW r \in Relations, NEW u \in Units,
           RelationDeparted(g, r, u)
    PROVE  /\ sources' \in [Relations -> SUBSET Sources]
           /\ toDelete' \in SUBSET Names
           /\ uids' \in [Relations -> SUBSET Names]
           /\ peerNews' \in SUBSET Grafanas
           /\ shown' \in [Grafanas -> SUBSET Sources]
           /\ FiledUnderOwn'
           /\ FiledOnce'
           /\ NothingOfferedIsDeleted'
<1>1. CASE ~(g = leader /\ sources[r] # {})
  <2>1. UNCHANGED <<sources, toDelete, uids, peerNews, shown>>
    BY <1>1 DEF RelationDeparted, peerData
  <2> QED
    BY <2>1 DEF IInv, TypeOK, FiledUnderOwn, FiledOnce, NothingOfferedIsDeleted
<1>2. CASE g = leader /\ sources[r] # {}
  <2> DEFINE gone == <<App(r), u>>
  <2>1. /\ sources' = [sources EXCEPT ![r] = {s \in @ : s.name # gone}]
        /\ toDelete' = toDelete \cup (NamesIn(sources[r]) \cap {gone})
        /\ uids' = [uids EXCEPT ![r] = NamesIn(sources[r])]
        /\ TellPeers(g)
        /\ Show(g)
    BY <1>2 DEF RelationDeparted
  <2>2. NamesIn(sources[r]) \in SUBSET Names
    BY NamesType DEF IInv, TypeOK
  <2>3. /\ sources' \in [Relations -> SUBSET Sources]
        /\ \A q \in Relations : sources'[q] \subseteq sources[q]
        /\ \A s \in sources'[r] : s.name # gone
    BY <2>1 DEF IInv, TypeOK
  <2>4. shown' \in [Grafanas -> SUBSET Sources]
    BY <2>1, <2>3, ProvisionType DEF Show, IInv, TypeOK
  <2>5. FiledUnderOwn'
    BY <2>3 DEF IInv, FiledUnderOwn, App
  <2>6. FiledOnce'
    BY <2>3 DEF IInv, FiledOnce, App
  <2>7. NothingOfferedIsDeleted'
    <3> SUFFICES ASSUME NEW q \in Relations, NEW n \in NamesIn(sources'[q]),
                        n \in toDelete'
                 PROVE  FALSE
      BY DEF NothingOfferedIsDeleted, NamesIn
    <3>1. n \in NamesIn(sources[q])
      BY <2>3 DEF NamesIn
    <3>2. n = gone
      BY <3>1, <2>1 DEF IInv, NothingOfferedIsDeleted
    <3>3. App(q) = App(r) /\ sources[q] # {}
      BY <3>1, <3>2 DEF IInv, FiledUnderOwn, NamesIn
    <3>4. q = r
      BY <3>3, <1>2 DEF IInv, FiledOnce
    <3> QED
      BY <3>2, <3>4, <2>3 DEF NamesIn
  <2>8. peerNews' \in SUBSET Grafanas
    BY <2>1 DEF TellPeers, IInv, TypeOK
  <2> QED
    BY <2>1, <2>2, <2>3, <2>4, <2>5, <2>6, <2>7, <2>8 DEF IInv, TypeOK
<1> QED
  BY <1>1, <1>2

\* Every action of the environment, and a provider's hook, leave the store
\* alone.
LEMMA Elsewhere ==
    ASSUME IInv, UNCHANGED <<sources, toDelete>>
    PROVE  FiledUnderOwn' /\ FiledOnce' /\ NothingOfferedIsDeleted'
BY DEF IInv, FiledUnderOwn, FiledOnce, NothingOfferedIsDeleted, App

\* An application never has two relations that somebody knows of: a new one
\* is made when the earlier one is gone everywhere.
LEMMA OneRelationKept ==
    ASSUME IInv, [Next]_vars
    PROVE  OneRelationEach'
<1> DEFINE known == open \cup UNION {view[g] : g \in Grafanas}
<1>0. view \in [Grafanas -> SUBSET Relations] /\ open \subseteq Relations
  BY DEF IInv, TypeOK
<1>1. ASSUME known' \subseteq known
      PROVE  OneRelationEach'
  BY <1>1 DEF IInv, OneRelationEach, App
<1>2. ASSUME NEW r \in Relations, Establish(r)
      PROVE  OneRelationEach'
  BY <1>0, <1>2 DEF Establish, grafana, IInv, OneRelationEach, App
<1>3. ASSUME NEW r \in Relations, Dissolve(r)
      PROVE  OneRelationEach'
  BY <1>1, <1>3 DEF Dissolve, grafana
<1>4. ASSUME NEW g \in Grafanas, NEW r \in Relations,
             RelationCreated(g, r) \/ RelationBroken(g, r)
      PROVE  OneRelationEach'
  <2>1. open' = open
    BY <1>4 DEF RelationCreated, RelationBroken, offers
  <2>2. \A h \in Grafanas : view'[h] \subseteq view[h] \cup open
    BY <1>0, <1>4 DEF RelationCreated, RelationBroken
  <2> QED
    BY <1>1, <2>1, <2>2
<1>5. ASSUME UNCHANGED <<open, view>>
      PROVE  OneRelationEach'
  BY <1>1, <1>5
<1>6. ASSUME NEW g \in Grafanas, Hook(g)
      PROVE  OneRelationEach'
  BY <1>4, <1>5, <1>6 DEF Hook, PeerChanged, RelationChanged, RelationJoined,
                          RelationDeparted, offers
<1>7. CASE Environment
  BY <1>2, <1>3, <1>5, <1>7 DEF Environment, UrlChange, AddUnit, RemoveUnit,
                                LeaderChange, offers, grafana
<1> QED
  BY <1>5, <1>6, <1>7 DEF Next, SetSources, UpdateSources, vars, offers, grafana

\* The environment and a provider's hook keep the types.
LEMMA EnvironmentType ==
    ASSUME TypeOK, Environment
    PROVE  TypeOK'
<1> USE ConstantsAssumption DEF TypeOK, Change, bags, grafana, peerData, lease
<1>1. ASSUME NEW a \in Apps, UrlChange(a)
      PROVE  TypeOK'
  BY <1>1 DEF UrlChange
<1>2. ASSUME NEW a \in Apps, NEW u \in Units, AddUnit(a, u)
      PROVE  TypeOK'
  BY <1>2 DEF AddUnit
<1>6. ASSUME NEW a \in Apps, NEW u \in Units, RemoveUnit(a, u)
      PROVE  TypeOK'
  BY <1>6 DEF RemoveUnit
<1>3. ASSUME NEW r \in Relations, Establish(r)
      PROVE  TypeOK'
  BY <1>3 DEF Establish
<1>4. ASSUME NEW r \in Relations, Dissolve(r)
      PROVE  TypeOK'
  BY <1>4 DEF Dissolve
<1>5. ASSUME NEW g \in Grafanas, LeaderChange(g)
      PROVE  TypeOK'
  BY <1>5 DEF LeaderChange, offers
<1> QED
  BY <1>1, <1>2, <1>3, <1>4, <1>5, <1>6 DEF Environment

LEMMA SetSourcesType ==
    ASSUME TypeOK, NEW a \in Apps, NEW u \in Units, NEW leads \in BOOLEAN,
           SetSources(a, u, leads)
    PROVE  TypeOK'
<1>1. url[a] \in Urls
  BY DEF TypeOK
<1>2. appBag' \in [Relations -> AppBag]
  BY <1>1 DEF SetSources, TypeOK, AppBag
<1>3. hosted' \in [Relations -> SUBSET Units]
  BY DEF SetSources, TypeOK
<1>4. news' \in [Grafanas -> SUBSET Relations]
  BY DEF SetSources, Announce, TypeOK
<1> QED
  BY <1>2, <1>3, <1>4 DEF SetSources, TypeOK, offers, lease, peerData

\* A hook of Grafana keeps the invariant.
LEMMA HookKeeps ==
    ASSUME IInv, NEW g \in Grafanas, Hook(g) \/ UpdateSources(g)
    PROVE  TypeOK' /\ FiledUnderOwn' /\ FiledOnce' /\ NothingOfferedIsDeleted'
<1> USE DEF offers, bags, lease, peerData
<1>m. /\ members \in [Grafanas -> [Relations -> SUBSET Units]]
      /\ members[g] \in [Relations -> SUBSET Units]
  BY DEF IInv, TypeOK
<1>1. CASE PeerChanged(g)
  <2>1. Provision(shown[g], toDelete, sources) \in SUBSET Sources
    BY ProvisionType DEF IInv, TypeOK
  <2>2. shown' \in [Grafanas -> SUBSET Sources]
    BY <1>1, <2>1 DEF PeerChanged, IInv, TypeOK
  <2>3. TypeOK'
    BY <1>1, <2>2 DEF PeerChanged, IInv, TypeOK
  <2> QED
    BY <1>1, <2>3, Elsewhere DEF PeerChanged
<1>2. ASSUME NEW r \in Relations, RelationCreated(g, r) \/ RelationBroken(g, r)
      PROVE  TypeOK' /\ FiledUnderOwn' /\ FiledOnce' /\ NothingOfferedIsDeleted'
  <2>0. view[g] \cup {r} \in SUBSET Relations /\ view[g] \ {r} \in SUBSET Relations
    BY DEF IInv, TypeOK
  <2>1. view' \in [Grafanas -> SUBSET Relations]
    BY <1>2, <2>0 DEF RelationCreated, RelationBroken, IInv, TypeOK
  <2>2. news' \in [Grafanas -> SUBSET Relations]
    BY <1>2 DEF RelationCreated, RelationBroken, IInv, TypeOK
  <2>3. UNCHANGED <<offers, bags, lease, members, peerNews, peerData, uids,
                    shown, changes>>
    BY <1>2 DEF RelationCreated, RelationBroken
  <2>4. TypeOK'
    BY <2>1, <2>2, <2>3 DEF IInv, TypeOK
  <2> QED
    BY <2>3, <2>4, Elsewhere
<1>3. ASSUME NEW r \in Relations, RelationChanged(g, r)
      PROVE  TypeOK' /\ FiledUnderOwn' /\ FiledOnce' /\ NothingOfferedIsDeleted'
  <2>1. news' \in [Grafanas -> SUBSET Relations]
    BY <1>3 DEF RelationChanged, IInv, TypeOK
  <2> QED
    BY <1>3, <1>m, <2>1, ChangedHandler DEF RelationChanged, IInv, TypeOK
<1>4. ASSUME NEW r \in Relations, NEW u \in Units, RelationJoined(g, r, u)
      PROVE  TypeOK' /\ FiledUnderOwn' /\ FiledOnce' /\ NothingOfferedIsDeleted'
  <2>1. /\ members' \in [Grafanas -> [Relations -> SUBSET Units]]
        /\ members'[g] \in [Relations -> SUBSET Units]
        /\ RelationChangedHandler(g, members'[g])
    BY <1>4, <1>m DEF RelationJoined
  <2> QED
    BY <1>4, <2>1, ChangedHandler DEF RelationJoined, IInv, TypeOK
<1>5. ASSUME NEW r \in Relations, NEW u \in Units, RelationDeparted(g, r, u)
      PROVE  TypeOK' /\ FiledUnderOwn' /\ FiledOnce' /\ NothingOfferedIsDeleted'
  <2>1. members' \in [Grafanas -> [Relations -> SUBSET Units]]
    BY <1>5, <1>m DEF RelationDeparted
  <2> QED
    BY <1>5, <2>1, DepartedHandler DEF RelationDeparted, IInv, TypeOK
<1>6. CASE UpdateSources(g)
  BY <1>6, <1>m, ChangedHandler DEF UpdateSources, IInv, TypeOK
<1> QED
  BY <1>1, <1>2, <1>3, <1>4, <1>5, <1>6 DEF Hook

-----------------------------------------------------------------------------
\* The inductive invariant.
THEOREM Invariant == Spec => []IInv
<1>1. Init => IInv
  <2> SUFFICES ASSUME Init PROVE IInv
    OBVIOUS
  <2>1. TypeOK
    BY ConstantsAssumption DEF Init, TypeOK, AppBag, Blank
  <2>2. OneRelationEach
    BY DEF Init, OneRelationEach, Relations, App
  <2> QED
    BY <2>1, <2>2 DEF Init, IInv, FiledUnderOwn, FiledOnce,
                      NothingOfferedIsDeleted
<1>2. IInv /\ [Next]_vars => IInv'
  <2> SUFFICES ASSUME IInv, [Next]_vars PROVE IInv'
    OBVIOUS
  <2>0. OneRelationEach'
    BY OneRelationKept
  <2>1. CASE Environment
    <3>1. UNCHANGED <<sources, toDelete>>
      BY <2>1 DEF Environment, UrlChange, AddUnit, RemoveUnit, Establish,
                  Dissolve, LeaderChange, grafana, peerData
    <3> QED
      BY <2>0, <2>1, <3>1, EnvironmentType, Elsewhere DEF IInv
  <2>2. ASSUME NEW a \in Apps, NEW u \in Units, NEW leads \in BOOLEAN,
               SetSources(a, u, leads)
        PROVE  IInv'
    <3>1. UNCHANGED <<sources, toDelete>>
      BY <2>2 DEF SetSources, peerData
    <3> QED
      BY <2>0, <2>2, <3>1, SetSourcesType, Elsewhere DEF IInv
  <2>3. ASSUME NEW g \in Grafanas, Hook(g) \/ UpdateSources(g)
        PROVE  IInv'
    BY <2>0, <2>3, HookKeeps DEF IInv
  <2>4. CASE UNCHANGED vars
    <3>1. TypeOK' /\ UNCHANGED <<sources, toDelete>>
      BY <2>4 DEF IInv, TypeOK, vars, offers, bags, grafana, lease, peerData
    <3> QED
      BY <2>0, <3>1, Elsewhere DEF IInv
  <2> QED
    BY <2>1, <2>2, <2>3, <2>4 DEF Next
<1> QED
  BY <1>1, <1>2, PTL DEF Spec

\* The variables keep their types.
THEOREM TypeCorrect == Spec => []TypeOK
<1>1. IInv => TypeOK
  BY DEF IInv
<1> QED
  BY <1>1, Invariant, PTL

\* For any number of applications, relations and changes of Grafana's leader,
\* a source that is offered is not on the list of deletions.
THEOREM NoOfferIsDeleted == Spec => []NothingOfferedIsDeleted
<1>1. IInv => NothingOfferedIsDeleted
  BY DEF IInv
<1> QED
  BY <1>1, Invariant, PTL
=============================================================================
