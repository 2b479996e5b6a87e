------------------------- MODULE ObservabilityProofs -------------------------
(***************************************************************************)
(* Dashboards reach Grafana, and targets Prometheus, for any number of     *)
(* applications, units, relations and addresses; and the libraries that    *)
(* carry telemetry keep what they promise side by side in one deployment.  *)
(***************************************************************************)
EXTENDS Telemetry, LokiPushApiProofs

------------------------------------------------------------------------------
(* Dashboards, on the side of their charm                                  *)

\* Of what a unit stores, the templates that are no files are those its charm added,
StoresWhatIsAdded == \A u \in DashUnits : dashStored[u] \ FileTemplates = wanted[u]

\* and the files are those of its revision, but for a unit that has to load them.
StoresItsFiles ==
    \A u \in DashUnits \ upgradeDue :
        dashStored[u] \cap FileTemplates = FilesOf[revision[u]]

\* The relations that the leader knows of show what it stores.
Shows(r, u, T) == dashSent[r] = Signed(u, T) \/ (dashSent[r] = NothingSent /\ T = {})
LeaderPublished ==
    ~electedDue /\ dashLeader \notin upgradeDue
      => \A r \in dashRelated \ dashUnknown[dashLeader] :
            Shows(r, dashLeader, dashStored[dashLeader])

DashIInv == DashTypeOK /\ StoresWhatIsAdded /\ StoresItsFiles /\ LeaderPublished

-----------------------------------------------------------------------------

\* The templates of the files are replaced, the others kept.
LEMMA FromDirSorts ==
    ASSUME DashTypeOK, NEW u \in DashUnits
    PROVE  /\ FromDir(u) \in SUBSET Templates
           /\ FromDir(u) \ FileTemplates = dashStored[u] \ FileTemplates
           /\ FromDir(u) \cap FileTemplates = FilesOf[revision[u]]
  <1>1. FilesOf[revision[u]] \subseteq FileTemplates
    BY DEF DashTypeOK, FileTemplates
  <1>2. dashStored[u] \subseteq Templates
    BY DEF DashTypeOK
  <1> QED BY <1>1, <1>2 DEF FromDir, Templates

\* Storing T: every unit keeps it, the leader shows it.
LEMMA StoreStores ==
    ASSUME DashTypeOK, NEW u \in DashUnits, NEW T \in SUBSET Templates,
           NEW R \in SUBSET dashRelated, Store(u, T, R)
    PROVE  /\ dashStored' = [dashStored EXCEPT ![u] = T]
           /\ dashStored' \in [DashUnits -> SUBSET Templates]
           /\ DOMAIN dashSent' = DashRelations
           /\ \A r \in DashRelations :
                 \/ dashSent'[r] = dashSent[r]
                 \/ r \in R /\ u = dashLeader /\ dashSent'[r] = Signed(u, T)
           /\ u = dashLeader => \A r \in R : Shows(r, u, T)'
  <1>1. dashStored' = [dashStored EXCEPT ![u] = T]
    BY DEF Store
  <1>2. dashStored' \in [DashUnits -> SUBSET Templates]
    BY <1>1 DEF DashTypeOK
  <1>3. CASE u = dashLeader
    <2>1. Upset(u, T, R)
      BY <1>3 DEF Store
    <2>2. /\ DOMAIN dashSent' = DashRelations
          /\ \A r \in DashRelations :
                dashSent'[r] = IF r \in R /\ ~(dashSent[r] = NothingSent /\ T = {})
                               THEN Signed(u, T) ELSE dashSent[r]
      BY <2>1 DEF Upset
    <2>3. R \subseteq DashRelations
      BY DEF DashTypeOK
    <2>4. ASSUME NEW r \in R PROVE Shows(r, u, T)'
      <3>1. dashSent'[r] = Signed(u, T) \/ (dashSent'[r] = NothingSent /\ T = {})
        BY <2>2, <2>3
      <3> QED BY <3>1 DEF Shows, Signed
    <2> QED BY <1>1, <1>2, <1>3, <2>2, <2>4
  <1>4. CASE u # dashLeader
    BY <1>1, <1>2, <1>4 DEF Store, DashTypeOK
  <1> QED BY <1>3, <1>4

\* The types after a hook of u that stores T.
LEMMA StoreKeepsTypes ==
    ASSUME DashTypeOK, NEW u \in DashUnits, NEW T \in SUBSET Templates,
           NEW R \in SUBSET dashRelated, Store(u, T, R),
           UNCHANGED <<revision, dashLeader, dashRelated>>,
           wanted' \in [DashUnits -> SUBSET Added], electedDue' \in BOOLEAN,
           dashUnknown' \in [DashUnits -> SUBSET DashRelations],
           \A v \in DashUnits : dashUnknown'[v] \subseteq dashRelated,
           upgradeDue' \subseteq DashUnits, dashChanges' \in 0..MaxDashChanges
    PROVE  DashTypeOK'
  <1>1. /\ dashStored' \in [DashUnits -> SUBSET Templates]
        /\ DOMAIN dashSent' = DashRelations
        /\ \A r \in DashRelations :
              \/ dashSent'[r] = dashSent[r]
              \/ r \in R /\ u = dashLeader /\ dashSent'[r] = Signed(u, T)
    BY StoreStores
  <1>2. Signed(u, T) \in DashBags
    BY DEF DashBags
  <1>3. \A r \in DashRelations : dashSent'[r] \in DashBags
    BY <1>1, <1>2 DEF DashTypeOK
  <1>4. \A r \in DashRelations \ dashRelated' : dashSent'[r] = NothingSent
    BY <1>1 DEF DashTypeOK
  <1>5. dashSent' = [r \in DashRelations |-> dashSent'[r]]
    <2>1. CASE u = dashLeader
      BY <2>1 DEF Store, Upset
    <2>2. CASE u # dashLeader
      BY <2>2 DEF Store, DashTypeOK
    <2> QED BY <2>1, <2>2
  <1>6. dashSent' \in [DashRelations -> DashBags]
    BY <1>3, <1>5
  <1> QED BY <1>1, <1>4, <1>6 DEF DashTypeOK

\* And the rest of the invariant, if T has what is added and the files of the
\* revision, and if R, for the leader, are the relations it knows of then.
LEMMA StoreKeeps ==
    ASSUME DashIInv, NEW u \in DashUnits, NEW T \in SUBSET Templates,
           NEW R \in SUBSET dashRelated, Store(u, T, R),
           UNCHANGED <<revision, dashLeader, dashRelated>>,
           wanted' \in [DashUnits -> SUBSET Added], electedDue' \in BOOLEAN,
           dashUnknown' \in [DashUnits -> SUBSET DashRelations],
           \A v \in DashUnits : dashUnknown'[v] \subseteq dashRelated,
           upgradeDue' \subseteq DashUnits, dashChanges' \in 0..MaxDashChanges,
           T \ FileTemplates = wanted'[u],
           \A v \in DashUnits : v # u => wanted'[v] = wanted[v],
           u \notin upgradeDue' => T \cap FileTemplates = FilesOf[revision[u]],
           upgradeDue \ {u} \subseteq upgradeDue',
           u = dashLeader => dashRelated \ dashUnknown'[u] \subseteq R,
           u # dashLeader => UNCHANGED <<electedDue, dashUnknown>>
    PROVE  DashIInv'
  <1>0. DashTypeOK /\ DashTypeOK'
    BY StoreKeepsTypes DEF DashIInv
  <1>1. /\ dashStored' = [dashStored EXCEPT ![u] = T]
        /\ \A r \in DashRelations :
              \/ dashSent'[r] = dashSent[r]
              \/ r \in R /\ u = dashLeader /\ dashSent'[r] = Signed(u, T)
        /\ u = dashLeader => \A r \in R : Shows(r, u, T)'
    BY <1>0, StoreStores
  <1>2. /\ dashStored'[u] = T
        /\ \A v \in DashUnits : v # u => dashStored'[v] = dashStored[v]
    BY <1>0, <1>1 DEF DashTypeOK
  <1>3. FileTemplates' = FileTemplates
    BY DEF FileTemplates
  <1>4. StoresWhatIsAdded'
    BY <1>2, <1>3 DEF DashIInv, StoresWhatIsAdded
  <1>5. StoresItsFiles'
    BY <1>2, <1>3 DEF DashIInv, StoresItsFiles
  <1>6. LeaderPublished'
    <2>1. CASE u = dashLeader
      BY <1>1, <1>2, <2>1 DEF LeaderPublished, Shows, Signed
    <2>2. CASE u # dashLeader
      <3>1. ASSUME NEW r \in DashRelations PROVE dashSent'[r] = dashSent[r]
        BY <1>1, <2>2
      <3>2. dashStored'[dashLeader] = dashStored[dashLeader]
        BY <1>0, <1>2, <2>2 DEF DashTypeOK
      <3> QED BY <1>0, <2>2, <3>1, <3>2
              DEF DashIInv, LeaderPublished, Shows, Signed, DashTypeOK
    <2> QED BY <2>1, <2>2
  <1> QED BY <1>0, <1>4, <1>5, <1>6 DEF DashIInv

LEMMA DashInitIInv == DashInit => DashIInv
  <1> SUFFICES ASSUME DashInit PROVE DashIInv
    OBVIOUS
  <1>1. DashTypeOK
    BY DashAssumption DEF DashInit, DashTypeOK, DashBags
  <1> QED BY <1>1 DEF DashInit, DashIInv, StoresWhatIsAdded, StoresItsFiles, LeaderPublished

\* The hooks that load the files.
LEMMA DashFilesKeep ==
    ASSUME DashIInv, NEW u \in DashUnits,
           \/ DashUpgrade(u) \/ DashReload(u) \/ DashElected(u)
           \/ \E r \in DashRelations : DashCreated(u, r) /\ u = dashLeader
    PROVE  DashIInv'
  <1>0. /\ DashTypeOK
        /\ FromDir(u) \in SUBSET Templates
        /\ FromDir(u) \ FileTemplates = wanted[u]
        /\ FromDir(u) \cap FileTemplates = FilesOf[revision[u]]
    BY FromDirSorts DEF DashIInv, StoresWhatIsAdded
  <1>1. KnownRelations(u) \in SUBSET dashRelated
    BY DEF KnownRelations
  <1>2. CASE DashUpgrade(u)
    BY <1>0, <1>1, <1>2, StoreKeeps DEF DashUpgrade, DashTypeOK, KnownRelations
  <1>3. CASE DashReload(u)
    BY <1>0, <1>1, <1>3, StoreKeeps DEF DashReload, DashTypeOK, KnownRelations
  <1>4. CASE DashElected(u)
    <2>1. /\ u = dashLeader /\ electedDue' = FALSE
          /\ Store(u, FromDir(u), KnownRelations(u))
          /\ UNCHANGED <<revision, wanted, dashLeader, dashUnknown, dashRelated,
                         upgradeDue, dashChanges>>
      BY <1>4 DEF DashElected
    <2>2. dashRelated \ dashUnknown'[u] \subseteq KnownRelations(u)
      BY <2>1 DEF KnownRelations
    <2> QED BY <1>0, <1>1, <2>1, <2>2, StoreKeeps DEF DashTypeOK
  <1>5. ASSUME NEW r \in DashRelations, DashCreated(u, r), u = dashLeader
        PROVE  DashIInv'
    <2>1. /\ r \in dashUnknown[u] \cap dashRelated
          /\ dashUnknown' = [dashUnknown EXCEPT ![u] = @ \ {r}]
          /\ Store(u, FromDir(u), KnownRelations(u) \cup {r})
          /\ UNCHANGED <<revision, wanted, dashLeader, electedDue, dashRelated,
                         upgradeDue, dashChanges>>
      BY <1>5 DEF DashCreated
    <2>2. /\ dashUnknown' \in [DashUnits -> SUBSET DashRelations]
          /\ \A v \in DashUnits : dashUnknown'[v] \subseteq dashRelated
          /\ dashUnknown'[u] = dashUnknown[u] \ {r}
      BY <1>0, <2>1 DEF DashTypeOK
    <2>3. /\ KnownRelations(u) \cup {r} \in SUBSET dashRelated
          /\ dashRelated \ dashUnknown'[u] \subseteq KnownRelations(u) \cup {r}
      BY <2>1, <2>2 DEF KnownRelations
    <2> QED BY <1>0, <1>5, <2>1, <2>2, <2>3, StoreKeeps DEF DashTypeOK
  <1> QED BY <1>2, <1>3, <1>4, <1>5

\* The methods with which the charm adds and removes templates.
LEMMA DashMethodsKeep ==
    ASSUME DashIInv, DashChange, NEW u \in DashUnits,
           (\E t \in Added : AddDashboard(u, t)) \/ RemoveNonBuiltin(u)
    PROVE  DashIInv'
  <1>0. /\ DashTypeOK /\ dashStored[u] \subseteq Templates
        /\ dashStored[u] \ FileTemplates = wanted[u]
        /\ u \notin upgradeDue => dashStored[u] \cap FileTemplates = FilesOf[revision[u]]
    BY DEF DashIInv, DashTypeOK, StoresWhatIsAdded, StoresItsFiles
  <1>1. /\ KnownRelations(u) \in SUBSET dashRelated
        /\ dashRelated \ dashUnknown[u] \subseteq KnownRelations(u)
        /\ dashChanges' \in 0..MaxDashChanges
    BY <1>0, DashAssumption DEF KnownRelations, DashChange, DashTypeOK
  <1>2. ASSUME NEW t \in Added, AddDashboard(u, t) PROVE DashIInv'
    <2>1. /\ wanted' = [wanted EXCEPT ![u] = @ \cup {t}]
          /\ Store(u, dashStored[u] \cup {t}, KnownRelations(u))
          /\ UNCHANGED <<revision, dashLeader, electedDue, dashUnknown, dashRelated,
                         upgradeDue>>
      BY <1>2 DEF AddDashboard
    <2>2. t \in Templates /\ t \notin FileTemplates
      BY DashAssumption DEF Templates
    <2>3. /\ dashStored[u] \cup {t} \in SUBSET Templates
          /\ (dashStored[u] \cup {t}) \ FileTemplates = wanted[u] \cup {t}
          /\ (dashStored[u] \cup {t}) \cap FileTemplates = dashStored[u] \cap FileTemplates
      BY <1>0, <2>2
    <2>4. /\ wanted' \in [DashUnits -> SUBSET Added]
          /\ wanted'[u] = wanted[u] \cup {t}
          /\ \A v \in DashUnits : v # u => wanted'[v] = wanted[v]
      BY <1>0, <2>1 DEF DashTypeOK
    <2> QED BY <1>0, <1>1, <2>1, <2>3, <2>4, StoreKeeps DEF DashTypeOK
  <1>3. CASE RemoveNonBuiltin(u)
    <2>1. /\ wanted' = [wanted EXCEPT ![u] = {}]
          /\ Store(u, dashStored[u] \cap FileTemplates, KnownRelations(u))
          /\ UNCHANGED <<revision, dashLeader, electedDue, dashUnknown, dashRelated,
                         upgradeDue>>
      BY <1>3 DEF RemoveNonBuiltin
    <2>2. /\ dashStored[u] \cap FileTemplates \in SUBSET Templates
          /\ (dashStored[u] \cap FileTemplates) \ FileTemplates = {}
          /\ (dashStored[u] \cap FileTemplates) \cap FileTemplates
                = dashStored[u] \cap FileTemplates
      BY <1>0
    <2>3. /\ wanted' \in [DashUnits -> SUBSET Added]
          /\ wanted'[u] = {} /\ \A v \in DashUnits : v # u => wanted'[v] = wanted[v]
      BY <1>0, <2>1 DEF DashTypeOK
    <2> QED BY <1>0, <1>1, <2>1, <2>2, <2>3, StoreKeeps DEF DashTypeOK
  <1> QED BY <1>2, <1>3

\* Publishing again, and what the others do in relation-created.
LEMMA DashPublishKeeps ==
    ASSUME DashIInv, NEW u \in DashUnits,
           \/ RepublishDashboards(u)
           \/ \E r \in DashRelations : DashCreated(u, r) /\ u # dashLeader
    PROVE  DashIInv'
  <1>1. CASE RepublishDashboards(u)
    <2>1. /\ u = dashLeader /\ Upset(u, dashStored[u], KnownRelations(u))
          /\ UNCHANGED <<revision, dashStored, wanted, dashLeader, electedDue,
                         dashUnknown, dashRelated, upgradeDue, dashChanges>>
      BY <1>1 DEF RepublishDashboards
    <2>2. dashStored[u] \in SUBSET Templates /\ KnownRelations(u) \in SUBSET dashRelated
      BY DEF DashIInv, DashTypeOK, KnownRelations
    <2>3. dashStored' = [dashStored EXCEPT ![u] = dashStored[u]]
      BY <2>1 DEF DashIInv, DashTypeOK
    <2>4. Store(u, dashStored[u], KnownRelations(u))
      BY <2>1, <2>3 DEF Store
    <2>5. /\ DashTypeOK /\ dashStored[u] \ FileTemplates = wanted[u]
          /\ u \notin upgradeDue => dashStored[u] \cap FileTemplates = FilesOf[revision[u]]
      BY DEF DashIInv, StoresWhatIsAdded, StoresItsFiles
    <2> QED BY <2>1, <2>2, <2>4, <2>5, StoreKeeps DEF DashTypeOK, KnownRelations
  <1>2. ASSUME NEW r \in DashRelations, DashCreated(u, r), u # dashLeader
        PROVE  DashIInv'
    <2>1. /\ dashUnknown' = [dashUnknown EXCEPT ![u] = @ \ {r}]
          /\ UNCHANGED <<revision, dashStored, wanted, dashLeader, electedDue,
                         dashRelated, dashSent, upgradeDue, dashChanges>>
      BY <1>2 DEF DashCreated
    <2>2. DashTypeOK'
      BY <2>1 DEF DashIInv, DashTypeOK
    <2>3. dashUnknown'[dashLeader] = dashUnknown[dashLeader]
      BY <1>2, <2>1 DEF DashIInv, DashTypeOK
    <2> QED BY <2>1, <2>2, <2>3
            DEF DashIInv, StoresWhatIsAdded, StoresItsFiles, LeaderPublished, Shows
  <1> QED BY <1>1, <1>2

LEMMA DashEnvironmentKeeps ==
    ASSUME DashIInv,
           \/ \E u \in DashUnits :
                 \/ DashPodMoves(u) \/ DashLeaseMoves(u)
                 \/ \E v \in Revisions : DashRefresh(u, v)
           \/ \E r \in DashRelations : RelateDashboards(r) \/ UnrelateDashboards(r)
    PROVE  DashIInv'
  <1>0. DashTypeOK /\ FileTemplates' = FileTemplates
    BY DEF DashIInv, FileTemplates
  <1>1. dashChanges' \in 0..MaxDashChanges
    BY <1>0, DashAssumption
       DEF DashTypeOK, DashPodMoves, DashLeaseMoves, DashRefresh, RelateDashboards,
           UnrelateDashboards, DashChange
  <1>2. ASSUME NEW u \in DashUnits, DashPodMoves(u) PROVE DashIInv'
    <2>1. /\ dashStored' = [dashStored EXCEPT ![u] = {}]
          /\ wanted' = [wanted EXCEPT ![u] = {}]
          /\ upgradeDue' = upgradeDue \cup {u}
          /\ UNCHANGED <<revision, dashLeader, electedDue, dashUnknown, dashRelated,
                         dashSent>>
      BY <1>2 DEF DashPodMoves
    <2>2. DashTypeOK'
      BY <1>0, <1>1, <2>1 DEF DashTypeOK
    <2>3. StoresWhatIsAdded'
      BY <1>0, <2>1 DEF DashIInv, DashTypeOK, StoresWhatIsAdded
    <2>4. StoresItsFiles' /\ LeaderPublished'
      BY <1>0, <2>1 DEF DashIInv, DashTypeOK, StoresItsFiles, LeaderPublished, Shows
    <2> QED BY <2>2, <2>3, <2>4 DEF DashIInv
  <1>3. ASSUME NEW u \in DashUnits, DashLeaseMoves(u) PROVE DashIInv'
    <2>1. /\ dashLeader' = u /\ electedDue' = TRUE
          /\ UNCHANGED <<revision, dashStored, wanted, dashUnknown, dashRelated,
                         dashSent, upgradeDue>>
      BY <1>3 DEF DashLeaseMoves
    <2>2. DashTypeOK'
      BY <1>0, <1>1, <2>1 DEF DashTypeOK
    <2> QED BY <1>0, <2>1, <2>2
            DEF DashIInv, StoresWhatIsAdded, StoresItsFiles, LeaderPublished
  <1>4. ASSUME NEW u \in DashUnits, NEW v \in Revisions, DashRefresh(u, v)
        PROVE  DashIInv'
    <2>1. /\ revision' = [revision EXCEPT ![u] = v]
          /\ upgradeDue' = upgradeDue \cup {u}
          /\ UNCHANGED <<dashStored, wanted, dashLeader, electedDue, dashUnknown,
                         dashRelated, dashSent>>
      BY <1>4 DEF DashRefresh
    <2>2. DashTypeOK'
      BY <1>0, <1>1, <2>1 DEF DashTypeOK
    <2>3. StoresItsFiles'
      BY <1>0, <2>1 DEF DashIInv, DashTypeOK, StoresItsFiles
    <2> QED BY <1>0, <2>1, <2>2, <2>3 DEF DashIInv, StoresWhatIsAdded, LeaderPublished, Shows
  <1>5. ASSUME NEW r \in DashRelations, RelateDashboards(r) PROVE DashIInv'
    <2>1. /\ dashRelated' = dashRelated \cup {r}
          /\ dashUnknown' = [u \in DashUnits |-> dashUnknown[u] \cup {r}]
          /\ UNCHANGED <<revision, dashStored, wanted, dashLeader, electedDue, dashSent,
                         upgradeDue>>
      BY <1>5 DEF RelateDashboards
    <2>2. DashTypeOK'
      BY <1>0, <1>1, <2>1 DEF DashTypeOK
    <2>3. dashRelated' \ dashUnknown'[dashLeader] \subseteq dashRelated \ dashUnknown[dashLeader]
      BY <1>0, <2>1 DEF DashTypeOK
    <2> QED BY <1>0, <2>1, <2>2, <2>3
            DEF DashIInv, StoresWhatIsAdded, StoresItsFiles, LeaderPublished, Shows
  <1>6. ASSUME NEW r \in DashRelations, UnrelateDashboards(r) PROVE DashIInv'
    <2>1. /\ dashRelated' = dashRelated \ {r}
          /\ dashUnknown' = [u \in DashUnits |-> dashUnknown[u] \ {r}]
          /\ dashSent' = [dashSent EXCEPT ![r] = NothingSent]
          /\ UNCHANGED <<revision, dashStored, wanted, dashLeader, electedDue, upgradeDue>>
      BY <1>6 DEF UnrelateDashboards
    <2>2. /\ dashUnknown' \in [DashUnits -> SUBSET DashRelations]
          /\ \A u \in DashUnits : dashUnknown'[u] = dashUnknown[u] \ {r}
      BY <1>0, <2>1 DEF DashTypeOK
    <2>3. /\ \A s \in DashRelations : s # r => dashSent'[s] = dashSent[s]
          /\ dashSent'[r] = NothingSent
          /\ NothingSent \in DashBags
      BY <1>0, <2>1 DEF DashTypeOK, DashBags
    <2>4. DashTypeOK'
      BY <1>0, <1>1, <2>1, <2>2, <2>3 DEF DashTypeOK
    <2>6. LeaderPublished'
      BY <1>0, <2>1, <2>2, <2>3 DEF DashIInv, DashTypeOK, LeaderPublished, Shows
    <2> QED BY <1>0, <2>1, <2>4, <2>6 DEF DashIInv, StoresWhatIsAdded, StoresItsFiles
  <1> QED BY <1>2, <1>3, <1>4, <1>5, <1>6

LEMMA DashKeepsIInv == DashIInv /\ [DashNext]_dashVars => DashIInv'
  <1> SUFFICES ASSUME DashIInv, [DashNext]_dashVars PROVE DashIInv'
    OBVIOUS
  <1>1. CASE UNCHANGED dashVars
    <2>1. DashTypeOK'
      BY <1>1 DEF dashVars, DashIInv, DashTypeOK
    <2> QED BY <1>1, <2>1 DEF dashVars, DashIInv, StoresWhatIsAdded, StoresItsFiles,
                             LeaderPublished, Shows
  <1>2. CASE \E u \in DashUnits :
              \/ DashUpgrade(u) \/ DashReload(u) \/ DashElected(u) \/ RepublishDashboards(u)
              \/ \E r \in DashRelations : DashCreated(u, r)
    BY <1>2, DashFilesKeep, DashPublishKeeps
  <1>3. CASE DashChange /\ \E u \in DashUnits : \/ \E t \in Added : AddDashboard(u, t)
                                               \/ RemoveNonBuiltin(u)
    BY <1>3, DashMethodsKeep
  <1> QED BY <1>1, <1>2, <1>3, DashEnvironmentKeeps DEF DashNext

LEMMA DashInvariant == DashSpec => []DashIInv
  BY DashInitIInv, DashKeepsIInv, PTL DEF DashSpec

\* What a charm shows Grafana (GrafanaDashboardProvider) is what its leader has:
\* the files of its revision and the templates it added, once its hooks have
\* run, for any number of units, relations, revisions and templates.
THEOREM LeadersTemplatesAlwaysSent == DashSpec => []LeadersTemplatesSent
  <1>1. DashIInv => LeadersTemplatesSent
    <2> SUFFICES ASSUME DashIInv, ~electedDue, dashLeader \notin upgradeDue,
                        NEW r \in dashRelated \ dashUnknown[dashLeader]
                 PROVE  LET T == FilesOf[revision[dashLeader]] \cup wanted[dashLeader]
                        IN  \/ dashSent[r] = Signed(dashLeader, T)
                            \/ dashSent[r] = NothingSent /\ T = {}
      BY DEF LeadersTemplatesSent
    <2>1. dashLeader \in DashUnits
      BY DEF DashIInv, DashTypeOK
    <2>2. dashStored[dashLeader] = FilesOf[revision[dashLeader]] \cup wanted[dashLeader]
      BY <2>1 DEF DashIInv, StoresWhatIsAdded, StoresItsFiles
    <2>3. Shows(r, dashLeader, dashStored[dashLeader])
      BY DEF DashIInv, LeaderPublished
    <2> QED BY <2>2, <2>3 DEF Shows
  <1> QED BY <1>1, DashInvariant, PTL

------------------------------------------------------------------------------
(* Dashboards, on the side of Grafana                                      *)

\* Only a relation that is there carries an offer, and one without has left
\* nothing behind.
OffersOfRelated ==
    \A r \in Offerers :
        /\ offered[r] # Nothing => r \in offerRelated
        /\ r \in offerRelated /\ offered[r] = Nothing
             => dashStore[r] = {} /\ r \notin dashInvalid

\* The leader has rendered and judged the offers of the relations that it knows
\* of and has no news of.
Judged(r) ==
    /\ dashStore[r] = IF IsOffer(r) THEN offered[r] ELSE {}
    /\ r \in dashInvalid <=> IsInvalid(r)
OffersJudged ==
    caughtUp => \A r \in (offerSeen[grafanaLeader] \ offerNews[grafanaLeader])
                           \cap offerRelated : Judged(r)

\* As long as the lease does not move, the leader knows the relations whose
\* dashboards are kept,
KeptAreKnown ==
    ~leaseMoved => \A r \in Offerers \ offerSeen[grafanaLeader] : dashStore[r] = {}

\* and the other units show what is kept, or are to be told.
OthersShow ==
    ~leaseMoved => \A g \in GrafanaUnits \ storeNews :
                      g # grafanaLeader => inGrafana[g] = Winners(dashStore)

\* The leader shows it at once.
LeaderShows == caughtUp => inGrafana[grafanaLeader] = Winners(dashStore)

OfferIInv ==
    /\ OfferTypeOK /\ OffersOfRelated /\ OffersJudged
    /\ KeptAreKnown /\ OthersShow /\ LeaderShows

-----------------------------------------------------------------------------

\* Grafana shows dashboards of relations that it keeps.
LEMMA WinnersAreKept ==
    ASSUME NEW store
    PROVE  Winners(store) \in SUBSET (Offerers \X Dashboards)
  BY DEF Winners, Kept

\* A store without dashboards shows none.
LEMMA NothingKept ==
    Winners([r \in Offerers |-> {}]) = {}
  BY DEF Winners, Kept

\* _render_dashboards_and_signal_changed keeps what renders of the relations R,
\* and the leader has then judged them.
LEMMA RenderedJudges ==
    ASSUME OfferTypeOK, OffersOfRelated, NEW R \in SUBSET Offerers
    PROVE  /\ Rendered(R) \in [Offerers -> SUBSET {d \in Dashboards : d.renders}]
           /\ ErrorsAfter(R) \subseteq offerRelated
           /\ \A r \in Offerers \ R :
                 Rendered(R)[r] = dashStore[r] /\ (r \in ErrorsAfter(R) <=> r \in dashInvalid)
           /\ \A r \in R \cap offerRelated :
                 /\ Rendered(R)[r] = IF IsOffer(r) THEN offered[r] ELSE {}
                 /\ r \in ErrorsAfter(R) <=> IsInvalid(r)
           /\ \A r \in R \ offerRelated : Rendered(R)[r] = dashStore[r]
  <1>1. ASSUME NEW r \in Offerers
        PROVE  /\ IsOffer(r) => offered[r] \in SUBSET {d \in Dashboards : d.renders}
               /\ offered[r] # Nothing <=> IsOffer(r) \/ IsInvalid(r)
               /\ ~(IsOffer(r) /\ IsInvalid(r))
               /\ IsInvalid(r) => r \in offerRelated
    <2>1. offered[r] # Nothing => offered[r] \in SUBSET Dashboards
      BY OfferAssumption DEF OfferTypeOK
    <2>2. \A d \in Dashboards : d.renders \in BOOLEAN
      BY OfferAssumption
    <2> QED BY <2>1, <2>2 DEF IsOffer, IsInvalid, OffersOfRelated
  <1>2. ASSUME NEW r \in Offerers
        PROVE  Rendered(R)[r] \in SUBSET {d \in Dashboards : d.renders}
    <2>1. dashStore[r] \in SUBSET {d \in Dashboards : d.renders}
      BY DEF OfferTypeOK
    <2>2. Rendered(R)[r] \in {offered[r], {}, dashStore[r]} /\ (Rendered(R)[r] = offered[r] => IsOffer(r) \/ Rendered(R)[r] = {} \/ Rendered(R)[r] = dashStore[r])
      BY DEF Rendered
    <2> QED BY <1>1, <2>1, <2>2
  <1>3. Rendered(R) \in [Offerers -> SUBSET {d \in Dashboards : d.renders}]
    BY <1>2 DEF Rendered
  <1>4. ErrorsAfter(R) \subseteq offerRelated
    BY <1>1 DEF ErrorsAfter, OfferTypeOK
  <1>5. ASSUME NEW r \in Offerers \ R
        PROVE  Rendered(R)[r] = dashStore[r] /\ (r \in ErrorsAfter(R) <=> r \in dashInvalid)
    BY DEF Rendered, ErrorsAfter
  <1>6. ASSUME NEW r \in R \cap offerRelated
        PROVE  /\ Rendered(R)[r] = IF IsOffer(r) THEN offered[r] ELSE {}
               /\ r \in ErrorsAfter(R) <=> IsInvalid(r)
    BY <1>1 DEF Rendered, ErrorsAfter, OffersOfRelated
  <1>7. ASSUME NEW r \in R \ offerRelated PROVE Rendered(R)[r] = dashStore[r]
    BY <1>1 DEF Rendered, OffersOfRelated, IsOffer
  <1> QED BY <1>3, <1>4, <1>5, <1>6, <1>7

LEMMA OfferInitIInv == OfferInit => OfferIInv
  <1> SUFFICES ASSUME OfferInit PROVE OfferIInv
    OBVIOUS
  <1>0. offerChanges \in 0..MaxOfferChanges
    BY OfferAssumption DEF OfferInit
  <1>1. OfferTypeOK
    BY <1>0 DEF OfferInit, OfferTypeOK
  <1>2. Winners(dashStore) = {}
    BY NothingKept DEF OfferInit
  <1> QED BY <1>1, <1>2
          DEF OfferInit, OfferIInv, OffersOfRelated, OffersJudged, KeptAreKnown, OthersShow,
              LeaderShows

\* set_peer_data by the leader, which provisions its server when anything changes.
LEMMA LeaderProvisions ==
    ASSUME OfferIInv, NEW store, SetDashboards(grafanaLeader, store),
           ProvisionDashboards(grafanaLeader) \/ (store = dashStore /\ UNCHANGED inGrafana),
           UNCHANGED <<grafanaLeader, leaseMoved>>, caughtUp' \in BOOLEAN,
           caughtUp' /\ ~caughtUp => ProvisionDashboards(grafanaLeader)
    PROVE  /\ dashStore' = store
           /\ storeNews' \subseteq GrafanaUnits
           /\ inGrafana' \in [GrafanaUnits -> SUBSET (Offerers \X Dashboards)]
           /\ OthersShow' /\ LeaderShows'
  <1>1. /\ dashStore' = store
        /\ storeNews' = IF store # dashStore
                        THEN storeNews \cup (GrafanaUnits \ {grafanaLeader}) ELSE storeNews
    BY DEF SetDashboards
  <1>2. /\ grafanaLeader \in GrafanaUnits /\ storeNews \subseteq GrafanaUnits
        /\ inGrafana \in [GrafanaUnits -> SUBSET (Offerers \X Dashboards)]
    BY DEF OfferIInv, OfferTypeOK
  <1>3. /\ inGrafana' \in [GrafanaUnits -> SUBSET (Offerers \X Dashboards)]
        /\ \A g \in GrafanaUnits : g # grafanaLeader => inGrafana'[g] = inGrafana[g]
        /\ \/ inGrafana'[grafanaLeader] = Winners(store)
           \/ ~ProvisionDashboards(grafanaLeader) /\ store = dashStore /\ inGrafana' = inGrafana
    BY <1>1, <1>2, WinnersAreKept DEF ProvisionDashboards
  <1>4. Winners(dashStore)' = Winners(store)
    BY <1>1 DEF Winners, Kept
  <1>5. OthersShow'
    BY <1>1, <1>2, <1>3, <1>4 DEF OfferIInv, OthersShow
  <1>6. LeaderShows'
    BY <1>1, <1>2, <1>3, <1>4 DEF OfferIInv, LeaderShows
  <1> QED BY <1>1, <1>2, <1>3, <1>5, <1>6

\* The hooks, one by one.
LEMMA OfferChangedKeeps ==
    ASSUME OfferIInv, NEW g \in GrafanaUnits, NEW r \in Offerers, OfferChanged(g, r)
    PROVE  OfferIInv'
  <1>0. OfferTypeOK /\ OffersOfRelated
    BY DEF OfferIInv
  <1>1. /\ r \in offerNews[g] /\ r \in offerSeen[g]
        /\ offerNews' = [offerNews EXCEPT ![g] = @ \ {r}]
        /\ UNCHANGED <<offered, offerRelated, offerSeen, grafanaLeader, caughtUp,
                       leaseMoved, offerChanges>>
    BY <1>0 DEF OfferChanged, OfferTypeOK
  <1>2. /\ offerNews' \in [GrafanaUnits -> SUBSET Offerers]
        /\ \A h \in GrafanaUnits : offerNews'[h] \subseteq offerSeen'[h]
        /\ offerNews'[g] = offerNews[g] \ {r}
        /\ \A h \in GrafanaUnits : h # g => offerNews'[h] = offerNews[h]
    BY <1>0, <1>1 DEF OfferTypeOK
  <1>3. \A s \in Offerers : (IsOffer(s)' <=> IsOffer(s)) /\ (IsInvalid(s)' <=> IsInvalid(s))
    BY <1>1 DEF IsOffer, IsInvalid
  <1>4. CASE g = grafanaLeader
    <2>1. /\ SetDashboards(g, Rendered({r})) /\ dashInvalid' = ErrorsAfter({r})
          /\ ProvisionDashboards(g) \/ (dashStore' = dashStore /\ UNCHANGED inGrafana)
      BY <1>4 DEF OfferChanged, RenderOffers
    <2>2. dashStore' = Rendered({r})
      BY <2>1 DEF SetDashboards
    <2>3. /\ storeNews' \subseteq GrafanaUnits
          /\ inGrafana' \in [GrafanaUnits -> SUBSET (Offerers \X Dashboards)]
          /\ OthersShow' /\ LeaderShows'
      BY <1>0, <1>1, <1>4, <2>1, <2>2, LeaderProvisions DEF OfferTypeOK
    <2>4. {r} \in SUBSET Offerers
      OBVIOUS
    <2>5. /\ dashStore' \in [Offerers -> SUBSET {d \in Dashboards : d.renders}]
          /\ dashInvalid' \subseteq offerRelated
          /\ \A s \in Offerers \ {r} :
                dashStore'[s] = dashStore[s] /\ (s \in dashInvalid' <=> s \in dashInvalid)
          /\ r \in offerRelated =>
                /\ dashStore'[r] = IF IsOffer(r) THEN offered[r] ELSE {}
                /\ r \in dashInvalid' <=> IsInvalid(r)
          /\ r \notin offerRelated => dashStore'[r] = dashStore[r]
      BY <1>0, <2>1, <2>2, <2>4, RenderedJudges
    <2>6. OfferTypeOK'
      BY <1>0, <1>1, <1>2, <2>3, <2>5 DEF OfferTypeOK
    <2>7. OffersOfRelated'
      BY <1>0, <1>1, <2>5 DEF OffersOfRelated, IsOffer, IsInvalid
    <2>8. OffersJudged'
      <3> SUFFICES ASSUME caughtUp,
                          NEW s \in (offerSeen[g] \ offerNews'[g]) \cap offerRelated
                   PROVE  Judged(s)'
        BY <1>1, <1>4 DEF OffersJudged
      <3>1. s \in Offerers
        BY <1>0 DEF OfferTypeOK
      <3>2. CASE s = r
        BY <1>1, <1>3, <2>5, <3>1, <3>2 DEF Judged
      <3>3. CASE s # r
        <4>1. Judged(s)
          BY <1>2, <1>4, <3>3 DEF OfferIInv, OffersJudged
        <4> QED BY <1>1, <1>3, <2>5, <3>1, <3>3, <4>1 DEF Judged
      <3> QED BY <3>2, <3>3
    <2>9. KeptAreKnown'
      BY <1>0, <1>1, <1>4, <2>5 DEF OfferIInv, KeptAreKnown
    <2> QED BY <2>3, <2>6, <2>7, <2>8, <2>9 DEF OfferIInv
  <1>5. CASE g # grafanaLeader
    <2>1. UNCHANGED <<dashStore, dashInvalid, storeNews, inGrafana>>
      BY <1>5 DEF OfferChanged
    <2>2. OfferTypeOK'
      BY <1>0, <1>1, <1>2, <2>1 DEF OfferTypeOK
    <2>3. offerNews'[grafanaLeader] = offerNews[grafanaLeader]
      BY <1>0, <1>2, <1>5 DEF OfferTypeOK
    <2>4. OffersJudged'
      BY <1>0, <1>1, <1>3, <2>1, <2>3 DEF OfferIInv, OffersJudged, Judged, OfferTypeOK
    <2> QED BY <1>1, <2>1, <2>2, <2>4
            DEF OfferIInv, OffersOfRelated, KeptAreKnown, OthersShow, LeaderShows
  <1> QED BY <1>4, <1>5

LEMMA UpdateDashboardsKeeps ==
    ASSUME OfferIInv, NEW g \in GrafanaUnits, UpdateDashboards(g)
    PROVE  OfferIInv'
  <1>0. OfferTypeOK /\ OffersOfRelated
    BY DEF OfferIInv
  <1>1. /\ g = grafanaLeader /\ caughtUp' = TRUE
        /\ SetDashboards(g, Rendered(offerSeen[g])) /\ dashInvalid' = ErrorsAfter(offerSeen[g])
        /\ ProvisionDashboards(g)
        /\ UNCHANGED <<offered, offerRelated, offerSeen, offerNews, grafanaLeader,
                       leaseMoved, offerChanges>>
    BY DEF UpdateDashboards, RenderOffers
  <1>2. dashStore' = Rendered(offerSeen[g])
    BY <1>1 DEF SetDashboards
  <1>3. /\ storeNews' \subseteq GrafanaUnits
        /\ inGrafana' \in [GrafanaUnits -> SUBSET (Offerers \X Dashboards)]
        /\ OthersShow' /\ LeaderShows'
    BY <1>1, LeaderProvisions
  <1>4. offerSeen[g] \in SUBSET Offerers
    BY <1>0 DEF OfferTypeOK
  <1>5. /\ dashStore' \in [Offerers -> SUBSET {d \in Dashboards : d.renders}]
        /\ dashInvalid' \subseteq offerRelated
        /\ \A s \in Offerers \ offerSeen[g] :
              dashStore'[s] = dashStore[s] /\ (s \in dashInvalid' <=> s \in dashInvalid)
        /\ \A s \in offerSeen[g] \cap offerRelated :
              /\ dashStore'[s] = IF IsOffer(s) THEN offered[s] ELSE {}
              /\ s \in dashInvalid' <=> IsInvalid(s)
    BY <1>0, <1>1, <1>2, <1>4, RenderedJudges
  <1>6. OfferTypeOK'
    BY <1>0, <1>1, <1>3, <1>5 DEF OfferTypeOK
  <1>7. OffersOfRelated'
    BY <1>0, <1>1, <1>5 DEF OffersOfRelated, IsOffer, IsInvalid
  <1>8. \A s \in Offerers : (IsOffer(s)' <=> IsOffer(s)) /\ (IsInvalid(s)' <=> IsInvalid(s))
    BY <1>1 DEF IsOffer, IsInvalid
  <1>9. OffersJudged'
    BY <1>0, <1>1, <1>4, <1>5, <1>8 DEF OffersJudged, Judged
  <1>10. KeptAreKnown'
    BY <1>0, <1>1, <1>5 DEF OfferIInv, KeptAreKnown
  <1> QED BY <1>3, <1>6, <1>7, <1>9, <1>10 DEF OfferIInv

LEMMA OffererBrokenKeeps ==
    ASSUME OfferIInv, NEW g \in GrafanaUnits, NEW r \in Offerers, OffererBroken(g, r)
    PROVE  OfferIInv'
  <1>0. OfferTypeOK
    BY DEF OfferIInv
  <1>1. /\ r \in offerSeen[g] \ offerRelated
        /\ offerSeen' = [offerSeen EXCEPT ![g] = @ \ {r}]
        /\ offerNews' = [offerNews EXCEPT ![g] = @ \ {r}]
        /\ UNCHANGED <<offered, offerRelated, grafanaLeader, caughtUp, leaseMoved,
                       dashInvalid, offerChanges>>
    BY DEF OffererBroken
  <1>2. /\ offerSeen' \in [GrafanaUnits -> SUBSET Offerers]
        /\ offerNews' \in [GrafanaUnits -> SUBSET Offerers]
        /\ \A h \in GrafanaUnits : offerNews'[h] \subseteq offerSeen'[h]
        /\ offerSeen'[g] = offerSeen[g] \ {r} /\ offerNews'[g] = offerNews[g] \ {r}
        /\ \A h \in GrafanaUnits : h # g => /\ offerSeen'[h] = offerSeen[h]
                                            /\ offerNews'[h] = offerNews[h]
    BY <1>0, <1>1 DEF OfferTypeOK
  <1>3. /\ storeNews' \subseteq GrafanaUnits
        /\ inGrafana' \in [GrafanaUnits -> SUBSET (Offerers \X Dashboards)]
        /\ OthersShow' /\ LeaderShows'
        /\ dashStore' \in [Offerers -> SUBSET {d \in Dashboards : d.renders}]
        /\ \A s \in Offerers \ {r} : dashStore'[s] = dashStore[s]
        /\ g = grafanaLeader => dashStore'[r] = {}
        /\ g # grafanaLeader => dashStore' = dashStore
    <2>1. CASE g = grafanaLeader /\ dashStore[r] # {}
      <3>1. /\ SetDashboards(g, [dashStore EXCEPT ![r] = {}]) /\ ProvisionDashboards(g)
        BY <2>1 DEF OffererBroken
      <3>2. dashStore' = [dashStore EXCEPT ![r] = {}]
        BY <3>1 DEF SetDashboards
      <3>3. /\ storeNews' \subseteq GrafanaUnits
            /\ inGrafana' \in [GrafanaUnits -> SUBSET (Offerers \X Dashboards)]
            /\ OthersShow' /\ LeaderShows'
        BY <1>0, <1>1, <2>1, <3>1, LeaderProvisions DEF OfferTypeOK
      <3> QED BY <1>0, <2>1, <3>2, <3>3 DEF OfferTypeOK
    <2>2. CASE ~(g = grafanaLeader /\ dashStore[r] # {})
      <3>1. UNCHANGED <<dashStore, storeNews, inGrafana>>
        BY <2>2 DEF OffererBroken
      <3> QED BY <1>0, <1>1, <2>2, <3>1 DEF OfferIInv, OfferTypeOK, OthersShow, LeaderShows
    <2> QED BY <2>1, <2>2
  <1>4. OfferTypeOK'
    BY <1>0, <1>1, <1>2, <1>3 DEF OfferTypeOK
  <1>5. OffersOfRelated'
    BY <1>1, <1>3 DEF OfferIInv, OffersOfRelated
  <1>6. \A s \in Offerers : (IsOffer(s)' <=> IsOffer(s)) /\ (IsInvalid(s)' <=> IsInvalid(s))
    BY <1>1 DEF IsOffer, IsInvalid
  <1>7. OffersJudged'
    BY <1>0, <1>1, <1>2, <1>3, <1>6 DEF OfferIInv, OffersJudged, Judged, OfferTypeOK
  <1>8. KeptAreKnown'
    BY <1>0, <1>1, <1>2, <1>3 DEF OfferIInv, KeptAreKnown, OfferTypeOK
  <1> QED BY <1>3, <1>4, <1>5, <1>7, <1>8 DEF OfferIInv

LEMMA OffererJoinedKeeps ==
    ASSUME OfferIInv, NEW g \in GrafanaUnits, NEW r \in Offerers, OffererJoined(g, r)
    PROVE  OfferIInv'
  <1>0. OfferTypeOK
    BY DEF OfferIInv
  <1>1. /\ offerSeen' = [offerSeen EXCEPT ![g] = @ \cup {r}]
        /\ offerNews' = [offerNews EXCEPT ![g] = @ \cup {r}]
        /\ UNCHANGED <<offered, offerRelated, grafanaLeader, caughtUp, leaseMoved,
                       dashStore, dashInvalid, storeNews, inGrafana, offerChanges>>
    BY DEF OffererJoined
  <1>2. /\ offerSeen' \in [GrafanaUnits -> SUBSET Offerers]
        /\ offerNews' \in [GrafanaUnits -> SUBSET Offerers]
        /\ \A h \in GrafanaUnits : /\ offerNews'[h] \subseteq offerSeen'[h]
                                   /\ offerSeen[h] \subseteq offerSeen'[h]
                                   /\ offerSeen'[h] \ offerNews'[h]
                                        \subseteq offerSeen[h] \ offerNews[h]
    BY <1>0, <1>1 DEF OfferTypeOK
  <1>3. OfferTypeOK'
    BY <1>0, <1>1, <1>2 DEF OfferTypeOK
  <1>4. OffersJudged'
    BY <1>0, <1>1, <1>2 DEF OfferIInv, OffersJudged, Judged, OfferTypeOK, IsOffer, IsInvalid
  <1>5. KeptAreKnown'
    BY <1>0, <1>1, <1>2 DEF OfferIInv, KeptAreKnown, OfferTypeOK
  <1> QED BY <1>1, <1>3, <1>4, <1>5 DEF OfferIInv, OffersOfRelated, OthersShow, LeaderShows

LEMMA StoreChangedKeeps ==
    ASSUME OfferIInv, NEW g \in GrafanaUnits, StoreChanged(g)
    PROVE  OfferIInv'
  <1>0. OfferTypeOK
    BY DEF OfferIInv
  <1>1. /\ storeNews' = storeNews \ {g}
        /\ IF g = grafanaLeader THEN UNCHANGED inGrafana ELSE ProvisionDashboards(g)
        /\ UNCHANGED <<offered, offerRelated, offerSeen, offerNews, grafanaLeader,
                       caughtUp, leaseMoved, dashStore, dashInvalid, offerChanges>>
    BY DEF StoreChanged
  <1>2. Winners(dashStore)' = Winners(dashStore)
    BY <1>1 DEF Winners, Kept
  <1>3. /\ inGrafana' \in [GrafanaUnits -> SUBSET (Offerers \X Dashboards)]
        /\ g # grafanaLeader => inGrafana'[g] = Winners(dashStore)
        /\ \A h \in GrafanaUnits \ {g} : inGrafana'[h] = inGrafana[h]
        /\ inGrafana'[grafanaLeader] = inGrafana[grafanaLeader]
    BY <1>0, <1>1, WinnersAreKept DEF OfferTypeOK, ProvisionDashboards
  <1>4. OfferTypeOK'
    BY <1>0, <1>1, <1>3 DEF OfferTypeOK
  <1>5. OthersShow'
    BY <1>1, <1>2, <1>3 DEF OfferIInv, OthersShow
  <1>6. OffersOfRelated' /\ OffersJudged' /\ KeptAreKnown'
    BY <1>1 DEF OfferIInv, OffersOfRelated, OffersJudged, KeptAreKnown, Judged, IsOffer,
       IsInvalid
  <1> QED BY <1>1, <1>2, <1>3, <1>4, <1>5, <1>6 DEF OfferIInv, LeaderShows

LEMMA OfferEnvironmentKeeps ==
    ASSUME OfferIInv,
           \/ \E g \in GrafanaUnits : GrafanaLeaseMoves(g)
           \/ \E r \in Offerers : \/ \E T \in Offers : PublishOffer(r, T)
                                  \/ RelateOfferer(r) \/ UnrelateOfferer(r)
    PROVE  OfferIInv'
  <1>0. OfferTypeOK
    BY DEF OfferIInv
  <1>1. /\ offerChanges' \in 0..MaxOfferChanges
        /\ UNCHANGED <<offerSeen, dashStore, storeNews, inGrafana>>
    BY <1>0, OfferAssumption
       DEF OfferTypeOK, OfferChange, GrafanaLeaseMoves, PublishOffer, RelateOfferer,
           UnrelateOfferer
  <1>2. ASSUME NEW g \in GrafanaUnits, GrafanaLeaseMoves(g) PROVE OfferIInv'
    <2>1. /\ grafanaLeader' = g /\ caughtUp' = FALSE /\ leaseMoved' = TRUE
          /\ UNCHANGED <<offered, offerRelated, offerNews, dashInvalid>>
      BY <1>2 DEF GrafanaLeaseMoves
    <2>2. OfferTypeOK'
      BY <1>0, <1>1, <2>1 DEF OfferTypeOK
    <2> QED BY <1>1, <2>1, <2>2
            DEF OfferIInv, OffersOfRelated, OffersJudged, KeptAreKnown, OthersShow, LeaderShows
  <1>3. ASSUME NEW r \in Offerers,
               (\E T \in Offers : PublishOffer(r, T)) \/ RelateOfferer(r) \/ UnrelateOfferer(r)
        PROVE  OfferIInv'
    <2>1. UNCHANGED <<grafanaLeader, caughtUp, leaseMoved>>
      BY <1>3 DEF PublishOffer, RelateOfferer, UnrelateOfferer
    <2>2. KeptAreKnown' /\ OthersShow' /\ LeaderShows'
      BY <1>1, <2>1 DEF OfferIInv, KeptAreKnown, OthersShow, LeaderShows
    <2>3. ASSUME NEW T \in Offers, PublishOffer(r, T) PROVE OfferIInv'
      <3>1. /\ r \in offerRelated /\ offered' = [offered EXCEPT ![r] = T]
            /\ offerNews' = [g \in GrafanaUnits |-> IF r \in offerSeen[g]
                                                    THEN offerNews[g] \cup {r}
                                                    ELSE offerNews[g]]
            /\ UNCHANGED <<offerRelated, dashInvalid>>
        BY <2>3 DEF PublishOffer
      <3>2. /\ offerNews' \in [GrafanaUnits -> SUBSET Offerers]
            /\ \A g \in GrafanaUnits :
                  /\ offerNews'[g] \subseteq offerSeen[g]
                  /\ offerSeen[g] \ offerNews'[g] \subseteq (offerSeen[g] \ offerNews[g]) \ {r}
        BY <1>0, <3>1 DEF OfferTypeOK
      <3>3. /\ offered' \in [Offerers -> Offers \cup {Nothing}]
            /\ offered'[r] = T /\ T # Nothing
            /\ \A s \in Offerers : s # r => offered'[s] = offered[s]
        BY <1>0, <3>1, OfferAssumption DEF OfferTypeOK
      <3>4. OfferTypeOK'
        BY <1>0, <1>1, <2>1, <3>1, <3>2, <3>3 DEF OfferTypeOK
      <3>5. OffersOfRelated'
        BY <1>1, <3>1, <3>3 DEF OfferIInv, OffersOfRelated
      <3>6. OffersJudged'
        BY <1>0, <1>1, <2>1, <3>1, <3>2, <3>3
           DEF OfferIInv, OffersJudged, Judged, OfferTypeOK, IsOffer, IsInvalid
      <3> QED BY <2>2, <3>4, <3>5, <3>6 DEF OfferIInv
    <2>4. CASE RelateOfferer(r)
      <3>1. /\ r \notin offerRelated /\ offered[r] = Nothing /\ dashStore[r] = {}
            /\ \A g \in GrafanaUnits : r \notin offerSeen[g]
            /\ offerRelated' = offerRelated \cup {r}
            /\ UNCHANGED <<offered, offerNews, dashInvalid>>
        BY <2>4 DEF RelateOfferer
      <3>2. OfferTypeOK'
        BY <1>0, <1>1, <2>1, <3>1 DEF OfferTypeOK
      <3>3. OffersOfRelated'
        BY <1>0, <1>1, <3>1 DEF OfferIInv, OffersOfRelated, OfferTypeOK
      <3>4. OffersJudged'
        BY <1>0, <1>1, <2>1, <3>1
           DEF OfferIInv, OffersJudged, Judged, OfferTypeOK, IsOffer, IsInvalid
      <3> QED BY <2>2, <3>2, <3>3, <3>4 DEF OfferIInv
    <2>5. CASE UnrelateOfferer(r)
      <3>1. /\ offerRelated' = offerRelated \ {r} /\ dashInvalid' = dashInvalid \ {r}
            /\ offered' = [offered EXCEPT ![r] = Nothing]
            /\ UNCHANGED offerNews
        BY <2>5 DEF UnrelateOfferer
      <3>2. OfferTypeOK'
        BY <1>0, <1>1, <2>1, <3>1 DEF OfferTypeOK
      <3>3. OffersOfRelated'
        BY <1>0, <1>1, <3>1 DEF OfferIInv, OffersOfRelated, OfferTypeOK
      <3>4. OffersJudged'
        BY <1>0, <1>1, <2>1, <3>1
           DEF OfferIInv, OffersJudged, Judged, OfferTypeOK, IsOffer, IsInvalid
      <3> QED BY <2>2, <3>2, <3>3, <3>4 DEF OfferIInv
    <2> QED BY <1>3, <2>3, <2>4, <2>5
  <1> QED BY <1>2, <1>3

LEMMA OfferKeepsIInv == OfferIInv /\ [OfferNext]_offerVars => OfferIInv'
  <1> SUFFICES ASSUME OfferIInv, [OfferNext]_offerVars PROVE OfferIInv'
    OBVIOUS
  <1>1. CASE UNCHANGED offerVars
    <2>1. OfferTypeOK' /\ OffersOfRelated' /\ KeptAreKnown'
      BY <1>1 DEF offerVars, OfferIInv, OfferTypeOK, OffersOfRelated, KeptAreKnown
    <2>2. OffersJudged'
      BY <1>1 DEF offerVars, OfferIInv, OffersJudged, Judged, IsOffer, IsInvalid
    <2> QED BY <1>1, <2>1, <2>2 DEF offerVars, OfferIInv, OthersShow, LeaderShows
  <1>2. CASE OfferNext
    BY <1>2, OffererJoinedKeeps, OfferChangedKeeps, OffererBrokenKeeps, StoreChangedKeeps,
       UpdateDashboardsKeeps, OfferEnvironmentKeeps
       DEF OfferNext
  <1> QED BY <1>1, <1>2

LEMMA OfferInvariant == OfferSpec => []OfferIInv
  BY OfferInitIInv, OfferKeepsIInv, PTL DEF OfferSpec

\* What Grafana shows and whom it blames (GrafanaDashboardConsumer), for any
\* number of units and relations, any dashboards and any order of their versions.
THEOREM OffersAlwaysHandled == OfferSpec => []OffersHandled
  <1>1. OfferIInv => OffersHandled
    <2> SUFFICES ASSUME OfferIInv, OffersDelivered, caughtUp PROVE OffersHandled
      BY DEF OffersHandled, ServersShowOffers, OnlyInvalidBlamed
    <2>1. grafanaLeader \in GrafanaUnits /\ offerRelated \subseteq Offerers
      BY DEF OfferIInv, OfferTypeOK
    <2>2. /\ offerSeen[grafanaLeader] = offerRelated /\ offerNews[grafanaLeader] = {}
          /\ storeNews = {}
      BY <2>1 DEF OffersDelivered
    <2>3. \A r \in offerRelated : Judged(r)
      BY <2>2 DEF OfferIInv, OffersJudged
    <2>4. \A g \in GrafanaUnits : g = grafanaLeader \/ ~leaseMoved
            => inGrafana[g] = Winners(dashStore)
      BY <2>2 DEF OfferIInv, OthersShow, LeaderShows
    <2>5. leaseMoved \/ \A r \in Offerers \ offerRelated : dashStore[r] = {}
      BY <2>2 DEF OfferIInv, KeptAreKnown
    <2>6. ServersShowOffers
      BY <2>3, <2>4, <2>5 DEF ServersShowOffers, Judged
    <2>7. dashInvalid = {r \in offerRelated : IsInvalid(r)}
      BY <2>3 DEF OfferIInv, OfferTypeOK, Judged
    <2>8. OnlyInvalidBlamed
      BY <2>7 DEF OnlyInvalidBlamed, HasInvalidDashboards
    <2> QED BY <2>6, <2>8 DEF OffersHandled
  <1> QED BY <1>1, OfferInvariant, PTL

------------------------------------------------------------------------------
(* Scraping                                                                *)

\* What ExpandJob makes of a job of a.
IsTarget(e, a, n, seen) ==
    /\ e = [app |-> a, name |-> <<n>>, unit |-> e.unit, addresses |-> e.addresses]
    /\ e.unit \in Hosts(a, seen) \cup {NoUnit}
    /\ e.addresses \subseteq Ips \cup ScrapedUnits \cup {Outside}
    /\ e.unit # NoUnit => e.addresses \subseteq IdentifiersOf(e.unit)

\* Renaming keeps what a target is: the first part of its name, its unit and
\* its addresses.
SameTarget(t, s) ==
    /\ t.app = s.app /\ t.unit = s.unit /\ t.addresses = s.addresses
    /\ Head(t.name) = Head(s.name)

\* What the targets S of Prometheus have to do with the units of seen: every unit
\* for every wildcard, and nothing that is not known, twice or under another name.
TargetsMatch(S, seen) ==
    /\ \A a \in Scraped : \A j \in JobsOf(a, seen) :
          IsAccepted(a, seen) /\ Wildcard \in j.targets
            => \A u \in Hosts(a, seen) :
                  \E t \in S : /\ t.app = a /\ t.unit = u
                              /\ Head(t.name) = j.job
                              /\ t.addresses = {unitAddress[u]}
    /\ \A t \in S :
          /\ t.app \in Scraped /\ IsAccepted(t.app, seen)
          /\ t.unit \in Hosts(t.app, seen) \cup {NoUnit}
          /\ t.addresses \subseteq Ips \cup ScrapedUnits \cup {Outside}
          /\ t.unit # NoUnit => t.addresses \subseteq IdentifiersOf(t.unit)
    /\ \A s, t \in S :
          s.app = t.app /\ s.name = t.name /\ s.unit = t.unit => s = t

JobsJudged(seen) ==
    \A a \in Scraped : /\ IsRejected(a, seen) => a \in jobErrors
                       /\ IsAccepted(a, seen) => a \notin jobErrors

RulesTaken(seen) ==
    /\ alerting = WithRules("valid", seen)
    /\ \A a \in Scraped : /\ a \in WithRules("invalid", seen) => a \in alertErrors
                          /\ a \in WithRules("valid", seen) => a \notin alertErrors

Current(seen) == TargetsMatch(scraping, seen) /\ JobsJudged(seen) /\ RulesTaken(seen)

\* Prometheus has every change of the databags of what it knows of behind it.
NothingDue == scrapeNews \cap (unitsSeen \cup Scraped) = {} /\ unitsSeen \subseteq inModel

\* (seen, a bound variable, stands for the value of unitsSeen.)
CurrentWhenTold ==
    \A seen \in SUBSET ScrapedUnits : seen = unitsSeen /\ NothingDue => Current(seen)

\* What a unit publishes, and what it would publish, it has had.
AddressesHad ==
    \A u \in ScrapedUnits :
        /\ unitAddress[u] # NoAddress => unitAddress[u] \in hadIp[u]
        /\ u \in inModel => podIp[u] \in hadIp[u]

ScrapeIInv == ScrapeTypeOK /\ AddressesHad /\ LabelsWereTrue /\ CurrentWhenTold

-----------------------------------------------------------------------------

\* The unit whose address or fqdn is in a target is one of the hosts.
LEMMA MatchedIsHost ==
    ASSUME NEW a, NEW t, NEW seen
    PROVE  \/ MatchedUnit(a, t, seen) = NoUnit
           \/ /\ MatchedUnit(a, t, seen) \in Hosts(a, seen)
              /\ t \in IdentifiersOf(MatchedUnit(a, t, seen))
  BY DEF MatchedUnit

\* ExpandJob gives the targets of its job, and the units their addresses.
LEMMA ExpandShape ==
    ASSUME ScrapeTypeOK, NEW a \in Scraped, NEW j \in Jobs, NEW seen \in SUBSET ScrapedUnits,
           NEW e \in ExpandJob(a, j, seen)
    PROVE  IsTarget(e, a, j.job, seen)
  <1> DEFINE fixed == j.targets \ {Wildcard}
  <1>1. fixed \subseteq Ips \cup ScrapedUnits \cup {Outside}
    BY DEF Jobs, Targets
  <1>2. ASSUME NEW u \in Hosts(a, seen) PROVE unitAddress[u] \in Ips
    BY <1>2 DEF Hosts, UnitsOf, ScrapeTypeOK
  <1>3. CASE \E t \in fixed :
               e = [app |-> a, name |-> <<j.job>>, unit |-> MatchedUnit(a, t, seen),
                    addresses |-> {s \in fixed : MatchedUnit(a, s, seen)
                                                   = MatchedUnit(a, t, seen)}]
    <2>1. PICK t \in fixed :
               e = [app |-> a, name |-> <<j.job>>, unit |-> MatchedUnit(a, t, seen),
                    addresses |-> {s \in fixed : MatchedUnit(a, s, seen)
                                                   = MatchedUnit(a, t, seen)}]
      BY <1>3
    <2>2. /\ e.unit = MatchedUnit(a, t, seen)
          /\ e.addresses = {s \in fixed : MatchedUnit(a, s, seen) = e.unit}
          /\ e = [app |-> a, name |-> <<j.job>>, unit |-> e.unit, addresses |-> e.addresses]
      BY <2>1
    <2>3. e.unit \in Hosts(a, seen) \cup {NoUnit}
      BY <2>2, MatchedIsHost
    <2>4. e.unit # NoUnit => e.addresses \subseteq IdentifiersOf(e.unit)
      BY <2>2, MatchedIsHost
    <2> QED BY <1>1, <2>2, <2>3, <2>4 DEF IsTarget
  <1>4. CASE \E u \in Hosts(a, seen) :
               e = [app |-> a, name |-> <<j.job>>, unit |-> u, addresses |-> {unitAddress[u]}]
    BY <1>2, <1>4 DEF IsTarget, IdentifiersOf
  <1> QED BY <1>3, <1>4 DEF ExpandJob

\* A job expands to something if it has a fixed target, or a unit for its wildcard.
Expandable ==
    \A a \in Scraped, j \in Jobs, seen \in SUBSET ScrapedUnits :
        ExpandJob(a, j, seen) # {}
          <=> \/ j.targets \ {Wildcard} # {}
              \/ Wildcard \in j.targets /\ Hosts(a, seen) # {}

\* and it gives all of them.
LEMMA ExpandsIf == Expandable
  <1> SUFFICES ASSUME NEW a \in Scraped, NEW j \in Jobs, NEW seen \in SUBSET ScrapedUnits
               PROVE  ExpandJob(a, j, seen) # {}
                        <=> \/ j.targets \ {Wildcard} # {}
                            \/ Wildcard \in j.targets /\ Hosts(a, seen) # {}
    BY DEF Expandable
  <1> DEFINE fixed == j.targets \ {Wildcard}
             named(u) == [app |-> a, name |-> <<j.job>>, unit |-> u,
                          addresses |-> {t \in fixed : MatchedUnit(a, t, seen) = u}]
             each(u)  == [app |-> a, name |-> <<j.job>>, unit |-> u,
                          addresses |-> {unitAddress[u]}]
  <1>1. ExpandJob(a, j, seen)
          = {named(u) : u \in {MatchedUnit(a, t, seen) : t \in fixed}}
            \cup {each(u) : u \in IF Wildcard \in j.targets THEN Hosts(a, seen) ELSE {}}
    BY Zenon DEF ExpandJob
  <1> HIDE DEF named, each
  <1>2. CASE fixed # {}
    <2>1. PICK t \in fixed : TRUE
      BY <1>2
    <2>2. named(MatchedUnit(a, t, seen)) \in ExpandJob(a, j, seen)
      BY <1>1, <2>1
    <2> QED BY <1>2, <2>2
  <1>3. CASE Wildcard \in j.targets /\ Hosts(a, seen) # {}
    <2>1. PICK u \in Hosts(a, seen) : TRUE
      BY <1>3
    <2>2. each(u) \in ExpandJob(a, j, seen)
      BY <1>1, <1>3, <2>1
    <2> QED BY <1>3, <2>2
  <1>4. CASE fixed = {} /\ (Wildcard \notin j.targets \/ Hosts(a, seen) = {})
    BY <1>1, <1>4
  <1> QED BY <1>2, <1>3, <1>4

\* A name, and the same name with a hash in it.
LEMMA Names ==
    ASSUME NEW n, NEW x
    PROVE  /\ Head(<<n>>) = n /\ Len(<<n>>) = 1
           /\ Head(Append(<<n>>, x)) = n /\ Append(<<n>>, x)[2] = x
           /\ Len(Append(<<n>>, x)) = 2
  <1>1. Head(<<n>>) = n /\ Len(<<n>>) = 1
    OBVIOUS
  <1>2. <<n>> \in Seq({n, x})
    OBVIOUS
  <1>3. /\ Append(<<n>>, x) \in Seq({n, x}) /\ Len(Append(<<n>>, x)) = 2
        /\ Append(<<n>>, x)[1] = n /\ Append(<<n>>, x)[2] = x
    BY <1>2
  <1>4. Append(<<n>>, x) # << >>
    BY <1>3
  <1>5. Head(Append(<<n>>, x)) = n
    BY <1>3, <1>4
  <1> QED BY <1>1, <1>3, <1>5

\* Renaming gives every job a name of its own, and leaves the rest of it.
LEMMA DedupeKeeps ==
    ASSUME NEW a, NEW S,
           \A s \in S : \E n : s = [app |-> a, name |-> <<n>>, unit |-> s.unit,
                                    addresses |-> s.addresses]
    PROVE  /\ \A t \in DedupeJobNames(S) : \E s \in S : SameTarget(t, s)
           /\ \A s \in S : \E t \in DedupeJobNames(S) : SameTarget(t, s)
           /\ \A s, t \in DedupeJobNames(S) : s.name = t.name /\ s.unit = t.unit => s = t
  <1> DEFINE Twin(t) == \E s \in S \ {t} : s.name = t.name /\ s.unit = t.unit
             new(t) == IF Twin(t) THEN [t EXCEPT !.name = Append(@, t.addresses)] ELSE t
  <1>1. DedupeJobNames(S) = {new(t) : t \in S}
    BY DEF DedupeJobNames
  <1>2. ASSUME NEW s \in S
        PROVE  \E n : /\ s = [app |-> a, name |-> <<n>>, unit |-> s.unit,
                              addresses |-> s.addresses]
                      /\ SameTarget(new(s), s)
                      /\ Twin(s) => /\ new(s).name = Append(<<n>>, s.addresses)
                                    /\ Len(new(s).name) = 2
                      /\ ~Twin(s) => new(s) = s /\ Len(new(s).name) = 1
    <2>1. PICK n : s = [app |-> a, name |-> <<n>>, unit |-> s.unit, addresses |-> s.addresses]
      BY <1>2
    <2>2. /\ Head(<<n>>) = n /\ Len(<<n>>) = 1
          /\ Head(Append(<<n>>, s.addresses)) = n /\ Len(Append(<<n>>, s.addresses)) = 2
      BY Names
    <2>3. s.app = a /\ s.name = <<n>>
      BY <2>1
    <2>4. CASE Twin(s)
      <3>1. new(s) = [app |-> a, name |-> Append(<<n>>, s.addresses), unit |-> s.unit,
                      addresses |-> s.addresses]
        BY <2>1, <2>4
      <3>2. /\ new(s).app = s.app /\ new(s).unit = s.unit
            /\ new(s).addresses = s.addresses
            /\ new(s).name = Append(<<n>>, s.addresses)
        BY <2>3, <3>1
      <3> HIDE DEF new
      <3>3. SameTarget(new(s), s)
        BY <2>2, <2>3, <3>2 DEF SameTarget
      <3> QED BY <2>1, <2>2, <2>4, <3>2, <3>3
    <2>5. CASE ~Twin(s)
      <3>1. new(s) = s
        BY <2>5
      <3> HIDE DEF new
      <3> QED BY <2>1, <2>2, <2>3, <2>5, <3>1 DEF SameTarget
    <2> QED BY <2>4, <2>5
  <1> HIDE DEF Twin, new
  <1>3. ASSUME NEW s \in S, NEW t \in S, new(s).name = new(t).name, new(s).unit = new(t).unit
        PROVE  new(s) = new(t)
    <2>1. PICK n : /\ s = [app |-> a, name |-> <<n>>, unit |-> s.unit,
                           addresses |-> s.addresses]
                   /\ SameTarget(new(s), s)
                   /\ Twin(s) => /\ new(s).name = Append(<<n>>, s.addresses)
                                 /\ Len(new(s).name) = 2
                   /\ ~Twin(s) => new(s) = s /\ Len(new(s).name) = 1
      BY <1>2
    <2>2. PICK m : /\ t = [app |-> a, name |-> <<m>>, unit |-> t.unit,
                           addresses |-> t.addresses]
                   /\ SameTarget(new(t), t)
                   /\ Twin(t) => /\ new(t).name = Append(<<m>>, t.addresses)
                                 /\ Len(new(t).name) = 2
                   /\ ~Twin(t) => new(t) = t /\ Len(new(t).name) = 1
      BY <1>2
    <2>3. s.unit = t.unit
      BY <1>3, <2>1, <2>2 DEF SameTarget
    <2>4. Twin(s) <=> Twin(t)
      BY <1>3, <2>1, <2>2
    <2>5. CASE ~Twin(s)
      <3>1. s.name = t.name /\ s.unit = t.unit
        BY <1>3, <2>1, <2>2, <2>3, <2>4, <2>5
      <3>2. s = t
        BY <2>5, <3>1 DEF Twin
      <3> QED BY <3>2
    <2>6. CASE Twin(s)
      <3>1. Append(<<n>>, s.addresses) = Append(<<m>>, t.addresses)
        BY <1>3, <2>1, <2>2, <2>4, <2>6
      <3>2. n = m
        BY <3>1, Names
      <3>3. s.addresses = t.addresses
        BY <3>1, Names
      <3>4. s = t
        BY <2>1, <2>2, <2>3, <3>2, <3>3
      <3> QED BY <3>4
    <2> QED BY <2>5, <2>6
  <1>4. \A s \in S : SameTarget(new(s), s)
    BY <1>2
  <1>5. ASSUME NEW t \in DedupeJobNames(S) PROVE \E s \in S : t = new(s)
    BY <1>1
  <1>6. ASSUME NEW s \in DedupeJobNames(S), NEW t \in DedupeJobNames(S),
               s.name = t.name, s.unit = t.unit
        PROVE  s = t
    <2>1. PICK s0 \in S : s = new(s0)
      BY <1>5
    <2>2. PICK t0 \in S : t = new(t0)
      BY <1>5
    <2> QED BY <1>3, <1>6, <2>1, <2>2
  <1>7. \A s \in S : new(s) \in DedupeJobNames(S)
    BY <1>1
  <1> QED BY <1>4, <1>5, <1>6, <1>7

\* The jobs of one application that its charm has asked for are jobs.
LEMMA JobsAreJobs ==
    ASSUME ScrapeTypeOK, NEW a \in Scraped, NEW seen
    PROVE  JobsOf(a, seen) \subseteq Jobs
  BY ScrapeAssumption DEF ScrapeTypeOK, JobsOf

\* What Prometheus makes of the databags matches them.
LEMMA AllJobsMatch ==
    ASSUME ScrapeTypeOK, NEW seen \in SUBSET ScrapedUnits
    PROVE  TargetsMatch(AllJobs(seen), seen)
  <1> DEFINE Config(a) == StaticScrapeConfig(a, seen)
             Accepted  == {b \in Scraped : IsAccepted(b, seen)}
  <1>1. ASSUME NEW a \in Scraped, NEW e \in Config(a)
        PROVE  \E j \in JobsOf(a, seen) : IsTarget(e, a, j.job, seen)
    <2>1. PICK j \in JobsOf(a, seen) : e \in ExpandJob(a, j, seen)
      BY <1>1 DEF StaticScrapeConfig
    <2>2. j \in Jobs
      BY JobsAreJobs
    <2> QED BY <2>1, <2>2, ExpandShape
  <1>2. ASSUME NEW a \in Scraped
        PROVE  /\ \A t \in DedupeJobNames(Config(a)) : \E s \in Config(a) : SameTarget(t, s)
               /\ \A s \in Config(a) : \E t \in DedupeJobNames(Config(a)) : SameTarget(t, s)
               /\ \A s, t \in DedupeJobNames(Config(a)) :
                     s.name = t.name /\ s.unit = t.unit => s = t
    <2>1. \A s \in Config(a) : \E n : s = [app |-> a, name |-> <<n>>, unit |-> s.unit,
                                           addresses |-> s.addresses]
      BY <1>1 DEF IsTarget
    <2> HIDE DEF Config
    <2> QED BY <2>1, DedupeKeeps
  <1>3. AllJobs(seen) = UNION {DedupeJobNames(Config(a)) : a \in Accepted}
    BY DEF AllJobs
  <1> HIDE DEF Config
  <1>4. ASSUME NEW a \in Scraped, NEW t \in DedupeJobNames(Config(a))
        PROVE  /\ t.app = a /\ t.unit \in Hosts(a, seen) \cup {NoUnit}
               /\ t.addresses \subseteq Ips \cup ScrapedUnits \cup {Outside}
               /\ t.unit # NoUnit => t.addresses \subseteq IdentifiersOf(t.unit)
    <2>1. PICK s \in Config(a) : SameTarget(t, s)
      BY <1>2
    <2>2. PICK j \in JobsOf(a, seen) : IsTarget(s, a, j.job, seen)
      BY <1>1
    <2>3. s.app = a
      BY <2>2 DEF IsTarget
    <2> QED BY <2>1, <2>2, <2>3 DEF SameTarget, IsTarget
  <1>5. ASSUME NEW a \in Scraped, NEW j \in JobsOf(a, seen), IsAccepted(a, seen),
               Wildcard \in j.targets, NEW u \in Hosts(a, seen)
        PROVE  \E t \in AllJobs(seen) : /\ t.app = a /\ t.unit = u /\ Head(t.name) = j.job
                                        /\ t.addresses = {unitAddress[u]}
    <2> DEFINE e == [app |-> a, name |-> <<j.job>>, unit |-> u,
                     addresses |-> {unitAddress[u]}]
    <2>1. e \in ExpandJob(a, j, seen)
      BY <1>5 DEF ExpandJob
    <2>2. e \in Config(a)
      BY <2>1 DEF Config, StaticScrapeConfig
    <2>3. /\ e.app = a /\ e.unit = u /\ e.addresses = {unitAddress[u]}
          /\ e.name = <<j.job>> /\ Head(<<j.job>>) = j.job
      BY Names
    <2> HIDE DEF e
    <2>4. PICK t \in DedupeJobNames(Config(a)) : SameTarget(t, e)
      BY <1>2, <2>2
    <2>5. t \in AllJobs(seen)
      BY <1>3, <1>5, <2>4
    <2> QED BY <2>3, <2>4, <2>5 DEF SameTarget
  <1>6. ASSUME NEW t \in AllJobs(seen)
        PROVE  t.app \in Accepted /\ t \in DedupeJobNames(Config(t.app))
    <2>1. PICK a \in Accepted : t \in DedupeJobNames(Config(a))
      BY <1>3, <1>6
    <2>2. t.app = a
      BY <1>4, <2>1
    <2> QED BY <2>1, <2>2
  <1>7. ASSUME NEW t \in AllJobs(seen)
        PROVE  /\ t.app \in Scraped /\ IsAccepted(t.app, seen)
               /\ t.unit \in Hosts(t.app, seen) \cup {NoUnit}
               /\ t.addresses \subseteq Ips \cup ScrapedUnits \cup {Outside}
               /\ t.unit # NoUnit => t.addresses \subseteq IdentifiersOf(t.unit)
    <2>1. t.app \in Accepted /\ t \in DedupeJobNames(Config(t.app))
      BY <1>6
    <2>2. t.app \in Scraped /\ IsAccepted(t.app, seen)
      BY <2>1
    <2> QED BY <1>4, <2>1, <2>2
  <1>8. ASSUME NEW s \in AllJobs(seen), NEW t \in AllJobs(seen),
               s.app = t.app, s.name = t.name, s.unit = t.unit
        PROVE  s = t
    <2>1. /\ t.app \in Scraped
          /\ t \in DedupeJobNames(Config(t.app)) /\ s \in DedupeJobNames(Config(t.app))
      BY <1>6, <1>8
    <2> QED BY <1>2, <1>8, <2>1
  <1> HIDE DEF Accepted
  <1>9. PICK S : S = AllJobs(seen)
    OBVIOUS
  <1>10. \A t \in S : /\ t.app \in Scraped /\ IsAccepted(t.app, seen)
                      /\ t.unit \in Hosts(t.app, seen) \cup {NoUnit}
                      /\ t.addresses \subseteq Ips \cup ScrapedUnits \cup {Outside}
                      /\ t.unit # NoUnit => t.addresses \subseteq IdentifiersOf(t.unit)
    BY <1>7, <1>9
  <1>11. \A s, t \in S : s.app = t.app /\ s.name = t.name /\ s.unit = t.unit => s = t
    BY <1>8, <1>9
  <1>12. \A a \in Scraped : \A j \in JobsOf(a, seen) :
            IsAccepted(a, seen) /\ Wildcard \in j.targets
              => \A u \in Hosts(a, seen) :
                    \E t \in S : /\ t.app = a /\ t.unit = u /\ Head(t.name) = j.job
                                 /\ t.addresses = {unitAddress[u]}
    BY <1>5, <1>9
  <1>13. TargetsMatch(S, seen)
    BY <1>10, <1>11, <1>12 DEF TargetsMatch
  <1> QED BY <1>9, <1>13

\* Nothing but the databags of the units it knows of decides what Prometheus
\* accepts of an application.
LEMMA SameVerdicts ==
    ASSUME ScrapeTypeOK, NEW seen \in SUBSET ScrapedUnits, UNCHANGED published,
           \A u \in seen : unitAddress'[u] = unitAddress[u]
    PROVE  \A a \in Scraped : /\ Hosts(a, seen)' = Hosts(a, seen)
                              /\ JobsOf(a, seen)' = JobsOf(a, seen)
                              /\ IsRejected(a, seen)' <=> IsRejected(a, seen)
                              /\ IsAccepted(a, seen)' <=> IsAccepted(a, seen)
  <1> SUFFICES ASSUME NEW a \in Scraped
               PROVE  /\ Hosts(a, seen)' = Hosts(a, seen)
                      /\ JobsOf(a, seen)' = JobsOf(a, seen)
                      /\ IsRejected(a, seen)' <=> IsRejected(a, seen)
                      /\ IsAccepted(a, seen)' <=> IsAccepted(a, seen)
    OBVIOUS
  <1>1. Hosts(a, seen)' = Hosts(a, seen)
    BY DEF Hosts, UnitsOf
  <1>2. JobsOf(a, seen)' = JobsOf(a, seen)
    BY DEF JobsOf, UnitsOf, published
  <1>3. Expandable'
    BY ExpandsIf, PTL
  <1>4. \A j \in Jobs : (ExpandJob(a, j, seen)' # {}) <=> (ExpandJob(a, j, seen) # {})
    BY <1>1, <1>3, ExpandsIf DEF Expandable
  <1>5. JobsOf(a, seen) \subseteq Jobs
    BY JobsAreJobs
  <1>6. IsRejected(a, seen)' <=> IsRejected(a, seen)
    BY <1>2, <1>4, <1>5 DEF IsRejected
  <1>7. (StaticScrapeConfig(a, seen)' # {}) <=> (StaticScrapeConfig(a, seen) # {})
    <2>1. StaticScrapeConfig(a, seen) # {}
            <=> \E j \in JobsOf(a, seen) : ExpandJob(a, j, seen) # {}
      BY DEF StaticScrapeConfig
    <2>2. StaticScrapeConfig(a, seen)' # {}
            <=> \E j \in JobsOf(a, seen)' : ExpandJob(a, j, seen)' # {}
      BY DEF StaticScrapeConfig
    <2> QED BY <1>2, <1>4, <1>5, <2>1, <2>2
  <1>8. IsAccepted(a, seen)' <=> IsAccepted(a, seen)
    BY <1>6, <1>7 DEF IsAccepted
  <1> QED BY <1>1, <1>2, <1>6, <1>8

\* What matches goes on matching as long as hosts and jobs stay.
LEMMA MatchKept ==
    ASSUME ScrapeTypeOK, NEW seen \in SUBSET ScrapedUnits, UNCHANGED published,
           \A u \in seen : unitAddress'[u] = unitAddress[u],
           NEW S, TargetsMatch(S, seen)
    PROVE  TargetsMatch(S, seen)'
  <1>1. \A a \in Scraped : /\ Hosts(a, seen)' = Hosts(a, seen)
                           /\ JobsOf(a, seen)' = JobsOf(a, seen)
                           /\ IsAccepted(a, seen)' <=> IsAccepted(a, seen)
    BY SameVerdicts
  <1>2. \A a \in Scraped : \A u \in Hosts(a, seen) : unitAddress'[u] = unitAddress[u]
    BY DEF Hosts, UnitsOf
  <1>3. ASSUME NEW a \in Scraped, NEW j \in JobsOf(a, seen)', IsAccepted(a, seen)',
               Wildcard \in j.targets, NEW u \in Hosts(a, seen)'
        PROVE  \E t \in S : /\ t.app = a /\ t.unit = u /\ Head(t.name) = j.job
                            /\ t.addresses = {unitAddress'[u]}
    <2>1. j \in JobsOf(a, seen) /\ IsAccepted(a, seen) /\ u \in Hosts(a, seen)
      BY <1>1, <1>3
    <2> QED BY <1>2, <1>3, <2>1 DEF TargetsMatch
  <1>4. ASSUME NEW t \in S
        PROVE  /\ t.app \in Scraped /\ IsAccepted(t.app, seen)'
               /\ t.unit \in Hosts(t.app, seen)' \cup {NoUnit}
               /\ t.addresses \subseteq Ips \cup ScrapedUnits \cup {Outside}
               /\ t.unit # NoUnit => t.addresses \subseteq IdentifiersOf(t.unit)'
    <2>1. /\ t.app \in Scraped /\ IsAccepted(t.app, seen)
          /\ t.unit \in Hosts(t.app, seen) \cup {NoUnit}
          /\ t.addresses \subseteq Ips \cup ScrapedUnits \cup {Outside}
          /\ t.unit # NoUnit => t.addresses \subseteq IdentifiersOf(t.unit)
      BY <1>4 DEF TargetsMatch
    <2> QED BY <1>1, <1>2, <2>1 DEF IdentifiersOf
  <1>5. \A s, t \in S : s.app = t.app /\ s.name = t.name /\ s.unit = t.unit => s = t
    BY DEF TargetsMatch
  <1> QED BY <1>3, <1>4, <1>5 DEF TargetsMatch

\* The same of what has been judged and taken.
LEMMA CurrentKept ==
    ASSUME ScrapeTypeOK, NEW seen \in SUBSET ScrapedUnits, UNCHANGED <<published, prometheus>>,
           \A u \in seen : unitAddress'[u] = unitAddress[u], Current(seen)
    PROVE  Current(seen)'
  <1>1. /\ alertRules' = alertRules
        /\ scraping' = scraping /\ jobErrors' = jobErrors
        /\ alerting' = alerting /\ alertErrors' = alertErrors
    BY DEF published, prometheus
  <1>2. PICK S : S = scraping
    OBVIOUS
  <1>3. TargetsMatch(S, seen)'
    BY <1>2, MatchKept DEF Current
  <1>4. TargetsMatch(scraping, seen)'
    BY <1>1, <1>2, <1>3 DEF TargetsMatch
  <1>5. JobsJudged(seen)'
    BY <1>1, SameVerdicts DEF Current, JobsJudged
  <1>6. RulesTaken(seen)'
    BY <1>1 DEF Current, RulesTaken, WithRules, UnitsOf
  <1> QED BY <1>4, <1>5, <1>6 DEF Current

LEMMA ScrapeInitIInv == ScrapeInit => ScrapeIInv
  <1> SUFFICES ASSUME ScrapeInit PROVE ScrapeIInv
    OBVIOUS
  <1>1. scrapeChanges \in 0..MaxScrapeChanges
    BY ScrapeAssumption DEF ScrapeInit
  <1>2. hadIp \in [ScrapedUnits -> SUBSET Ips]
    BY DEF ScrapeInit
  <1>3. ScrapeTypeOK
    BY <1>1, <1>2 DEF ScrapeInit, ScrapeTypeOK, AlertRules
  <1>4. AddressesHad /\ LabelsWereTrue
    BY DEF ScrapeInit, AddressesHad, LabelsWereTrue
  <1>5. ASSUME NEW seen \in SUBSET ScrapedUnits, seen = {} PROVE Current(seen)
    <2>1. \A a \in Scraped : JobsOf(a, seen) = {} /\ UnitsOf(a, seen) = {}
      BY <1>5 DEF JobsOf, UnitsOf
    <2>2. \A a \in Scraped : ~IsRejected(a, seen) /\ ~IsAccepted(a, seen)
      BY <2>1 DEF IsRejected, IsAccepted, StaticScrapeConfig
    <2>3. TargetsMatch(scraping, seen)
      BY <2>2 DEF ScrapeInit, TargetsMatch
    <2>4. RulesTaken(seen)
      BY <2>1 DEF ScrapeInit, RulesTaken, WithRules
    <2> QED BY <2>2, <2>3, <2>4 DEF Current, JobsJudged
  <1>6. CurrentWhenTold
    BY <1>5 DEF ScrapeInit, CurrentWhenTold
  <1> QED BY <1>3, <1>4, <1>6 DEF ScrapeIInv

\* What a reading of the databags leaves is current, and had by those it names.
LEMMA ReadIsCurrent ==
    ASSUME ScrapeTypeOK, AddressesHad, NEW seen \in SUBSET ScrapedUnits, ReadJobs(seen),
           UNCHANGED <<unitAddress, published, hadIp>>
    PROVE  /\ Current(seen)' /\ LabelsWereTrue'
           /\ \A t \in scraping' : /\ t.app \in Scraped
                                   /\ t.unit \in ScrapedUnits \cup {NoUnit}
                                   /\ t.addresses \subseteq Ips \cup ScrapedUnits \cup {Outside}
           /\ jobErrors' \subseteq Scraped
           /\ alerting' \subseteq Scraped /\ alertErrors' \subseteq Scraped
  <1>1. /\ scraping' = AllJobs(seen) /\ jobErrors' = JobErrorsAfter(seen)
        /\ alerting' = WithRules("valid", seen) /\ alertErrors' = AlertErrorsAfter(seen)
        /\ scrapeJobs' = scrapeJobs /\ alertRules' = alertRules
    BY DEF ReadJobs, published
  <1>2. TargetsMatch(scraping', seen)
    BY <1>1, AllJobsMatch
  <1>3. TargetsMatch(scraping, seen)'
    <2>1. PICK S : S = scraping'
      OBVIOUS
    <2>2. TargetsMatch(S, seen)'
      BY <1>2, <2>1, MatchKept
    <2> QED BY <2>1, <2>2 DEF TargetsMatch, IdentifiersOf
  <1>4. JobsJudged(seen)'
    <2>1. \A a \in Scraped : /\ IsRejected(a, seen)' <=> IsRejected(a, seen)
                             /\ IsAccepted(a, seen)' <=> IsAccepted(a, seen)
      BY SameVerdicts
    <2>2. \A a \in Scraped : IsAccepted(a, seen) => ~IsRejected(a, seen)
      BY DEF IsAccepted
    <2> QED BY <1>1, <2>1, <2>2 DEF JobsJudged, JobErrorsAfter
  <1>5. RulesTaken(seen)'
    BY <1>1 DEF RulesTaken, WithRules, UnitsOf, AlertErrorsAfter
  <1>6. ASSUME NEW t \in scraping'
        PROVE  /\ t.app \in Scraped /\ t.unit \in Hosts(t.app, seen) \cup {NoUnit}
               /\ t.addresses \subseteq Ips \cup ScrapedUnits \cup {Outside}
               /\ t.unit # NoUnit => t.addresses \subseteq IdentifiersOf(t.unit)
    BY <1>2, <1>6 DEF TargetsMatch
  <1>7. LabelsWereTrue'
    <2> SUFFICES ASSUME NEW t \in scraping', t.unit # NoUnit
                 PROVE  t.addresses \subseteq hadIp[t.unit] \cup {t.unit} /\ ScrapedOf[t.unit] = t.app
      BY DEF LabelsWereTrue
    <2>1. /\ t.unit \in seen /\ ScrapedOf[t.unit] = t.app
          /\ unitAddress[t.unit] # NoAddress
      BY <1>6 DEF Hosts, UnitsOf
    <2> QED BY <1>6, <2>1 DEF AddressesHad, IdentifiersOf
  <1>8. \A t \in scraping' : t.unit \in ScrapedUnits \cup {NoUnit}
    BY <1>6 DEF Hosts, UnitsOf
  <1>9. /\ jobErrors' \subseteq Scraped
        /\ alerting' \subseteq Scraped /\ alertErrors' \subseteq Scraped
    BY <1>1 DEF JobErrorsAfter, AlertErrorsAfter, WithRules, ScrapeTypeOK
  <1> QED BY <1>3, <1>4, <1>5, <1>6, <1>7, <1>8, <1>9 DEF Current

\* The hooks of Prometheus that read the databags.
LEMMA TargetsReadKeeps ==
    ASSUME ScrapeIInv, NEW seen \in SUBSET ScrapedUnits, ReadJobs(seen), unitsSeen' = seen,
           scrapeNews' \subseteq scrapeNews,
           UNCHANGED <<podIp, hadIp, asked, scrapeLeader, unitAddress, published, inModel,
                       scrapeChanges>>
    PROVE  ScrapeIInv'
  <1>1. /\ Current(seen)' /\ LabelsWereTrue'
        /\ \A t \in scraping' : /\ t.app \in Scraped
                                /\ t.unit \in ScrapedUnits \cup {NoUnit}
                                /\ t.addresses \subseteq Ips \cup ScrapedUnits \cup {Outside}
        /\ jobErrors' \subseteq Scraped
        /\ alerting' \subseteq Scraped /\ alertErrors' \subseteq Scraped
    BY ReadIsCurrent DEF ScrapeIInv
  <1>2. ScrapeTypeOK'
    BY <1>1 DEF ScrapeIInv, ScrapeTypeOK, asked, published
  <1>3. AddressesHad'
    BY DEF ScrapeIInv, AddressesHad
  <1>4. CurrentWhenTold'
    BY <1>1 DEF CurrentWhenTold
  <1> QED BY <1>1, <1>2, <1>3, <1>4 DEF ScrapeIInv

\* What is not read: whoever has changed what Prometheus goes by has made news.
LEMMA UnreadKeeps ==
    ASSUME ScrapeIInv, ScrapeTypeOK', AddressesHad', UNCHANGED <<unitsSeen, prometheus>>,
           \A u \in ScrapedUnits : hadIp[u] \subseteq hadIp'[u],
           NothingDue' => /\ NothingDue /\ UNCHANGED published
                          /\ \A u \in unitsSeen : unitAddress'[u] = unitAddress[u]
    PROVE  ScrapeIInv'
  <1>1. LabelsWereTrue'
    <2> SUFFICES ASSUME NEW t \in scraping, t.unit # NoUnit
                 PROVE  t.addresses \subseteq hadIp'[t.unit] \cup {t.unit} /\ ScrapedOf[t.unit] = t.app
      BY DEF LabelsWereTrue, prometheus
    <2>1. t.unit \in ScrapedUnits
      BY DEF ScrapeIInv, ScrapeTypeOK
    <2> QED BY <2>1 DEF ScrapeIInv, LabelsWereTrue
  <1>2. ASSUME NEW seen \in SUBSET ScrapedUnits, seen = unitsSeen', NothingDue'
        PROVE  Current(seen)'
    <2>1. Current(seen)
      BY <1>2 DEF ScrapeIInv, CurrentWhenTold
    <2> QED BY <1>2, <2>1, CurrentKept DEF ScrapeIInv
  <1> QED BY <1>1, <1>2 DEF ScrapeIInv, CurrentWhenTold

LEMMA PrometheusKeeps ==
    ASSUME ScrapeIInv, NEW u \in ScrapedUnits \cup Scraped,
           UnitJoins(u) \/ TargetChanged(u) \/ UnitDeparts(u)
    PROVE  ScrapeIInv'
  <1>0. ScrapeTypeOK /\ unitsSeen \in SUBSET ScrapedUnits /\ inModel \subseteq ScrapedUnits
    BY DEF ScrapeIInv, ScrapeTypeOK
  <1>1. CASE UnitJoins(u)
    <2>1. /\ u \in inModel /\ u \in ScrapedUnits /\ unitsSeen' = unitsSeen \cup {u}
          /\ scrapeNews' = scrapeNews \cup {u}
          /\ UNCHANGED <<podIp, hadIp, asked, scrapeLeader, unitAddress, published, inModel,
                         prometheus, scrapeChanges>>
      BY <1>0, <1>1 DEF UnitJoins
    <2>2. ScrapeTypeOK'
      BY <1>0, <2>1 DEF ScrapeTypeOK, asked, published, prometheus
    <2>3. ~NothingDue'
      BY <2>1 DEF NothingDue
    <2>4. AddressesHad' /\ LabelsWereTrue'
      BY <2>1 DEF ScrapeIInv, AddressesHad, LabelsWereTrue, prometheus
    <2> QED BY <2>2, <2>3, <2>4 DEF ScrapeIInv, CurrentWhenTold
  <1>2. CASE TargetChanged(u)
    BY <1>0, <1>2, TargetsReadKeeps DEF TargetChanged
  <1>3. CASE UnitDeparts(u)
    <2>1. /\ unitsSeen' = unitsSeen \ {u} /\ scrapeNews' = scrapeNews \ {u}
          /\ ReadJobs(unitsSeen \ {u})
          /\ UNCHANGED <<podIp, hadIp, asked, scrapeLeader, unitAddress, published, inModel,
                         scrapeChanges>>
      BY <1>3 DEF UnitDeparts, ReadJobs
    <2> QED BY <1>0, <2>1, TargetsReadKeeps
  <1> QED BY <1>1, <1>2, <1>3

LEMMA PublishKeeps ==
    ASSUME ScrapeIInv, NEW u \in ScrapedUnits, UpdateAddress(u) \/ SetScrapeJobSpec(u)
    PROVE  ScrapeIInv'
  <1>0. ScrapeTypeOK /\ AddressesHad
    BY DEF ScrapeIInv
  <1>1. /\ u \in inModel /\ unitAddress' = [unitAddress EXCEPT ![u] = podIp[u]]
        /\ UNCHANGED <<podIp, hadIp, asked, scrapeLeader, inModel, unitsSeen, prometheus,
                       scrapeChanges>>
    BY DEF UpdateAddress, SetUnitIp, SetScrapeJobSpec
  <1>2. /\ unitAddress' \in [ScrapedUnits -> Ips \cup {NoAddress}]
        /\ unitAddress'[u] = podIp[u]
        /\ \A v \in ScrapedUnits : v # u => unitAddress'[v] = unitAddress[v]
    BY <1>0, <1>1 DEF ScrapeTypeOK
  <1>3. /\ scrapeNews' \subseteq ScrapedUnits \cup Scraped
        /\ scrapeNews \subseteq scrapeNews'
        /\ unitAddress[u] # podIp[u] => u \in scrapeNews'
    <2>1. ScrapedOf[u] \in Scraped
      BY ScrapeAssumption
    <2> QED BY <1>0, <2>1 DEF UpdateAddress, SetUnitIp, SetScrapeJobSpec, ScrapeTypeOK
  <1>4. /\ scrapeJobs' \in [Scraped -> JobSets \cup {NoJobs}]
        /\ alertRules' \in [Scraped -> AlertRules]
        /\ scrapeNews' \cap Scraped = {} => UNCHANGED published
    <2>1. CASE UpdateAddress(u)
      BY <1>0, <2>1 DEF UpdateAddress, published, ScrapeTypeOK
    <2>2. CASE SetScrapeJobSpec(u)
      <3> DEFINE a == ScrapedOf[u]
      <3>1. a \in Scraped
        BY ScrapeAssumption
      <3>2. /\ scrapeJobs' = [scrapeJobs EXCEPT ![a] = charmJobs[a]]
            /\ alertRules' = [alertRules EXCEPT ![a] = charmRules[a]]
            /\ a \notin scrapeNews' => scrapeJobs[a] = charmJobs[a] /\ alertRules[a] = charmRules[a]
        BY <2>2 DEF SetScrapeJobSpec
      <3>3. /\ charmJobs[a] \in JobSets /\ charmRules[a] \in AlertRules
            /\ scrapeJobs \in [Scraped -> JobSets \cup {NoJobs}]
            /\ alertRules \in [Scraped -> AlertRules]
        BY <1>0, <3>1 DEF ScrapeTypeOK
      <3> HIDE DEF a
      <3>4. a \notin scrapeNews' => scrapeJobs' = scrapeJobs /\ alertRules' = alertRules
        BY <3>2, <3>3
      <3> QED BY <3>1, <3>2, <3>3, <3>4 DEF published
    <2> QED BY <2>1, <2>2
  <1>5. ScrapeTypeOK'
    BY <1>0, <1>1, <1>2, <1>3, <1>4 DEF ScrapeTypeOK, asked, prometheus
  <1>6. AddressesHad'
    BY <1>0, <1>1, <1>2 DEF AddressesHad
  <1>7. NothingDue' => /\ NothingDue /\ UNCHANGED published
                       /\ \A v \in unitsSeen : unitAddress'[v] = unitAddress[v]
    <2> SUFFICES ASSUME NothingDue'
                 PROVE  /\ NothingDue /\ UNCHANGED published
                        /\ \A v \in unitsSeen : unitAddress'[v] = unitAddress[v]
      OBVIOUS
    <2>1. /\ scrapeNews' \cap (unitsSeen \cup Scraped) = {} /\ unitsSeen \subseteq inModel
      BY <1>1 DEF NothingDue
    <2>2. NothingDue /\ UNCHANGED published
      BY <1>3, <1>4, <2>1 DEF NothingDue
    <2>3. ASSUME NEW v \in unitsSeen PROVE unitAddress'[v] = unitAddress[v]
      BY <1>0, <1>2, <1>3, <2>1 DEF ScrapeTypeOK
    <2> QED BY <2>2, <2>3
  <1> QED BY <1>1, <1>5, <1>6, <1>7, UnreadKeeps

\* The environment, but for the units that come and go.
LEMMA ScrapeChangesKeep ==
    ASSUME ScrapeIInv,
           \/ \E u \in ScrapedUnits : \/ \E ip \in Ips : PodRestarts(u, ip)
                                     \/ ScrapeLeaseMoves(u)
           \/ \E a \in Scraped : \/ \E J \in JobSets : AskForJobs(a, J)
                                 \/ \E r \in AlertRules : HaveRules(a, r)
    PROVE  ScrapeIInv'
  <1>0. ScrapeTypeOK /\ AddressesHad
    BY DEF ScrapeIInv
  <1>1. /\ UNCHANGED <<unitAddress, published, inModel, unitsSeen, scrapeNews, prometheus>>
        /\ scrapeChanges' \in 0..MaxScrapeChanges
    BY <1>0, ScrapeAssumption
       DEF PodRestarts, ScrapeLeaseMoves, AskForJobs, HaveRules, ScrapeChange, ScrapeTypeOK
  <1>2. ScrapeTypeOK' /\ AddressesHad' /\ \A u \in ScrapedUnits : hadIp[u] \subseteq hadIp'[u]
    <2>1. ASSUME NEW u \in ScrapedUnits, NEW ip \in Ips, PodRestarts(u, ip)
          PROVE  ScrapeTypeOK' /\ AddressesHad' /\ \A v \in ScrapedUnits : hadIp[v] \subseteq hadIp'[v]
      <3>1. /\ podIp' = [podIp EXCEPT ![u] = ip]
            /\ hadIp' = [hadIp EXCEPT ![u] = @ \cup {ip}]
            /\ UNCHANGED <<asked, scrapeLeader>>
        BY <2>1 DEF PodRestarts
      <3> QED BY <1>0, <1>1, <3>1 DEF ScrapeTypeOK, AddressesHad, asked, published, prometheus
    <2>2. ASSUME NEW u \in ScrapedUnits, ScrapeLeaseMoves(u)
          PROVE  ScrapeTypeOK' /\ AddressesHad' /\ \A v \in ScrapedUnits : hadIp[v] \subseteq hadIp'[v]
      <3>1. /\ u \in inModel /\ scrapeLeader' = [scrapeLeader EXCEPT ![ScrapedOf[u]] = u]
            /\ UNCHANGED <<podIp, hadIp, asked>> /\ ScrapedOf[u] \in Scraped
        BY <2>2, ScrapeAssumption DEF ScrapeLeaseMoves
      <3> QED BY <1>0, <1>1, <3>1 DEF ScrapeTypeOK, AddressesHad, asked, published, prometheus
    <2>3. ASSUME NEW a \in Scraped, NEW J \in JobSets, AskForJobs(a, J)
          PROVE  ScrapeTypeOK' /\ AddressesHad' /\ \A v \in ScrapedUnits : hadIp[v] \subseteq hadIp'[v]
      BY <1>0, <1>1, <2>3 DEF AskForJobs, ScrapeTypeOK, AddressesHad, published, prometheus
    <2>4. ASSUME NEW a \in Scraped, NEW r \in AlertRules, HaveRules(a, r)
          PROVE  ScrapeTypeOK' /\ AddressesHad' /\ \A v \in ScrapedUnits : hadIp[v] \subseteq hadIp'[v]
      BY <1>0, <1>1, <2>4 DEF HaveRules, ScrapeTypeOK, AddressesHad, published, prometheus
    <2> QED BY <2>1, <2>2, <2>3, <2>4
  <1>3. NothingDue' => NothingDue
    BY <1>1 DEF NothingDue
  <1> QED BY <1>1, <1>2, <1>3, UnreadKeeps

LEMMA ScaleKeeps ==
    ASSUME ScrapeIInv, NEW u \in ScrapedUnits,
           (\E ip \in Ips : ScaleUp(u, ip)) \/ ScaleDown(u)
    PROVE  ScrapeIInv'
  <1>0. ScrapeTypeOK /\ AddressesHad
    BY DEF ScrapeIInv
  <1>1. scrapeChanges' \in 0..MaxScrapeChanges
    BY <1>0, ScrapeAssumption DEF ScaleUp, ScaleDown, ScrapeChange, ScrapeTypeOK
  <1>2. ASSUME NEW ip \in Ips, ScaleUp(u, ip) PROVE ScrapeIInv'
    <2>1. /\ u \notin inModel \cup unitsSeen /\ inModel' = inModel \cup {u}
          /\ podIp' = [podIp EXCEPT ![u] = ip]
          /\ hadIp' = [hadIp EXCEPT ![u] = @ \cup {ip}]
          /\ unitAddress' = [unitAddress EXCEPT ![u] = NoAddress]
          /\ UNCHANGED <<asked, scrapeLeader, published, unitsSeen, scrapeNews, prometheus>>
      BY <1>2 DEF ScaleUp
    <2>2. ScrapeTypeOK'
      BY <1>0, <1>1, <2>1 DEF ScrapeTypeOK, asked, published, prometheus
    <2>3. AddressesHad'
      BY <1>0, <2>1 DEF ScrapeTypeOK, AddressesHad
    <2>4. \A v \in ScrapedUnits : hadIp[v] \subseteq hadIp'[v]
      BY <1>0, <2>1 DEF ScrapeTypeOK
    <2>5. /\ NothingDue' => NothingDue
          /\ \A v \in unitsSeen : unitAddress'[v] = unitAddress[v]
      BY <1>0, <2>1 DEF ScrapeTypeOK, NothingDue
    <2> QED BY <2>1, <2>2, <2>3, <2>4, <2>5, UnreadKeeps
  <1>3. CASE ScaleDown(u)
    <2>1. /\ u # scrapeLeader[ScrapedOf[u]]
          /\ inModel' = inModel \ {u} /\ scrapeNews' = scrapeNews \ {u}
          /\ UNCHANGED <<podIp, hadIp, asked, scrapeLeader, unitAddress, published,
                         unitsSeen, prometheus>>
      BY <1>3 DEF ScaleDown
    <2>2. ScrapeTypeOK'
      BY <1>0, <1>1, <2>1 DEF ScrapeTypeOK, asked, published, prometheus
    <2>3. AddressesHad'
      BY <1>0, <2>1 DEF AddressesHad
    <2>4. NothingDue' => NothingDue
      BY <2>1, ScrapeAssumption DEF NothingDue
    <2> QED BY <2>1, <2>2, <2>3, <2>4, UnreadKeeps
  <1> QED BY <1>2, <1>3

LEMMA ScrapeKeepsIInv == ScrapeIInv /\ [ScrapeNext]_scrapeVars => ScrapeIInv'
  <1> SUFFICES ASSUME ScrapeIInv, [ScrapeNext]_scrapeVars PROVE ScrapeIInv'
    OBVIOUS
  <1>1. CASE UNCHANGED scrapeVars
    <2>1. ScrapeTypeOK' /\ AddressesHad'
      BY <1>1 DEF scrapeVars, ScrapeIInv, ScrapeTypeOK, AddressesHad, asked, published,
                  prometheus
    <2>2. NothingDue' => NothingDue
      BY <1>1 DEF scrapeVars, NothingDue
    <2> QED BY <1>1, <2>1, <2>2, UnreadKeeps DEF scrapeVars
  <1>2. CASE ScrapeNext
    BY <1>2, PrometheusKeeps, PublishKeeps, ScrapeChangesKeep, ScaleKeeps DEF ScrapeNext
  <1> QED BY <1>1, <1>2

LEMMA ScrapeInvariant == ScrapeSpec => []ScrapeIInv
  BY ScrapeInitIInv, ScrapeKeepsIInv, PTL DEF ScrapeSpec

\* Prometheus scrapes what there is, under true labels at any moment, and
\* evaluates the alerts on it (MetricsEndpointConsumer, MetricsEndpointProvider),
\* for any number of applications, units, addresses and jobs.
THEOREM TargetsAlwaysRight == ScrapeSpec => []TargetsAreRight
  <1>1. ScrapeIInv => TargetsAreRight
    <2> SUFFICES ASSUME ScrapeIInv, ScrapeSettled PROVE UnitsAreScraped /\ RulesAreEvaluated
      BY DEF ScrapeIInv, TargetsAreRight, UnitsAreScraped, RulesAreEvaluated
    <2>0. ScrapeTypeOK /\ unitsSeen \in SUBSET ScrapedUnits
      BY DEF ScrapeIInv, ScrapeTypeOK
    <2>1. NothingDue
      BY DEF ScrapeSettled, NothingDue
    <2>2. TargetsMatch(scraping, unitsSeen) /\ JobsJudged(unitsSeen) /\ RulesTaken(unitsSeen)
      BY <2>0, <2>1 DEF ScrapeIInv, CurrentWhenTold, Current
    <2>3. \A a \in Scraped : UnitsOf(a, unitsSeen) # {}
      BY <2>0 DEF ScrapeSettled, ScrapeTypeOK, UnitsOf
    <2>4. /\ \A a \in Scraped : JobsOf(a, unitsSeen) = charmJobs[a]
          /\ \A u \in inModel : unitAddress[u] = podIp[u] /\ podIp[u] \in Ips
      BY <2>0, <2>3, ScrapeAssumption DEF ScrapeSettled, ScrapeTypeOK, JobsOf
    <2>5. \A a \in Scraped : Hosts(a, unitsSeen) = {u \in inModel : ScrapedOf[u] = a}
      BY <2>4, ScrapeAssumption DEF ScrapeSettled, Hosts, UnitsOf
    <2>6. UnitsAreScraped
      <3>1. ASSUME NEW a \in Scraped, NEW j \in charmJobs[a], IsAccepted(a, unitsSeen),
                   Wildcard \in j.targets, NEW u \in inModel, ScrapedOf[u] = a
            PROVE  \E t \in scraping : /\ t.app = a /\ t.unit = u /\ Head(t.name) = j.job
                                       /\ t.addresses = {podIp[u]}
        <4>1. /\ u \in Hosts(a, unitsSeen) /\ unitAddress[u] = podIp[u]
              /\ j \in JobsOf(a, unitsSeen)
          BY <2>4, <2>5, <3>1
        <4>2. \A i \in JobsOf(a, unitsSeen) :
                Wildcard \in i.targets => \A v \in Hosts(a, unitsSeen) :
                  \E t \in scraping : /\ t.app = a /\ t.unit = v /\ Head(t.name) = i.job
                                     /\ t.addresses = {unitAddress[v]}
          BY <2>2, <3>1 DEF TargetsMatch
        <4> QED BY <4>1, <4>2, <3>1
      <3>2. ASSUME NEW t \in scraping
            PROVE  /\ IsAccepted(t.app, unitsSeen)
                   /\ t.unit # NoUnit => /\ t.unit \in inModel
                                         /\ t.addresses \subseteq {podIp[t.unit], t.unit}
                   /\ \A s \in scraping :
                         <<s.app, s.name, s.unit>> = <<t.app, t.name, t.unit>> => s = t
        BY <2>2, <2>4, <2>5 DEF TargetsMatch, IdentifiersOf
      <3>3. \A a \in Scraped : /\ IsRejected(a, unitsSeen) => a \in jobErrors
                               /\ IsAccepted(a, unitsSeen) => a \notin jobErrors
        BY <2>2 DEF JobsJudged
      <3>4. jobErrors \subseteq Scraped
        BY <2>0 DEF ScrapeTypeOK
      <3>5. \A a \in Scraped, j \in UNION JobSets :
               j \in charmJobs[a] /\ IsAccepted(a, unitsSeen) /\ Wildcard \in j.targets
                 => \A u \in inModel : ScrapedOf[u] = a =>
                       \E t \in scraping : /\ t.app = a /\ t.unit = u
                                           /\ Head(t.name) = j.job
                                           /\ t.addresses = {podIp[u]}
        BY <3>1
      <3>6. /\ (\E a \in Scraped : IsRejected(a, unitsSeen)) => HasRelationError(jobErrors)
            /\ HasRelationError(jobErrors) => \E a \in Scraped : ~IsAccepted(a, unitsSeen)
        BY <3>3, <3>4 DEF HasRelationError
      <3> QED BY <3>2, <3>3, <3>5, <3>6 DEF UnitsAreScraped
    <2>7. RulesAreEvaluated
      <3>1. \A r : WithRules(r, unitsSeen) = {a \in Scraped : charmRules[a] = r}
        BY <2>3 DEF ScrapeSettled, WithRules
      <3>2. alertErrors \subseteq Scraped
        BY <2>0 DEF ScrapeTypeOK
      <3> QED BY <2>2, <3>1, <3>2 DEF RulesTaken, RulesAreEvaluated, HasRelationError
    <2> QED BY <2>6, <2>7
  <1> QED BY <1>1, ScrapeInvariant, PTL

------------------------------------------------------------------------------
(* Side by side                                                            *)

\* Side by side in one deployment, each library behaves as it does alone: a
\* step of one of them changes nothing of the others', so that all that is
\* proved of each of them holds there.
LEMMA TelemetryComposes ==
    TelemetrySpec => /\ LogSpec /\ ProxySpec /\ RuleSpec
                     /\ DashSpec /\ OfferSpec /\ ScrapeSpec
PROOF
  <1>1. TelemetryInit => /\ LogInit /\ ProxyInit /\ RuleInit
                         /\ DashInit /\ OfferInit /\ ScrapeInit
    BY DEF TelemetryInit
  <1>2. [TelemetryNext]_telemetryVars
          => /\ [LogNext]_logVars /\ [ProxyNext]_proxyVars /\ [RuleNext]_ruleVars
             /\ [DashNext]_dashVars /\ [OfferNext]_offerVars /\ [ScrapeNext]_scrapeVars
    <2> SUFFICES ASSUME [TelemetryNext]_telemetryVars
                 PROVE  /\ [LogNext]_logVars /\ [ProxyNext]_proxyVars /\ [RuleNext]_ruleVars
                        /\ [DashNext]_dashVars /\ [OfferNext]_offerVars
                        /\ [ScrapeNext]_scrapeVars
      OBVIOUS
    <2>1. CASE LogStep
      BY <2>1 DEF LogStep
    <2>2. CASE ProxyStep
      BY <2>2 DEF ProxyStep
    <2>3. CASE RuleStep
      BY <2>3 DEF RuleStep
    <2>4. CASE DashStep
      BY <2>4 DEF DashStep
    <2>5. CASE OfferStep
      BY <2>5 DEF OfferStep
    <2>6. CASE ScrapeStep
      BY <2>6 DEF ScrapeStep
    <2>7. CASE UNCHANGED telemetryVars
      BY <2>7 DEF telemetryVars
    <2> QED
      BY <2>1, <2>2, <2>3, <2>4, <2>5, <2>6, <2>7 DEF TelemetryNext
  <1> QED
    BY <1>1, <1>2, PTL DEF TelemetrySpec, LogSpec, ProxySpec, RuleSpec, DashSpec,
                           OfferSpec, ScrapeSpec

\* The variables of all the libraries keep their types, whichever of them runs.
THEOREM TelemetryTypesKept == TelemetrySpec => []TelemetryTypeOK
PROOF
  <1>1. /\ LogIInv => LogTypeOK
        /\ ProxyIInv => ProxyTypeOK
        /\ RuleIInv => RuleTypeOK
        /\ DashIInv => DashTypeOK
        /\ OfferIInv => OfferTypeOK
        /\ ScrapeIInv => ScrapeTypeOK
    BY DEF LogIInv, ProxyIInv, RuleIInv, DashIInv, OfferIInv, ScrapeIInv
  <1>2. LogTypeOK /\ ProxyTypeOK /\ RuleTypeOK /\ DashTypeOK /\ OfferTypeOK /\ ScrapeTypeOK
          => TelemetryTypeOK
    BY DEF TelemetryTypeOK
  <1> QED
    BY <1>1, <1>2, TelemetryComposes, LogInvariant, ProxyInvariant, RuleInvariant,
       DashInvariant, OfferInvariant, ScrapeInvariant, PTL

==============================================================================
