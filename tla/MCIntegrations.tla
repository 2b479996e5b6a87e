--------------------------- MODULE MCIntegrations ---------------------------
(***************************************************************************)
(* The other integrations of the coordinator, for TLC: the service mesh,   *)
(* resource limits, object storage, tracing and the path of requests.      *)
(* They share no state, and in each behaviour one of them, "part", runs.   *)
(***************************************************************************)
EXTENDS Integrations

VARIABLE part

CONSTANTS u1, t1, g,               \* a unit, a unit of Tempo, a protocol
          a1, a2, a3, f1, f2, f3, f4   \* coordinators and fqdns

\* "m-p", "m-p-x" and "m-p-x" again, of a model "m-p".
MCModelOf == [a \in Apps |-> IF a = a3 THEN <<"m", "p">> ELSE <<"m">>]
MCNameOf == [a \in Apps |-> CASE a = a1 -> <<"p">>
                              [] a = a2 -> <<"p", "x">>
                              [] a = a3 -> <<"x">>]
MCUnitsOf == [a \in Apps |-> CASE a = a1 -> {f1, f2} [] a = a2 -> {f3} [] a = a3 -> {f4}]
MCPaths == {<<"/">>, <<"/", "ingest">>, <<"/", "x", "ingest">>, <<"/", "querier", "x">>}

MCInit ==
    /\ part \in {"mesh", "labels", "limits", "s3", "tracing", "path"}
    /\ MeshInit /\ meshLeader = u1
    /\ LabelInit /\ labelLeader = u1
    /\ PatchInit /\ (part # "limits" => limitOption = Unlimited /\ trusted)
    /\ readyPods = {}
    /\ S3Init /\ s3Leader = u1 /\ storeLeader = CHOOSE p \in S3Stores : TRUE
    /\ TracingInit /\ tempoLeader = t1 /\ protocols = [a \in Traced |-> {g}]
    /\ PathInit /\ members = [a \in Apps |-> {CHOOSE f \in UnitsOf[a] : TRUE}]

MCNext ==
    /\ UNCHANGED part
    /\ \/ part = "mesh" /\ MeshStep
       \/ part = "labels" /\ LabelStep
       \/ part = "limits" /\ PatchStep
       \/ part = "s3" /\ S3Step
       \/ part = "tracing" /\ TracingStep
       \/ part = "path" /\ PathStep

MCSpec == MCInit /\ [][MCNext]_<<part, integrationsVars>>
=============================================================================
