---------------------------- MODULE Integrations ----------------------------
(***************************************************************************)
(* The other integrations of the coordinator, side by side in one          *)
(* deployment: the service mesh, resource limits, object storage, tracing  *)
(* and the path of requests.  Each has objects and databags of its own, so *)
(* a step of one leaves the state of the others alone.                     *)
(***************************************************************************)
EXTENDS MeshPolicies, MeshLabels, ResourcesPatch, S3Credentials, Tracing,
        RequestPath

integrationsVars == <<meshVars, labelVars, patchVars, s3Vars, tracingVars, pathVars>>

MeshStep == MeshNext
    /\ UNCHANGED <<labelVars, patchVars, s3Vars, tracingVars, pathVars>>
LabelStep == LabelNext
    /\ UNCHANGED <<meshVars, patchVars, s3Vars, tracingVars, pathVars>>
PatchStep == PatchNext
    /\ UNCHANGED <<meshVars, labelVars, s3Vars, tracingVars, pathVars>>
S3Step == S3Next
    /\ UNCHANGED <<meshVars, labelVars, patchVars, tracingVars, pathVars>>
TracingStep == TracingNext
    /\ UNCHANGED <<meshVars, labelVars, patchVars, s3Vars, pathVars>>
PathStep == PathNext
    /\ UNCHANGED <<meshVars, labelVars, patchVars, s3Vars, tracingVars>>

IntegrationsInit ==
    MeshInit /\ LabelInit /\ PatchInit /\ S3Init /\ TracingInit /\ PathInit

IntegrationsNext ==
    MeshStep \/ LabelStep \/ PatchStep \/ S3Step \/ TracingStep \/ PathStep

IntegrationsSpec == IntegrationsInit /\ [][IntegrationsNext]_integrationsVars

\* The variables of all six have their types.
IntegrationsTypeOK ==
    /\ MeshTypeOK /\ LabelTypeOK /\ PatchTypeOK
    /\ S3TypeOK /\ TracingTypeOK /\ PathTypeOK
=============================================================================
