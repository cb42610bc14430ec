----------------------- MODULE MCHelmReleaseReconciler -----------------------
(* One HelmRelease whose release may be moved to another storage namespace. *)
EXTENDS HelmReleaseReconciler

TwoTargets == {<<"apps", "web">>, <<"infra", "web">>}
FirstSpec == <<<<"apps", "web">>, "chart">>
=============================================================================
