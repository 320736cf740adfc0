------------------------ MODULE MCLocalImageBuild ------------------------
(* Two images on versions of one base: an image that repeats a layer of     *)
(* its base, and one whose layers are those of a later version; a version   *)
(* with the same layers that was never published.                           *)
EXTENDS LocalImageBuild, TLC

CONSTANTS app, web, l1, l2, v1, v2, mine

MCBaseLayers == (v1 :> <<l1>>) @@ (v2 :> <<l1, l2>>) @@ (mine :> <<l1>>)
MCOwn == (app :> <<l1>>) @@ (web :> <<l2>>)
=============================================================================
