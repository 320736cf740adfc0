------------------------- MODULE MCPreviewWorkflow -------------------------
(* One or two runners, with or without a direct client.                     *)
EXTENDS PreviewWorkflow, TLC

CONSTANTS r1, r2, nobody

MCVersions == {"preV2", "waits", "pending"}
=============================================================================
