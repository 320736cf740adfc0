---------------------------- MODULE MCCopyImage ----------------------------
(* Two callers of one image, possibly for different platforms.              *)
EXTENDS CopyImage, TLC

CONSTANTS c1, c2, i1, i2, amd64, arm64, l1
=============================================================================
