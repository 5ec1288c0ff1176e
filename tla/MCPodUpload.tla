---------------------------- MODULE MCPodUpload ----------------------------
(* Instance of PodUpload for TLC.                                           *)
EXTENDS PodUpload
=============================================================================
