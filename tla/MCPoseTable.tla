---------------------------- MODULE MCPoseTable ----------------------------
(* Three shipped rows, two of them with one id, and an id that is larger  *)
(* than the number of rows: the recorder's ids reach it.                   *)
EXTENDS PoseTable

ShippedIds == <<2, 6, 6>>
=============================================================================
