---------------------------- MODULE MC_RibStorage ----------------------------
(* One path, one size, and the default and one tuned MemoryOnlyConfig:     *)
(* every variant, every SyncMode and PlacementStrategy, both Booleans and  *)
(* both max_size_bytes cases occur.                                        *)
EXTENDS RibStorage, TLC

CONSTANTS p1, m0, m1

MCPaths == {p1}
MCSizes == {1}
MCMemConfigs == {m0, m1}
=============================================================================
