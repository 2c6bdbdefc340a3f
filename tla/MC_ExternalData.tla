-------------------------- MODULE MC_ExternalData --------------------------
(* Small instance of ExternalData for TLC: two sources, time scaled so     *)
(* that the refresh TTL (300 s) is 1 tick and cache_ttl_secs is either     *)
(* 0 ticks (shorter than 300 s) or 2 ticks (the 600 s default).           *)
EXTENDS ExternalData

CONSTANTS s1, s2, c1, c2

MCIds == {s1, s2}
MCCallers == {c1}
MCCacheTtls == {0, 2}

(* refresh_interval_secs: positive (its length is not modelled), or also  *)
(* zero for the run about tokio's zero-period panic.                       *)
MCRefreshIntervals == {1}
MCRefreshIntervalsZero == {0, 1}
=============================================================================
