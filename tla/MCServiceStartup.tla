--------------------------- MODULE MCServiceStartup ---------------------------
(* ServiceStartup for TLC: the services whose configure hook reads a file or *)
(* loads a gait policy, and so may fail, and may work at the next call.      *)
EXTENDS ServiceStartup

MCMayFail == {"safety_gateway", "world_model", "memory", "motion", "update"}
=============================================================================
