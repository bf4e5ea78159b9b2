----------------------------- MODULE DroidStates -----------------------------
(***************************************************************************)
(* The system state machine of core/states.py: the states, those from      *)
(* which motion may begin, and the table of legal transitions.             *)
(***************************************************************************)

MOTION_ALLOWED_FROM == {"READY", "DEGRADED", "ACTIVE"}

DroidState ==
    {"POWERED_OFF", "BOOTING", "HARDWARE_CHECK", "SAFE_IDLE", "READY",
     "ACTIVE", "DEGRADED", "MOTION_INHIBITED", "EMERGENCY_STOPPED",
     "RECOVERY", "SHUTTING_DOWN"}

(* Allowed transitions: the states reachable from the key (_TRANSITIONS). *)
Transitions ==
    [POWERED_OFF       |-> {"BOOTING"},
     BOOTING           |-> {"HARDWARE_CHECK", "RECOVERY", "SHUTTING_DOWN"},
     HARDWARE_CHECK    |-> {"SAFE_IDLE", "MOTION_INHIBITED",
                            "EMERGENCY_STOPPED", "RECOVERY"},
     SAFE_IDLE         |-> {"READY", "MOTION_INHIBITED", "EMERGENCY_STOPPED",
                            "SHUTTING_DOWN", "DEGRADED"},
     READY             |-> {"ACTIVE", "SAFE_IDLE", "DEGRADED",
                            "MOTION_INHIBITED", "EMERGENCY_STOPPED",
                            "SHUTTING_DOWN"},
     ACTIVE            |-> {"READY", "DEGRADED", "MOTION_INHIBITED",
                            "EMERGENCY_STOPPED", "SHUTTING_DOWN"},
     DEGRADED          |-> {"READY", "ACTIVE", "SAFE_IDLE",
                            "MOTION_INHIBITED", "EMERGENCY_STOPPED",
                            "SHUTTING_DOWN"},
     MOTION_INHIBITED  |-> {"SAFE_IDLE", "READY", "EMERGENCY_STOPPED",
                            "SHUTTING_DOWN"},
     EMERGENCY_STOPPED |-> {"RECOVERY", "SHUTTING_DOWN"},
     RECOVERY          |-> {"SAFE_IDLE", "SHUTTING_DOWN", "POWERED_OFF"},
     SHUTTING_DOWN     |-> {"POWERED_OFF"}]

CanTransition(src, dst) == dst \in Transitions[src]

(* StateMachine.transition: a transition to the current state is a no-op,
   an illegal one raises InvalidTransition and leaves the state alone. *)
Transitioned(src, dst) ==
    IF CanTransition(src, dst) THEN dst ELSE src
=============================================================================
