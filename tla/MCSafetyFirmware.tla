--------------------------- MODULE MCSafetyFirmware ---------------------------
(* SafetyFirmware for TLC. The clock has only a few values, so that it comes *)
(* round many times; a pass takes one ms or one and an overrun.              *)
EXTENDS SafetyFirmware

MCPayloads == {{}, {"OTHER"}}
=============================================================================
