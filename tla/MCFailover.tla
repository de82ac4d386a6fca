------------------------------- MODULE MCFailover -------------------------------
(* FailoverManager with the two drivers the hive mind registers. *)
EXTENDS FailoverManager

CONSTANTS gemini, claude

MCDrivers == {gemini, claude}
MCPriority(d) == IF d = gemini THEN 0 ELSE 1
=============================================================================
