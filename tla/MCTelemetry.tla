------------------------------ MODULE MCTelemetry ------------------------------
(* Small instances of Telemetry: an analysis or the read of a resource,     *)
(* beside an edit.                                                          *)
EXTENDS Telemetry

CONSTANTS call1, call2

MCToolsOf == [c \in Calls |-> IF c = call1 THEN {"analyze_file", "read_resource"}
                                          ELSE {"edit_overwrite"}]
==============================================================================
