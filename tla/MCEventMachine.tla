--------------------------- MODULE MCEventMachine ---------------------------
(***************************************************************************)
(* EventMachine on small instances: two codes, a hysteresis of two ticks,  *)
(* a retention of three, and at most two faults.                            *)
(***************************************************************************)
EXTENDS EventMachine

\* the diagnosis tick is late now and then: one or two units between readings
ForwardGaps == {1, 2}

=============================================================================
