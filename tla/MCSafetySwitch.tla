---------------------------- MODULE MCSafetySwitch ----------------------------
(* An instance of SafetySwitch for TLC, with short patterns of the light. *)
EXTENDS SafetySwitch

On(d) == [light |-> TRUE, delay |-> d]
Dark(d) == [light |-> FALSE, delay |-> d]

ShortInit == <<On(1), Dark(1)>>
ShortDisarmed == <<On(1), Dark(2)>>
ShortArmed == <<On(1)>>
=============================================================================
