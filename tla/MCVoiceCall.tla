---------------------------- MODULE MCVoiceCall ----------------------------
(* A best-time request beside the campaign's voice step for the same contact, *)
(* and one retry that may run beside a slow attempt of either.                *)
EXTENDS VoiceCall

CONSTANTS best, step, retry, c1, c2, l1, l2

MCKindOf == [d \in Dials |-> IF d = best THEN "best" ELSE IF d = step THEN "step" ELSE "retry"]
=============================================================================
