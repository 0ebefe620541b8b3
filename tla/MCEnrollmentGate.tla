------------------------- MODULE MCEnrollmentGate -------------------------
(* Two contacts on one campaign that takes one a day; each is asked for      *)
(* once, and a drain runs again and again beside the requests.               *)
EXTENDS EnrollmentGate

CONSTANTS ann, bob, r1, r2, d1

MCContacts == {ann, bob}
MCAskOf == [r \in Requests |-> IF r = r1 THEN ann ELSE bob]
MCAnswers == {"valid", "risky", "invalid"}
=============================================================================
