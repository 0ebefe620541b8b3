--------------------------- MODULE VerdictSource ---------------------------
(***************************************************************************)
(* What the rest of the platform may assume of email validation: a contact *)
(* starts unverified, a verdict of record may land at any time and may be  *)
(* replaced by a newer one, and is never taken back to unverified.         *)
(***************************************************************************)
CONSTANTS Contacts, Answers     \* the contacts of a workspace, the verdicts a check may return

VARIABLE verdict                \* Contact.emailVerdict

Unverified == "unverified"

TypeOK == verdict \in [Contacts -> Answers \union {Unverified}]

Init == verdict = [c \in Contacts |-> Unverified]

(* One persist transaction of a validation turn: the contacts it answers. *)
Land == \E C \in SUBSET Contacts : \E v \in [C -> Answers] :
            verdict' = [c \in Contacts |-> IF c \in C THEN v[c] ELSE verdict[c]]

Spec == Init /\ [][Land]_verdict
=============================================================================
