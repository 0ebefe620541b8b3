------------------------ MODULE MCContactValidation ------------------------
(* One CSV import in two chunks on one batch, the second chunk free to land   *)
(* while the first is being finished, and one spare batch for the drain.      *)
EXTENDS ContactValidation

CONSTANTS a1, a2, csv, single, first, second

MCContacts == {a1, a2}
MCBatches == {csv, single}
MCSpare == {single}
MCImports == {first, second}
MCImportOf == [i \in Imports |-> [batch |-> csv, contacts |-> IF i = first THEN {a1} ELSE {a2}]]
MCAnswers == {"invalid"}
MCSuppressible == {a2}
MCUndeliverable == {}
=============================================================================
