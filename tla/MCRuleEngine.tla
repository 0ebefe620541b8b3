---------------------------- MODULE MCRuleEngine ----------------------------
(* Two rules; every way to decide in the first, alone, behind a plain action, *)
(* before another and inside a nested automation.  The second one stands for  *)
(* an account rule, except where it moves the lead, which those may not.      *)
EXTENDS RuleEngine

Do(kind) == [kind |-> kind, nested |-> FALSE]
Nested(kind) == <<[kind |-> kind, nested |-> TRUE], Do("ledger")>>

MCRules == <<"first", "second">>
FirstSays == {<<Do("plain")>>, <<Do("plain"), Do("pause")>>, <<Do("end")>>,
              <<Do("move"), Do("pause")>>, Nested("suppress"), Nested("end")}
SecondSays == {<<Do("move")>>, <<Do("pause")>>, <<Do("end"), Do("plain")>>}

AllBooks == [{"first", "second"} -> FirstSays \union SecondSays]
MCBooks == {b \in AllBooks : b["first"] \in FirstSays /\ b["second"] \in SecondSays}
=============================================================================
