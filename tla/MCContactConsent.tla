--------------------------- MODULE MCContactConsent ---------------------------
(* Two demands of every pair of kinds, and a text that may leave beside them, *)
(* to a contact whose addresses are stored in every form that tells the pair  *)
(* apart.                                                                     *)
EXTENDS ContactConsent

CONSTANTS h1, h2, s1

MCVia == [s \in Sends |-> "sms"]

MCPairs == {
    <<"stop", "stop">>, <<"stop", "unsub">>, <<"stop", "event">>, <<"stop", "bulk">>,
    <<"stop", "rule">>, <<"unsub", "unsub">>, <<"unsub", "event">>, <<"unsub", "bulk">>,
    <<"unsub", "rule">>, <<"event", "event">>, <<"event", "bulk">>, <<"event", "rule">>,
    <<"bulk", "bulk">>, <<"bulk", "rule">>, <<"rule", "rule">>}

\* A phone's form matters to texts and rules only, an email's to events only; a
\* text from a number with punctuation reaches nobody.
MCTells(pair, f) ==
    LET kinds == {pair[1], pair[2]} IN
    CASE f = "bare" -> kinds \intersect {"stop", "rule"} # {} /\ pair[1] # pair[2]
      [] f = "pretty" -> pair \in {<<"stop", "rule">>, <<"unsub", "rule">>}
      [] f = "mixed" -> pair \in {<<"stop", "event">>, <<"event", "rule">>}
      [] OTHER -> TRUE

MCScenarios ==
    {[kind |-> [h \in Handlers |-> IF h = h1 THEN pair[1] ELSE pair[2]], form |-> f] :
        <<pair, f>> \in {pf \in MCPairs \X Forms : MCTells(pf[1], pf[2])}}
=============================================================================
