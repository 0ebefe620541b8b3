---------------------------- MODULE MCCampaignRun ----------------------------
(* Three graphs.  Short: one send.  The sequence: send, wait, branch on the   *)
(* reply; an interested lead gets a second send.  The walk: a split, a branch *)
(* without a default case, an action and a subcampaign that ends the list.    *)
EXTENDS CampaignRun

CONSTANTS
    s1, d1, b1, s2, e1, p1, a1, c1,
    interested, notNow,
    main, again, moved, movedAgain,
    enroll, move1,
    reply, unsub, bulk, mv, end, pause, suppress, re

SeqNodes == {s1, d1, b1, s2, e1}
SeqKind == [n \in SeqNodes |->
    CASE n \in {s1, s2} -> "send" [] n = d1 -> "delay" [] n = b1 -> "branch" [] n = e1 -> "end"]
SeqEdges == {<<s1, d1>>, <<d1, b1>>, <<s2, e1>>}
SeqCases == [n \in SeqNodes |->
    IF n = b1 THEN {[when |-> interested, goto |-> s2, stage |-> TRUE],
                    [when |-> Default, goto |-> e1, stage |-> FALSE]} ELSE {}]

ShortNodes == {s1, e1}
ShortKind == [n \in ShortNodes |-> IF n = s1 THEN "send" ELSE "end"]
ShortEdges == {<<s1, e1>>}
ShortCases == [n \in ShortNodes |-> {}]

WalkNodes == {p1, s1, d1, b1, a1, c1}
WalkKind == [n \in WalkNodes |->
    CASE n = p1 -> "split" [] n = s1 -> "send" [] n = d1 -> "delay" [] n = b1 -> "branch"
      [] n = a1 -> "action" [] n = c1 -> "subcampaign"]
WalkEdges == {<<s1, d1>>, <<d1, b1>>, <<a1, c1>>}
WalkCases == [n \in WalkNodes |->
    CASE n = p1 -> {[when |-> Default, goto |-> s1, stage |-> FALSE]}
      [] n = b1 -> {[when |-> interested, goto |-> a1, stage |-> FALSE]}
      [] OTHER -> {}]

MCIntents == {interested, notNow}

OneRun == {main}
OneRunId == [x \in OneRun |-> enroll]
TwoRuns == {main, again}
TwoRunsId == [x \in TwoRuns |-> enroll]
MovedRuns == {main, moved}
MovedRunsId == [x \in MovedRuns |-> IF x = main THEN enroll ELSE move1]
RedeliveredRuns == {main, moved, movedAgain}
RedeliveredId == [x \in RedeliveredRuns |-> IF x = main THEN enroll ELSE move1]

MCKind == [o \in Ops |->
    CASE o = reply -> "reply" [] o = unsub -> "unsubscribe" [] o = bulk -> "bulk"
      [] o = mv -> "move" [] o = end -> "end" [] o = pause -> "pause"
      [] o = suppress -> "suppress" [] o = re -> "reenroll"]
MCIntent == [o \in Ops |-> IF o = reply THEN interested ELSE notNow]
MCTarget == [o \in Ops |-> Entry]
MCMoveId == [o \in Ops |-> IF o = mv THEN move1 ELSE enroll]
=============================================================================
