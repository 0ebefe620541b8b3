----------------------------- MODULE RuleEngine -----------------------------
(***************************************************************************)
(* One classified reply on the event bus: the rule evaluator               *)
(* (packages/automations/src/evaluate.ts, executors.ts), the memo that     *)
(* ties it to the graph (consumer.ts) and the signal consumer's gate       *)
(* (packages/events/src/consumers.ts).                                     *)
(*                                                                         *)
(* A delivery of the event is one pass over the matched rules: campaign    *)
(* rules in row order, then account rules in creation order.  The queue    *)
(* delivers again when a worker dies or loses its lock, so a pass may be   *)
(* cut short, repeated, or run beside another.                             *)
(***************************************************************************)
EXTENDS Naturals, Sequences, FiniteSets

CONSTANTS
    Rules,          \* the rules the event matches, in evaluation order
    Books,          \* what those rules may say: functions Rules -> Seq(Action)
    MaxDeliveries,  \* deliveries the queue makes of a job (2: it may stall once)
    MaxFaults       \* bound: crashes, stalls, failed calls

Terminal == {"end", "pause", "suppress", "move"}

\* "plain" stands for every other action; "ledger" is the AutomationRun row that
\* run_automation writes after the nested actions that stand before it.
Action == [kind: Terminal \union {"plain", "ledger"}, nested: BOOLEAN]

ASSUME RulesAssumption ==
    /\ Rules \in Seq(STRING) /\ Rules # <<>>
    /\ \A i, j \in DOMAIN Rules : Rules[i] = Rules[j] => i = j
\* Behind what an automation does to the run stands the automation's own row.
ASSUME BooksAssumption ==
    \A b \in Books : \A i \in DOMAIN Rules :
        LET says == b[Rules[i]] IN
        /\ says \in Seq(Action)
        /\ \A k \in DOMAIN says : says[k].nested /\ says[k].kind \in Terminal =>
              \E n \in DOMAIN says : n > k /\ says[n].kind = "ledger"
ASSUME BoundsAssumption == MaxDeliveries \in Nat \ {0} /\ MaxFaults \in Nat

Deliveries == 1..MaxDeliveries
Matched == {Rules[i] : i \in DOMAIN Rules}

VARIABLES
    book,           \* what the rules say
    status,         \* Enrollment.status
    live,           \* the enrollment's durable run is open
    row,            \* CampaignRuleRun / AutomationRun of each rule for this event
    pass,           \* per delivery, see TypeOK
    decided,        \* history: rules whose terminal action reached the enrollment
    signs,          \* history: what went wrong on the way, see TypeOK
    faults

vars == <<book, status, live, row, pass, decided, signs, faults>>

PassPcs == {"none", "queued", "rule", "act", "cancel", "start", "row", "gate", "over"}

TypeOK ==
    /\ book \in Books
    /\ status \in {"ACTIVE", "PAUSED", "DONE", "UNSUBSCRIBED"}
    /\ live \in BOOLEAN
    /\ row \in [Matched -> {"none", "plain", "terminal"}]
    /\ pass \in [Deliveries ->
          [pc: PassPcs, rule: 1..(Len(Rules) + 1), act: Nat \ {0},
           fired: BOOLEAN,      \* ctx.terminalState.fired
           closed: BOOLEAN,     \* summary.terminalFired
           own: BOOLEAN,        \* a terminal outcome of the rule at hand ...
           nested: BOOLEAN]]    \* ... and of the automation it is running
    /\ decided \subseteq Matched
    /\ signs \subseteq {"error", "inert", "threw", "dead", "late"}
    /\ faults \in 0..MaxFaults

Fresh == [pc |-> "none", rule |-> 1, act |-> 1, fired |-> FALSE, closed |-> FALSE,
          own |-> FALSE, nested |-> FALSE]

Init ==
    /\ book \in Books
    /\ status \in {"ACTIVE", "DONE"}
    /\ live = (status = "ACTIVE")
    /\ row = [r \in Matched |-> "none"]
    /\ pass = [d \in Deliveries |-> IF d = 1 THEN [Fresh EXCEPT !.pc = "queued"] ELSE Fresh]
    /\ decided = {} /\ signs = {} /\ faults = 0

At(d, pc) == pass[d].pc = pc
Rule(d) == Rules[pass[d].rule]
Actions(d) == book[Rule(d)]
HasAction(d) == At(d, "act") /\ pass[d].act <= Len(Actions(d))
ActionOf(d) == Actions(d)[pass[d].act]

Becomes(d, p) == pass' = [pass EXCEPT ![d] = p]
NextRule(p) == [p EXCEPT !.pc = "rule", !.rule = @ + 1, !.act = 1, !.own = FALSE,
                         !.nested = FALSE]
NextAction(p) == [p EXCEPT !.pc = "act", !.act = @ + 1]

\* A terminal outcome: this pass will carry out no other.
Executed(d) ==
    LET a == ActionOf(d) IN
    Becomes(d, [NextAction(pass[d]) EXCEPT !.fired = TRUE, !.own = @ \/ ~a.nested,
                                           !.nested = @ \/ a.nested])

-----------------------------------------------------------------------------
\* The status is read once; a paused or removed lead is inert and the summary
\* empty, which the gate reads as "no terminal action".
Load(d) ==
    /\ At(d, "queued")
    /\ IF status \in {"ACTIVE", "DONE"}
          THEN Becomes(d, [pass[d] EXCEPT !.pc = "rule"]) /\ UNCHANGED signs
          ELSE Becomes(d, [pass[d] EXCEPT !.pc = "gate"]) /\ signs' = signs \union {"inert"}
    /\ UNCHANGED <<book, status, live, row, decided, faults>>

\* Mutants: the rule counter moves on once more behind the last rule; a recorded
\* rule is skipped without a look at its terminal flag; the loop ends with
\* the first terminal action instead of with the rules.
FindRowStepsOn(d) ==
    LET p == pass[d] IN
    /\ At(d, "rule")
    /\ Becomes(d, IF p.rule > Len(Rules) THEN [NextRule(p) EXCEPT !.pc = "gate"]
                  ELSE IF row[Rule(d)] = "none" THEN [p EXCEPT !.pc = "act"]
                  ELSE NextRule(p))
    /\ UNCHANGED <<book, status, live, row, decided, signs, faults>>
FindRowBlind(d) ==
    /\ At(d, "rule")
    /\ \/ pass[d].rule > Len(Rules) /\ Becomes(d, [pass[d] EXCEPT !.pc = "gate"])
       \/ /\ pass[d].rule <= Len(Rules)
          /\ Becomes(d, IF row[Rule(d)] = "none" THEN [pass[d] EXCEPT !.pc = "act"]
                                                 ELSE NextRule(pass[d]))
    /\ UNCHANGED <<book, status, live, row, decided, signs, faults>>
FindRowUntilFired(d) ==
    LET p == pass[d] IN
    /\ At(d, "rule")
    /\ \/ /\ p.rule > Len(Rules) \/ p.fired
          /\ Becomes(d, [p EXCEPT !.pc = "gate"])
       \/ /\ p.rule <= Len(Rules) /\ ~p.fired
          /\ Becomes(d, IF row[Rule(d)] = "none" THEN [p EXCEPT !.pc = "act"]
                        ELSE [NextRule(p) EXCEPT !.fired = @ \/ row[Rule(d)] = "terminal",
                                                 !.closed = @ \/ row[Rule(d)] = "terminal"])
    /\ UNCHANGED <<book, status, live, row, decided, signs, faults>>

\* Every rule is looked up by (rule, event) first: one that has its row only
\* lends its terminal flag to this pass.
FindRow(d) ==
    LET p == pass[d] IN
    /\ At(d, "rule")
    /\ \/ p.rule > Len(Rules) /\ Becomes(d, [p EXCEPT !.pc = "gate"])
       \/ /\ p.rule <= Len(Rules)
          /\ Becomes(d, IF row[Rule(d)] = "none" THEN [p EXCEPT !.pc = "act"]
                        ELSE [NextRule(p) EXCEPT !.fired = @ \/ row[Rule(d)] = "terminal",
                                                 !.closed = @ \/ row[Rule(d)] = "terminal"])
    /\ UNCHANGED <<book, status, live, row, decided, signs, faults>>

\* A plain action leaves the run alone; a terminal one is skipped when another
\* has fired in this pass (executeAction).
PassOver(d) ==
    /\ HasAction(d)
    /\ ActionOf(d).kind = "plain" \/ (ActionOf(d).kind \in Terminal /\ pass[d].fired)
    /\ Becomes(d, NextAction(pass[d]))
    /\ UNCHANGED <<book, status, live, row, decided, signs, faults>>

\* end, pause and suppress write the status and cancel after it; a move cancels first.
WriteStatus(d) ==
    /\ HasAction(d) /\ ActionOf(d).kind \in Terminal /\ ~pass[d].fired
    /\ status' = CASE ActionOf(d).kind = "end" -> "DONE"
                   [] ActionOf(d).kind = "pause" -> "PAUSED"
                   [] ActionOf(d).kind = "suppress" -> "UNSUBSCRIBED"
                   [] OTHER -> status
    /\ decided' = IF ActionOf(d).kind = "move" THEN decided ELSE decided \union {Rule(d)}
    /\ Becomes(d, [pass[d] EXCEPT !.pc = "cancel"])
    /\ UNCHANGED <<book, live, row, signs, faults>>

Cancel(d) ==
    /\ At(d, "cancel")
    /\ live' = FALSE
    /\ IF ActionOf(d).kind = "move"
          THEN Becomes(d, [pass[d] EXCEPT !.pc = "start"])
          ELSE Executed(d)
    /\ UNCHANGED <<book, status, row, decided, signs, faults>>

\* moveEnrollmentToNode: the new run, then the row that makes it the stored one.
StartMoved(d) ==
    /\ At(d, "start")
    /\ live' = TRUE /\ status' = "ACTIVE"
    /\ Executed(d) /\ decided' = decided \union {Rule(d)}
    /\ UNCHANGED <<book, row, signs, faults>>

\* run_automation reports its nested terminal action once its own row is in.
WriteLedger(d) ==
    /\ HasAction(d) /\ ActionOf(d).kind = "ledger"
    /\ Becomes(d, [NextAction(pass[d]) EXCEPT !.own = @ \/ pass[d].nested, !.nested = FALSE])
    /\ UNCHANGED <<book, status, live, row, decided, signs, faults>>

\* Mutant: the row always says that nothing terminal happened.
WriteRowPlain(d) ==
    LET p == pass[d] IN
    /\ At(d, "act") /\ p.act > Len(Actions(d))
    /\ row' = [row EXCEPT ![Rule(d)] = IF @ # "none" THEN @ ELSE "plain"]
    /\ Becomes(d, [NextRule(p) EXCEPT !.closed = @ \/ p.own])
    /\ UNCHANGED <<book, status, live, decided, signs, faults>>
\* Mutant: a pass that loses the race for the row forgets what it has done.
WriteRowFirstOnly(d) ==
    LET p == pass[d] IN
    /\ At(d, "act") /\ p.act > Len(Actions(d))
    /\ row' = [row EXCEPT ![Rule(d)] = IF @ # "none" THEN @
                                       ELSE IF p.own THEN "terminal" ELSE "plain"]
    /\ Becomes(d, [NextRule(p) EXCEPT !.closed = @ \/ (p.own /\ row[Rule(d)] = "none")])
    /\ UNCHANGED <<book, status, live, decided, signs, faults>>

\* The row is created last, unique on (rule, event): when another delivery was
\* faster its row is the record.
WriteRow(d) ==
    LET p == pass[d] IN
    /\ At(d, "act") /\ p.act > Len(Actions(d))
    /\ row' = [row EXCEPT ![Rule(d)] = IF @ # "none" THEN @
                                       ELSE IF p.own THEN "terminal" ELSE "plain"]
    /\ Becomes(d, [NextRule(p) EXCEPT !.closed = @ \/ p.own])
    /\ UNCHANGED <<book, status, live, decided, signs, faults>>

\* The signal consumer awaited the same evaluation: it signals the run unless a
\* terminal action fired.
Gate(d) ==
    /\ At(d, "gate")
    /\ signs' = IF ~pass[d].closed /\ live /\ decided # {} THEN signs \union {"late"} ELSE signs
    /\ Becomes(d, [pass[d] EXCEPT !.pc = "over"])
    /\ UNCHANGED <<book, status, live, row, decided, faults>>

-----------------------------------------------------------------------------
(* What goes wrong.                                                         *)

Faulty(sign) ==
    /\ faults < MaxFaults /\ faults' = faults + 1
    /\ signs' = signs \union sign

\* A cancel that fails is a note on a stop's outcome and an error of a move.
CancelFails(d) ==
    /\ At(d, "cancel")
    /\ IF ActionOf(d).kind = "move"
          THEN Becomes(d, NextAction(pass[d])) /\ Faulty({"error"})
          ELSE Executed(d) /\ Faulty({})
    /\ UNCHANGED <<book, status, live, row, decided>>

\* The status write, the start of the moved run or the nested row fails: an error
\* outcome, and the rule goes on; the automation's terminal outcome is lost with it.
ActionFails(d) ==
    /\ \/ HasAction(d) /\ ActionOf(d).kind \in Terminal /\ ~pass[d].fired
       \/ HasAction(d) /\ ActionOf(d).kind = "ledger"
       \/ At(d, "start")
    /\ Becomes(d, [NextAction(pass[d]) EXCEPT
                      !.nested = IF ActionOf(d).kind = "ledger" THEN FALSE ELSE @])
    /\ Faulty({"error"})
    /\ UNCHANGED <<book, status, live, row, decided>>

\* A query of the evaluator throws: the pass ends there, logged, and the gate
\* fails open.
EvaluationThrows(d) ==
    /\ pass[d].pc \in {"queued", "rule"} \/ (At(d, "act") /\ pass[d].act > Len(Actions(d)))
    /\ Becomes(d, [pass[d] EXCEPT !.pc = "gate", !.closed = FALSE])
    /\ Faulty({"threw"})
    /\ UNCHANGED <<book, status, live, row, decided>>

Running(d) == pass[d].pc \notin {"none", "over"}
Left == {e \in Deliveries : At(e, "none")}
Redelivered(p) ==
    IF Left = {} THEN p ELSE [p EXCEPT ![CHOOSE e \in Left : TRUE].pc = "queued"]

\* The worker dies: the job is delivered again, or fails for good.
Crash(d) ==
    /\ Running(d)
    /\ pass' = Redelivered([pass EXCEPT ![d].pc = "over"])
    /\ Faulty(IF Left = {} THEN {"dead"} ELSE {})
    /\ UNCHANGED <<book, status, live, row, decided>>

\* The worker loses its lock and goes on: the job runs beside itself.
Stall(d) ==
    /\ Running(d) /\ Left # {}
    /\ pass' = Redelivered(pass)
    /\ Faulty({})
    /\ UNCHANGED <<book, status, live, row, decided>>

\* The run reaches its end by itself: completeEnrollment.
RunCompletes ==
    /\ live
    /\ live' = FALSE /\ status' = "DONE"
    /\ UNCHANGED <<book, row, pass, decided, signs, faults>>

Step(d) ==
    \/ Load(d) \/ FindRow(d) \/ PassOver(d) \/ WriteStatus(d) \/ Cancel(d)
    \/ StartMoved(d) \/ WriteLedger(d) \/ WriteRow(d) \/ Gate(d)

Next ==
    \/ \E d \in Deliveries :
          Step(d) \/ CancelFails(d) \/ ActionFails(d) \/ EvaluationThrows(d) \/ Crash(d) \/ Stall(d)
    \/ RunCompletes

\* A worker goes on with the job it holds.
Spec == Init /\ [][Next]_vars /\ \A d \in Deliveries : WF_vars(Step(d))
-----------------------------------------------------------------------------
\* First terminal wins, across rules, scopes and deliveries: however often the
\* event is delivered, one rule decides over the lead, unless an action failed.
FirstTerminalWins == "error" \notin signs => Cardinality(decided) <= 1

\* A recorded rule's terminal flag, which later deliveries rely on, says whether
\* it was the one that decided, whichever delivery wrote it.
RowsTellTheTruth ==
    "error" \notin signs =>
        \A r \in Matched : row[r] # "none" => (row[r] = "terminal") = (r \in decided)

\* The strategy reply only gets past a rule that decided when the rules were
\* inert for a redelivery, threw, or lost an action's outcome to an error.
LateSignalsExplained == "late" \in signs => signs \intersect {"inert", "threw", "error"} # {}

\* "A crash mid-pass loses nothing": every matched rule gets its row, unless the
\* lead became inert, a query threw or the queue gave the job up.
EveryRuleRecorded ==
    <>( \/ \A r \in Matched : row[r] # "none"
        \/ signs \intersect {"inert", "threw", "dead"} # {} )
=============================================================================
