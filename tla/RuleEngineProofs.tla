-------------------------- MODULE RuleEngineProofs --------------------------
(* What holds of the rule evaluator for any rules, any number of deliveries  *)
(* and any faults.                                                            *)
EXTENDS RuleEngine, TLAPS, FiniteSetTheorems

-----------------------------------------------------------------------------
(* Type correctness.  A delivery that works on an action has a rule, one that *)
(* carries an action out has a terminal one it was free to carry out, and one *)
(* that comes to a rule has nothing to say of it yet.                         *)

PassRecord ==
    [pc: PassPcs, rule: 1..(Len(Rules) + 1), act: Nat \ {0},
     fired: BOOLEAN, closed: BOOLEAN, own: BOOLEAN, nested: BOOLEAN]

\* What the rule says that a delivery in state p is about.
Says(p) == book[Rules[p.rule]]

Waiting(p) == p.pc \in {"none", "queued"}
InRule(p) == p.pc \in {"act", "cancel", "start"}
Deciding(p) == p.pc \in {"cancel", "start"}

PlacedAt(p) ==
    /\ Waiting(p) => /\ p.rule = 1 /\ p.act = 1
                     /\ ~p.fired /\ ~p.closed /\ ~p.own /\ ~p.nested
    /\ p.pc = "rule" => p.act = 1 /\ ~p.own /\ ~p.nested
    /\ InRule(p) => p.rule <= Len(Rules)
    /\ Deciding(p) => /\ p.act \in DOMAIN Says(p)
                      /\ Says(p)[p.act].kind \in Terminal
                      /\ ~p.fired
    /\ p.pc = "start" => Says(p)[p.act].kind = "move"

Sound(p) == p \in PassRecord /\ PlacedAt(p)

Placed == \A d \in Deliveries : PlacedAt(pass[d])
Typed == TypeOK /\ Placed

\* What the rules are: a sequence of names without a repetition ...
LEMMA RuleNames ==
    /\ Len(Rules) \in Nat \ {0} /\ DOMAIN Rules = 1..Len(Rules)
    /\ \A i \in 1..Len(Rules) : Rules[i] \in Matched
    /\ \A i, j \in 1..Len(Rules) : Rules[i] = Rules[j] => i = j
BY RulesAssumption DEF Matched

\* ... and each one says a sequence of actions.
LEMMA RuleSays ==
    ASSUME book \in Books, NEW i \in 1..Len(Rules)
    PROVE  /\ Len(book[Rules[i]]) \in Nat /\ DOMAIN book[Rules[i]] = 1..Len(book[Rules[i]])
           /\ book[Rules[i]] \in Seq(Action)
           /\ \A k \in DOMAIN book[Rules[i]] :
                /\ book[Rules[i]][k].nested /\ book[Rules[i]][k].kind \in Terminal =>
                     \E n \in DOMAIN book[Rules[i]] : n > k /\ book[Rules[i]][n].kind = "ledger"
                /\ book[Rules[i]][k].nested \in BOOLEAN
                /\ book[Rules[i]][k].kind \in Terminal \union {"plain", "ledger"}
<1>1. /\ book[Rules[i]] \in Seq(Action)
      /\ \A k \in DOMAIN book[Rules[i]] :
            book[Rules[i]][k].nested /\ book[Rules[i]][k].kind \in Terminal =>
              \E n \in DOMAIN book[Rules[i]] : n > k /\ book[Rules[i]][n].kind = "ledger"
  BY RuleNames, BooksAssumption
<1>2. \A k \in DOMAIN book[Rules[i]] : book[Rules[i]][k] \in Action
  BY <1>1
<1> QED BY <1>1, <1>2 DEF Action

\* A delivery that turns to the next action or to the next rule.
TurnAction(p, f, o, n) == [NextAction(p) EXCEPT !.fired = f, !.own = o, !.nested = n]
TurnRule(p, f, c) == [NextRule(p) EXCEPT !.fired = f, !.closed = c]

\* The records a step may leave behind.
LEMMA NextActionSound ==
    ASSUME NEW p, Sound(p), InRule(p), NEW f \in BOOLEAN, NEW o \in BOOLEAN, NEW n \in BOOLEAN
    PROVE  LET q == TurnAction(p, f, o, n) IN
           /\ Sound(q) /\ q.pc = "act" /\ q.rule = p.rule /\ q.act = p.act + 1
           /\ q.fired = f /\ q.closed = p.closed /\ q.own = o /\ q.nested = n
<1> DEFINE q == TurnAction(p, f, o, n)
<1> USE DEF TurnAction
<1>1. p.act + 1 \in Nat \ {0} /\ "act" \in PassPcs
  BY DEF Sound, PassRecord, PassPcs
<1>2. /\ q \in PassRecord /\ q.pc = "act" /\ q.rule = p.rule /\ q.act = p.act + 1
      /\ q.fired = f /\ q.closed = p.closed /\ q.own = o /\ q.nested = n
  BY <1>1 DEF Sound, PassRecord, NextAction
<1>3. PlacedAt(q)
  BY <1>2 DEF Sound, PlacedAt, InRule, Waiting, Deciding
<1> QED BY <1>2, <1>3 DEF Sound

LEMMA NextRuleSound ==
    ASSUME NEW p, Sound(p), p.rule <= Len(Rules), NEW f \in BOOLEAN, NEW c \in BOOLEAN
    PROVE  LET q == TurnRule(p, f, c) IN
           /\ Sound(q) /\ q.pc = "rule" /\ q.rule = p.rule + 1
           /\ q.fired = f /\ q.closed = c
<1> DEFINE q == TurnRule(p, f, c)
<1> USE DEF TurnRule
<1>1. p.rule + 1 \in 1..(Len(Rules) + 1) /\ 1 \in Nat \ {0} /\ "rule" \in PassPcs
  BY RuleNames DEF Sound, PassRecord, PassPcs
<1>2. /\ q \in PassRecord /\ q.pc = "rule" /\ q.rule = p.rule + 1
      /\ q.act = 1 /\ ~q.own /\ ~q.nested /\ q.fired = f /\ q.closed = c
  BY <1>1 DEF Sound, PassRecord, NextRule
<1>3. PlacedAt(q)
  BY <1>2 DEF Sound, PlacedAt, InRule, Waiting, Deciding
<1> QED BY <1>2, <1>3 DEF Sound

\* The actions move a delivery in these two ways.
LEMMA Turning ==
    ASSUME NEW p \in PassRecord
    PROVE  /\ NextAction(p) = TurnAction(p, p.fired, p.own, p.nested)
           /\ [NextAction(p) EXCEPT !.own = @ \/ p.nested, !.nested = FALSE]
                = TurnAction(p, p.fired, p.own \/ p.nested, FALSE)
           /\ \A n \in BOOLEAN : [NextAction(p) EXCEPT !.nested = n] = TurnAction(p, p.fired, p.own, n)
           /\ \A b \in BOOLEAN : [NextAction(p) EXCEPT !.fired = TRUE, !.own = @ \/ ~b, !.nested = @ \/ b]
                = TurnAction(p, TRUE, p.own \/ ~b, p.nested \/ b)
           /\ [NextRule(p) EXCEPT !.closed = @ \/ p.own] = TurnRule(p, p.fired, p.closed \/ p.own)
           /\ \A b \in BOOLEAN : [NextRule(p) EXCEPT !.fired = @ \/ b, !.closed = @ \/ b]
                = TurnRule(p, p.fired \/ b, p.closed \/ b)
BY DEF PassRecord, NextAction, NextRule, TurnAction, TurnRule

LEMMA LeavesSound ==
    ASSUME NEW p, Sound(p)
    PROVE  /\ Sound([p EXCEPT !.pc = "gate"]) /\ Sound([p EXCEPT !.pc = "over"])
           /\ Sound([p EXCEPT !.pc = "gate", !.closed = FALSE])
           /\ Waiting(p) => Sound([p EXCEPT !.pc = "rule"]) /\ Sound([p EXCEPT !.pc = "queued"])
           /\ p.pc = "rule" /\ p.rule <= Len(Rules) => Sound([p EXCEPT !.pc = "act"])
BY DEF Sound, PassRecord, PlacedAt, InRule, PassPcs, Waiting, Deciding

\* One delivery moves to a sound record: all of them are.
LEMMA Moves ==
    ASSUME \A e \in Deliveries : Sound(pass[e]), pass \in [Deliveries -> PassRecord],
           NEW d \in Deliveries, NEW q, Sound(q), Becomes(d, q), book' = book
    PROVE  /\ pass' \in [Deliveries -> PassRecord]
           /\ Placed'
<1>1. q \in PassRecord /\ PlacedAt(q)
  BY DEF Sound
<1>2. pass' = [pass EXCEPT ![d] = q]
  BY DEF Becomes
<1>3. pass' \in [Deliveries -> PassRecord]
  BY <1>1, <1>2
<1>4. ASSUME NEW e \in Deliveries PROVE PlacedAt(pass[e])'
  <2>1. CASE e = d
    BY <1>1, <1>2, <2>1 DEF PlacedAt, Says, Waiting, InRule, Deciding
  <2>2. CASE e # d
    BY <1>2, <2>2 DEF PlacedAt, Says, Waiting, InRule, Deciding, Sound
  <2> QED BY <2>1, <2>2
<1> QED BY <1>3, <1>4 DEF Placed

\* What a delivery that turns to the next action has met there.
LEMMA Turned ==
    ASSUME Typed, NEW d \in Deliveries
    PROVE  LET p == pass[d]
               a == ActionOf(d)
           IN
           /\ Sound(p) /\ (HasAction(d) => InRule(p) /\ p.act \in DOMAIN Says(p))
           /\ InRule(p) /\ p.act \in DOMAIN Says(p) => a.nested \in BOOLEAN
           /\ InRule(p) /\ p.act \in DOMAIN Says(p) /\ Executed(d) =>
                 Becomes(d, TurnAction(p, TRUE, p.own \/ ~a.nested, p.nested \/ a.nested))
           /\ PassOver(d) => Becomes(d, TurnAction(p, p.fired, p.own, p.nested))
           /\ WriteLedger(d) => Becomes(d, TurnAction(p, p.fired, p.own \/ p.nested, FALSE))
<1>1. Sound(pass[d])
  BY DEF Typed, TypeOK, Placed, Sound, PassRecord
<1>2. HasAction(d) => InRule(pass[d]) /\ pass[d].act \in DOMAIN Says(pass[d])
  BY <1>1, RuleNames, RuleSays DEF HasAction, At, Actions, Rule, InRule, Says, Sound, PlacedAt, PassRecord, Typed, TypeOK
<1>3. ASSUME InRule(pass[d]), pass[d].act \in DOMAIN Says(pass[d])
      PROVE  ActionOf(d).nested \in BOOLEAN
  BY <1>1, <1>3, RuleNames, RuleSays DEF ActionOf, Actions, Rule, Says, Sound, PassRecord, PlacedAt, Typed, TypeOK
<1>4. ASSUME InRule(pass[d]), pass[d].act \in DOMAIN Says(pass[d]), Executed(d)
      PROVE  Becomes(d, TurnAction(pass[d], TRUE, pass[d].own \/ ~ActionOf(d).nested,
                                                  pass[d].nested \/ ActionOf(d).nested))
  <2>1. ActionOf(d).nested \in BOOLEAN /\ pass[d] \in PassRecord
    BY <1>1, <1>3, <1>4 DEF Sound
  <2> QED BY <1>4, <2>1, Turning DEF Executed
<1>5. pass[d] \in PassRecord
  BY <1>1 DEF Sound
<1> QED BY <1>1, <1>2, <1>3, <1>4, <1>5, Turning DEF PassOver, WriteLedger

LEMMA TypeInit == Init => Typed
<1> SUFFICES ASSUME Init PROVE Typed
  OBVIOUS
<1>1. 1 \in Deliveries /\ 0 \in 0..MaxFaults /\ 1 \in 1..(Len(Rules) + 1)
  BY BoundsAssumption, RuleNames DEF Deliveries
<1>2. Fresh \in PassRecord /\ [Fresh EXCEPT !.pc = "queued"] \in PassRecord
  <2>1. Fresh \in PassRecord
    BY <1>1, SMT DEF Fresh, PassRecord, PassPcs
  <2>2. "queued" \in PassPcs
    BY DEF PassPcs
  <2> QED BY <2>1, <2>2 DEF PassRecord
<1>3. pass \in [Deliveries -> PassRecord]
  BY <1>2 DEF Init
<1>4. TypeOK
  BY <1>1, <1>3 DEF Init, TypeOK, PassRecord
<1>5. Placed
  BY DEF Init, Placed, PlacedAt, Fresh, Waiting, InRule, Deciding
<1> QED BY <1>4, <1>5 DEF Typed

\* The redelivery of a job queues a delivery that was not made before, if one is left.
LEMMA Requeued ==
    ASSUME NEW p \in [Deliveries -> PassRecord], \A e \in Left : p[e] = pass[e]
    PROVE  /\ Redelivered(p) \in [Deliveries -> PassRecord]
           /\ \A e \in Deliveries :
                 \/ Redelivered(p)[e] = p[e]
                 \/ pass[e].pc = "none" /\ Redelivered(p)[e] = [pass[e] EXCEPT !.pc = "queued"]
<1>1. CASE Left = {}
  BY <1>1 DEF Redelivered
<1>2. CASE Left # {}
  <2> DEFINE n == CHOOSE e \in Left : TRUE
  <2>1. n \in Left
    BY <1>2
  <2>2. n \in Deliveries /\ pass[n].pc = "none" /\ p[n] = pass[n]
    BY <2>1 DEF Left, At
  <2>3. Redelivered(p) = [p EXCEPT ![n] = [p[n] EXCEPT !.pc = "queued"]]
    BY <1>2 DEF Redelivered
  <2>4. [p[n] EXCEPT !.pc = "queued"] \in PassRecord
    BY <2>2 DEF PassRecord, PassPcs
  <2> HIDE DEF n
  <2> QED BY <2>2, <2>3, <2>4
<1> QED BY <1>1, <1>2

\* A step of a delivery moves it, and it alone, to a sound record.
LEMMA StepMoves ==
    ASSUME Typed, NEW d \in Deliveries,
           Step(d) \/ CancelFails(d) \/ ActionFails(d) \/ EvaluationThrows(d)
    PROVE  \E q : Sound(q) /\ Becomes(d, q) /\ book' = book
<1> DEFINE p == pass[d]
<1>1. /\ Sound(p) /\ p \in PassRecord
      /\ p.fired \in BOOLEAN /\ p.closed \in BOOLEAN /\ p.own \in BOOLEAN /\ p.nested \in BOOLEAN
  BY Turned DEF Sound, PassRecord
<1>2. CASE Load(d)
  BY <1>1, <1>2, LeavesSound DEF Load, At, Waiting
<1>3. CASE FindRow(d)
  <2>1. CASE p.rule > Len(Rules)
    <3>1. ~(p.rule <= Len(Rules))
      BY <1>1, <2>1, RuleNames DEF Sound, PassRecord
    <3>2. Becomes(d, [p EXCEPT !.pc = "gate"]) /\ book' = book
      BY <1>3, <3>1, Zenon DEF FindRow
    <3> QED BY <1>1, <3>2, LeavesSound
  <2>2. CASE p.rule <= Len(Rules) /\ row[Rule(d)] = "none"
    BY <1>1, <1>3, <2>2, LeavesSound, RuleNames DEF FindRow, At, Sound, PassRecord
  <2>3. CASE p.rule <= Len(Rules) /\ row[Rule(d)] # "none"
    <3> DEFINE b == (row[Rule(d)] = "terminal")
    <3>1. Becomes(d, TurnRule(p, p.fired \/ b, p.closed \/ b))
      <4>1. Becomes(d, [NextRule(p) EXCEPT !.fired = @ \/ b, !.closed = @ \/ b])
        BY <1>1, <1>3, <2>3, RuleNames DEF FindRow, Sound, PassRecord
      <4>2. b \in BOOLEAN
        OBVIOUS
      <4> HIDE DEF b
      <4> QED BY <1>1, <4>1, <4>2, Turning
    <3> QED BY <1>1, <1>3, <2>3, <3>1, NextRuleSound DEF FindRow
  <2> QED BY <1>1, <2>1, <2>2, <2>3, RuleNames DEF Sound, PassRecord
<1>4. CASE PassOver(d) \/ WriteLedger(d)
  <2>1. InRule(p) /\ book' = book
    BY <1>4, Turned DEF PassOver, WriteLedger
  <2>2. CASE PassOver(d)
    BY <1>1, <2>1, <2>2, Turned, NextActionSound
  <2>3. CASE WriteLedger(d)
    BY <1>1, <2>1, <2>3, Turned, NextActionSound
  <2> QED BY <1>4, <2>2, <2>3
<1>5. CASE WriteStatus(d)
  <2>1. Sound([p EXCEPT !.pc = "cancel"])
    <3>1. InRule(p) /\ p.pc = "act" /\ p.act \in DOMAIN Says(p) /\ ~p.fired
      BY <1>5, Turned DEF WriteStatus, HasAction, At
    <3>2. Says(p)[p.act].kind \in Terminal
      BY <1>5 DEF WriteStatus, ActionOf, Actions, Rule, Says
    <3> QED BY <1>1, <3>1, <3>2 DEF Sound, PassRecord, PassPcs, PlacedAt, Says, Waiting, InRule, Deciding
  <2> QED BY <1>5, <2>1 DEF WriteStatus
<1>6. CASE Cancel(d) \/ StartMoved(d) \/ CancelFails(d)
  <2>1. InRule(p) /\ p.act \in DOMAIN Says(p) /\ book' = book /\ ActionOf(d).kind = Says(p)[p.act].kind
    BY <1>1, <1>6 DEF Cancel, StartMoved, CancelFails, At, Sound, PlacedAt, InRule, Deciding,
                      ActionOf, Actions, Rule, Says
  <2>2. CASE Executed(d)
    BY <1>1, <2>1, <2>2, Turned, NextActionSound
  <2>3. CASE Cancel(d) /\ ~Executed(d)
    <3>1. Sound([p EXCEPT !.pc = "start"])
      BY <1>1, <2>1, <2>3 DEF Cancel, At, Sound, PassRecord, PassPcs, PlacedAt, Says, Waiting, InRule, Deciding
    <3> QED BY <2>1, <2>3, <3>1 DEF Cancel
  <2>4. CASE CancelFails(d) /\ ~Executed(d)
    <3>1. Becomes(d, NextAction(p))
      BY <2>4 DEF CancelFails
    <3>2. Becomes(d, TurnAction(p, p.fired, p.own, p.nested))
      BY <1>1, <3>1, Turning
    <3> QED BY <1>1, <2>1, <3>2, NextActionSound
  <2>5. StartMoved(d) => Executed(d)
    BY DEF StartMoved
  <2> QED BY <1>6, <2>2, <2>3, <2>4, <2>5
<1>7. CASE ActionFails(d)
  <2> DEFINE n == IF ActionOf(d).kind = "ledger" THEN FALSE ELSE p.nested
  <2>1. InRule(p) /\ n \in BOOLEAN /\ book' = book
    BY <1>1, <1>7, Turned DEF ActionFails, At, InRule
  <2>2. Becomes(d, [NextAction(p) EXCEPT !.nested = n])
    <3>1. NextAction(p).nested = p.nested
      BY <1>1 DEF NextAction, PassRecord
    <3> QED BY <1>7, <3>1, Zenon DEF ActionFails
  <2> HIDE DEF n
  <2>3. Becomes(d, TurnAction(p, p.fired, p.own, n))
    BY <1>1, <2>1, <2>2, Turning
  <2> QED BY <1>1, <2>1, <2>3, NextActionSound
<1>8. CASE WriteRow(d)
  <2>1. p.pc = "act" /\ book' = book /\ Becomes(d, [NextRule(p) EXCEPT !.closed = @ \/ p.own])
    BY <1>8, Zenon DEF WriteRow, At
  <2>2. p.rule <= Len(Rules)
    BY <1>1, <2>1 DEF Sound, PlacedAt, InRule
  <2>3. Becomes(d, TurnRule(p, p.fired, p.closed \/ p.own))
    BY <1>1, <2>1, Turning
  <2>4. (p.closed \/ p.own) \in BOOLEAN
    OBVIOUS
  <2> QED BY <1>1, <2>1, <2>2, <2>3, <2>4, NextRuleSound
<1>9. CASE Gate(d) \/ EvaluationThrows(d)
  BY <1>1, <1>9, LeavesSound DEF Gate, EvaluationThrows
<1> QED BY <1>2, <1>3, <1>4, <1>5, <1>6, <1>7, <1>8, <1>9 DEF Step

\* A crash or a stall leaves sound records: the one cut short, the one queued.
LEMMA RequeuedMoves ==
    ASSUME Typed, NEW d \in Deliveries, Crash(d) \/ Stall(d)
    PROVE  /\ pass' \in [Deliveries -> PassRecord]
           /\ Placed' /\ book' = book
           /\ \A e \in Deliveries :
                 \/ pass'[e] = pass[e]
                 \/ e = d /\ pass'[e] = [pass[e] EXCEPT !.pc = "over"]
                 \/ pass[e].pc = "none" /\ pass'[e] = [pass[e] EXCEPT !.pc = "queued"]
<1>1. pass \in [Deliveries -> PassRecord] /\ \A e \in Deliveries : Sound(pass[e])
  BY Turned DEF Typed, TypeOK, PassRecord
<1>2. book' = book
  BY DEF Crash, Stall
<1>3. PICK p \in [Deliveries -> PassRecord] :
         /\ pass' = Redelivered(p)
         /\ \A e \in Left : p[e] = pass[e]
         /\ \A e \in Deliveries : p[e] = pass[e] \/ (e = d /\ p[e] = [pass[e] EXCEPT !.pc = "over"])
  <2>1. CASE Crash(d)
    <3> DEFINE p == [pass EXCEPT ![d].pc = "over"]
    <3>1. pass' = Redelivered(p) /\ d \notin Left
      BY <2>1 DEF Crash, Running, Left, At
    <3>2. p \in [Deliveries -> PassRecord] /\ p[d] = [pass[d] EXCEPT !.pc = "over"]
      BY <1>1 DEF PassRecord, PassPcs
    <3>3. \A e \in Deliveries : e # d => p[e] = pass[e]
      BY <1>1
    <3> HIDE DEF p
    <3> QED BY <3>1, <3>2, <3>3 DEF Left
  <2>2. CASE Stall(d)
    BY <1>1, <2>2 DEF Stall
  <2> QED BY <2>1, <2>2
<1>4. /\ pass' \in [Deliveries -> PassRecord]
      /\ \A e \in Deliveries :
                 \/ pass'[e] = pass[e]
                 \/ e = d /\ pass'[e] = [pass[e] EXCEPT !.pc = "over"]
                 \/ pass[e].pc = "none" /\ pass'[e] = [pass[e] EXCEPT !.pc = "queued"]
  BY <1>3, Requeued
<1>5. ASSUME NEW e \in Deliveries PROVE PlacedAt(pass[e])'
  <2>1. Sound(pass'[e])
    <3>1. Sound(pass[e])
      BY <1>1
    <3>2. /\ Sound([pass[e] EXCEPT !.pc = "over"])
          /\ pass[e].pc = "none" => Sound([pass[e] EXCEPT !.pc = "queued"])
      BY <3>1, LeavesSound DEF Waiting
    <3> QED BY <1>4, <3>1, <3>2
  <2> QED BY <1>2, <2>1 DEF Sound, PlacedAt, Says, Waiting, InRule, Deciding
<1> QED BY <1>2, <1>4, <1>5 DEF Placed

LEMMA TypeStep == Typed /\ [Next]_vars => Typed'
<1> SUFFICES ASSUME Typed, [Next]_vars PROVE Typed'
  OBVIOUS
<1>1. pass \in [Deliveries -> PassRecord] /\ \A e \in Deliveries : Sound(pass[e])
  BY Turned DEF Typed, TypeOK, PassRecord
<1>2. CASE UNCHANGED vars
  <2>1. TypeOK'
    BY <1>2 DEF vars, Typed, TypeOK
  <2>2. Placed'
    BY <1>2 DEF vars, Typed, Placed, PlacedAt, Says, Waiting, InRule, Deciding
  <2> QED BY <2>1, <2>2 DEF Typed
<1>3. ASSUME NEW d \in Deliveries,
             Step(d) \/ CancelFails(d) \/ ActionFails(d) \/ EvaluationThrows(d)
      PROVE  Typed'
  <2>1. pass' \in [Deliveries -> PassRecord] /\ Placed' /\ book' = book
    BY <1>1, <1>3, StepMoves, Moves
  <2>2. faults' \in 0..MaxFaults /\ signs' \subseteq {"error", "inert", "threw", "dead", "late"}
    BY <1>3, BoundsAssumption DEF Step, Load, FindRow, PassOver, WriteStatus, Cancel, StartMoved, WriteLedger,
       WriteRow, Gate, CancelFails, ActionFails, EvaluationThrows, Faulty, Typed, TypeOK
  <2>3. InRule(pass[d]) => Rule(d) \in Matched
    BY <1>1, RuleNames DEF Sound, PlacedAt, PassRecord, Rule
  <2>4. decided' \subseteq Matched
    BY <1>3, <2>3, Turned DEF Step, Load, FindRow, PassOver, WriteStatus, Cancel, StartMoved, WriteLedger,
       WriteRow, Gate, CancelFails, ActionFails, EvaluationThrows, Typed, TypeOK, At, InRule
  <2>5. row' \in [Matched -> {"none", "plain", "terminal"}]
    BY <1>3, <2>3 DEF Step, Load, FindRow, PassOver, WriteStatus, Cancel, StartMoved, WriteLedger,
       WriteRow, Gate, CancelFails, ActionFails, EvaluationThrows, Typed, TypeOK, At, InRule
  <2>6. live' \in BOOLEAN /\ status' \in {"ACTIVE", "PAUSED", "DONE", "UNSUBSCRIBED"}
    BY <1>3 DEF Step, Load, FindRow, PassOver, WriteStatus, Cancel, StartMoved, WriteLedger,
       WriteRow, Gate, CancelFails, ActionFails, EvaluationThrows, Typed, TypeOK, Terminal
  <2>7. TypeOK'
    BY <2>1, <2>2, <2>4, <2>5, <2>6 DEF Typed, TypeOK, PassRecord
  <2> QED BY <2>1, <2>7 DEF Typed
<1>4. ASSUME NEW d \in Deliveries, Crash(d) \/ Stall(d) PROVE Typed'
  <2>1. pass' \in [Deliveries -> PassRecord] /\ Placed' /\ book' = book
    BY <1>4, RequeuedMoves
  <2>2. faults' \in 0..MaxFaults /\ signs' \subseteq {"error", "inert", "threw", "dead", "late"}
    BY <1>4, BoundsAssumption DEF Crash, Stall, Faulty, Typed, TypeOK
  <2>3. TypeOK'
    BY <1>4, <2>1, <2>2 DEF Crash, Stall, Typed, TypeOK, PassRecord
  <2> QED BY <2>1, <2>3 DEF Typed
<1>5. CASE RunCompletes
  <2>1. TypeOK'
    BY <1>5 DEF RunCompletes, Typed, TypeOK
  <2>2. Placed'
    BY <1>5 DEF RunCompletes, Typed, Placed, PlacedAt, Says, Waiting, InRule, Deciding
  <2> QED BY <2>1, <2>2 DEF Typed
<1> QED BY <1>2, <1>3, <1>4, <1>5 DEF Next

\* The evaluator's variables keep their types, whatever is delivered and whatever fails.
THEOREM Typing == Spec => []TypeOK
<1>1. Typed => TypeOK
  BY DEF Typed
<1> QED BY TypeInit, TypeStep, <1>1, PTL DEF Spec

-----------------------------------------------------------------------------
(* One rule decides: the first, in evaluation order, that says anything       *)
(* terminal.  Unless an action failed, every delivery comes to that same rule *)
(* and knows whether it is past it.                                           *)

Decisive(i) == \E k \in DOMAIN book[Rules[i]] : book[Rules[i]][k].kind \in Terminal

First(i) ==
    /\ i \in 1..Len(Rules) /\ Decisive(i)
    /\ \A j \in 1..Len(Rules) : j < i => ~Decisive(j)

\* What the delivery has left behind it: a rule that could decide, or, in the
\* rule at hand, an action that could.
Earlier(p) == \E i \in 1..Len(Rules) : i < p.rule /\ Decisive(i)
Behind(p) == InRule(p) /\ \E k \in DOMAIN Says(p) : k < p.act /\ Says(p)[k].kind \in Terminal
Past(p) == Earlier(p) \/ Behind(p)

Walking(p) == p.pc = "rule" \/ InRule(p)

\* Its flags say so; of the rule at hand they say whether it is the one that decides.
Knows(p) ==
    /\ p.fired <=> Past(p)
    /\ p.closed <=> Earlier(p)
    /\ InRule(p) => /\ p.own \/ p.nested <=> Behind(p) /\ ~Earlier(p)
                    /\ p.nested => \E n \in DOMAIN Says(p) : n >= p.act /\ Says(p)[n].kind = "ledger"

Inherits == \A d \in Deliveries : Walking(pass[d]) => Knows(pass[d])

\* Only the first decides, and it has once a delivery is past it.
Decides ==
    /\ \A r \in decided : \E i \in 1..Len(Rules) : First(i) /\ r = Rules[i]
    /\ \A d \in Deliveries : Walking(pass[d]) /\ Past(pass[d]) => decided # {}
    /\ \A d \in Deliveries : At(d, "cancel") /\ ActionOf(d).kind # "move" => decided # {}

\* A row says "terminal" of the rule that decides and of no other.
Recorded ==
    \A i \in 1..Len(Rules) : row[Rules[i]] # "none" =>
        /\ row[Rules[i]] = "terminal" <=> First(i)
        /\ First(i) => decided # {}

\* A delivery gets to the gate without a decision only if there is none to take
\* or something is known to have gone wrong.
GateKnows ==
    \A d \in Deliveries : At(d, "gate") /\ ~pass[d].closed /\ signs \intersect {"inert", "threw"} = {} =>
        \A i \in 1..Len(Rules) : ~Decisive(i)

NoError == "error" \notin signs

OneDecides ==
    /\ Typed
    /\ NoError => Inherits /\ Decides /\ Recorded /\ GateKnows
    /\ LateSignalsExplained

\* There is one first rule, so a decision is its decision.
LEMMA FirstIsOne ==
    ASSUME Decides, NEW i \in 1..Len(Rules), First(i), decided # {}
    PROVE  decided = {Rules[i]}
<1>1. \A j \in 1..Len(Rules) : First(j) => j = i
  BY RuleNames DEF First
<1> QED BY <1>1 DEF Decides

\* A delivery keeps knowing: when it starts, enters a rule, ...
LEMMA KnowsFromStart ==
    ASSUME NEW p, Sound(p), Waiting(p)
    PROVE  Knows([p EXCEPT !.pc = "rule"])
<1> DEFINE q == [p EXCEPT !.pc = "rule"]
<1>1. q.pc = "rule" /\ q.rule = 1 /\ ~q.fired /\ ~q.closed
  BY DEF Sound, PassRecord, PlacedAt
<1>2. ~Earlier(q) /\ ~Behind(q) /\ ~InRule(q)
  BY <1>1, RuleNames DEF Earlier, Behind, InRule
<1> HIDE DEF q
<1>3. Knows(q)
  BY <1>1, <1>2 DEF Knows, Past
<1> QED BY <1>3 DEF q

LEMMA KnowsEntering ==
    ASSUME book \in Books, NEW p, Sound(p), Knows(p), p.pc = "rule", p.rule <= Len(Rules)
    PROVE  /\ Knows([p EXCEPT !.pc = "act"])
           /\ Past([p EXCEPT !.pc = "act"]) <=> Past(p)
<1> DEFINE q == [p EXCEPT !.pc = "act"]
<1>1. /\ q.pc = "act" /\ q.rule = p.rule /\ q.act = 1 /\ q.fired = p.fired /\ q.closed = p.closed
      /\ ~q.own /\ ~q.nested /\ p.rule \in 1..Len(Rules)
  BY RuleNames DEF Sound, PassRecord, PlacedAt
<1>2. ~Behind(q)
  BY <1>1, RuleSays DEF Behind, Says
<1>3. (Earlier(q) <=> Earlier(p)) /\ ~Behind(p)
  BY <1>1 DEF Earlier, Behind, InRule
<1> HIDE DEF q
<1>4. Knows(q) /\ (Past(q) <=> Past(p))
  BY <1>1, <1>2, <1>3 DEF Knows, Past
<1> QED BY <1>4 DEF q

\* ... carries on with an action (WriteStatus to Cancel to StartMoved), ...
LEMMA KnowsActing ==
    ASSUME NEW p, Sound(p), Knows(p), InRule(p), NEW pc \in {"cancel", "start"}
    PROVE  /\ Knows([p EXCEPT !.pc = pc])
           /\ Past([p EXCEPT !.pc = pc]) <=> Past(p)
<1> DEFINE q == [p EXCEPT !.pc = pc]
<1>1. /\ q.pc = pc /\ q.rule = p.rule /\ q.act = p.act /\ q.fired = p.fired /\ q.closed = p.closed
      /\ q.own = p.own /\ q.nested = p.nested
  BY DEF Sound, PassRecord
<1>2. InRule(q) /\ Says(q) = Says(p)
  BY <1>1 DEF InRule, Says
<1>3. (Earlier(q) <=> Earlier(p)) /\ (Behind(q) <=> Behind(p))
  BY <1>1, <1>2 DEF Earlier, Behind
<1> HIDE DEF q
<1>4. Knows(q) /\ (Past(q) <=> Past(p))
  BY <1>1, <1>2, <1>3 DEF Knows, Past
<1> QED BY <1>4 DEF q

\* ... turns to the next action, carried out or not, ...
LEMMA KnowsNextAction ==
    ASSUME book \in Books, NEW p, Sound(p), Knows(p), InRule(p), p.act \in DOMAIN Says(p),
           NEW f \in BOOLEAN, NEW o \in BOOLEAN, NEW n \in BOOLEAN,
           f <=> (p.fired \/ Says(p)[p.act].kind \in Terminal),
           (o \/ n) <=> (p.own \/ p.nested \/ (~p.fired /\ Says(p)[p.act].kind \in Terminal)),
           n => \E m \in DOMAIN Says(p) : m > p.act /\ Says(p)[m].kind = "ledger"
    PROVE  /\ Knows(TurnAction(p, f, o, n))
           /\ Past(TurnAction(p, f, o, n)) <=> f
<1> DEFINE q == TurnAction(p, f, o, n)
<1>1. /\ q.pc = "act" /\ q.rule = p.rule /\ q.act = p.act + 1
      /\ q.fired = f /\ q.closed = p.closed /\ q.own = o /\ q.nested = n
  BY NextActionSound
<1> HIDE DEF q
<1>2. p.rule \in 1..Len(Rules) /\ p.act \in Nat
  BY RuleNames DEF Sound, PassRecord, PlacedAt
<1>3. InRule(q) /\ Says(q) = Says(p) /\ DOMAIN Says(p) = 1..Len(Says(p)) /\ Len(Says(p)) \in Nat
  BY <1>1, <1>2, RuleSays DEF InRule, Says
<1>4. Earlier(q) <=> Earlier(p)
  BY <1>1 DEF Earlier
<1>5. Behind(q) <=> Behind(p) \/ Says(p)[p.act].kind \in Terminal
  BY <1>1, <1>2, <1>3 DEF Behind
<1>6. n => \E m \in DOMAIN Says(q) : m >= q.act /\ Says(q)[m].kind = "ledger"
  BY <1>1, <1>2, <1>3
<1>7. Knows(q) /\ (Past(q) <=> f)
  <2>1. (q.fired <=> Past(q)) /\ (Past(q) <=> f)
    BY <1>1, <1>4, <1>5 DEF Knows, Past
  <2>2. q.closed <=> Earlier(q)
    BY <1>1, <1>4 DEF Knows
  <2>3. q.own \/ q.nested <=> Behind(q) /\ ~Earlier(q)
    BY <1>1, <1>4, <1>5 DEF Knows, Past
  <2> QED BY <1>1, <1>6, <2>1, <2>2, <2>3 DEF Knows
<1> QED BY <1>7 DEF q

\* ... writes its row and turns to the next rule, ...
LEMMA KnowsRowWritten ==
    ASSUME book \in Books, NEW p, Sound(p), Knows(p), InRule(p), p.act > Len(Says(p)),
           NEW c \in BOOLEAN, c <=> p.closed \/ p.own
    PROVE  /\ ~p.nested /\ (p.own <=> First(p.rule))
           /\ Knows(TurnRule(p, p.fired, c))
           /\ Past(TurnRule(p, p.fired, c)) <=> Past(p)
<1> DEFINE q == TurnRule(p, p.fired, c)
<1>0. p.fired \in BOOLEAN /\ p.rule <= Len(Rules)
  BY DEF Sound, PassRecord, PlacedAt
<1>1. q.pc = "rule" /\ q.rule = p.rule + 1 /\ q.fired = p.fired /\ q.closed = c
  BY <1>0, NextRuleSound
<1> HIDE DEF q
<1>2. p.rule \in 1..Len(Rules) /\ p.act \in Nat
  BY RuleNames DEF Sound, PassRecord, PlacedAt
<1>3. DOMAIN Says(p) = 1..Len(Says(p)) /\ Len(Says(p)) \in Nat
  BY <1>2, RuleSays DEF Says
<1>4. ~p.nested
  BY <1>2, <1>3 DEF Knows
<1>5. Behind(p) <=> Decisive(p.rule)
  BY <1>2, <1>3 DEF Behind, Decisive, Says
<1>6. ~Behind(q) /\ ~InRule(q)
  BY <1>1 DEF Behind, InRule
<1>7. Earlier(q) <=> Earlier(p) \/ Decisive(p.rule)
  BY <1>1, <1>2 DEF Earlier
<1>8. p.own <=> First(p.rule)
  BY <1>2, <1>4, <1>5 DEF Knows, First, Earlier
<1>9. Knows(q) /\ (Past(q) <=> Past(p))
  BY <1>1, <1>4, <1>5, <1>6, <1>7 DEF Knows, Past
<1> QED BY <1>4, <1>8, <1>9 DEF q

\* ... or passes a rule that has its row, taking over what the row says.
LEMMA KnowsRowFound ==
    ASSUME book \in Books, NEW p, Sound(p), Knows(p), p.pc = "rule", p.rule <= Len(Rules),
           NEW f \in BOOLEAN, NEW c \in BOOLEAN,
           f <=> p.fired \/ First(p.rule), c <=> p.closed \/ First(p.rule)
    PROVE  /\ Knows(TurnRule(p, f, c))
           /\ Past(TurnRule(p, f, c)) <=> Past(p) \/ First(p.rule)
<1> DEFINE q == TurnRule(p, f, c)
<1>1. q.pc = "rule" /\ q.rule = p.rule + 1 /\ q.fired = f /\ q.closed = c
  BY NextRuleSound
<1> HIDE DEF q
<1>2. p.rule \in 1..Len(Rules)
  BY RuleNames DEF Sound, PassRecord
<1>3. ~Behind(p) /\ ~Behind(q) /\ ~InRule(q)
  BY <1>1 DEF Behind, InRule
<1>4. Earlier(q) <=> Earlier(p) \/ First(p.rule)
  BY <1>1, <1>2 DEF Earlier, First
<1>5. Knows(q) /\ (Past(q) <=> Past(p) \/ First(p.rule))
  BY <1>1, <1>3, <1>4 DEF Knows, Past
<1> QED BY <1>5 DEF q

\* What a step has to show of the delivery that takes it: all the others stand
\* as they are, and what they know stays true.
LEMMA OneMoves ==
    ASSUME Typed, Inherits, Decides, Recorded, GateKnows, NoError, Typed',
           NEW d \in Deliveries, NEW q, Becomes(d, q), book' = book,
           decided \subseteq decided', signs \subseteq signs',
           Walking(q) => Knows(q) /\ (Past(q) => decided' # {}),
           \A r \in decided' : r \in decided \/ \E i \in 1..Len(Rules) : First(i) /\ r = Rules[i],
           q.pc = "cancel" /\ Says(q)[q.act].kind # "move" => decided' # {},
           q.pc = "gate" /\ ~q.closed /\ signs' \intersect {"inert", "threw"} = {} =>
               \A i \in 1..Len(Rules) : ~Decisive(i)
    PROVE  Inherits' /\ Decides' /\ GateKnows' /\ (row' = row => Recorded')
<1>1. /\ pass' = [pass EXCEPT ![d] = q] /\ pass \in [Deliveries -> PassRecord]
      /\ \A e \in Deliveries : pass'[e] = IF e = d THEN q ELSE pass[e]
  BY DEF Becomes, Typed, TypeOK, PassRecord
<1>2. Inherits'
  <2> SUFFICES ASSUME NEW e \in Deliveries, Walking(pass[e])' PROVE Knows(pass[e])'
    BY DEF Inherits
  <2>1. Walking(pass'[e]) => Knows(pass'[e])
    BY <1>1 DEF Inherits
  <2> QED BY <2>1 DEF Walking, Knows, InRule, Past, Earlier, Behind, Says, Decisive
<1>3. Decides'
  <2>1. ASSUME NEW e \in Deliveries, Walking(pass[e])', Past(pass[e])' PROVE decided' # {}
    <3>1. Walking(pass'[e]) /\ Past(pass'[e])
      BY <2>1 DEF Walking, InRule, Past, Earlier, Behind, Says, Decisive
    <3> QED BY <1>1, <3>1 DEF Decides
  <2>2. ASSUME NEW e \in Deliveries, At(e, "cancel")', (ActionOf(e).kind # "move")' PROVE decided' # {}
    <3>1. CASE e = d
      BY <1>1, <2>2, <3>1 DEF At, ActionOf, Actions, Rule, Says
    <3>2. CASE e # d
      <4>1. pass'[e] = pass[e]
        BY <1>1, <3>2
      <4>2. At(e, "cancel") /\ ActionOf(e).kind # "move"
        BY <2>2, <4>1 DEF At, ActionOf, Actions, Rule
      <4> QED BY <4>2 DEF Decides
    <3> QED BY <3>1, <3>2
  <2>3. ASSUME NEW r \in decided' PROVE \E i \in 1..Len(Rules) : First(i)' /\ r = Rules[i]
    <3>1. \E i \in 1..Len(Rules) : First(i) /\ r = Rules[i]
      BY <2>3 DEF Decides
    <3> QED BY <3>1 DEF First, Decisive
  <2> QED BY <2>1, <2>2, <2>3 DEF Decides
<1>4. GateKnows'
  <2> SUFFICES ASSUME NEW e \in Deliveries, At(e, "gate")', ~pass'[e].closed,
                      signs' \intersect {"inert", "threw"} = {}, NEW i \in 1..Len(Rules)
               PROVE  ~Decisive(i)'
    BY DEF GateKnows
  <2>1. ~Decisive(i)
    BY <1>1 DEF At, GateKnows
  <2> QED BY <2>1 DEF Decisive
<1>5. row' = row => Recorded'
  <2> SUFFICES ASSUME row' = row, NEW i \in 1..Len(Rules), row[Rules[i]] # "none"
               PROVE  (row[Rules[i]] = "terminal" <=> First(i)') /\ (First(i)' => decided' # {})
    BY DEF Recorded
  <2>1. (row[Rules[i]] = "terminal" <=> First(i)) /\ (First(i) => decided # {})
    BY DEF Recorded
  <2>2. First(i)' <=> First(i)
    BY DEF First, Decisive
  <2> QED BY <2>1, <2>2
<1> QED BY <1>2, <1>3, <1>4, <1>5

LEMMA OneInit == Init => OneDecides
<1> SUFFICES ASSUME Init PROVE OneDecides
  OBVIOUS
<1>1. Typed
  BY TypeInit
<1>2. \A d \in Deliveries : pass[d].pc \in {"none", "queued"}
  BY DEF Init, Fresh
<1>3. Inherits /\ GateKnows /\ Decides
  BY <1>2 DEF Inherits, GateKnows, Decides, Walking, InRule, At, Init
<1>4. Recorded /\ LateSignalsExplained
  BY RuleNames DEF Recorded, LateSignalsExplained, Init
<1> QED BY <1>1, <1>3, <1>4 DEF OneDecides

\* Nobody is late who is not so at the gate, and there GateKnows says why.
LEMMA LateStep ==
    ASSUME OneDecides, NEW d \in Deliveries, Step(d) \/ CancelFails(d) \/ ActionFails(d) \/ EvaluationThrows(d)
    PROVE  LateSignalsExplained'
<1>1. CASE Gate(d)
  <2>1. CASE ~pass[d].closed /\ decided # {} /\ signs \intersect {"inert", "threw", "error"} = {}
    <3>1. Decides /\ GateKnows
      BY <2>1 DEF OneDecides, NoError
    <3>2. \A i \in 1..Len(Rules) : ~Decisive(i)
      BY <1>1, <2>1, <3>1 DEF GateKnows, Gate
    <3>3. decided = {}
      BY <3>1, <3>2 DEF Decides, First
    <3> QED BY <2>1, <3>3
  <2>2. CASE ~(~pass[d].closed /\ decided # {} /\ signs \intersect {"inert", "threw", "error"} = {})
    BY <1>1, <2>2 DEF Gate, OneDecides, LateSignalsExplained
  <2> QED BY <2>1, <2>2
<1>2. CASE ~Gate(d)
  <2>1. signs \subseteq signs' /\ ("late" \in signs' => "late" \in signs)
    BY <1>2 DEF Step, Load, FindRow, PassOver, WriteStatus, Cancel, StartMoved, WriteLedger,
       WriteRow, CancelFails, ActionFails, EvaluationThrows, Faulty
  <2> QED BY <2>1 DEF OneDecides, LateSignalsExplained
<1> QED BY <1>1, <1>2

\* Per action: who was allowed to decide, and what the delivery knows afterwards.
LEMMA WalkStep ==
    ASSUME OneDecides, NoError', Typed', NEW d \in Deliveries,
           Load(d) \/ FindRow(d) \/ PassOver(d) \/ WriteLedger(d) \/ WriteRow(d)
    PROVE  Inherits' /\ Decides' /\ Recorded' /\ GateKnows'
<1> DEFINE p == pass[d]
<1>1. /\ NoError /\ Typed /\ Inherits /\ Decides /\ Recorded /\ GateKnows /\ book \in Books
      /\ book' = book /\ decided' = decided /\ signs \subseteq signs'
  <2>1. book' = book /\ decided' = decided /\ signs \subseteq signs'
    BY DEF Load, FindRow, PassOver, WriteLedger, WriteRow
  <2> QED BY <2>1 DEF OneDecides, NoError, Typed, TypeOK
<1>2. /\ Sound(p) /\ p \in PassRecord /\ p.rule \in 1..(Len(Rules) + 1) /\ p.act \in Nat
      /\ p.fired \in BOOLEAN /\ p.closed \in BOOLEAN /\ p.own \in BOOLEAN /\ p.nested \in BOOLEAN
  BY <1>1, Turned DEF Sound, PassRecord
<1>3. Walking(p) => Knows(p) /\ (Past(p) => decided # {})
  BY <1>1 DEF Inherits, Decides
<1>4. CASE Load(d)
  <2>1. row' = row /\ Waiting(p)
    BY <1>4 DEF Load, Waiting, At
  <2>2. CASE status \in {"ACTIVE", "DONE"}
    <3> DEFINE q == [p EXCEPT !.pc = "rule"]
    <3>1. Becomes(d, q) /\ q.pc = "rule" /\ ~q.fired /\ Knows(q)
      BY <1>2, <1>4, <2>1, <2>2, KnowsFromStart DEF Load, PassRecord, Sound, PlacedAt
    <3> HIDE DEF q
    <3>2. ~Past(q)
      BY <3>1 DEF Knows
    <3> QED BY <1>1, <2>1, <3>1, <3>2, OneMoves
  <2>3. CASE status \notin {"ACTIVE", "DONE"}
    <3> DEFINE q == [p EXCEPT !.pc = "gate"]
    <3>1. Becomes(d, q) /\ q.pc = "gate" /\ "inert" \in signs'
      BY <1>2, <1>4, <2>3 DEF Load, PassRecord
    <3> HIDE DEF q
    <3>2. ~Walking(q) /\ q.pc # "cancel" /\ signs' \intersect {"inert", "threw"} # {}
      BY <3>1 DEF Walking, InRule
    <3> QED BY <1>1, <2>1, <3>1, <3>2, OneMoves
  <2> QED BY <2>2, <2>3
<1>5. CASE FindRow(d)
  <2>1. row' = row /\ p.pc = "rule" /\ Walking(p) /\ Knows(p)
    BY <1>3, <1>5 DEF FindRow, At, Walking
  <2>2. CASE p.rule > Len(Rules)
    <3> DEFINE q == [p EXCEPT !.pc = "gate"]
    <3>0. ~(p.rule <= Len(Rules))
      BY <1>2, <2>2, RuleNames
    <3>1. Becomes(d, q)
      BY <1>5, <3>0, Zenon DEF FindRow
    <3>2. q.pc = "gate" /\ q.closed = p.closed
      BY <1>2 DEF PassRecord
    <3> HIDE DEF q
    <3>3. ~Walking(q) /\ q.pc # "cancel"
      BY <3>2 DEF Walking, InRule
    <3>4. ~q.closed => \A i \in 1..Len(Rules) : ~Decisive(i)
      BY <1>2, <2>1, <2>2, <3>2, RuleNames DEF Knows, Earlier
    <3> QED BY <1>1, <2>1, <3>1, <3>2, <3>3, <3>4, OneMoves
  <2>3. CASE p.rule <= Len(Rules) /\ row[Rule(d)] = "none"
    <3> DEFINE q == [p EXCEPT !.pc = "act"]
    <3>1. Becomes(d, q) /\ q.pc = "act"
      BY <1>2, <1>5, <2>3, RuleNames DEF FindRow, PassRecord
    <3>2. Knows(q) /\ (Past(q) <=> Past(p))
      BY <1>1, <1>2, <2>1, <2>3, KnowsEntering
    <3> HIDE DEF q
    <3> QED BY <1>1, <1>3, <2>1, <3>1, <3>2, OneMoves
  <2>4. CASE p.rule <= Len(Rules) /\ row[Rule(d)] # "none"
    <3> DEFINE b == (row[Rule(d)] = "terminal")
               f == p.fired \/ b
               c == p.closed \/ b
               q == TurnRule(p, f, c)
    <3>1. b \in BOOLEAN /\ f \in BOOLEAN /\ c \in BOOLEAN
      OBVIOUS
    <3>2. Becomes(d, [NextRule(p) EXCEPT !.fired = @ \/ b, !.closed = @ \/ b])
      BY <1>2, <1>5, <2>4, RuleNames DEF FindRow
    <3>3. p.rule \in 1..Len(Rules) /\ (b <=> First(p.rule)) /\ (First(p.rule) => decided # {})
      BY <1>1, <1>2, <2>4, RuleNames DEF Recorded, Rule
    <3>4. (f <=> p.fired \/ First(p.rule)) /\ (c <=> p.closed \/ First(p.rule))
      BY <3>3
    <3> HIDE DEF b
    <3>5. Becomes(d, q)
      BY <1>2, <3>1, <3>2, Turning
    <3> HIDE DEF f, c
    <3>6. Knows(q) /\ (Past(q) <=> Past(p) \/ First(p.rule)) /\ q.pc = "rule"
      BY <1>1, <1>2, <2>1, <2>4, <3>1, <3>4, KnowsRowFound, NextRuleSound
    <3> HIDE DEF q
    <3> QED BY <1>1, <1>3, <2>1, <3>3, <3>5, <3>6, OneMoves
  <2> QED BY <1>2, <2>2, <2>3, <2>4, RuleNames
<1>6. CASE PassOver(d)
  <2>1. HasAction(d) /\ row' = row /\ (ActionOf(d).kind = "plain" \/ (ActionOf(d).kind \in Terminal /\ p.fired))
    BY <1>6 DEF PassOver
  <2>2. InRule(p) /\ p.act \in DOMAIN Says(p) /\ Becomes(d, TurnAction(p, p.fired, p.own, p.nested))
    BY <1>1, <1>6, <2>1, Turned
  <2>3. Says(p)[p.act].kind = ActionOf(d).kind /\ Walking(p) /\ Knows(p)
    BY <1>3, <2>2 DEF ActionOf, Actions, Rule, Says, Walking
  <2>4. /\ p.fired <=> p.fired \/ Says(p)[p.act].kind \in Terminal
        /\ Says(p)[p.act].kind # "ledger"
    BY <2>1, <2>3 DEF Terminal
  <2>5. p.nested => \E m \in DOMAIN Says(p) : m > p.act /\ Says(p)[m].kind = "ledger"
    <3>1. DOMAIN Says(p) \subseteq Nat
      BY <1>1, <1>2, <2>2, RuleSays, RuleNames DEF Says, Sound, PlacedAt
    <3> QED BY <1>2, <2>2, <2>3, <2>4, <3>1 DEF Knows
  <2> DEFINE q == TurnAction(p, p.fired, p.own, p.nested)
  <2>6. Knows(q) /\ (Past(q) <=> p.fired) /\ q.pc = "act"
    BY <1>1, <1>2, <2>2, <2>3, <2>4, <2>5, KnowsNextAction, NextActionSound
  <2>7. p.fired => decided # {}
    BY <1>3, <2>3 DEF Knows
  <2> HIDE DEF q
  <2> QED BY <1>1, <2>1, <2>2, <2>6, <2>7, OneMoves DEF q
<1>7. CASE WriteLedger(d)
  <2>1. HasAction(d) /\ row' = row /\ ActionOf(d).kind = "ledger"
    BY <1>7 DEF WriteLedger
  <2> DEFINE o == p.own \/ p.nested
             no == FALSE
             q == TurnAction(p, p.fired, o, no)
  <2>2. InRule(p) /\ p.act \in DOMAIN Says(p) /\ Becomes(d, q) /\ o \in BOOLEAN
    BY <1>1, <1>7, <2>1, Turned
  <2>3. Says(p)[p.act].kind \notin Terminal /\ Walking(p) /\ Knows(p)
    BY <1>3, <2>1, <2>2 DEF ActionOf, Actions, Rule, Says, Walking, Terminal
  <2>4. (o <=> p.own \/ p.nested) /\ no \in BOOLEAN /\ ~no
    OBVIOUS
  <2> HIDE DEF o, no
  <2>5. Knows(q) /\ (Past(q) <=> p.fired) /\ q.pc = "act"
    <3>1. /\ p.fired <=> p.fired \/ Says(p)[p.act].kind \in Terminal
          /\ o \/ no <=> p.own \/ p.nested \/ (~p.fired /\ Says(p)[p.act].kind \in Terminal)
          /\ no => \E m \in DOMAIN Says(p) : m > p.act /\ Says(p)[m].kind = "ledger"
      BY <2>3, <2>4
    <3>2. Knows(TurnAction(p, p.fired, o, no)) /\ (Past(TurnAction(p, p.fired, o, no)) <=> p.fired)
      BY <1>1, <1>2, <2>2, <2>3, <2>4, <3>1, KnowsNextAction
    <3>3. TurnAction(p, p.fired, o, no).pc = "act"
      BY <1>2, <2>2, <2>4, NextActionSound
    <3> QED BY <3>2, <3>3
  <2>6. p.fired => decided # {}
    BY <1>3, <2>3 DEF Knows
  <2> HIDE DEF q
  <2> QED BY <1>1, <2>1, <2>2, <2>5, <2>6, OneMoves
<1>8. CASE WriteRow(d)
  <2> DEFINE c == p.closed \/ p.own
             q == TurnRule(p, p.fired, c)
             v == IF row[Rule(d)] # "none" THEN row[Rule(d)] ELSE IF p.own THEN "terminal" ELSE "plain"
  <2>1. /\ p.pc = "act" /\ ~(p.act <= Len(Says(p))) /\ row' = [row EXCEPT ![Rule(d)] = v]
        /\ Becomes(d, [NextRule(p) EXCEPT !.closed = @ \/ p.own])
    <3>1. p.pc = "act" /\ p.act > Len(Says(p))
      BY <1>8 DEF WriteRow, At, Actions, Rule, Says
    <3>2. p.rule \in 1..Len(Rules)
      BY <1>2, <3>1 DEF Sound, PlacedAt, InRule
    <3>3. Len(Says(p)) \in Nat
      BY <1>1, <3>2, RuleSays DEF Says
    <3>4. row' = [row EXCEPT ![Rule(d)] = v] /\ Becomes(d, [NextRule(p) EXCEPT !.closed = @ \/ p.own])
      BY <1>8, Zenon DEF WriteRow
    <3> QED BY <1>2, <3>1, <3>3, <3>4
  <2>2. p.rule \in 1..Len(Rules) /\ InRule(p) /\ Walking(p) /\ Knows(p) /\ p.act > Len(Says(p))
    <3>1. p.rule \in 1..Len(Rules) /\ InRule(p) /\ Walking(p) /\ Knows(p)
      BY <1>2, <1>3, <2>1 DEF Sound, PlacedAt, InRule, Walking
    <3> QED BY <1>8, <3>1 DEF WriteRow, Actions, Rule, Says
  <2>3. c \in BOOLEAN /\ (c <=> p.closed \/ p.own) /\ Becomes(d, q)
    BY <1>2, <2>1, Turning
  <2> HIDE DEF c
  <2>4. ~p.nested /\ (p.own <=> First(p.rule)) /\ Knows(q) /\ (Past(q) <=> Past(p))
    BY <1>1, <1>2, <2>2, <2>3, KnowsRowWritten
  <2>5. q.pc = "rule"
    BY <1>2, <2>2, <2>3, NextRuleSound
  <2> HIDE DEF q
  <2>6. Inherits' /\ Decides' /\ GateKnows'
    BY <1>1, <1>3, <2>2, <2>3, <2>4, <2>5, OneMoves
  <2>7. First(p.rule) => decided # {}
    BY <1>3, <2>2, <2>4 DEF Knows, Past
  <2>8. Recorded'
    <3> SUFFICES ASSUME NEW i \in 1..Len(Rules), row'[Rules[i]] # "none"
                 PROVE  (row'[Rules[i]] = "terminal" <=> First(i)') /\ (First(i)' => decided' # {})
      BY DEF Recorded
    <3>1. First(i)' <=> First(i)
      BY <1>1 DEF First, Decisive
    <3>2. (row'[Rules[i]] = "terminal" <=> First(i)) /\ (First(i) => decided # {})
      <4>1. row \in [Matched -> {"none", "plain", "terminal"}] /\ Rules[i] \in Matched
        BY <1>1, RuleNames DEF Typed, TypeOK
      <4>2. CASE i = p.rule
        <5>1. row'[Rules[i]] = v
          BY <2>1, <4>1, <4>2 DEF Rule
        <5>2. row[Rule(d)] # "none" => (v = "terminal" <=> First(i)) /\ (First(i) => decided # {})
          BY <1>1, <4>2 DEF Recorded, Rule
        <5>3. row[Rule(d)] = "none" => (v = "terminal" <=> First(i))
          BY <2>4, <4>2
        <5> QED BY <2>7, <4>2, <5>1, <5>2, <5>3
      <4>3. CASE i # p.rule
        <5>1. row'[Rules[i]] = row[Rules[i]]
          BY <2>1, <2>2, <4>1, <4>3, RuleNames DEF Rule
        <5> QED BY <1>1, <5>1 DEF Recorded
      <4> QED BY <4>2, <4>3
    <3> QED BY <1>1, <3>1, <3>2
  <2> QED BY <2>6, <2>8
<1> QED BY <1>4, <1>5, <1>6, <1>7, <1>8

LEMMA ActStep ==
    ASSUME OneDecides, NoError', Typed', NEW d \in Deliveries,
           WriteStatus(d) \/ Cancel(d) \/ StartMoved(d) \/ CancelFails(d)
    PROVE  Inherits' /\ Decides' /\ Recorded' /\ GateKnows'
<1> DEFINE p == pass[d]
<1>1. /\ NoError /\ Typed /\ Inherits /\ Decides /\ Recorded /\ GateKnows /\ book \in Books
      /\ book' = book /\ decided \subseteq decided' /\ signs \subseteq signs' /\ row' = row
  <2>1. book' = book /\ decided \subseteq decided' /\ signs \subseteq signs' /\ row' = row
    BY DEF WriteStatus, Cancel, StartMoved, CancelFails, Faulty
  <2> QED BY <2>1 DEF OneDecides, NoError, Typed, TypeOK
<1>2. /\ Sound(p) /\ p \in PassRecord
      /\ p.fired \in BOOLEAN /\ p.closed \in BOOLEAN /\ p.own \in BOOLEAN /\ p.nested \in BOOLEAN
  BY <1>1, Turned DEF Sound, PassRecord
<1>3. /\ InRule(p) /\ p.act \in DOMAIN Says(p) /\ ~p.fired
      /\ Says(p)[p.act] = ActionOf(d) /\ ActionOf(d).kind \in Terminal
  <2>1. CASE WriteStatus(d)
    BY <1>1, <2>1, Turned DEF WriteStatus, ActionOf, Actions, Rule, Says
  <2>2. CASE Cancel(d) \/ StartMoved(d) \/ CancelFails(d)
    BY <1>2, <2>2 DEF Cancel, StartMoved, CancelFails, At, Sound, PlacedAt, InRule, Deciding,
       ActionOf, Actions, Rule, Says
  <2> QED BY <2>1, <2>2
<1>4. Walking(p) /\ Knows(p) /\ ~Past(p)
  BY <1>1, <1>3 DEF Walking, Inherits, Knows
\* Not past any decision, and at a terminal action: this is the first rule.
<1>5. p.rule \in 1..Len(Rules) /\ First(p.rule) /\ Rule(d) = Rules[p.rule]
  <2>1. p.rule \in 1..Len(Rules)
    BY <1>2, <1>3, RuleNames DEF Sound, PassRecord, PlacedAt
  <2>2. Decisive(p.rule)
    BY <1>3 DEF Decisive, Says
  <2> QED BY <1>4, <2>1, <2>2 DEF First, Past, Earlier, Rule
<1>6. \A r \in decided' : r \in decided \/ \E i \in 1..Len(Rules) : First(i) /\ r = Rules[i]
  <2>1. decided' \subseteq decided \union {Rule(d)}
    BY DEF WriteStatus, Cancel, StartMoved, CancelFails
  <2> QED BY <1>5, <2>1
<1>7. CASE WriteStatus(d)
  <2> DEFINE q == [p EXCEPT !.pc = "cancel"]
  <2>1. Becomes(d, q) /\ q.pc = "cancel" /\ q.rule = p.rule /\ q.act = p.act
    BY <1>2, <1>7 DEF WriteStatus, PassRecord
  <2>2. Knows(q) /\ ~Past(q)
    BY <1>2, <1>3, <1>4, KnowsActing
  <2>3. Says(q)[q.act].kind # "move" => decided' # {}
    BY <1>3, <1>7, <2>1 DEF WriteStatus, Says
  <2> HIDE DEF q
  <2> QED BY <1>1, <1>6, <2>1, <2>2, <2>3, OneMoves
<1>8. CASE Cancel(d) /\ ActionOf(d).kind = "move"
  <2> DEFINE q == [p EXCEPT !.pc = "start"]
  <2>1. Becomes(d, q) /\ q.pc = "start"
    BY <1>2, <1>8 DEF Cancel, PassRecord
  <2>2. Knows(q) /\ ~Past(q)
    BY <1>2, <1>3, <1>4, KnowsActing
  <2> HIDE DEF q
  <2> QED BY <1>1, <1>6, <2>1, <2>2, OneMoves
<1>9. CASE Executed(d) /\ ~(WriteStatus(d) \/ (Cancel(d) /\ ActionOf(d).kind = "move"))
  <2> DEFINE b == ActionOf(d).nested
             o == p.own \/ ~b
             n == p.nested \/ b
             yes == TRUE
             q == TurnAction(p, yes, o, n)
  <2>1. Becomes(d, q) /\ b \in BOOLEAN /\ o \in BOOLEAN /\ n \in BOOLEAN
    BY <1>1, <1>3, <1>9, Turned
  <2>2. ~p.own /\ ~p.nested
    BY <1>3, <1>4 DEF Knows, Past
  <2>3. n => \E m \in DOMAIN Says(p) : m > p.act /\ Says(p)[m].kind = "ledger"
    BY <1>1, <1>3, <1>5, <2>2, RuleSays DEF Says
  <2>4. (o \/ n) /\ yes \in BOOLEAN /\ yes
    OBVIOUS
  <2> HIDE DEF b, o, n, yes
  <2>5. Knows(q) /\ q.pc = "act"
    <3>1. /\ yes <=> p.fired \/ Says(p)[p.act].kind \in Terminal
          /\ o \/ n <=> p.own \/ p.nested \/ (~p.fired /\ Says(p)[p.act].kind \in Terminal)
      BY <1>3, <2>4
    <3>2. Knows(TurnAction(p, yes, o, n))
      BY <1>1, <1>2, <1>3, <1>4, <2>1, <2>3, <2>4, <3>1, KnowsNextAction
    <3>3. TurnAction(p, yes, o, n).pc = "act"
      <4>1. Sound(p) /\ InRule(p) /\ yes \in BOOLEAN /\ o \in BOOLEAN /\ n \in BOOLEAN
        BY <1>2, <1>3, <2>1, <2>4
      <4> QED BY <4>1, NextActionSound
    <3> QED BY <3>2, <3>3
  <2>6. decided' # {}
    <3>1. CASE StartMoved(d)
      BY <3>1 DEF StartMoved
    <3>2. CASE ~StartMoved(d)
      BY <1>1, <1>9, <3>2 DEF Cancel, CancelFails, Decides, NoError, Faulty
    <3> QED BY <3>1, <3>2
  <2> HIDE DEF q
  <2> QED BY <1>1, <1>6, <2>1, <2>5, <2>6, OneMoves
<1>10. CancelFails(d) => Executed(d)
  BY DEF CancelFails, Faulty, NoError
<1>11. Cancel(d) /\ ActionOf(d).kind # "move" => Executed(d)
  BY DEF Cancel
<1>12. StartMoved(d) => Executed(d)
  BY DEF StartMoved
<1> QED BY <1>7, <1>8, <1>9, <1>10, <1>11, <1>12

LEMMA GateStep ==
    ASSUME OneDecides, NoError', Typed', NEW d \in Deliveries, Gate(d) \/ EvaluationThrows(d)
    PROVE  Inherits' /\ Decides' /\ Recorded' /\ GateKnows'
<1> DEFINE p == pass[d]
<1>1. /\ NoError /\ Typed /\ Inherits /\ Decides /\ Recorded /\ GateKnows /\ book \in Books
      /\ book' = book /\ decided' = decided /\ signs \subseteq signs' /\ row' = row
  <2>1. book' = book /\ decided' = decided /\ signs \subseteq signs' /\ row' = row
    BY DEF Gate, EvaluationThrows, Faulty
  <2> QED BY <2>1 DEF OneDecides, NoError, Typed, TypeOK
<1>2. p \in PassRecord
  BY <1>1, Turned DEF Sound
<1>3. \E q : /\ Becomes(d, q) /\ q.pc \in {"gate", "over"}
             /\ q.pc = "gate" => signs' \intersect {"inert", "threw"} # {}
  <2>1. CASE Gate(d)
    BY <1>2, <2>1 DEF Gate, PassRecord
  <2>2. CASE EvaluationThrows(d)
    <3>1. "threw" \in signs' /\ Becomes(d, [p EXCEPT !.pc = "gate", !.closed = FALSE])
      BY <2>2 DEF EvaluationThrows, Faulty
    <3>2. [p EXCEPT !.pc = "gate", !.closed = FALSE].pc = "gate"
      BY <1>2 DEF PassRecord
    <3> QED BY <3>1, <3>2
  <2> QED BY <2>1, <2>2
<1>4. PICK q : /\ Becomes(d, q) /\ q.pc \in {"gate", "over"}
               /\ q.pc = "gate" => signs' \intersect {"inert", "threw"} # {}
  BY <1>3
<1>5. ~Walking(q) /\ q.pc # "cancel"
  BY <1>4 DEF Walking, InRule
<1> QED BY <1>1, <1>4, <1>5, OneMoves

\* A crash or a stall cuts one delivery short and queues another.
LEMMA RequeueStep ==
    ASSUME OneDecides, NoError', NEW d \in Deliveries, Crash(d) \/ Stall(d)
    PROVE  Inherits' /\ Decides' /\ Recorded' /\ GateKnows'
<1>1. /\ NoError /\ Typed /\ Inherits /\ Decides /\ Recorded /\ GateKnows
      /\ book' = book /\ decided' = decided /\ signs \subseteq signs' /\ row' = row
  <2>1. book' = book /\ decided' = decided /\ signs \subseteq signs' /\ row' = row
    BY DEF Crash, Stall, Faulty
  <2> QED BY <2>1 DEF OneDecides, NoError
<1>2. \A e \in Deliveries : pass'[e] = pass[e] \/ pass'[e].pc \in {"over", "queued"}
  <2>1. \A e \in Deliveries : pass[e] \in PassRecord
    BY <1>1 DEF Typed, TypeOK, PassRecord
  <2>2. ASSUME NEW e \in Deliveries PROVE pass'[e] = pass[e] \/ pass'[e].pc \in {"over", "queued"}
    <3>1. \/ pass'[e] = pass[e]
          \/ pass'[e] = [pass[e] EXCEPT !.pc = "over"]
          \/ pass'[e] = [pass[e] EXCEPT !.pc = "queued"]
      BY <1>1, RequeuedMoves
    <3> QED BY <2>1, <3>1 DEF PassRecord
  <2> QED BY <2>2
<1>3. Inherits'
  <2> SUFFICES ASSUME NEW e \in Deliveries, Walking(pass[e])' PROVE Knows(pass[e])'
    BY DEF Inherits
  <2>1. pass'[e] = pass[e]
    BY <1>2 DEF Walking, InRule
  <2>2. Walking(pass[e])
    BY <2>1 DEF Walking, InRule
  <2>3. Knows(pass[e])
    BY <1>1, <2>2 DEF Inherits
  <2> QED BY <1>1, <2>1, <2>3 DEF Knows, InRule, Past, Earlier, Behind, Says, Decisive
<1>4. Decides'
  <2>1. ASSUME NEW e \in Deliveries, Walking(pass[e])', Past(pass[e])' PROVE decided' # {}
    <3>1. pass'[e] = pass[e]
      BY <1>2, <2>1 DEF Walking, InRule
    <3>2. Walking(pass[e]) /\ Past(pass[e])
      BY <1>1, <2>1, <3>1 DEF Walking, InRule, Past, Earlier, Behind, Says, Decisive
    <3> QED BY <1>1, <3>2 DEF Decides
  <2>2. ASSUME NEW e \in Deliveries, At(e, "cancel")', (ActionOf(e).kind # "move")' PROVE decided' # {}
    <3>1. pass'[e] = pass[e]
      BY <1>2, <2>2 DEF At
    <3>2. At(e, "cancel") /\ ActionOf(e).kind # "move"
      BY <1>1, <2>2, <3>1 DEF At, ActionOf, Actions, Rule
    <3> QED BY <1>1, <3>2 DEF Decides
  <2>3. ASSUME NEW r \in decided' PROVE \E i \in 1..Len(Rules) : First(i)' /\ r = Rules[i]
    <3>1. \E i \in 1..Len(Rules) : First(i) /\ r = Rules[i]
      BY <1>1, <2>3 DEF Decides
    <3> QED BY <1>1, <3>1 DEF First, Decisive
  <2> QED BY <2>1, <2>2, <2>3 DEF Decides
<1>5. Recorded'
  <2> SUFFICES ASSUME NEW i \in 1..Len(Rules), row[Rules[i]] # "none"
               PROVE  (row[Rules[i]] = "terminal" <=> First(i)') /\ (First(i)' => decided' # {})
    BY <1>1 DEF Recorded
  <2>1. (row[Rules[i]] = "terminal" <=> First(i)) /\ (First(i) => decided # {})
    BY <1>1 DEF Recorded
  <2>2. First(i)' <=> First(i)
    BY <1>1 DEF First, Decisive
  <2> QED BY <1>1, <2>1, <2>2
<1>6. GateKnows'
  <2> SUFFICES ASSUME NEW e \in Deliveries, At(e, "gate")', ~pass'[e].closed,
                      signs' \intersect {"inert", "threw"} = {}, NEW i \in 1..Len(Rules)
               PROVE  ~Decisive(i)'
    BY DEF GateKnows
  <2>1. pass'[e] = pass[e]
    BY <1>2 DEF At
  <2>2. ~Decisive(i)
    BY <1>1, <2>1 DEF At, GateKnows
  <2> QED BY <1>1, <2>2 DEF Decisive
<1> QED BY <1>3, <1>4, <1>5, <1>6

\* What nobody writes stays as it is.
LEMMA NothingMoves ==
    ASSUME Inherits, Decides, Recorded, GateKnows,
           UNCHANGED <<book, row, pass, decided, signs>>
    PROVE  Inherits' /\ Decides' /\ Recorded' /\ GateKnows'
<1>1. book' = book /\ row' = row /\ pass' = pass /\ decided' = decided /\ signs' = signs
  OBVIOUS
<1>2. Inherits'
  BY <1>1 DEF Inherits, Walking, Knows, InRule, Past, Earlier, Behind, Says, Decisive
<1>3. Decides'
  <2>1. \A d \in Deliveries : (Walking(pass[d]) /\ Past(pass[d]))' => decided' # {}
    <3>1. \A d \in Deliveries : Walking(pass[d]) /\ Past(pass[d]) => decided # {}
      BY DEF Decides
    <3> QED BY <1>1, <3>1 DEF Walking, InRule, Past, Earlier, Behind, Says, Decisive
  <2>2. \A d \in Deliveries : At(d, "cancel")' /\ ActionOf(d)'.kind # "move" => decided' # {}
    <3>1. \A d \in Deliveries : At(d, "cancel") /\ ActionOf(d).kind # "move" => decided # {}
      BY DEF Decides
    <3> QED BY <1>1, <3>1 DEF At, ActionOf, Actions, Rule
  <2>3. \A r \in decided' : \E i \in 1..Len(Rules) : First(i)' /\ r = Rules[i]
    <3>1. \A r \in decided : \E i \in 1..Len(Rules) : First(i) /\ r = Rules[i]
      BY DEF Decides
    <3> QED BY <1>1, <3>1 DEF First, Decisive
  <2> QED BY <2>1, <2>2, <2>3 DEF Decides
<1>4. Recorded'
  <2> SUFFICES ASSUME NEW i \in 1..Len(Rules), row[Rules[i]] # "none"
               PROVE  (row[Rules[i]] = "terminal" <=> First(i)') /\ (First(i)' => decided' # {})
    BY <1>1 DEF Recorded
  <2>1. (row[Rules[i]] = "terminal" <=> First(i)) /\ (First(i) => decided # {})
    BY <1>1 DEF Recorded
  <2>2. First(i)' <=> First(i)
    BY <1>1 DEF First, Decisive
  <2> QED BY <1>1, <2>1, <2>2
<1>5. GateKnows'
  BY <1>1 DEF GateKnows, At, Decisive
<1> QED BY <1>2, <1>3, <1>4, <1>5

LEMMA OneStep == OneDecides /\ [Next]_vars => OneDecides'
<1> SUFFICES ASSUME OneDecides, [Next]_vars PROVE OneDecides'
  OBVIOUS
<1>1. Typed'
  BY TypeStep DEF OneDecides
<1>2. CASE UNCHANGED vars
  BY <1>1, <1>2, NothingMoves DEF vars, OneDecides, NoError, LateSignalsExplained
<1>3. ASSUME NEW d \in Deliveries,
             Step(d) \/ CancelFails(d) \/ ActionFails(d) \/ EvaluationThrows(d)
      PROVE  OneDecides'
  <2>1. ActionFails(d) => ~NoError'
    BY DEF ActionFails, Faulty, NoError
  <2>2. NoError' => Inherits' /\ Decides' /\ Recorded' /\ GateKnows'
    BY <1>1, <1>3, <2>1, WalkStep, ActStep, GateStep DEF Step
  <2> QED BY <1>1, <1>3, <2>2, LateStep DEF OneDecides
<1>4. ASSUME NEW d \in Deliveries, Crash(d) \/ Stall(d) PROVE OneDecides'
  <2>1. LateSignalsExplained'
    BY <1>4 DEF Crash, Stall, Faulty, OneDecides, LateSignalsExplained
  <2> QED BY <1>1, <1>4, <2>1, RequeueStep DEF OneDecides
<1>5. CASE RunCompletes
  <2>1. UNCHANGED <<book, row, pass, decided, signs>>
    BY <1>5 DEF RunCompletes
  <2>2. NoError' => NoError
    BY <2>1 DEF NoError
  <2>3. LateSignalsExplained'
    BY <2>1 DEF OneDecides, LateSignalsExplained
  <2> QED BY <1>1, <2>1, <2>2, <2>3, NothingMoves DEF OneDecides
<1> QED BY <1>2, <1>3, <1>4, <1>5 DEF Next

\* However often the event is delivered, cut short or delivered beside itself,
\* at most one rule decides over the lead, unless an action failed.
THEOREM OneRuleDecides == Spec => []FirstTerminalWins
<1>1. OneDecides => FirstTerminalWins
  <2> SUFFICES ASSUME OneDecides, NoError, decided # {} PROVE Cardinality(decided) <= 1
    BY FS_EmptySet DEF FirstTerminalWins, NoError
  <2>1. Decides
    BY DEF OneDecides
  <2>2. PICK i \in 1..Len(Rules) : First(i)
    BY <2>1 DEF Decides
  <2>3. decided = {Rules[i]}
    BY <2>1, <2>2, FirstIsOne
  <2>4. Cardinality(decided) = 1
    BY <2>3, FS_Singleton, Zenon
  <2> QED BY <2>4
<1> QED BY OneInit, OneStep, <1>1, PTL DEF Spec

\* The terminal flag of a recorded rule says whether it is the rule that decided,
\* whichever delivery came to write the row.
THEOREM RowsTell == Spec => []RowsTellTheTruth
<1>1. OneDecides => RowsTellTheTruth
  <2> SUFFICES ASSUME OneDecides, NoError, NEW i \in 1..Len(Rules), row[Rules[i]] # "none"
               PROVE  (row[Rules[i]] = "terminal") = (Rules[i] \in decided)
    BY RuleNames DEF RowsTellTheTruth, NoError, Matched
  <2>1. Decides /\ Recorded
    BY DEF OneDecides
  <2>2. (row[Rules[i]] = "terminal" <=> First(i)) /\ (First(i) => decided # {})
    BY <2>1 DEF Recorded
  <2>3. First(i) => Rules[i] \in decided
    BY <2>1, <2>2, FirstIsOne
  <2>4. Rules[i] \in decided => First(i)
    BY <2>1, RuleNames DEF Decides
  <2> QED BY <2>2, <2>3, <2>4
<1> QED BY OneInit, OneStep, <1>1, PTL DEF Spec

\* The strategy reply gets past a rule that decided only when the rules were inert
\* for the delivery, a query threw or an action failed.
THEOREM LateExplained == Spec => []LateSignalsExplained
<1>1. OneDecides => LateSignalsExplained
  BY DEF OneDecides
<1> QED BY OneInit, OneStep, <1>1, PTL DEF Spec
=============================================================================
