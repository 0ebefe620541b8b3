-------------------------- MODULE CampaignRunProofs --------------------------
(* What holds of an enrollment and its runs for every graph, every set of     *)
(* executions and operations, and every bound on faults, holds and retries.   *)
EXTENDS CampaignRun, FiniteSetTheorems, TLAPS

\* The assumptions of CampaignGraph and CampaignRun in one place.
LEMMA Assumed ==
    /\ Entry \in Nodes /\ Edges \subseteq Nodes \X Nodes /\ NoNode \notin Nodes
    /\ Kind \in [Nodes -> NodeKinds]
    /\ Cases \in [Nodes -> SUBSET [when: Intents \union {Default}, goto: Nodes, stage: BOOLEAN]]
    /\ First \in Runs /\ Runs = DOMAIN Id /\ NoSlot \notin Slots /\ IsFiniteSet(Slots)
    /\ OpKind \in [Ops -> OpKinds] /\ Intent \in [Ops -> Intents]
    /\ Target \in [Ops -> Nodes] /\ MoveId \in [Ops -> Ids]
    /\ MaxAttempts \in Nat \ {0} /\ MaxFaults \in Nat
    /\ MaxHolds \in Nat /\ MaxLevels \in Nat /\ AskFirst \in BOOLEAN
  BY GraphAssumption, KindAssumption, CasesAssumption, RunsAssumption, OpsAssumption,
     BoundsAssumption DEF ValidGraph

-----------------------------------------------------------------------------
(* Type correctness.  A run that may still schedule a send has an attempt     *)
(* left: without that, tries could leave its range.                           *)

RunRecord == [state: RunStates, pc: RunPcs, node: Nodes, goto: Nodes,
              slot: Slots \union {NoSlot}, tries: 0..MaxAttempts,
              reason: Reasons, inbox: Seq(Intents), stage: BOOLEAN]
MaySend == {"hold", "ask", "send"}
Sound == {r \in RunRecord : r.pc \in MaySend => r.tries < MaxAttempts}

EnrT   == enr \in [status: Statuses, node: Nodes \union {NoNode}, wf: Ids]
RunT   == run \in [Runs -> Sound]
AttT   == att \in [Slots -> [pc: SendPcs \union {"free"}, run: Runs, node: Nodes,
                             ask: BOOLEAN, late: BOOLEAN, hold: Nat]]
WorldT == /\ hold \in [standing: BOOLEAN, count: 0..MaxHolds]
          /\ suppressed \in BOOLEAN
          /\ level \in [ask: BOOLEAN, changes: 0..MaxLevels]
          /\ approval \in [Nodes -> Decisions]
MailT  == delivered \in [Nodes -> Nat] /\ messages \in [Nodes -> Nat]
OpT    == op \in [Ops -> [pc: OpPcs, wf: Ids]]

Typed == EnrT /\ RunT /\ AttT /\ WorldT /\ MailT /\ OpT /\ faults \in 0..MaxFaults

\* The strengthened invariant has the type invariant as its first part.
LEMMA TypedImplies == Typed => TypeOK
<1> SUFFICES ASSUME Typed PROVE TypeOK
  OBVIOUS
<1>1. run \in [Runs -> RunRecord]
  BY DEF Typed, RunT, Sound
<1> QED BY <1>1 DEF Typed, EnrT, AttT, WorldT, MailT, OpT, TypeOK, RunRecord

\* The way on from a node is a node, or the end of the edge list.
LEMMA NextIsNode == \A n \in Nodes : NextAfter(n) \in Nodes \union {NoNode}
<1> SUFFICES ASSUME NEW n \in Nodes PROVE NextAfter(n) \in Nodes \union {NoNode}
  OBVIOUS
<1>1. CASE EdgesFrom(n) = {}
  BY <1>1 DEF NextAfter
<1>2. CASE EdgesFrom(n) # {}
  <2>1. (CHOOSE e \in EdgesFrom(n) : TRUE) \in Nodes \X Nodes
    BY <1>2, Assumed DEF EdgesFrom
  <2> QED BY <1>2, <2>1 DEF NextAfter
<1> QED BY <1>1, <1>2

\* A resolved case leads to a node.
LEMMA CaseLeads ==
    \A n \in Nodes : \A i : \A c \in ResolveReplyBranch(n, i) : c.goto \in Nodes /\ c.stage \in BOOLEAN
<1> SUFFICES ASSUME NEW n \in Nodes, NEW i, NEW c \in ResolveReplyBranch(n, i)
             PROVE  c.goto \in Nodes /\ c.stage \in BOOLEAN
  OBVIOUS
<1>1. c \in Cases[n]
  BY DEF ResolveReplyBranch, CasesFor
<1>2. Cases[n] \subseteq [when: Intents \union {Default}, goto: Nodes, stage: BOOLEAN]
  BY Assumed
<1> QED BY <1>1, <1>2

\* What the steps of a run do to its record.
LEMMA RecordMoves ==
    ASSUME NEW r \in Sound
    PROVE  /\ r \in RunRecord
           /\ \A pc \in RunPcs \ MaySend : [r EXCEPT !.pc = pc] \in Sound
           /\ \A pc \in MaySend : r.tries < MaxAttempts => [r EXCEPT !.pc = pc] \in Sound
           /\ \A s \in RunStates : Ended(r, s) \in Sound
           /\ \A n \in Nodes \union {NoNode} : Arrived(r, n) \in Sound
<1>1. r \in RunRecord /\ (r.pc \in MaySend => r.tries < MaxAttempts)
  BY DEF Sound
<1>2. \A pc \in RunPcs \ MaySend : [r EXCEPT !.pc = pc] \in Sound
  BY <1>1 DEF Sound, RunRecord
<1>3. \A pc \in MaySend : r.tries < MaxAttempts => [r EXCEPT !.pc = pc] \in Sound
  BY <1>1 DEF Sound, RunRecord, MaySend, RunPcs, Writing
<1>4. \A s \in RunStates : Ended(r, s) \in Sound
  BY <1>1 DEF Sound, RunRecord, Ended, MaySend, RunPcs
<1>5. ASSUME NEW n \in Nodes \union {NoNode} PROVE Arrived(r, n) \in Sound
  <2>1. CASE n = NoNode
    BY <1>2, <2>1 DEF Arrived, RunPcs, Writing, MaySend
  <2>2. CASE n # NoNode
    <3>1. n \in Nodes /\ FirstCall[Kind[n]] \in RunPcs
      BY <2>2, Assumed DEF FirstCall, NodeKinds, RunPcs, Writing
    <3>2. 0 \in 0..MaxAttempts /\ 0 < MaxAttempts
      BY Assumed
    <3> QED BY <1>1, <2>2, <3>1, <3>2 DEF Arrived, Sound, RunRecord
  <2> QED BY <2>1, <2>2
<1> QED BY <1>1, <1>2, <1>3, <1>4, <1>5

\* A cancelled run is well formed.
LEMMA CancelledTyped == ASSUME NEW r \in Sound PROVE Cancelled(r) \in Sound
  BY DEF Cancelled, Sound, RunRecord, RunStates, RunPcs, Writing, MaySend

\* The result of a call keeps the runs well formed.
LEMMA ResumeTyped ==
    ASSUME RunT, NEW x \in Runs, NEW r \in Sound, Resume(x, r)
    PROVE  RunT'
<1>1. [run[x] EXCEPT !.pc = "gone"] \in Sound
  BY RecordMoves DEF RunT, RunPcs, MaySend
<1> QED BY <1>1 DEF RunT, Resume

\* Init is well formed.
LEMMA TypeInit == Init => Typed
<1> SUFFICES ASSUME Init PROVE Typed
  OBVIOUS
<1>1. Id[First] \in Ids
  BY Assumed DEF Ids
<1>2. Unstarted \in Sound
  BY Assumed DEF Unstarted, Sound, RunRecord, RunStates, RunPcs, Reasons, MaySend
<1>3. Started(Unstarted, Entry) \in Sound
  <2>1. [Unstarted EXCEPT !.state = "open"] \in Sound
    BY <1>2 DEF Unstarted, Sound, RunRecord, RunStates, MaySend
  <2> QED BY <2>1, RecordMoves, Assumed DEF Started
<1>4. RunT
  BY <1>2, <1>3 DEF Init, RunT
<1>5. AttT
  BY Assumed DEF Init, AttT, Free
<1>6. WorldT
  <2>1. 0 \in 0..MaxHolds /\ 0 \in 0..MaxLevels
    BY Assumed
  <2>2. suppressed \in BOOLEAN
    BY DEF Init
  <2>3. approval \in [Nodes -> Decisions]
    BY DEF Init, Decisions
  <2>4. hold \in [standing: BOOLEAN, count: 0..MaxHolds]
    BY <2>1 DEF Init
  <2>5. level \in [ask: BOOLEAN, changes: 0..MaxLevels]
    BY <2>1, Assumed DEF Init
  <2> QED BY <2>2, <2>3, <2>4, <2>5 DEF WorldT
<1>7. EnrT /\ OpT
  BY <1>1 DEF Init, EnrT, OpT, Statuses, OpPcs
<1>8. MailT /\ faults \in 0..MaxFaults
  BY Assumed DEF Init, MailT
<1> QED BY <1>4, <1>5, <1>6, <1>7, <1>8 DEF Typed

\* A step that only writes runs and the enrollment row.
LEMMA RunAndRow ==
    ASSUME Typed, RunT', EnrT', UNCHANGED <<att, world, mail, op, faults>>
    PROVE  Typed'
  BY DEF Typed, AttT, WorldT, MailT, OpT, world, mail

\* The steps of campaignWorkflow keep everything well formed.
LEMMA RunStepTyped ==
    ASSUME Typed, NEW x \in Runs, RunStep(x) \/ Close(x) \/ Abandon(x) \/ GiveUp(x)
    PROVE  Typed'
<1>1. run[x] \in Sound /\ run \in [Runs -> Sound]
  BY DEF Typed, RunT
<1>2. run[x] \in RunRecord /\ run[x].node \in Nodes /\ run[x].goto \in Nodes
      /\ run[x].tries \in 0..MaxAttempts /\ run[x].inbox \in Seq(Intents)
  BY <1>1 DEF Sound, RunRecord
<1>3. ASSUME NEW r \in Sound, run' = [run EXCEPT ![x] = r] PROVE RunT'
  BY <1>1, <1>3 DEF RunT
<1>4. NextAfter(run[x].node) \in Nodes \union {NoNode}
  BY <1>2, NextIsNode
<1>5. ASSUME enr' = enr PROVE EnrT'
  BY <1>5 DEF Typed, EnrT
<1>6. CASE PollHold(x)
  <2>1. [run[x] EXCEPT !.pc = "ask"] \in Sound
    BY <1>1, <1>6, RecordMoves DEF PollHold, At, Sound, MaySend
  <2>2. RunT'
    BY <1>3, <1>6, <2>1 DEF PollHold
  <2> QED BY <1>5, <1>6, <2>2, RunAndRow DEF PollHold
<1>7. CASE RecordBlocked(x)
  <2>1. RunT'
    BY <1>1, <1>7, RecordMoves, ResumeTyped DEF RecordBlocked, RunStates, Typed
  <2>2. EnrT'
    BY <1>2, <1>7 DEF RecordBlocked, BlockedStatus, Typed, EnrT, Statuses
  <2> QED BY <1>7, <2>1, <2>2, RunAndRow DEF RecordBlocked
<1>8. CASE UpdateProgress(x)
  <2> DEFINE r == CASE Kind[run[x].node] = "send" -> Arrived(run[x], NextAfter(run[x].node))
                    [] Kind[run[x].node] = "delay" -> [run[x] EXCEPT !.pc = "asleep"]
                    [] OTHER -> [run[x] EXCEPT !.pc = "await"]
  <2>1. /\ [run[x] EXCEPT !.pc = "asleep"] \in Sound
        /\ [run[x] EXCEPT !.pc = "await"] \in Sound
        /\ Arrived(run[x], NextAfter(run[x].node)) \in Sound
    BY <1>1, <1>4, RecordMoves DEF RunPcs, MaySend
  <2>2. r \in Sound
    BY <2>1
  <2>3. Resume(x, r)
    BY <1>8 DEF UpdateProgress
  <2> HIDE DEF r
  <2>4. RunT'
    BY <2>2, <2>3, ResumeTyped DEF Typed
  <2>5. EnrT'
    BY <1>2, <1>8 DEF UpdateProgress, Typed, EnrT
  <2> QED BY <1>8, <2>4, <2>5, RunAndRow DEF UpdateProgress
<1>9. CASE Wake(x)
  <2>1. RunT'
    BY <1>1, <1>3, <1>4, <1>9, RecordMoves DEF Wake
  <2> QED BY <1>5, <1>9, <2>1, RunAndRow DEF Wake
<1>10. ASSUME NEW i, NEW inbox \in Seq(Intents), Route(x, i, inbox) PROVE RunT'
  <2>1. [run[x] EXCEPT !.inbox = inbox] \in Sound
    BY <1>1, <1>10 DEF Sound, RunRecord
  <2>2. CASE run' = [run EXCEPT ![x] = Ended([run[x] EXCEPT !.inbox = inbox], "stopped")]
    BY <1>3, <2>1, <2>2, RecordMoves DEF RunStates
  <2>3. ASSUME NEW c \in ResolveReplyBranch(run[x].node, i),
               run' = [run EXCEPT ![x] = [[run[x] EXCEPT !.inbox = inbox]
                                             EXCEPT !.pc = "routed", !.goto = c.goto,
                                                    !.stage = c.stage]]
        PROVE  RunT'
    <3>1. c.goto \in Nodes /\ c.stage \in BOOLEAN
      BY <1>2, CaseLeads
    <3> DEFINE r == [run[x] EXCEPT !.inbox = inbox]
               t == [r EXCEPT !.pc = "routed", !.goto = c.goto, !.stage = c.stage]
    <3>2. r \in Sound
      BY <2>1
    <3> HIDE DEF r
    <3>3. t \in Sound
      BY <3>1, <3>2 DEF Sound, RunRecord, RunPcs, Writing, MaySend
    <3> QED BY <1>3, <2>3, <3>3 DEF r
  <2> QED BY <1>10, <2>2, <2>3 DEF Route
<1>11. CASE TakeReply(x)
  <2>1. Tail(run[x].inbox) \in Seq(Intents)
    BY <1>2, <1>11 DEF TakeReply
  <2>2. RunT'
    BY <1>10, <1>11, <2>1 DEF TakeReply
  <2> QED BY <1>5, <1>11, <2>2, RunAndRow DEF TakeReply
<1>12. CASE GoOnWithoutReply(x)
  <2>1. RunT'
    BY <1>2, <1>10, <1>12 DEF GoOnWithoutReply
  <2> QED BY <1>5, <1>12, <2>1, RunAndRow DEF GoOnWithoutReply
<1>13. CASE RecordRoute(x)
  <2>1. RunT'
    BY <1>1, <1>2, <1>13, RecordMoves, ResumeTyped DEF RecordRoute, Typed
  <2>2. EnrT'
    BY <1>2, <1>13 DEF RecordRoute, Typed, EnrT
  <2> QED BY <1>13, <2>1, <2>2, RunAndRow DEF RecordRoute
<1>14. CASE RecordAction(x)
  <2>1. RunT'
    BY <1>1, <1>4, <1>14, RecordMoves, ResumeTyped DEF RecordAction, Typed
  <2> QED BY <1>5, <1>14, <2>1, RunAndRow DEF RecordAction
<1>15. CASE Complete(x)
  <2>1. RunT'
    BY <1>1, <1>15, RecordMoves, ResumeTyped DEF Complete, RunStates, Typed
  <2>2. EnrT'
    BY <1>2, <1>15 DEF Complete, Typed, EnrT, Statuses
  <2> QED BY <1>15, <2>1, <2>2, RunAndRow DEF Complete
<1>16. CASE Abandon(x)
  <2>1. [run[x] EXCEPT !.pc = "gone"] \in Sound
    BY <1>1, RecordMoves DEF RunPcs, MaySend
  <2>2. RunT'
    BY <1>3, <1>16, <2>1 DEF Abandon
  <2> QED BY <1>5, <1>16, <2>2, RunAndRow DEF Abandon
<1>20. CASE Close(x)
  <2>1. Cancelled(run[x]) \in Sound
    BY <1>1, CancelledTyped
  <2>2. RunT'
    BY <1>1, <1>3, <1>20, <2>1 DEF Close
  <2> QED BY <1>5, <1>20, <2>2, RunAndRow DEF Close
<1>17. CASE GiveUp(x)
  <2>1. RunT'
    BY <1>1, <1>3, <1>17, RecordMoves DEF GiveUp, RunStates
  <2>2. faults' \in 0..MaxFaults
    BY <1>17, Assumed DEF GiveUp, Typed
  <2> QED BY <1>17, <2>1, <2>2 DEF GiveUp, Typed, EnrT, AttT, WorldT, MailT, OpT, world, mail
<1>18. CASE PollApproval(x)
  <2> DEFINE refused == [run[x] EXCEPT !.pc = "refused", !.reason = "APPROVAL_DISMISSED"]
  <2>1. [run[x] EXCEPT !.pc = "send"] \in Sound
    BY <1>1, <1>18, RecordMoves DEF PollApproval, At, Sound, MaySend
  <2>2. refused \in Sound
    BY <1>2 DEF Sound, RunRecord, RunPcs, Writing, MaySend, Reasons
  <2>3. RunT'
    <3> HIDE DEF refused
    <3>1. Resume(x, [run[x] EXCEPT !.pc = "send"]) \/ Resume(x, refused) \/ Resume(x, run[x])
      BY <1>18 DEF PollApproval, refused
    <3> QED BY <1>1, <2>1, <2>2, <3>1, ResumeTyped DEF Typed
  <2>4. approval' \in [Nodes -> Decisions]
    BY <1>18 DEF PollApproval, Typed, WorldT, Decisions
  <2> QED BY <1>18, <2>3, <2>4 DEF PollApproval, Typed, EnrT, AttT, WorldT, MailT, OpT, mail
<1>19. CASE StartSend(x)
  <2> DEFINE s == CHOOSE u \in {v \in Slots : att[v].pc = "free"} : TRUE
             a == [Free EXCEPT !.pc = "lookup", !.run = x, !.node = run[x].node]
             r == [run[x] EXCEPT !.pc = "sending", !.slot = s, !.tries = run[x].tries + 1]
  <2>1. s \in Slots
    BY <1>19 DEF StartSend
  <2>2. run[x].tries + 1 \in 0..MaxAttempts
    <3>1. run[x].tries < MaxAttempts
      BY <1>1, <1>19 DEF StartSend, At, Sound, MaySend
    <3> QED BY <1>2, <3>1, Assumed
  <2>3. /\ att' = [att EXCEPT ![s] = a]
        /\ run' = [run EXCEPT ![x].pc = "sending", ![x].slot = s, ![x].tries = @ + 1]
    BY <1>19 DEF StartSend
  <2>6. UNCHANGED <<enr, world, mail, op, faults>>
    BY <1>19 DEF StartSend
  <2>4. RunT'
    <3> HIDE DEF s
    <3>1. r \in Sound
      BY <1>2, <2>1, <2>2 DEF Sound, RunRecord, RunPcs, MaySend
    <3>2. run' = [run EXCEPT ![x] = r]
      BY <1>1, <2>3
    <3> QED BY <1>3, <3>1, <3>2
  <2>5. AttT'
    <3> HIDE DEF s
    <3> QED BY <1>2, <2>1, <2>3, Assumed DEF Typed, AttT, Free, SendPcs
  <2> QED BY <2>4, <2>5, <2>6 DEF Typed, EnrT, WorldT, MailT, OpT, world, mail
<1> QED BY <1>6, <1>7, <1>8, <1>9, <1>11, <1>12, <1>13, <1>14, <1>15, <1>16, <1>17,
           <1>18, <1>19, <1>20 DEF RunStep

\* The steps of a send attempt, and losing one.
LEMMA SendStepTyped ==
    ASSUME Typed, NEW s \in Slots, SendStep(s) \/ Crash(s) \/ Timeout(s)
    PROVE  Typed'
<1>1. /\ run \in [Runs -> Sound] /\ att[s].run \in Runs /\ att[s].node \in Nodes
      /\ hold.count \in Nat /\ hold.standing \in BOOLEAN /\ level.ask \in BOOLEAN
      /\ suppressed \in BOOLEAN
  BY Assumed DEF Typed, RunT, AttT, WorldT
<1>2. [att EXCEPT ![s] = Free] \in [Slots -> [pc: SendPcs \union {"free"}, run: Runs,
          node: Nodes, ask: BOOLEAN, late: BOOLEAN, hold: Nat]]
  BY Assumed DEF Typed, AttT, Free
<1>3. ASSUME NEW pc \in {"progress", "refused"}, NEW reason \in Reasons, Return(s, pc, reason)
      PROVE  RunT' /\ AttT'
  <2> DEFINE r == run[att[s].run]
             c == IF Open(att[s].run) THEN pc ELSE "gone"
             t == [r EXCEPT !.pc = c, !.slot = NoSlot, !.reason = reason]
  <2>1. r \in Sound /\ c \in {"progress", "refused", "gone"}
    BY <1>1
  <2>2. t \in Sound
    <3> HIDE DEF r, c
    <3> QED BY <2>1, <1>3 DEF Sound, RunRecord, RunPcs, Writing, MaySend
  <2>3. \/ run' = run
        \/ run' = [run EXCEPT ![att[s].run].pc = c, ![att[s].run].slot = NoSlot,
                              ![att[s].run].reason = reason]
    BY <1>3 DEF Return
  <2>4. run' = run \/ run' = [run EXCEPT ![att[s].run] = t]
    BY <1>1, <2>3
  <2>5. RunT'
    <3> HIDE DEF t
    <3> QED BY <1>1, <2>2, <2>4 DEF RunT
  <2> QED BY <1>2, <1>3, <2>5 DEF Return, AttT
<1>4. ASSUME NEW pc \in SendPcs, Proceed(s, pc) PROVE RunT' /\ AttT'
  BY <1>4 DEF Proceed, Typed, RunT, AttT
<1>5. Retried(run[att[s].run]) \in Sound
  <2> DEFINE r == run[att[s].run]
  <2>1. r \in Sound
    BY <1>1
  <2> HIDE DEF r
  <2>2. r.tries < MaxAttempts => [r EXCEPT !.pc = "send", !.slot = NoSlot] \in Sound
    BY <2>1 DEF Sound, RunRecord, RunPcs, MaySend
  <2>3. Ended(r, "failed") \in Sound
    BY <2>1, RecordMoves DEF RunStates
  <2>4. Retried(r) \in Sound
    BY <2>2, <2>3 DEF Retried
  <2> QED BY <2>4 DEF r
<1>6. CASE Lookup(s)
  <2>1. CASE Return(s, "progress", "none")
    BY <1>3, <1>6, <2>1 DEF Lookup, Reasons, Typed, EnrT, WorldT, MailT, OpT, world, mail
  <2>2. CASE /\ att' = [att EXCEPT ![s].pc = "hold", ![s].ask = level.ask, ![s].late = suppressed,
                                   ![s].hold = IF hold.standing THEN hold.count ELSE 0]
             /\ UNCHANGED run
    <3> DEFINE h == IF hold.standing THEN hold.count ELSE 0
    <3>1. h \in Nat
      BY <1>1
    <3>2. AttT'
      <4>1. ASSUME NEW a \in BOOLEAN, NEW l \in BOOLEAN, NEW k \in Nat,
                   att' = [att EXCEPT ![s].pc = "hold", ![s].ask = a, ![s].late = l,
                                      ![s].hold = k]
            PROVE  AttT'
        <5> DEFINE b == [att[s] EXCEPT !.pc = "hold", !.ask = a, !.late = l, !.hold = k]
        <5>1. att' = [att EXCEPT ![s] = b]
          BY <4>1
        <5>2. b \in [pc: SendPcs \union {"free"}, run: Runs, node: Nodes,
                     ask: BOOLEAN, late: BOOLEAN, hold: Nat]
          <6>1. att[s] \in [pc: SendPcs \union {"free"}, run: Runs, node: Nodes,
                            ask: BOOLEAN, late: BOOLEAN, hold: Nat]
            BY DEF Typed, AttT
          <6> DEFINE t == att[s]
          <6> HIDE DEF t
          <6>2. [t EXCEPT !.pc = "hold", !.ask = a, !.late = l, !.hold = k]
                   \in [pc: SendPcs \union {"free"}, run: Runs, node: Nodes,
                        ask: BOOLEAN, late: BOOLEAN, hold: Nat]
            BY <6>1 DEF SendPcs, t
          <6> QED BY <6>2 DEF t
        <5> HIDE DEF b
        <5> QED BY <5>1, <5>2 DEF Typed, AttT
      <4>2. att' = [att EXCEPT ![s].pc = "hold", ![s].ask = level.ask,
                               ![s].late = suppressed, ![s].hold = h]
        BY <2>2
      <4> HIDE DEF h
      <4> QED BY <1>1, <3>1, <4>1, <4>2
    <3>3. RunT'
      BY <2>2 DEF Typed, RunT
    <3> QED BY <1>6, <3>2, <3>3 DEF Lookup, Typed, EnrT, WorldT, MailT, OpT, world, mail
  <2> QED BY <1>6, <2>1, <2>2 DEF Lookup
<1>7. CASE CheckHold(s) \/ CheckApproval(s) \/ CheckRails(s) \/ CheckSuppression(s)
  <2>1. \/ \E reason \in Reasons : Return(s, "refused", reason)
        \/ \E pc \in SendPcs : Proceed(s, pc)
    BY <1>7 DEF CheckHold, CheckApproval, CheckRails, CheckSuppression, Reasons, SendPcs
  <2>2. RunT' /\ AttT'
    BY <1>3, <1>4, <2>1
  <2>3. UNCHANGED <<enr, world, mail, op, faults>>
    BY <1>7 DEF CheckHold, CheckApproval, CheckRails, CheckSuppression
  <2> QED BY <2>2, <2>3 DEF Typed, EnrT, WorldT, MailT, OpT, world, mail
<1>8. CASE Deliver(s)
  <2>1. RunT' /\ AttT'
    BY <1>4, <1>8 DEF Deliver, SendPcs
  <2>2. delivered' \in [Nodes -> Nat]
    BY <1>1, <1>8 DEF Deliver, Typed, MailT
  <2> QED BY <1>8, <2>1, <2>2 DEF Deliver, Typed, EnrT, WorldT, MailT, OpT, world
<1>9. CASE Persist(s)
  <2>1. RunT' /\ AttT'
    BY <1>3, <1>9 DEF Persist, Reasons
  <2>2. messages' \in [Nodes -> Nat]
    BY <1>1, <1>9 DEF Persist, Typed, MailT
  <2> QED BY <1>9, <2>1, <2>2 DEF Persist, Typed, EnrT, WorldT, MailT, OpT, world
<1>10. CASE Crash(s) \/ Timeout(s)
  <2>1. run' = run \/ run' = [run EXCEPT ![att[s].run] = Retried(run[att[s].run])]
    BY <1>1, <1>10 DEF Crash, Timeout
  <2>2. RunT'
    BY <1>1, <1>5, <2>1 DEF RunT
  <2>3. AttT'
    BY <1>2, <1>10 DEF Crash, Timeout, Typed, AttT
  <2>4. faults' \in 0..MaxFaults /\ UNCHANGED <<enr, world, mail, op>>
    BY <1>10, Assumed DEF Crash, Timeout, Typed
  <2> QED BY <2>2, <2>3, <2>4 DEF Typed, EnrT, WorldT, MailT, OpT, world, mail
<1> QED BY <1>6, <1>7, <1>8, <1>9, <1>10 DEF SendStep

\* The steps of people.
LEMMA PeopleTyped == ASSUME Typed, People PROVE Typed'
<1>1. WorldT
  BY DEF Typed
<1>2. CASE HumanReply
  <2>1. hold' \in [standing: BOOLEAN, count: 0..MaxHolds]
    BY <1>1, <1>2, Assumed DEF HumanReply, WorldT
  <2> QED BY <1>2, <2>1 DEF HumanReply, Typed, EnrT, RunT, AttT, WorldT, MailT, OpT, mail
<1>3. CASE ResumeAda
  <2>1. hold' \in [standing: BOOLEAN, count: 0..MaxHolds]
    BY <1>1, <1>3 DEF ResumeAda, WorldT
  <2> QED BY <1>3, <2>1 DEF ResumeAda, Typed, EnrT, RunT, AttT, WorldT, MailT, OpT, mail
<1>4. CASE SetAutonomy
  <2>1. level' \in [ask: BOOLEAN, changes: 0..MaxLevels]
    BY <1>1, <1>4, Assumed DEF SetAutonomy, WorldT
  <2> QED BY <1>4, <2>1 DEF SetAutonomy, Typed, EnrT, RunT, AttT, WorldT, MailT, OpT, mail
<1>5. ASSUME NEW n \in Nodes, Decide(n, "APPROVED") \/ Decide(n, "DISMISSED") PROVE Typed'
  <2>1. approval' \in [Nodes -> Decisions]
    BY <1>1, <1>5 DEF Decide, WorldT, Decisions
  <2>2. UNCHANGED <<enr, run, att, hold, suppressed, level, mail, op, faults>>
    BY <1>5 DEF Decide
  <2> QED BY <2>1, <2>2 DEF Typed, EnrT, RunT, AttT, WorldT, MailT, OpT, mail
<1> QED BY <1>2, <1>3, <1>4, <1>5 DEF People

\* Ops only write the row, the suppression, runs and their own progress.
LEMMA OpAndRow ==
    ASSUME Typed, RunT', EnrT', OpT', suppressed' \in BOOLEAN, faults' \in 0..MaxFaults,
           UNCHANGED <<att, hold, level, approval, mail>>
    PROVE  Typed'
  BY DEF Typed, AttT, WorldT, MailT, mail

\* The steps of what reaches the enrollment from outside.
LEMMA OpStepTyped ==
    ASSUME Typed, NEW o \in Ops, OpStep(o) \/ CancelFails(o) \/ Redeliver(o)
    PROVE  Typed'
<1>1. /\ run \in [Runs -> Sound] /\ enr.wf \in Ids /\ op[o].wf \in Ids
      /\ MoveId[o] \in Ids /\ Target[o] \in Nodes /\ Id[First] \in Ids
      /\ Intent[o] \in Intents
  BY Assumed DEF Typed, RunT, EnrT, OpT, Ids
<1>2. OpKind[o] \in OpKinds
  BY Assumed
<1>3. ASSUME NEW pc \in OpPcs, OpGoto(o, pc) PROVE OpT'
  BY <1>3 DEF OpGoto, Typed, OpT
<1>4. ASSUME enr' = enr PROVE EnrT'
  BY <1>4 DEF Typed, EnrT
<1>5. ASSUME run' = run PROVE RunT'
  BY <1>5 DEF Typed, RunT
<1>6. suppressed \in BOOLEAN /\ faults \in 0..MaxFaults
  BY DEF Typed, WorldT
<1>7. AfterCancel(o) \in OpPcs /\ AfterFailedCancel(o) \in OpPcs
  BY DEF AfterCancel, AfterFailedCancel, OpPcs
<1>8. ASSUME NEW id, NEW n \in Nodes, StartUnder(id, n) PROVE RunT'
  <2> DEFINE fresh == {x \in Runs : Id[x] = id /\ run[x].state = "unstarted"}
             f     == CHOOSE x \in fresh : TRUE
  <2>1. CASE LiveUnder(id) # {}
    BY <1>5, <1>8, <2>1 DEF StartUnder
  <2>2. CASE LiveUnder(id) = {}
    <3>1. fresh # {} /\ run' = [run EXCEPT ![f] = Started(@, n)]
      BY <1>8, <2>2 DEF StartUnder
    <3>2. f \in Runs
      BY <3>1
    <3>3. [run[f] EXCEPT !.state = "open"] \in Sound
      <4> HIDE DEF f
      <4>1. run[f] \in Sound
        BY <1>1, <3>2
      <4> QED BY <4>1 DEF Sound, RunRecord, RunStates
    <3>4. Started(run[f], n) \in Sound
      BY <3>3, RecordMoves DEF Started
    <3> HIDE DEF f, fresh
    <3> QED BY <1>1, <3>1, <3>2, <3>4 DEF RunT
  <2> QED BY <2>1, <2>2
<1>9. CASE Evaluate(o) \/ RecordRuleRun(o)
  <2>1. OpT' /\ UNCHANGED <<enr, run, att, world, mail, faults>>
    BY <1>3, <1>9 DEF Evaluate, RecordRuleRun, OpPcs
  <2> QED BY <1>4, <1>5, <1>6, <2>1, OpAndRow DEF world
<1>10. CASE ApplyStop(o)
  <2>1. OpT' /\ suppressed' \in BOOLEAN
    BY <1>3, <1>6, <1>10 DEF ApplyStop, OpPcs
  <2>2. EnrT'
    BY <1>10 DEF ApplyStop, OpAt, Typed, EnrT, Statuses
  <2> QED BY <1>5, <1>6, <1>10, <2>1, <2>2, OpAndRow DEF ApplyStop
<1>11. CASE ApplyUnsubscribe(o)
  <2>1. OpT' /\ EnrT'
    BY <1>1, <1>11 DEF ApplyUnsubscribe, Typed, OpT, EnrT, OpPcs, Statuses
  <2> QED BY <1>5, <1>6, <1>11, <2>1, OpAndRow DEF ApplyUnsubscribe
<1>12. CASE BulkUnsubscribe(o)
  <2>1. OpT'
    BY <1>3, <1>12 DEF BulkUnsubscribe, OpPcs
  <2>2. EnrT'
    BY <1>12 DEF BulkUnsubscribe, Typed, EnrT, Statuses
  <2> QED BY <1>5, <1>6, <1>12, <2>1, <2>2, OpAndRow DEF BulkUnsubscribe
<1>13. CASE ReadWorkflowId(o)
  <2>1. OpT'
    BY <1>1, <1>13 DEF ReadWorkflowId, Typed, OpT, OpPcs
  <2> QED BY <1>4, <1>5, <1>6, <1>13, <2>1, OpAndRow DEF ReadWorkflowId, world
<1>14. CASE CancelRun(o)
  <2>1. ASSUME NEW r \in Sound PROVE [r EXCEPT !.state = "closing"] \in Sound
    BY <2>1 DEF Sound, RunRecord, RunStates
  <2>2. RunT'
    BY <1>1, <1>14, <2>1 DEF CancelRun, RunT
  <2>3. OpT'
    BY <1>3, <1>7, <1>14 DEF CancelRun
  <2> QED BY <1>4, <1>6, <1>14, <2>2, <2>3, OpAndRow DEF CancelRun, world
<1>15. CASE StartMoved(o)
  <2>1. RunT' /\ OpT'
    BY <1>1, <1>3, <1>8, <1>15 DEF StartMoved, OpPcs
  <2> QED BY <1>4, <1>6, <1>15, <2>1, OpAndRow DEF StartMoved, world
<1>16. CASE Adopt(o)
  <2>1. OpT' /\ EnrT'
    BY <1>1, <1>3, <1>16 DEF Adopt, EnrT, Statuses, OpPcs
  <2> QED BY <1>5, <1>6, <1>16, <2>1, OpAndRow DEF Adopt, world
<1>17. CASE Signal(o)
  <2>1. ASSUME NEW r \in Sound PROVE [r EXCEPT !.inbox = Append(@, Intent[o])] \in Sound
    <3>1. Append(r.inbox, Intent[o]) \in Seq(Intents)
      BY <1>1, <2>1 DEF Sound, RunRecord
    <3> QED BY <2>1, <3>1 DEF Sound, RunRecord
  <2>2. RunT'
    BY <1>1, <1>17, <2>1 DEF Signal, RunT
  <2>3. OpT'
    BY <1>3, <1>17 DEF Signal, OpPcs
  <2> QED BY <1>4, <1>6, <1>17, <2>2, <2>3, OpAndRow DEF Signal, world
<1>18. CASE Reenroll(o)
  <2>1. RunT' /\ OpT'
    BY <1>3, <1>8, <1>18, Assumed DEF Reenroll, OpPcs
  <2> QED BY <1>4, <1>6, <1>18, <2>1, OpAndRow DEF Reenroll, world
<1>19. CASE CancelFails(o) \/ Redeliver(o)
  <2>1. OpT' /\ faults' \in 0..MaxFaults /\ UNCHANGED <<enr, run, att, world, mail>>
    BY <1>3, <1>6, <1>7, <1>19, Assumed DEF CancelFails, Redeliver, OpPcs
  <2> QED BY <1>4, <1>5, <1>6, <2>1, OpAndRow DEF world
<1> QED BY <1>9, <1>10, <1>11, <1>12, <1>13, <1>14, <1>15, <1>16, <1>17, <1>18, <1>19 DEF OpStep

\* Typed is inductive.
LEMMA TypedStep == Typed /\ [Next]_vars => Typed'
<1> SUFFICES ASSUME Typed, [Next]_vars PROVE Typed'
  OBVIOUS
<1>1. CASE UNCHANGED vars
  BY <1>1 DEF vars, world, mail, Typed, EnrT, RunT, AttT, WorldT, MailT, OpT
<1> QED BY <1>1, RunStepTyped, SendStepTyped, OpStepTyped, PeopleTyped DEF Next

\* Every variable stays well formed; no run schedules more attempts than allowed.
THEOREM Typing == Spec => []TypeOK
  BY TypeInit, TypedStep, TypedImplies, PTL DEF Spec

-----------------------------------------------------------------------------
(* No send past a standing stop.  What an attempt remembers of the stops it   *)
(* began under is compared, call by call, with what has become of them.       *)

PastHold == {"approval", "rails", "suppression", "transport"}
PastApproval == {"rails", "suppression", "transport"}

StopsOf(a) ==
    /\ a.late => suppressed
    /\ a.hold <= hold.count
    /\ a.pc \in PastHold => ~(hold.standing /\ a.hold = hold.count)
    /\ a.pc \in PastApproval => (a.ask => approval[a.node] = "APPROVED")
    /\ a.pc = "transport" => ~a.late

Stops == \A s \in Slots : StopsOf(att[s])

\* The stops seen from outside the attempt: no hold appears, a suppression and
\* an approval stay.
Steady == /\ hold' = hold
          /\ suppressed => suppressed'
          /\ \A n \in Nodes : approval[n] = "APPROVED" => approval'[n] = "APPROVED"

\* A step that leaves a slot alone keeps what it remembers true.
LEMMA StopsKept ==
    ASSUME Typed, Steady, NEW s \in Slots, StopsOf(att[s]), att'[s] = att[s]
    PROVE  StopsOf(att[s])'
<1>1. att[s].node \in Nodes
  BY DEF Typed, AttT
<1> QED BY <1>1 DEF StopsOf, Steady

\* An attempt that stands for a transport call passed every stop.
LEMMA StopsSend ==
    ASSUME Typed, Stops, NEW s \in Slots, SendStep(s) \/ Crash(s) \/ Timeout(s)
    PROVE  Stops'
<1>1. Steady /\ UNCHANGED <<suppressed, approval>>
  BY DEF SendStep, Lookup, CheckHold, CheckApproval, CheckRails, CheckSuppression, Deliver,
         Persist, Crash, Timeout, Steady, world
<1>2. \A q \in Slots \ {s} : att'[q] = att[q]
  BY DEF SendStep, Lookup, CheckHold, CheckApproval, CheckRails, CheckSuppression, Deliver,
         Persist, Crash, Timeout, Return, Proceed, Typed, AttT
<1>3. StopsOf(att[s])
  BY DEF Stops
<1>4. att[s] \in [pc: SendPcs \union {"free"}, run: Runs, node: Nodes,
                  ask: BOOLEAN, late: BOOLEAN, hold: Nat] /\ s \in DOMAIN att
  BY DEF Typed, AttT
<1>5. hold.count \in Nat /\ hold.standing \in BOOLEAN
  BY Assumed DEF Typed, WorldT
<1>6. ASSUME att'[s] = Free PROVE StopsOf(att[s])'
  BY <1>5, <1>6, <1>1 DEF StopsOf, Free, Steady, PastHold, PastApproval
<1>7. ASSUME NEW pc, NEW reason, Return(s, pc, reason) PROVE StopsOf(att[s])'
  BY <1>4, <1>6, <1>7 DEF Return
<1>8. ASSUME NEW pc \in SendPcs, Proceed(s, pc),
             pc \in PastHold => ~(hold.standing /\ att[s].hold = hold.count),
             pc \in PastApproval => (att[s].ask => approval[att[s].node] = "APPROVED"),
             pc = "transport" => ~att[s].late
      PROVE  StopsOf(att[s])'
  <2>1. att'[s] = [att[s] EXCEPT !.pc = pc]
    BY <1>4, <1>8 DEF Proceed
  <2>2. /\ att'[s].pc = pc /\ att'[s].late = att[s].late /\ att'[s].hold = att[s].hold
        /\ att'[s].ask = att[s].ask /\ att'[s].node = att[s].node
    BY <1>4, <2>1
  <2> QED BY <1>1, <1>3, <1>8, <2>2 DEF StopsOf, Steady
<1>18. \A q \in Slots \ {s} : StopsOf(att[q])'
  BY <1>1, <1>2, StopsKept DEF Stops
<1> SUFFICES StopsOf(att[s])'
  BY <1>18 DEF Stops
<1>9. CASE Lookup(s)
  <2> DEFINE h == IF hold.standing THEN hold.count ELSE 0
  <2>1. CASE Return(s, "progress", "none")
    BY <1>7, <2>1
  <2>2. CASE att' = [att EXCEPT ![s].pc = "hold", ![s].ask = level.ask, ![s].late = suppressed,
                                ![s].hold = h]
    <3>1. att'[s].pc = "hold" /\ att'[s].late = suppressed /\ att'[s].hold = h
      BY <1>4, <2>2
    <3>2. h <= hold.count
      BY <1>5
    <3> QED BY <1>1, <3>1, <3>2 DEF StopsOf, Steady, PastHold, PastApproval
  <2> QED BY <1>9, <2>1, <2>2 DEF Lookup
<1>10. CASE CheckHold(s)
  <2>1. Return(s, "refused", "ENROLLMENT_HELD") \/ (~hold.standing /\ Proceed(s, "approval"))
    BY <1>10 DEF CheckHold
  <2> QED BY <1>7, <1>8, <2>1 DEF SendPcs, PastApproval
<1>11. CASE CheckApproval(s)
  <2>1. /\ att[s].pc = "approval"
        /\ \/ Return(s, "refused", "APPROVAL_REQUIRED")
           \/ Proceed(s, "rails") /\ (att[s].ask => approval[att[s].node] = "APPROVED")
    BY <1>11 DEF CheckApproval, AtSend
  <2>2. ~(hold.standing /\ att[s].hold = hold.count)
    BY <1>3, <2>1 DEF StopsOf, PastHold
  <2> QED BY <1>7, <1>8, <2>1, <2>2 DEF SendPcs
<1>12. CASE CheckRails(s)
  <2>1. /\ att[s].pc = "rails"
        /\ Return(s, "refused", "OTHER") \/ Proceed(s, "suppression")
    BY <1>12 DEF CheckRails, AtSend
  <2>2. /\ ~(hold.standing /\ att[s].hold = hold.count)
        /\ att[s].ask => approval[att[s].node] = "APPROVED"
    BY <1>3, <2>1 DEF StopsOf, PastHold, PastApproval
  <2> QED BY <1>7, <1>8, <2>1, <2>2 DEF SendPcs
<1>13. CASE CheckSuppression(s)
  <2>1. /\ att[s].pc = "suppression"
        /\ Return(s, "refused", "SUPPRESSED") \/ (~suppressed /\ Proceed(s, "transport"))
    BY <1>13 DEF CheckSuppression, AtSend
  <2>2. /\ ~(hold.standing /\ att[s].hold = hold.count)
        /\ att[s].ask => approval[att[s].node] = "APPROVED"
        /\ att[s].late => suppressed
    BY <1>3, <2>1 DEF StopsOf, PastHold, PastApproval
  <2> QED BY <1>7, <1>8, <2>1, <2>2 DEF SendPcs
<1>14. CASE Deliver(s)
  BY <1>8, <1>14 DEF Deliver, SendPcs, PastHold, PastApproval
<1>15. CASE Persist(s)
  BY <1>7, <1>15 DEF Persist
<1>16. CASE Crash(s)
  BY <1>4, <1>6, <1>16 DEF Crash
<1>17. CASE Timeout(s)
  <2>1. att' = att
    BY <1>17 DEF Timeout
  <2> QED BY <1>1, <1>3, <2>1, StopsKept
<1> QED BY <1>9, <1>10, <1>11, <1>12, <1>13, <1>14, <1>15, <1>16, <1>17 DEF SendStep

\* Stops is inductive.
LEMMA StopsStep == Typed /\ Stops /\ [Next]_vars => Stops'
<1> SUFFICES ASSUME Typed, Stops, [Next]_vars PROVE Stops'
  OBVIOUS
<1>1. ASSUME Steady, att' = att PROVE Stops'
  BY <1>1, StopsKept DEF Stops
<1>2. ASSUME NEW x \in Runs, StartSend(x) PROVE Stops'
  <2> DEFINE a == [Free EXCEPT !.pc = "lookup", !.run = x, !.node = run[x].node]
  <2>1. PICK s \in Slots : att' = [att EXCEPT ![s] = a] /\ UNCHANGED world
    BY <1>2 DEF StartSend
  <2>2. Steady /\ UNCHANGED <<suppressed, approval>>
    BY <2>1 DEF Steady, world
  <2>3. att'[s] = a /\ a.pc = "lookup" /\ ~a.late /\ a.hold = 0
    BY <2>1 DEF Typed, AttT, Free
  <2> HIDE DEF a
  <2>4. hold.count \in Nat
    BY Assumed DEF Typed, WorldT
  <2>5. StopsOf(att[s])'
    BY <2>2, <2>3, <2>4 DEF StopsOf, Steady, PastHold, PastApproval
  <2>6. \A q \in Slots \ {s} : att'[q] = att[q]
    BY <2>1 DEF Typed, AttT
  <2>7. \A q \in Slots \ {s} : StopsOf(att[q])'
    BY <2>2, <2>6, StopsKept DEF Stops
  <2> QED BY <2>5, <2>7 DEF Stops
<1>3. ASSUME NEW x \in Runs, PollApproval(x) PROVE Stops'
  <2>1. Steady
    BY <1>3 DEF PollApproval, Steady, Typed, WorldT
  <2>2. att' = att
    BY <1>3 DEF PollApproval
  <2> QED BY <1>1, <2>1, <2>2
<1>4. ASSUME NEW x \in Runs,
             \/ PollHold(x) \/ RecordBlocked(x) \/ UpdateProgress(x) \/ Wake(x) \/ TakeReply(x)
             \/ GoOnWithoutReply(x) \/ RecordRoute(x) \/ RecordAction(x) \/ Complete(x)
             \/ Close(x) \/ Abandon(x) \/ GiveUp(x)
      PROVE  Stops'
  BY <1>1, <1>4 DEF PollHold, RecordBlocked, UpdateProgress, Wake, TakeReply, GoOnWithoutReply,
         RecordRoute, RecordAction, Complete, Close, Abandon, GiveUp, Steady, world
<1>5. ASSUME NEW o \in Ops, OpStep(o) \/ CancelFails(o) \/ Redeliver(o) PROVE Stops'
  <2>1. UNCHANGED <<att, hold, approval>>
    BY <1>5 DEF OpStep, Evaluate, ApplyStop, ApplyUnsubscribe, BulkUnsubscribe, ReadWorkflowId,
         CancelRun, StartMoved, Adopt, RecordRuleRun, Signal, Reenroll, CancelFails, Redeliver,
         world
  <2>2. CASE ApplyStop(o) \/ ApplyUnsubscribe(o) \/ BulkUnsubscribe(o)
    <3>1. suppressed => suppressed'
      BY <2>2, Zenon DEF ApplyStop, ApplyUnsubscribe, BulkUnsubscribe
    <3> QED BY <1>1, <2>1, <3>1 DEF Steady
  <2>3. CASE suppressed' = suppressed
    BY <1>1, <2>1, <2>3 DEF Steady
  <2>4. ApplyStop(o) \/ ApplyUnsubscribe(o) \/ BulkUnsubscribe(o) \/ suppressed' = suppressed
    BY <1>5 DEF OpStep, Evaluate, ReadWorkflowId, CancelRun, StartMoved, Adopt, RecordRuleRun,
         Signal, Reenroll, CancelFails, Redeliver, world
  <2> QED BY <2>2, <2>3, <2>4
<1>6. CASE People
  <2>1. CASE HumanReply
    <3>1. /\ hold'.count = hold.count + 1 /\ hold.count \in Nat
          /\ UNCHANGED <<att, suppressed, approval>>
      BY <2>1, Assumed DEF HumanReply, Typed, WorldT
    <3>2. \A s \in Slots : att[s].hold \in Nat
      BY DEF Typed, AttT
    <3> QED BY <3>1, <3>2 DEF Stops, StopsOf
  <2>2. CASE ResumeAda
    <3>1. /\ hold'.count = hold.count /\ ~hold'.standing
          /\ UNCHANGED <<att, suppressed, approval>>
      BY <2>2 DEF ResumeAda, Typed, WorldT
    <3> QED BY <3>1 DEF Stops, StopsOf
  <2>3. CASE SetAutonomy
    BY <1>1, <2>3 DEF SetAutonomy, Steady
  <2>4. ASSUME NEW n \in Nodes, Decide(n, "APPROVED") \/ Decide(n, "DISMISSED") PROVE Stops'
    <3>1. Steady
      BY <2>4 DEF Decide, Steady, Typed, WorldT
    <3> QED BY <1>1, <2>4, <3>1 DEF Decide
  <2> QED BY <1>6, <2>1, <2>2, <2>3, <2>4 DEF People
<1>7. CASE UNCHANGED vars
  BY <1>1, <1>7 DEF vars, world, Steady
<1> QED BY <1>2, <1>3, <1>4, <1>5, <1>6, <1>7, StopsSend DEF Next, RunStep

\* No send reaches the transport past a suppression, a hold or a missing tap
\* that stood when the attempt began and still stands.
THEOREM StopsHold == Spec => StandingStopsHold
<1> DEFINE Passed == \A s \in Slots : (att[s].pc = "transport" /\ att'[s].pc = "persist") =>
                        /\ ~att[s].late
                        /\ ~(hold.standing /\ att[s].hold = hold.count)
                        /\ att[s].ask => approval[att[s].node] = "APPROVED"
<1>1. Init => Stops
  <2> SUFFICES ASSUME Init PROVE Stops
    OBVIOUS
  <2>1. Typed /\ \A s \in Slots : att[s] = Free
    BY TypeInit DEF Init
  <2>2. hold.count \in Nat
    BY <2>1, Assumed DEF Typed, WorldT
  <2>3. StopsOf(Free)
    BY <2>2 DEF StopsOf, Free, PastHold, PastApproval
  <2> QED BY <2>1, <2>3 DEF Stops
<1>2. Stops => Passed
  BY DEF Stops, StopsOf, PastHold, PastApproval
<1>3. Stops /\ [Next]_vars => [Passed]_vars
  BY <1>2
<1> HIDE DEF Passed
<1>4. Spec => [][Passed]_vars
  BY <1>1, <1>3, TypeInit, TypedStep, StopsStep, PTL DEF Spec
<1> QED BY <1>4 DEF Passed, StandingStopsHold

-----------------------------------------------------------------------------
(* What one step does to the runs, seen from the properties below: which run  *)
(* it touches, whether that run stays live, and how it is closed.             *)

\* The steps of a run that neither schedule a send nor close it on request.
Walk(x) ==
    \/ PollHold(x) \/ PollApproval(x) \/ RecordBlocked(x) \/ UpdateProgress(x) \/ Wake(x)
    \/ TakeReply(x) \/ GoOnWithoutReply(x) \/ RecordRoute(x) \/ RecordAction(x) \/ Complete(x)
    \/ Abandon(x) \/ GiveUp(x)

\* From r to t: no send is awaited in t, and a slot is at most given back.
GoesOn(r, t) == t.pc # "sending" /\ t.slot \in {r.slot, NoSlot}

\* What a step of the walk is to the rest: its own run alone moves, one that is
\* not open stays as it is, and an open one that closes without having stopped
\* or failed has taken the status away from ACTIVE.
WalkFrame(x) ==
    /\ \A y \in Runs \ {x} : run'[y] = run[y]
    /\ Live(x) => run[x].pc # "sending" /\ GoesOn(run[x], run'[x])
    /\ ~Open(x) => run'[x].state = run[x].state
    /\ Open(x) => \/ run'[x].state \in {"open", "stopped", "failed"}
                  \/ run'[x].state \in {"completed", "blocked"} /\ enr'.status # "ACTIVE"

\* Arriving at a node awaits no send.
LEMMA ArrivedGoesOn ==
    ASSUME NEW r \in RunRecord, NEW n \in Nodes \union {NoNode}
    PROVE  GoesOn(r, Arrived(r, n)) /\ Arrived(r, n).state = r.state
<1>1. CASE n = NoNode
  BY <1>1 DEF Arrived, GoesOn, RunRecord
<1>2. CASE n # NoNode
  <2>1. FirstCall[Kind[n]] \in RunPcs \ {"sending"}
    BY <1>2, Assumed DEF FirstCall, NodeKinds, RunPcs, Writing
  <2> DEFINE pc == FirstCall[Kind[n]]
  <2>2. Arrived(r, n) = [r EXCEPT !.node = n, !.pc = pc, !.tries = 0]
    BY <1>2 DEF Arrived
  <2>3. pc # "sending"
    BY <2>1
  <2> HIDE DEF pc
  <2> QED BY <2>2, <2>3 DEF GoesOn, RunRecord
<1> QED BY <1>1, <1>2

\* A call's result, seen from the runs.
LEMMA ResumeFrame ==
    ASSUME RunT, NEW x \in Runs, NEW r, Resume(x, r)
    PROVE  /\ \A y \in Runs \ {x} : run'[y] = run[y]
           /\ Open(x) => run'[x] = r
           /\ ~Open(x) => run'[x].state = run[x].state /\ GoesOn(run[x], run'[x])
<1>1. run[x] \in RunRecord /\ DOMAIN run = Runs
  BY DEF RunT, Sound
<1>2. CASE Open(x)
  BY <1>1, <1>2 DEF Resume
<1>3. CASE ~Open(x)
  <2>1. run' = [run EXCEPT ![x] = [run[x] EXCEPT !.pc = "gone"]]
    BY <1>1, <1>3 DEF Resume
  <2> QED BY <1>1, <1>3, <2>1 DEF RunRecord, GoesOn
<1> QED BY <1>2, <1>3

\* An open run's own step, whatever record it leaves.
LEMMA OwnStep ==
    ASSUME Typed, NEW x \in Runs, NEW r, GoesOn(run[x], r), run[x].pc # "sending",
           Resume(x, r) \/ (Open(x) /\ run' = [run EXCEPT ![x] = r]),
           \/ r.state \in {"open", "stopped", "failed"}
           \/ r.state \in {"completed", "blocked"} /\ enr'.status # "ACTIVE"
           \/ ~Open(x)
    PROVE  WalkFrame(x)
<1>1. RunT /\ DOMAIN run = Runs
  BY DEF Typed, RunT
<1>2. CASE Resume(x, r)
  BY <1>1, <1>2, ResumeFrame DEF WalkFrame
<1>3. CASE Open(x) /\ run' = [run EXCEPT ![x] = r]
  BY <1>1, <1>3 DEF WalkFrame, Open
<1> QED BY <1>2, <1>3

\* Every step of the walk keeps that frame.
LEMMA WalkMoves ==
    ASSUME Typed, NEW x \in Runs, Walk(x)
    PROVE  WalkFrame(x)
<1>1. run[x] \in Sound /\ run[x] \in RunRecord /\ DOMAIN run = Runs
  BY DEF Typed, RunT, Sound
<1>2. NextAfter(run[x].node) \in Nodes \union {NoNode} /\ run[x].goto \in Nodes
  BY <1>1, NextIsNode DEF RunRecord
<1>3. Open(x) => run[x].state = "open"
  BY DEF Open
<1>4. ASSUME NEW n \in Nodes \union {NoNode}, run[x].pc # "sending",
             \/ Resume(x, Arrived(run[x], n))
             \/ Open(x) /\ run' = [run EXCEPT ![x] = Arrived(run[x], n)]
      PROVE  WalkFrame(x)
  <2>1. GoesOn(run[x], Arrived(run[x], n)) /\ (Open(x) => Arrived(run[x], n).state = "open")
    BY <1>1, <1>3, ArrivedGoesOn
  <2> QED BY <1>4, <2>1, OwnStep
<1>5. ASSUME NEW pc \in RunPcs \ {"sending"}, run[x].pc # "sending",
             \/ Resume(x, [run[x] EXCEPT !.pc = pc])
             \/ Open(x) /\ run' = [run EXCEPT ![x] = [run[x] EXCEPT !.pc = pc]]
      PROVE  WalkFrame(x)
  <2> DEFINE r == [run[x] EXCEPT !.pc = pc]
  <2>1. GoesOn(run[x], r) /\ (Open(x) => r.state = "open")
    BY <1>1, <1>3, <1>5 DEF GoesOn, RunRecord
  <2>2. Resume(x, r) \/ (Open(x) /\ run' = [run EXCEPT ![x] = r])
    BY <1>5
  <2> HIDE DEF r
  <2> QED BY <1>5, <2>1, <2>2, OwnStep
<1>6. ASSUME NEW state \in RunStates, run[x].pc # "sending",
             \/ Resume(x, Ended(run[x], state))
             \/ Open(x) /\ run' = [run EXCEPT ![x] = Ended(run[x], state)],
             \/ state \in {"stopped", "failed"}
             \/ state \in {"completed", "blocked"} /\ enr'.status # "ACTIVE"
      PROVE  WalkFrame(x)
  <2> DEFINE r == Ended(run[x], state)
  <2>1. GoesOn(run[x], r) /\ r.state = state
    BY <1>1 DEF GoesOn, RunRecord, Ended
  <2>2. Resume(x, r) \/ (Open(x) /\ run' = [run EXCEPT ![x] = r])
    BY <1>6
  <2> HIDE DEF r
  <2> QED BY <1>6, <2>1, <2>2, OwnStep
<1>7. CASE PollHold(x)
  <2>1. run' = [run EXCEPT ![x] = [run[x] EXCEPT !.pc = "ask"]]
    BY <1>1, <1>7 DEF PollHold
  <2> QED BY <1>5, <1>7, <2>1 DEF PollHold, At, RunPcs, Writing
<1>8. CASE PollApproval(x)
  <2> DEFINE refused == [run[x] EXCEPT !.pc = "refused", !.reason = "APPROVAL_DISMISSED"]
  <2>1. run[x].pc = "ask"
    BY <1>8 DEF PollApproval, At
  <2>2. \/ Resume(x, [run[x] EXCEPT !.pc = "send"]) \/ Resume(x, refused) \/ Resume(x, run[x])
    BY <1>8 DEF PollApproval
  <2>3. CASE Resume(x, [run[x] EXCEPT !.pc = "send"])
    BY <1>5, <2>1, <2>3 DEF RunPcs
  <2>4. CASE Resume(x, refused)
    <3>1. GoesOn(run[x], refused) /\ (Open(x) => refused.state = "open")
      BY <1>1, <1>3 DEF GoesOn, RunRecord
    <3> HIDE DEF refused
    <3> QED BY <2>1, <2>4, <3>1, OwnStep
  <2>5. CASE Resume(x, run[x])
    <3>1. GoesOn(run[x], run[x]) /\ (Open(x) => run[x].state = "open")
      BY <1>3, <2>1 DEF GoesOn
    <3> QED BY <2>1, <2>5, <3>1, OwnStep
  <2> QED BY <2>2, <2>3, <2>4, <2>5
<1>9. CASE RecordBlocked(x)
  <2>1. enr'.status # "ACTIVE"
    BY <1>9 DEF RecordBlocked, BlockedStatus, Typed, EnrT
  <2> QED BY <1>6, <1>9, <2>1 DEF RecordBlocked, At, RunStates
<1>10. CASE UpdateProgress(x)
  <2> DEFINE k == Kind[run[x].node]
  <2>1. k \in NodeKinds
    BY <1>1, Assumed DEF RunRecord
  <2>2. \/ Resume(x, Arrived(run[x], NextAfter(run[x].node)))
        \/ Resume(x, [run[x] EXCEPT !.pc = "asleep"])
        \/ Resume(x, [run[x] EXCEPT !.pc = "await"])
    <3> HIDE DEF k
    <3>1. Resume(x, CASE k = "send" -> Arrived(run[x], NextAfter(run[x].node))
                      [] k = "delay" -> [run[x] EXCEPT !.pc = "asleep"]
                      [] OTHER -> [run[x] EXCEPT !.pc = "await"])
      BY <1>10 DEF UpdateProgress, k
    <3>2. CASE k = "send"
      BY <3>1, <3>2
    <3>3. CASE k = "delay"
      BY <3>1, <3>3
    <3>4. CASE k # "send" /\ k # "delay"
      BY <3>1, <3>4
    <3> QED BY <3>2, <3>3, <3>4
  <2>3. run[x].pc = "progress"
    BY <1>10 DEF UpdateProgress, At
  <2> QED BY <1>2, <1>4, <1>5, <2>2, <2>3 DEF RunPcs
<1>11. CASE Wake(x)
  <2>1. run' = [run EXCEPT ![x] = Arrived(run[x], NextAfter(run[x].node))]
    BY <1>1, <1>11 DEF Wake
  <2> QED BY <1>2, <1>4, <1>11, <2>1 DEF Wake, At
<1>12. ASSUME NEW i, NEW inbox, Open(x), run[x].pc = "await", Route(x, i, inbox)
       PROVE  WalkFrame(x)
  <2>1. CASE run' = [run EXCEPT ![x] = Ended([run[x] EXCEPT !.inbox = inbox], "stopped")]
    <3> DEFINE r == Ended([run[x] EXCEPT !.inbox = inbox], "stopped")
    <3>1. GoesOn(run[x], r) /\ r.state = "stopped"
      BY <1>1 DEF GoesOn, RunRecord, Ended
    <3> HIDE DEF r
    <3> QED BY <1>12, <2>1, <3>1, OwnStep DEF r
  <2>2. ASSUME NEW c,
               run' = [run EXCEPT ![x] = [[run[x] EXCEPT !.inbox = inbox]
                                             EXCEPT !.pc = "routed", !.goto = c.goto,
                                                    !.stage = c.stage]]
        PROVE  WalkFrame(x)
    <3> DEFINE r == [[run[x] EXCEPT !.inbox = inbox]
                        EXCEPT !.pc = "routed", !.goto = c.goto, !.stage = c.stage]
    <3>1. GoesOn(run[x], r) /\ (Open(x) => r.state = "open")
      BY <1>1, <1>3 DEF GoesOn, RunRecord
    <3>2. run' = [run EXCEPT ![x] = r]
      BY <2>2
    <3> HIDE DEF r
    <3> QED BY <1>12, <3>1, <3>2, OwnStep
  <2> QED BY <1>12, <2>1, <2>2 DEF Route
<1>13. CASE TakeReply(x) \/ GoOnWithoutReply(x)
  BY <1>12, <1>13 DEF TakeReply, GoOnWithoutReply, At
<1>14. CASE RecordRoute(x)
  BY <1>2, <1>4, <1>14 DEF RecordRoute, At
<1>15. CASE RecordAction(x)
  BY <1>2, <1>4, <1>15 DEF RecordAction, At
<1>16. CASE Complete(x)
  <2>1. enr'.status # "ACTIVE"
    BY <1>16 DEF Complete, Typed, EnrT
  <2> QED BY <1>6, <1>16, <2>1 DEF Complete, At, RunStates
<1>17. CASE Abandon(x)
  <2>1. run' = [run EXCEPT ![x] = [run[x] EXCEPT !.pc = "gone"]] /\ ~Live(x) /\ ~Open(x)
    BY <1>1, <1>17 DEF Abandon, Live, Open
  <2> QED BY <1>1, <2>1 DEF WalkFrame, RunRecord
<1>18. CASE GiveUp(x)
  <2>1. Open(x) /\ run' = [run EXCEPT ![x] = Ended(run[x], "failed")] /\ run[x].pc # "sending"
    BY <1>1, <1>18 DEF GiveUp, Writing
  <2> QED BY <1>6, <2>1 DEF RunStates
<1> QED BY <1>7, <1>8, <1>9, <1>10, <1>11, <1>13, <1>14, <1>15, <1>16, <1>17, <1>18 DEF Walk

\* What a send attempt does to the runs: its own run goes on or fails, and
\* nothing but the runs and the mail is written.
LEMMA SendMoves ==
    ASSUME Typed, NEW s \in Slots, SendStep(s) \/ Crash(s) \/ Timeout(s)
    PROVE  /\ \A y \in Runs : \/ run'[y].state = run[y].state
                              \/ Live(y) /\ run'[y].state = "failed"
           /\ UNCHANGED <<enr, op>>
<1>1. run \in [Runs -> RunRecord] /\ att[s].run \in Runs
  BY DEF Typed, RunT, AttT, Sound
<1>2. ASSUME NEW pc, NEW reason, Return(s, pc, reason)
      PROVE  \A y \in Runs : run'[y].state = run[y].state
  BY <1>1, <1>2 DEF Return, RunRecord
<1>3. CASE Crash(s) \/ Timeout(s)
  <2> DEFINE r == run[att[s].run]
  <2>1. Retried(r).state = "failed" \/ Retried(r).state = r.state
    BY <1>1 DEF Retried, Ended, RunRecord
  <2>2. \/ run' = run
        \/ Live(att[s].run) /\ run' = [run EXCEPT ![att[s].run] = Retried(r)]
    BY <1>3 DEF Crash, Timeout, Awaits
  <2>3. UNCHANGED <<enr, op>>
    BY <1>3 DEF Crash, Timeout
  <2> QED BY <1>1, <2>1, <2>2, <2>3
<1>4. CASE SendStep(s)
  <2>1. run' = run \/ \E pc, reason : Return(s, pc, reason)
    BY <1>4 DEF SendStep, Lookup, CheckHold, CheckApproval, CheckRails, CheckSuppression,
           Deliver, Persist, Proceed
  <2>2. UNCHANGED <<enr, op>>
    BY <1>4 DEF SendStep, Lookup, CheckHold, CheckApproval, CheckRails, CheckSuppression,
           Deliver, Persist
  <2> QED BY <1>2, <2>1, <2>2
<1> QED BY <1>3, <1>4

\* Scheduling a send keeps its run live and every other run as it is.
LEMMA StartMoves ==
    ASSUME Typed, NEW x \in Runs, StartSend(x)
    PROVE  /\ \A y \in Runs : run'[y].state = run[y].state
           /\ UNCHANGED <<enr, op, delivered, messages, faults>>
<1>1. run \in [Runs -> RunRecord]
  BY DEF Typed, RunT, Sound
<1>2. \A y \in Runs : run'[y].state = run[y].state
  BY <1>1 DEF StartSend, RunRecord
<1> QED BY <1>2 DEF StartSend, mail

\* A run that was asked to stop closes, and nothing else changes.
LEMMA CloseMoves ==
    ASSUME Typed, NEW x \in Runs, Close(x)
    PROVE  /\ run[x].state = "closing" /\ run'[x].state = "cancelled" /\ run'[x].slot = NoSlot
           /\ \A y \in Runs \ {x} : run'[y] = run[y]
           /\ UNCHANGED <<enr, op, att, delivered, messages, faults>>
<1>1. run \in [Runs -> RunRecord]
  BY DEF Typed, RunT, Sound
<1>2. run'[x] = Cancelled(run[x]) /\ \A y \in Runs \ {x} : run'[y] = run[y]
  BY <1>1 DEF Close
<1>3. Cancelled(run[x]).state = "cancelled" /\ Cancelled(run[x]).slot = NoSlot
  BY <1>1 DEF Cancelled, RunRecord
<1> QED BY <1>2, <1>3 DEF Close, mail

\* A start leaves every live run live and closed runs closed, and makes at most
\* one fresh run live, where none of its workflow id was.
LEMMA StartUnderMoves ==
    ASSUME Typed, NEW id, NEW n \in Nodes, StartUnder(id, n)
    PROVE  \/ run' = run
           \/ \E f \in Runs : /\ LiveUnder(id) = {} /\ Id[f] = id
                              /\ run[f].state = "unstarted"
                              /\ run' = [run EXCEPT ![f] = Started(@, n)]
                              /\ run'[f].state = "open" /\ GoesOn(run[f], run'[f])
                              /\ \A y \in Runs \ {f} : run'[y] = run[y]
<1>1. run \in [Runs -> RunRecord]
  BY DEF Typed, RunT, Sound
<1>2. CASE LiveUnder(id) = {}
  <2> DEFINE fresh == {x \in Runs : Id[x] = id /\ run[x].state = "unstarted"}
             f     == CHOOSE x \in fresh : TRUE
  <2>1. fresh # {} /\ run' = [run EXCEPT ![f] = Started(@, n)]
    BY <1>2 DEF StartUnder
  <2>2. f \in Runs /\ Id[f] = id /\ run[f].state = "unstarted"
    BY <2>1
  <2> HIDE DEF f, fresh
  <2>3. [run[f] EXCEPT !.state = "open"] \in RunRecord
    BY <1>1, <2>2 DEF RunRecord, RunStates
  <2>4. /\ Started(run[f], n).state = "open"
        /\ GoesOn(run[f], Started(run[f], n))
    <3> DEFINE o == [run[f] EXCEPT !.state = "open"]
    <3>1. o \in RunRecord /\ o.state = "open" /\ o.slot = run[f].slot
      BY <1>1, <2>2, <2>3 DEF RunRecord
    <3>2. Started(run[f], n) = Arrived(o, n)
      BY DEF Started
    <3> HIDE DEF o
    <3>3. GoesOn(o, Arrived(o, n)) /\ Arrived(o, n).state = o.state
      BY <3>1, ArrivedGoesOn
    <3> QED BY <3>1, <3>2, <3>3 DEF GoesOn
  <2>5. run'[f] = Started(run[f], n) /\ \A y \in Runs \ {f} : run'[y] = run[y]
    BY <1>1, <2>1, <2>2
  <2> QED BY <1>2, <2>1, <2>2, <2>4, <2>5
<1> QED BY <1>2 DEF StartUnder

-----------------------------------------------------------------------------
(* No lead is ACTIVE and forgotten, where no rule moves the enrollment: the   *)
(* status is never made ACTIVE again, and whoever cancels a run has taken it  *)
(* away from ACTIVE before.                                                   *)

Unmoved == \A o \in Ops : OpKind[o] # "move"

Watched(x) == run[x].state \in {"open", "stopped", "failed"}

Remembered ==
    /\ enr.status = "ACTIVE" => \E x \in Runs : Watched(x)
    /\ \A o \in Ops : op[o].pc \in {"read", "cancel"} => enr.status # "ACTIVE"

\* A step that cancels nothing, and sets no op to read or cancel, keeps it.
LEMMA RememberedKept ==
    ASSUME Remembered, op' = op, enr'.status = "ACTIVE" => enr.status = "ACTIVE",
           enr'.status = "ACTIVE" => \A x \in Runs : Watched(x) => Watched(x)'
    PROVE  Remembered'
  BY DEF Remembered

\* A run's step either keeps it live, stops or fails it, or ends the enrollment.
LEMMA RememberedWalk ==
    ASSUME Typed, Remembered, NEW x \in Runs, Walk(x)
    PROVE  Remembered'
<1>1. WalkFrame(x)
  BY WalkMoves
<1>2. op' = op /\ (enr'.status = "ACTIVE" => enr.status = "ACTIVE")
  <2>1. CASE \/ PollHold(x) \/ PollApproval(x) \/ Wake(x) \/ TakeReply(x)
             \/ GoOnWithoutReply(x) \/ RecordAction(x) \/ Abandon(x) \/ GiveUp(x)
    BY <2>1 DEF PollHold, PollApproval, Wake, TakeReply, GoOnWithoutReply, RecordAction,
           Abandon, GiveUp
  <2>2. CASE UpdateProgress(x) \/ RecordRoute(x)
    BY <2>2 DEF UpdateProgress, RecordRoute, Typed, EnrT
  <2>3. CASE RecordBlocked(x) \/ Complete(x)
    BY <2>3 DEF RecordBlocked, BlockedStatus, Complete, Typed, EnrT
  <2> QED BY <2>1, <2>2, <2>3 DEF Walk
<1>3. ASSUME enr'.status = "ACTIVE", NEW y \in Runs, Watched(y) PROVE Watched(y)'
  BY <1>1, <1>3 DEF WalkFrame, Watched, Open
<1> QED BY <1>2, <1>3, RememberedKept

\* What reaches the enrollment from outside takes the status away from ACTIVE
\* before it cancels.
LEMMA RememberedOp ==
    ASSUME Unmoved, Typed, Remembered, NEW o \in Ops, OpStep(o) \/ CancelFails(o) \/ Redeliver(o)
    PROVE  Remembered'
<1>1. run \in [Runs -> RunRecord] /\ op \in [Ops -> [pc: OpPcs, wf: Ids]]
      /\ OpKind[o] \in OpKinds /\ OpKind[o] # "move"
  BY Assumed DEF Typed, RunT, Sound, OpT, Unmoved
<1>2. \A q \in Ops \ {o} : op'[q] = op[q]
  BY <1>1 DEF OpStep, Evaluate, ApplyStop, ApplyUnsubscribe, BulkUnsubscribe, ReadWorkflowId,
     CancelRun, StartMoved, Adopt, RecordRuleRun, Signal, Reenroll, CancelFails, Redeliver, OpGoto
<1>3. ASSUME enr' = enr, op'[o].pc \in {"read", "cancel"} => enr.status # "ACTIVE",
             \A x \in Runs : Watched(x) => Watched(x)'
      PROVE  Remembered'
  BY <1>2, <1>3 DEF Remembered
<1>4. ASSUME enr'.status # "ACTIVE" PROVE Remembered'
  BY <1>4 DEF Remembered
<1>5. ASSUME NEW pc, OpGoto(o, pc) PROVE op'[o].pc = pc
  BY <1>1, <1>5 DEF OpGoto
<1>6. ASSUME run' = run PROVE \A x \in Runs : Watched(x) => Watched(x)'
  BY <1>6 DEF Watched
<1>7. CASE Evaluate(o) \/ RecordRuleRun(o)
  <2>1. enr' = enr /\ run' = run /\ \E pc \in {"assemble", "apply", "done"} : OpGoto(o, pc)
    BY <1>7 DEF Evaluate, RecordRuleRun
  <2> QED BY <1>3, <1>5, <1>6, <2>1
<1>8. CASE ApplyStop(o)
  <2>1. enr'.status # "ACTIVE"
    BY <1>8 DEF ApplyStop, OpAt, Typed, EnrT
  <2> QED BY <1>4, <2>1
<1>9. CASE ApplyUnsubscribe(o)
  <2>1. enr'.status # "ACTIVE"
    BY <1>9 DEF ApplyUnsubscribe, Typed, EnrT
  <2> QED BY <1>4, <2>1
<1>10. CASE BulkUnsubscribe(o)
  <2>1. CASE enr.status = "ACTIVE"
    <3>1. enr'.status # "ACTIVE"
      BY <1>10, <2>1 DEF BulkUnsubscribe, Typed, EnrT
    <3> QED BY <1>4, <3>1
  <2>2. CASE enr.status # "ACTIVE"
    <3>1. enr'.status # "ACTIVE"
      BY <1>10, <2>2 DEF BulkUnsubscribe, Typed, EnrT
    <3> QED BY <1>4, <3>1
  <2> QED BY <2>1, <2>2
<1>11. CASE ReadWorkflowId(o)
  <2>1. enr' = enr /\ run' = run
    BY <1>11 DEF ReadWorkflowId
  <2>2. op'[o].pc = "signal" \/ op[o].pc = "read"
    BY <1>1, <1>11 DEF ReadWorkflowId, OpAt
  <2>3. op[o].pc = "read" => enr.status # "ACTIVE"
    BY DEF Remembered
  <2>4. op'[o].pc \in {"read", "cancel"} => enr.status # "ACTIVE"
    BY <2>2, <2>3
  <2> QED BY <1>3, <1>6, <2>1, <2>4
<1>12. CASE CancelRun(o)
  <2>1. op[o].pc = "cancel" /\ enr' = enr
    BY <1>12 DEF CancelRun
  <2>2. enr'.status # "ACTIVE"
    BY <2>1 DEF Remembered
  <2> QED BY <1>4, <2>2
<1>13. CASE CancelFails(o) \/ Redeliver(o)
  <2>1. enr' = enr /\ run' = run /\ \E pc \in {"record", "done", "idle"} : OpGoto(o, pc)
    BY <1>1, <1>13 DEF CancelFails, Redeliver, AfterFailedCancel, AfterCancel
  <2> QED BY <1>3, <1>5, <1>6, <2>1
<1>14. CASE Signal(o)
  <2>1. enr' = enr /\ OpGoto(o, "done")
    BY <1>14 DEF Signal
  <2>2. \A x \in Runs : run'[x].state = run[x].state
    BY <1>1, <1>14 DEF Signal, RunRecord
  <2>3. \A x \in Runs : Watched(x) => Watched(x)'
    BY <2>2 DEF Watched
  <2> QED BY <1>3, <1>5, <2>1, <2>3
<1>15. CASE Reenroll(o)
  <2>1. enr' = enr /\ OpGoto(o, "done") /\ StartUnder(Id[First], Entry)
    BY <1>15 DEF Reenroll
  <2>2. \A x \in Runs : Watched(x) => Watched(x)'
    BY <2>1, Assumed, StartUnderMoves DEF Watched
  <2> QED BY <1>3, <1>5, <2>1, <2>2
<1>16. ~StartMoved(o) /\ ~Adopt(o)
  BY <1>1 DEF StartMoved, Adopt, OpAt
<1> QED BY <1>7, <1>8, <1>9, <1>10, <1>11, <1>12, <1>13, <1>14, <1>15, <1>16 DEF OpStep

\* Remembered is inductive.
LEMMA RememberedStep ==
    ASSUME Unmoved, Typed, Remembered, [Next]_vars
    PROVE  Remembered'
<1>1. ASSUME op' = op, enr' = enr,
             \A y \in Runs : \/ run'[y].state = run[y].state
                             \/ run'[y].state = "failed"
                             \/ run[y].state = "closing"
      PROVE  Remembered'
  BY <1>1, RememberedKept DEF Watched
<1>2. CASE People \/ UNCHANGED vars
  <2>1. UNCHANGED <<op, enr, run>>
    BY <1>2 DEF People, HumanReply, ResumeAda, SetAutonomy, Decide, vars
  <2> QED BY <1>1, <2>1
<1>3. ASSUME NEW x \in Runs, StartSend(x) PROVE Remembered'
  BY <1>1, <1>3, StartMoves
<1>4. ASSUME NEW s \in Slots, SendStep(s) \/ Crash(s) \/ Timeout(s) PROVE Remembered'
  BY <1>1, <1>4, SendMoves
<1>5. ASSUME NEW x \in Runs, RunStep(x) \/ Abandon(x) \/ GiveUp(x) PROVE Walk(x) \/ StartSend(x)
  BY <1>5 DEF RunStep, Walk
<1>6. ASSUME NEW x \in Runs, Close(x) PROVE Remembered'
  <2>1. \A y \in Runs : run'[y].state = run[y].state \/ run[y].state = "closing"
    BY <1>6, CloseMoves
  <2> QED BY <1>1, <1>6, <2>1, CloseMoves
<1> QED BY <1>2, <1>3, <1>4, <1>5, <1>6, RememberedWalk, RememberedOp DEF Next

\* Where no rule moves the enrollment, it is never ACTIVE without a live run,
\* one that found no case or one that failed: completeEnrollment,
\* recordEnrollmentBlocked and every cancel write the status first or with it.
THEOREM LeadsRemembered == ASSUME Unmoved PROVE Spec => []NoForgottenLead
<1>1. Init => Remembered
  <2> SUFFICES ASSUME Init PROVE Remembered
    OBVIOUS
  <2>1. run[First] = Started(Unstarted, Entry) /\ \A o \in Ops : op[o].pc = "idle"
    BY Assumed DEF Init
  <2>2. Unstarted \in RunRecord
    BY Assumed DEF Unstarted, RunRecord, RunStates, RunPcs, Reasons
  <2>3. [Unstarted EXCEPT !.state = "open"] \in RunRecord
        /\ [Unstarted EXCEPT !.state = "open"].state = "open"
    BY <2>2 DEF RunRecord, RunStates, Unstarted
  <2>4. run[First].state = "open"
    <3> DEFINE o == [Unstarted EXCEPT !.state = "open"]
    <3>1. run[First] = Arrived(o, Entry) /\ o \in RunRecord /\ o.state = "open"
      BY <2>1, <2>3 DEF Started
    <3> HIDE DEF o
    <3>2. Arrived(o, Entry).state = o.state
      BY <3>1, ArrivedGoesOn, Assumed
    <3> QED BY <3>1, <3>2
  <2> QED BY <2>1, <2>4, Assumed DEF Remembered, Watched
<1>2. Remembered => NoForgottenLead
  BY DEF Remembered, Watched, NoForgottenLead, Open
<1>3. Remembered /\ Typed /\ [Next]_vars => Remembered'
  BY RememberedStep
<1> QED BY <1>1, <1>2, <1>3, TypeInit, TypedStep, PTL DEF Spec

-----------------------------------------------------------------------------
(* Never two runs that both go on, where at most one event moves the          *)
(* enrollment and nobody re-enrolls it.  While a run of the enrolling was not *)
(* asked to stop the stored id is still its id, so whoever cancels has it in  *)
(* hand; a move that is past its cancel has asked it, and nothing takes that  *)
(* back.                                                                      *)

OneMove ==
    \A o \in Ops : /\ OpKind[o] # "reenroll"
                   /\ \A p \in Ops : OpKind[o] = "move" /\ OpKind[p] = "move"
                                        => MoveId[o] = MoveId[p]

\* The workflow ids there can be: the one of enrolling, and the move's.
Known(id) == id = Id[First] \/ \E o \in Ops : OpKind[o] = "move" /\ id = MoveId[o]

KnownIds ==
    /\ Known(enr.wf)
    /\ \A o \in Ops : Known(op[o].wf)
    /\ \A x \in Runs : Open(x) => Known(Id[x])

\* The runs of an id that were not asked to stop.
OpenUnder(id) == {x \in Runs : Open(x) /\ Id[x] = id}

OneEach == \A x, y \in Runs : Open(x) /\ Open(y) /\ Id[x] = Id[y] => x = y

\* The op is a move to another id that is past its cancel.
Moving(o) == OpKind[o] = "move" /\ op[o].pc \in {"start", "adopt"} /\ MoveId[o] # Id[First]

HomeFirst ==
    OpenUnder(Id[First]) # {} =>
        /\ enr.wf = Id[First]
        /\ \A o \in Ops : op[o].wf = Id[First] /\ ~Moving(o)
        /\ \A x \in Runs : Open(x) => Id[x] = Id[First]

OneInv == KnownIds /\ OneEach /\ HomeFirst

\* The invariant says what is claimed.
LEMMA OneInvSaysIt == OneMove /\ OneInv => OneRunGoesOn
<1> SUFFICES ASSUME OneMove, OneInv, NEW x \in Runs, NEW y \in Runs, Open(x), Open(y)
             PROVE  x = y
  BY DEF OneRunGoesOn
<1>1. CASE Id[x] = Id[First] \/ Id[y] = Id[First]
  <2>1. OpenUnder(Id[First]) # {}
    BY <1>1 DEF OpenUnder
  <2>2. Id[x] = Id[y]
    BY <2>1 DEF OneInv, HomeFirst
  <2> QED BY <2>2 DEF OneInv, OneEach
<1>2. CASE Id[x] # Id[First] /\ Id[y] # Id[First]
  <2>1. Id[x] = Id[y]
    BY <1>2 DEF OneInv, KnownIds, Known, OneMove
  <2> QED BY <2>1 DEF OneInv, OneEach
<1> QED BY <1>1, <1>2

\* A step that opens no run, keeps the stored id and at most gives ops an id
\* that is stored, and lets no move past its cancel, keeps it.
LEMMA OneKept ==
    ASSUME OneInv, enr'.wf = enr.wf, \A x \in Runs : Open(x)' => Open(x),
           \A o \in Ops : /\ op'[o].wf \in {op[o].wf, enr.wf, Id[First]}
                          /\ Moving(o)' => Moving(o)
    PROVE  OneInv'
<1>1. KnownIds'
  BY DEF OneInv, KnownIds, Known
<1>2. OneEach'
  BY DEF OneInv, OneEach
<1>3. HomeFirst'
  <2> SUFFICES ASSUME OpenUnder(Id[First])' # {} PROVE HomeFirst'
    BY DEF HomeFirst
  <2>1. OpenUnder(Id[First]) # {}
    BY DEF OpenUnder
  <2> QED BY <2>1 DEF OneInv, HomeFirst
<1> QED BY <1>1, <1>2, <1>3 DEF OneInv

\* Cancelling asks every live run of the id to stop, and no other.
LEMMA CancelMoves ==
    ASSUME Typed, NEW o \in Ops, CancelRun(o)
    PROVE  /\ \A x \in Runs : Open(x)' <=> Open(x) /\ Id[x] # op[o].wf
           /\ \A x \in Runs : Id[x] # op[o].wf => run'[x] = run[x]
           /\ op'[o].wf = op[o].wf /\ op'[o].pc = AfterCancel(o)
           /\ \A q \in Ops \ {o} : op'[q] = op[q]
<1>1. run \in [Runs -> RunRecord] /\ op \in [Ops -> [pc: OpPcs, wf: Ids]]
  BY DEF Typed, RunT, Sound, OpT
<1>2. \A x \in Runs : run'[x] = IF x \in LiveUnder(op[o].wf)
                                   THEN [run[x] EXCEPT !.state = "closing"] ELSE run[x]
  BY DEF CancelRun
<1>3. \A x \in Runs : [run[x] EXCEPT !.state = "closing"].state = "closing"
  BY <1>1 DEF RunRecord
<1>4. op' = [op EXCEPT ![o].pc = AfterCancel(o)]
  BY DEF CancelRun, OpGoto
<1>5. op'[o].wf = op[o].wf /\ op'[o].pc = AfterCancel(o) /\ \A q \in Ops \ {o} : op'[q] = op[q]
  BY <1>1, <1>4
<1> QED BY <1>2, <1>3, <1>5 DEF Open, Live, LiveUnder

\* What reaches the enrollment from outside.
LEMMA OneOp ==
    ASSUME OneMove, Typed, OneInv, NEW o \in Ops, OpStep(o) \/ CancelFails(o) \/ Redeliver(o)
    PROVE  OneInv'
<1>1. /\ run \in [Runs -> RunRecord] /\ op \in [Ops -> [pc: OpPcs, wf: Ids]]
      /\ OpKind[o] \in OpKinds /\ OpKind[o] # "reenroll" /\ Target[o] \in Nodes
      /\ enr \in [status: Statuses, node: Nodes \union {NoNode}, wf: Ids]
  BY Assumed DEF Typed, RunT, Sound, OpT, EnrT, OneMove
<1>2. ASSUME NEW pc, pc \notin {"start", "adopt"}, OpGoto(o, pc)
      PROVE  \A q \in Ops : op'[q].wf = op[q].wf /\ (Moving(q)' => Moving(q))
  BY <1>1, <1>2 DEF OpGoto, Moving
<1>3. ASSUME NEW pc, pc \notin {"start", "adopt"}, OpGoto(o, pc), enr'.wf = enr.wf,
             \A x \in Runs : Open(x)' => Open(x)
      PROVE  OneInv'
  BY <1>2, <1>3, OneKept
<1>4. ASSUME run' = run PROVE \A x \in Runs : Open(x)' => Open(x)
  BY <1>4 DEF Open
<1>5. CASE \/ Evaluate(o) \/ ApplyStop(o) \/ BulkUnsubscribe(o) \/ RecordRuleRun(o)
           \/ CancelFails(o) \/ Redeliver(o)
  <2>1. /\ run' = run
        /\ \E pc \in {"assemble", "apply", "read", "done", "record", "idle"} : OpGoto(o, pc)
    BY <1>1, <1>5 DEF Evaluate, ApplyStop, BulkUnsubscribe, RecordRuleRun, CancelFails, Redeliver,
           AfterFailedCancel, AfterCancel
  <2>2. enr'.wf = enr.wf
    BY <1>1, <1>5 DEF Evaluate, ApplyStop, BulkUnsubscribe, RecordRuleRun, CancelFails, Redeliver
  <2> QED BY <1>3, <1>4, <2>1, <2>2
<1>6. CASE ApplyUnsubscribe(o)
  <2>1. run' = run /\ enr'.wf = enr.wf /\ op'[o].wf = Id[First] /\ op'[o].pc = "cancel"
        /\ \A q \in Ops \ {o} : op'[q] = op[q]
    BY <1>1, <1>6 DEF ApplyUnsubscribe
  <2> QED BY <1>4, <2>1, OneKept DEF Moving
<1>7. CASE ReadWorkflowId(o)
  <2>1. run' = run /\ enr' = enr /\ op'[o].wf = enr.wf /\ op'[o].pc \in {"signal", "cancel"}
        /\ \A q \in Ops \ {o} : op'[q] = op[q]
    BY <1>1, <1>7 DEF ReadWorkflowId
  <2> QED BY <1>4, <2>1, OneKept DEF Moving
<1>8. CASE CancelRun(o)
  <2>2. enr' = enr
    BY <1>8 DEF CancelRun
  <2>3. CASE OpenUnder(Id[First]) = {}
    <3>1. OpenUnder(Id[First])' = {}
      BY <1>8, <2>3, CancelMoves DEF OpenUnder
    <3>2. HomeFirst'
      BY <3>1 DEF HomeFirst
    <3>3. OneEach'
      BY <1>8, CancelMoves DEF OneInv, OneEach
    <3>4. KnownIds'
      BY <1>8, <2>2, CancelMoves DEF OneInv, KnownIds, Known
    <3> QED BY <3>2, <3>3, <3>4 DEF OneInv
  <2>4. CASE OpenUnder(Id[First]) # {}
    <3>1. op[o].wf = Id[First] /\ \A x \in Runs : Open(x) => Id[x] = Id[First]
      BY <2>4 DEF OneInv, HomeFirst
    <3>2. \A x \in Runs : ~Open(x)'
      BY <1>8, <3>1, CancelMoves
    <3>3. HomeFirst' /\ OneEach'
      BY <3>2 DEF HomeFirst, OneEach, OpenUnder
    <3>4. KnownIds'
      BY <1>8, <2>2, <3>2, CancelMoves DEF OneInv, KnownIds, Known
    <3> QED BY <3>3, <3>4 DEF OneInv
  <2> QED BY <2>3, <2>4
<1>9. CASE StartMoved(o)
  <2>1. /\ OpKind[o] = "move" /\ op[o].pc = "start" /\ enr' = enr /\ OpGoto(o, "adopt")
        /\ StartUnder(MoveId[o], Target[o])
    BY <1>9 DEF StartMoved, OpAt
  <2>2. \A q \in Ops : op'[q].wf = op[q].wf /\ (Moving(q)' <=> Moving(q))
    BY <1>1, <2>1 DEF OpGoto, Moving
  <2>3. CASE run' = run
    BY <1>4, <2>1, <2>2, <2>3, OneKept
  <2>4. ASSUME NEW f \in Runs, LiveUnder(MoveId[o]) = {}, Id[f] = MoveId[o],
               run'[f].state = "open", \A y \in Runs \ {f} : run'[y] = run[y]
        PROVE  OneInv'
    <3>1. \A y \in Runs \ {f} : Open(y)' => Open(y) /\ Id[y] # Id[f]
      BY <2>4 DEF Open, Live, LiveUnder
    <3>2. OneEach'
      BY <3>1 DEF OneInv, OneEach
    <3>3. KnownIds'
      BY <2>1, <2>2, <2>4, <3>1 DEF OneInv, KnownIds, Known
    <3>4. CASE MoveId[o] # Id[First]
      <4>1. OpenUnder(Id[First]) = {}
        BY <2>1, <3>4 DEF OneInv, HomeFirst, Moving
      <4>2. OpenUnder(Id[First])' = {}
        BY <2>4, <3>1, <3>4, <4>1 DEF OpenUnder
      <4> QED BY <3>2, <3>3, <4>2 DEF OneInv, HomeFirst
    <3>5. CASE MoveId[o] = Id[First]
      <4>1. \A id : Known(id) => id = Id[First]
        BY <2>1, <3>5 DEF Known, OneMove
      <4>2. \A q \in Ops : ~Moving(q)'
        BY <2>1, <3>5 DEF Moving, OneMove
      <4>3. HomeFirst'
        BY <3>3, <4>1, <4>2 DEF HomeFirst, KnownIds
      <4> QED BY <3>2, <3>3, <4>3 DEF OneInv
    <3> QED BY <3>4, <3>5
  <2>5. \/ run' = run
        \/ \E f \in Runs : /\ LiveUnder(MoveId[o]) = {} /\ Id[f] = MoveId[o]
                           /\ run'[f].state = "open" /\ \A y \in Runs \ {f} : run'[y] = run[y]
    BY <1>1, <2>1, StartUnderMoves
  <2> QED BY <2>3, <2>4, <2>5
<1>10. CASE Adopt(o)
  <2>1. /\ OpKind[o] = "move" /\ op[o].pc = "adopt" /\ run' = run
        /\ OpGoto(o, "record") /\ enr'.wf = MoveId[o]
    BY <1>10 DEF Adopt, OpAt
  <2>2. \A q \in Ops : op'[q].wf = op[q].wf /\ (Moving(q)' => Moving(q))
    BY <1>2, <2>1
  <2>3. KnownIds' /\ OneEach'
    BY <2>1, <2>2 DEF OneInv, KnownIds, Known, OneEach, Open
  <2>4. CASE MoveId[o] = Id[First]
    <3>1. HomeFirst'
      BY <2>1, <2>2, <2>4 DEF OneInv, HomeFirst, OpenUnder, Open
    <3> QED BY <2>3, <3>1 DEF OneInv
  <2>5. CASE MoveId[o] # Id[First]
    <3>1. OpenUnder(Id[First]) = {}
      BY <2>1, <2>5 DEF OneInv, HomeFirst, Moving
    <3>2. HomeFirst'
      BY <2>1, <3>1 DEF HomeFirst, OpenUnder, Open
    <3> QED BY <2>3, <3>2 DEF OneInv
  <2> QED BY <2>4, <2>5
<1>11. CASE Signal(o)
  <2>1. enr' = enr /\ OpGoto(o, "done")
    BY <1>11 DEF Signal
  <2>2. \A x \in Runs : Open(x)' => Open(x)
    BY <1>1, <1>11 DEF Signal, RunRecord, Open
  <2> QED BY <1>3, <2>1, <2>2
<1>12. ~Reenroll(o)
  BY <1>1 DEF Reenroll, OpAt
<1> QED BY <1>5, <1>6, <1>7, <1>8, <1>9, <1>10, <1>11, <1>12 DEF OpStep

\* OneInv is inductive.
LEMMA OneStep ==
    ASSUME OneMove, Typed, OneInv, [Next]_vars
    PROVE  OneInv'
<1>1. ASSUME op' = op, enr'.wf = enr.wf, \A x \in Runs : Open(x)' => Open(x)
      PROVE  OneInv'
  BY <1>1, OneKept DEF Moving
<1>2. CASE People \/ UNCHANGED vars
  <2>1. UNCHANGED <<op, enr, run>>
    BY <1>2 DEF People, HumanReply, ResumeAda, SetAutonomy, Decide, vars
  <2> QED BY <1>1, <2>1 DEF Open
<1>3. ASSUME NEW x \in Runs, StartSend(x) PROVE OneInv'
  BY <1>1, <1>3, StartMoves DEF Open
<1>4. ASSUME NEW s \in Slots, SendStep(s) \/ Crash(s) \/ Timeout(s) PROVE OneInv'
  BY <1>1, <1>4, SendMoves DEF Open
<1>7. ASSUME NEW x \in Runs, Close(x) PROVE OneInv'
  BY <1>1, <1>7, CloseMoves DEF Open
<1>5. ASSUME NEW x \in Runs, Walk(x) PROVE OneInv'
  <2>1. \A y \in Runs : Open(y)' => Open(y)
    BY <1>5, WalkMoves DEF WalkFrame, Open
  <2>2. op' = op
    BY <1>5 DEF Walk, PollHold, PollApproval, RecordBlocked, UpdateProgress, Wake, TakeReply,
           GoOnWithoutReply, RecordRoute, RecordAction, Complete, Abandon, GiveUp
  <2>3. enr'.wf = enr.wf
    BY <1>5 DEF Walk, PollHold, PollApproval, RecordBlocked, UpdateProgress, Wake, TakeReply,
           GoOnWithoutReply, RecordRoute, RecordAction, Complete, Abandon, GiveUp, Typed, EnrT
  <2> QED BY <1>1, <2>1, <2>2, <2>3
<1>6. ASSUME NEW x \in Runs, RunStep(x) \/ Abandon(x) \/ GiveUp(x) PROVE Walk(x) \/ StartSend(x)
  BY <1>6 DEF RunStep, Walk
<1> QED BY <1>2, <1>3, <1>4, <1>5, <1>6, <1>7, OneOp DEF Next

\* Where at most one event moves the enrollment, however often it is delivered
\* and whatever fails, it never has two runs that both go on: moveEnrollmentToNode
\* asks the run it replaces to stop before it starts the next, whether or not that
\* run has heard of it by then.
THEOREM OneGoesOn == ASSUME OneMove PROVE Spec => []OneRunGoesOn
<1>1. Init => OneInv
  <2> SUFFICES ASSUME Init PROVE OneInv
    OBVIOUS
  <2>1. \A x \in Runs : Open(x) => x = First
    BY DEF Init, Open, Unstarted
  <2>2. enr.wf = Id[First] /\ \A o \in Ops : op[o].wf = Id[First] /\ op[o].pc = "idle"
    BY DEF Init
  <2> QED BY <2>1, <2>2 DEF OneInv, KnownIds, Known, OneEach, HomeFirst, Moving
<1>2. OneInv => OneRunGoesOn
  BY OneInvSaysIt
<1>3. OneInv /\ Typed /\ [Next]_vars => OneInv'
  BY OneStep
<1> QED BY <1>1, <1>2, <1>3, TypeInit, TypedStep, PTL DEF Spec

-----------------------------------------------------------------------------
(* A duplicate is paid for by a fault, where no second run comes up beside an *)
(* attempt of the first: nothing moves the enrollment, and it is not both     *)
(* re-enrolled and cancelled.  As long as no Message row of a node is in,     *)
(* every delivery and every attempt on its way to one has cost a fault, but   *)
(* for the one the live run waits for.                                        *)

Cancelling == {"end", "pause", "suppress", "unsubscribe"}

NeverBeside ==
    /\ Unmoved
    /\ \/ \A o \in Ops : OpKind[o] # "reenroll"
       \/ \A o \in Ops : OpKind[o] \notin Cancelling

Restarts == \E o \in Ops : OpKind[o] = "reenroll"

\* Runs come one after the other, none is asked to stop where another may follow,
\* and a run waits for an attempt only while sending.
OneLive == \A x, y \in Runs : Live(x) /\ Live(y) => x = y

Alone ==
    /\ OneLive
    /\ \A x \in Runs : run[x].state # "unstarted" => Id[x] = Id[First]
    /\ ~Restarts => \A x \in Runs : x # First => run[x].state = "unstarted"
    /\ \A o \in Ops : op[o].pc = "cancel" => OpKind[o] \in Cancelling \union {"move"}
    /\ \A x \in Runs : /\ Live(x) => run[x].slot = NoSlot \/ run[x].pc = "sending"
                       /\ run[x].state = "unstarted" => run[x].slot = NoSlot
                       /\ run[x].state = "closing" => ~Restarts

Carrying == {"hold", "approval", "rails", "suppression", "transport"}
Flying   == Carrying \union {"lookup"}

\* The attempts at a node that are past the lookup, or not yet past the transport.
Carriers(n) == {s \in Slots : att[s].node = n /\ att[s].pc \in Carrying}
InFlight(n) == {s \in Slots : att[s].node = n /\ att[s].pc \in Flying}

\* An attempt at n that cost no fault: the one the live run waits for, or the
\* one a cancelled run left behind for good.
Excused(n) ==
    \/ \E s \in Slots : att[s].pc # "free" /\ att[s].node = n /\ Awaits(s)
    \/ ~Restarts /\ ~Live(First)

Paid(n) ==
    /\ delivered[n] + Cardinality(Carriers(n)) <= 1 + faults
    /\ messages[n] = 0 =>
          delivered[n] + Cardinality(InFlight(n)) <= faults + (IF Excused(n) THEN 1 ELSE 0)

\* What changing one slot does to the number of slots of a kind.
LEMMA OneSlot ==
    ASSUME NEW A, NEW B, A \subseteq Slots, B \subseteq Slots, NEW s, A \ {s} = B \ {s}
    PROVE  /\ Cardinality(A) \in Nat /\ Cardinality(B) \in Nat
           /\ (s \in A <=> s \in B) => Cardinality(B) = Cardinality(A)
           /\ s \in A /\ s \notin B => Cardinality(B) = Cardinality(A) - 1
           /\ s \notin A /\ s \in B => Cardinality(B) = Cardinality(A) + 1
<1>1. IsFiniteSet(A) /\ IsFiniteSet(B)
  BY Assumed, FS_Subset
<1>2. Cardinality(A) \in Nat /\ Cardinality(B) \in Nat
  BY <1>1, FS_CardinalityType
<1>3. CASE s \in A <=> s \in B
  <2>1. A = B
    BY <1>3
  <2> QED BY <1>2, <2>1
<1>4. CASE s \in A /\ s \notin B
  <2>1. B = A \ {s}
    BY <1>4
  <2>2. Cardinality(B) = Cardinality(A) - 1
    BY <1>1, <1>4, <2>1, FS_RemoveElement
  <2> QED BY <1>2, <1>4, <2>2
<1>5. CASE s \notin A /\ s \in B
  <2>1. B = A \union {s}
    BY <1>5
  <2>2. Cardinality(B) = Cardinality(A) + 1
    BY <1>1, <1>5, <2>1, FS_AddElement
  <2> QED BY <1>2, <1>5, <2>2
<1> QED BY <1>3, <1>4, <1>5

\* The counts are numbers, and a carrier is in flight.
LEMMA Counts ==
    ASSUME NEW n
    PROVE  /\ Cardinality(Carriers(n)) \in Nat /\ Cardinality(InFlight(n)) \in Nat
           /\ \A s \in Slots : s \notin Carriers(n) /\ s \in InFlight(n) =>
                 Cardinality(Carriers(n)) + 1 <= Cardinality(InFlight(n))
<1>1. Carriers(n) \subseteq InFlight(n) /\ InFlight(n) \subseteq Slots
  BY DEF Carriers, InFlight, Flying
<1>2. IsFiniteSet(InFlight(n)) /\ IsFiniteSet(Carriers(n))
  BY <1>1, Assumed, FS_Subset
<1>3. Cardinality(Carriers(n)) \in Nat /\ Cardinality(InFlight(n)) \in Nat
  BY <1>2, FS_CardinalityType
<1>4. ASSUME NEW s \in Slots, s \notin Carriers(n), s \in InFlight(n)
      PROVE  Cardinality(Carriers(n)) + 1 <= Cardinality(InFlight(n))
  <2>1. Carriers(n) \union {s} \subseteq InFlight(n)
    BY <1>1, <1>4
  <2>2. Cardinality(Carriers(n) \union {s}) = Cardinality(Carriers(n)) + 1
    BY <1>2, <1>4, FS_AddElement
  <2>3. Cardinality(Carriers(n) \union {s}) <= Cardinality(InFlight(n))
    BY <1>2, <2>1, FS_Subset
  <2> QED BY <2>2, <2>3
<1> QED BY <1>3, <1>4

\* A step that leaves attempts and mail alone keeps a node paid, if it takes no
\* excuse away.
LEMMA PaidKept ==
    ASSUME Typed, NEW n \in Nodes, Paid(n), UNCHANGED <<att, delivered, messages>>,
           faults' \in Nat, faults' >= faults, Excused(n) => Excused(n)'
    PROVE  Paid(n)'
<1>1. faults \in Nat /\ delivered[n] \in Nat
  BY Assumed DEF Typed, MailT
<1>2. Carriers(n)' = Carriers(n) /\ InFlight(n)' = InFlight(n)
  BY DEF Carriers, InFlight
<1> DEFINE c == Cardinality(Carriers(n))
           i == Cardinality(InFlight(n))
<1>3. c \in Nat /\ i \in Nat /\ c' = c /\ i' = i
  BY <1>2, Counts
<1> HIDE DEF c, i
<1>4. delivered'[n] + c' <= 1 + faults'
  <2>1. delivered[n] + c <= 1 + faults
    BY DEF Paid, c
  <2> QED BY <1>1, <1>3, <2>1
<1>5. ASSUME messages'[n] = 0
      PROVE  delivered'[n] + i' <= faults' + (IF Excused(n)' THEN 1 ELSE 0)
  <2>1. delivered[n] + i <= faults + (IF Excused(n) THEN 1 ELSE 0)
    BY <1>5 DEF Paid, i
  <2> QED BY <1>1, <1>3, <2>1
<1> QED BY <1>4, <1>5 DEF Paid, c, i

\* What a send attempt does to runs and slots: only its own slot moves, and only
\* the run that waits for it, which then waits for nothing.
LEMMA AttemptMoves ==
    ASSUME Typed, NEW s \in Slots, SendStep(s) \/ Crash(s) \/ Timeout(s)
    PROVE  /\ \A y \in Runs : \/ run'[y] = run[y]
                              \/ y = att[s].run /\ Awaits(s) /\ run'[y].slot = NoSlot
           /\ \A q \in Slots \ {s} : att'[q] = att[q]
<1>1. run \in [Runs -> RunRecord] /\ att[s].run \in Runs /\ DOMAIN att = Slots
  BY DEF Typed, RunT, AttT, Sound
<1>2. \A q \in Slots \ {s} : att'[q] = att[q]
  BY <1>1 DEF SendStep, Lookup, CheckHold, CheckApproval, CheckRails, CheckSuppression, Deliver,
         Persist, Crash, Timeout, Return, Proceed
<1>3. ASSUME NEW pc, NEW reason, Return(s, pc, reason), NEW y \in Runs
      PROVE  run'[y] = run[y] \/ (y = att[s].run /\ Awaits(s) /\ run'[y].slot = NoSlot)
  BY <1>1, <1>3 DEF Return, RunRecord
<1>4. CASE Crash(s) \/ Timeout(s)
  <2> DEFINE r == run[att[s].run]
  <2>1. Retried(r).slot = NoSlot
    BY <1>1 DEF Retried, Ended, RunRecord
  <2>2. \/ run' = run
        \/ Awaits(s) /\ run' = [run EXCEPT ![att[s].run] = Retried(r)]
    BY <1>4 DEF Crash, Timeout
  <2> QED BY <1>1, <1>2, <2>1, <2>2
<1>5. CASE SendStep(s)
  <2>1. run' = run \/ \E pc, reason : Return(s, pc, reason)
    BY <1>5 DEF SendStep, Lookup, CheckHold, CheckApproval, CheckRails, CheckSuppression,
           Deliver, Persist, Proceed
  <2> QED BY <1>2, <1>3, <2>1
<1> QED BY <1>4, <1>5

\* A run that was not started by the step and awaits no more than it may.
Stays(x) ==
    /\ run'[x].state = "unstarted" <=> run[x].state = "unstarted"
    /\ Live(x)' => Live(x) /\ (run'[x].slot = NoSlot \/ run'[x].pc = "sending")
    /\ run'[x].state = "unstarted" => run'[x].slot = NoSlot
    /\ run'[x].state = "closing" => ~Restarts

LEMMA AloneKept ==
    ASSUME Alone, \A x \in Runs : Stays(x),
           \A o \in Ops : op'[o].pc = "cancel" => OpKind[o] \in Cancelling \union {"move"}
    PROVE  Alone'
<1>1. OneLive'
  BY DEF Alone, OneLive, Stays
<1> QED BY <1>1 DEF Alone, Stays, Restarts

\* A run that does not change stays.
LEMMA StaysStill == ASSUME Alone, NEW x \in Runs, run'[x] = run[x] PROVE Stays(x)
  BY DEF Alone, Stays, Live

\* The walk moves no run that waits for a send.
LEMMA AloneWalk ==
    ASSUME Typed, Alone, NEW x \in Runs, Walk(x)
    PROVE  /\ Alone' /\ UNCHANGED <<att, delivered, messages>>
           /\ faults' \in Nat /\ faults' >= faults
           /\ \A n \in Nodes : Excused(n) => Excused(n)'
<1>1. WalkFrame(x)
  BY WalkMoves
<1>2. run[x].state \in {"open", "closing", "cancelled"}
  BY DEF Walk, PollHold, PollApproval, RecordBlocked, UpdateProgress, Wake, TakeReply,
         GoOnWithoutReply, RecordRoute, RecordAction, Complete, Abandon, GiveUp, At, Open
<1>3. UNCHANGED <<att, op, delivered, messages>> /\ (faults' = faults \/ faults' = faults + 1)
  BY DEF Walk, PollHold, PollApproval, RecordBlocked, UpdateProgress, Wake, TakeReply,
         GoOnWithoutReply, RecordRoute, RecordAction, Complete, Abandon, GiveUp, mail
<1>4. faults \in Nat
  BY Assumed DEF Typed
<1>5. Live(x) => run[x].slot = NoSlot
  BY <1>1 DEF Alone, WalkFrame
<1>6. Stays(x)
  BY <1>1, <1>2, <1>5 DEF WalkFrame, GoesOn, Stays, Open, Live, Alone
<1>7. Alone'
  <2>1. \A y \in Runs : Stays(y)
    BY <1>1, <1>6, StaysStill DEF WalkFrame
  <2>2. \A o \in Ops : op'[o].pc = "cancel" => OpKind[o] \in Cancelling \union {"move"}
    BY <1>3 DEF Alone
  <2> QED BY <2>1, <2>2, AloneKept
<1>8. ASSUME NEW n \in Nodes, Excused(n) PROVE Excused(n)'
  <2>1. ASSUME NEW s \in Slots, att[s].pc # "free", att[s].node = n, Awaits(s) PROVE Excused(n)'
    <3>1. att[s].run \in Runs \ {x}
      BY <1>5, <2>1, Assumed DEF Typed, AttT, Awaits
    <3>2. run'[att[s].run] = run[att[s].run]
      BY <1>1, <3>1 DEF WalkFrame
    <3>3. Awaits(s)'
      BY <1>3, <2>1, <3>2 DEF Awaits, Live
    <3> QED BY <1>3, <2>1, <3>3 DEF Excused
  <2>2. ASSUME ~Restarts, ~Live(First) PROVE Excused(n)'
    <3>1. ~Live(First)'
      BY <1>1, <2>2, Assumed DEF WalkFrame, Open, Live
    <3> QED BY <2>2, <3>1 DEF Excused, Restarts
  <2> QED BY <1>8, <2>1, <2>2 DEF Excused
<1> QED BY <1>3, <1>4, <1>7, <1>8

\* A run that closes on request leaves the attempt it waited for behind: where
\* nothing is re-enrolled no other run follows it.
LEMMA AloneClose ==
    ASSUME Typed, Alone, NEW x \in Runs, Close(x)
    PROVE  /\ Alone' /\ UNCHANGED <<att, delivered, messages, faults>>
           /\ \A n \in Nodes : Excused(n) => Excused(n)'
<1>1. /\ run[x].state = "closing" /\ run'[x].state = "cancelled" /\ run'[x].slot = NoSlot
      /\ \A y \in Runs \ {x} : run'[y] = run[y]
      /\ UNCHANGED <<enr, op, att, delivered, messages, faults>>
  BY CloseMoves
<1>2. \A y \in Runs : Stays(y)
  <2>1. Stays(x)
    BY <1>1 DEF Stays, Live
  <2> QED BY <1>1, <2>1, StaysStill
<1>3. Alone'
  <2>1. \A o \in Ops : op'[o].pc = "cancel" => OpKind[o] \in Cancelling \union {"move"}
    BY <1>1 DEF Alone
  <2> QED BY <1>2, <2>1, AloneKept
<1>4. ~Restarts /\ x = First
  <2>1. ~Restarts
    BY <1>1 DEF Alone
  <2> QED BY <1>1, <2>1 DEF Alone
<1>5. \A n \in Nodes : Excused(n)'
  BY <1>1, <1>4 DEF Excused, Restarts, Live
<1> QED BY <1>1, <1>3, <1>5

\* What reaches the enrollment from outside takes no excuse away: it cancels
\* only where nothing is re-enrolled, and re-enrolls only where no run is live.
LEMMA AloneOp ==
    ASSUME NeverBeside, Typed, Alone, NEW o \in Ops, OpStep(o) \/ CancelFails(o) \/ Redeliver(o)
    PROVE  /\ Alone' /\ UNCHANGED <<att, delivered, messages>>
           /\ faults' \in Nat /\ faults' >= faults
           /\ \A n \in Nodes : Excused(n) => Excused(n)'
<1>1. /\ run \in [Runs -> RunRecord] /\ op \in [Ops -> [pc: OpPcs, wf: Ids]]
      /\ OpKind[o] \in OpKinds /\ OpKind[o] # "move" /\ faults \in Nat
      /\ \A s \in Slots : att[s].run \in Runs
  BY Assumed DEF Typed, RunT, Sound, OpT, NeverBeside, Unmoved, AttT
<1>2. UNCHANGED <<att, delivered, messages>>
  BY DEF OpStep, Evaluate, ApplyStop, ApplyUnsubscribe, BulkUnsubscribe, ReadWorkflowId,
     CancelRun, StartMoved, Adopt, RecordRuleRun, Signal, Reenroll, CancelFails, Redeliver, mail
<1>3. faults' = faults \/ faults' = faults + 1
  BY DEF OpStep, Evaluate, ApplyStop, ApplyUnsubscribe, BulkUnsubscribe, ReadWorkflowId,
     CancelRun, StartMoved, Adopt, RecordRuleRun, Signal, Reenroll, CancelFails, Redeliver
<1>4. \A q \in Ops \ {o} : op'[q] = op[q]
  BY <1>1 DEF OpStep, Evaluate, ApplyStop, ApplyUnsubscribe, BulkUnsubscribe, ReadWorkflowId,
     CancelRun, StartMoved, Adopt, RecordRuleRun, Signal, Reenroll, CancelFails, Redeliver, OpGoto
<1>5. op'[o].pc = "cancel" => OpKind[o] \in Cancelling
  <2>1. CASE ReadWorkflowId(o)
    BY <1>1, <2>1 DEF ReadWorkflowId, OpAt, Cancelling
  <2>2. CASE ApplyUnsubscribe(o)
    BY <2>2 DEF ApplyUnsubscribe, OpAt, Cancelling
  <2>3. CASE ~ReadWorkflowId(o) /\ ~ApplyUnsubscribe(o)
    <3>1. \E pc \in OpPcs \ {"cancel"} : OpGoto(o, pc)
      BY <1>1, <2>3 DEF OpStep, Evaluate, ApplyStop, BulkUnsubscribe, CancelRun, StartMoved,
         Adopt, RecordRuleRun, Signal, Reenroll, CancelFails, Redeliver, AfterFailedCancel,
         AfterCancel, OpPcs
    <3> QED BY <1>1, <3>1 DEF OpGoto
  <2> QED BY <2>1, <2>2, <2>3
<1>6. \A q \in Ops : op'[q].pc = "cancel" => OpKind[q] \in Cancelling \union {"move"}
  BY <1>4, <1>5 DEF Alone
<1>7. ASSUME \A x \in Runs : /\ \/ run'[x].state = run[x].state
                                \/ Live(x) /\ run'[x].state = "closing" /\ ~Restarts
                             /\ run'[x].slot = run[x].slot /\ run'[x].pc = run[x].pc
      PROVE  Alone' /\ \A n \in Nodes : Excused(n) => Excused(n)'
  <2>1. \A x \in Runs : Stays(x)
    BY <1>7 DEF Stays, Alone, Live
  <2>2. \A s \in Slots : Awaits(s) => Awaits(s)'
    BY <1>1, <1>2, <1>7 DEF Awaits, Live
  <2>3. ~Live(First) => ~Live(First)'
    BY <1>7, Assumed DEF Live
  <2> QED BY <1>2, <1>6, <2>1, <2>2, <2>3, AloneKept DEF Excused, Restarts
<1>8. CASE CancelRun(o)
  <2>1. ~Restarts
    BY <1>1, <1>8 DEF CancelRun, Alone, NeverBeside, Restarts
  <2>2. \A x \in Runs : run'[x] = IF x \in LiveUnder(op[o].wf)
                                     THEN [run[x] EXCEPT !.state = "closing"] ELSE run[x]
    BY <1>8 DEF CancelRun
  <2>3. ASSUME NEW x \in Runs
        PROVE  /\ run'[x].state = run[x].state \/ (Live(x) /\ run'[x].state = "closing")
               /\ run'[x].slot = run[x].slot /\ run'[x].pc = run[x].pc
    <3>1. CASE x \in LiveUnder(op[o].wf)
      <4>1. run'[x] = [run[x] EXCEPT !.state = "closing"] /\ Live(x)
        BY <2>2, <3>1 DEF LiveUnder
      <4> QED BY <1>1, <4>1 DEF RunRecord
    <3>2. CASE x \notin LiveUnder(op[o].wf)
      BY <2>2, <3>2
    <3> QED BY <3>1, <3>2
  <2> QED BY <1>1, <1>2, <1>3, <1>7, <2>1, <2>3
<1>9. CASE Reenroll(o)
  <2>1. Restarts
    BY <1>9 DEF Reenroll, OpAt, Restarts
  <2>2. CASE run' = run
    BY <1>1, <1>2, <1>3, <1>7, <2>2
  <2>3. ASSUME NEW f \in Runs, LiveUnder(Id[First]) = {}, Id[f] = Id[First],
               run[f].state = "unstarted", run'[f].state = "open", GoesOn(run[f], run'[f]),
               \A y \in Runs \ {f} : run'[y] = run[y]
        PROVE  Alone' /\ \A n \in Nodes : Excused(n) => Excused(n)'
    <3>1. \A y \in Runs : ~Live(y)
      BY <2>3 DEF Alone, LiveUnder, Live
    <3>2. \A n \in Nodes : ~Excused(n)
      BY <1>1, <2>1, <3>1 DEF Excused, Awaits
    <3>3. OneLive'
      BY <2>3, <3>1 DEF OneLive, Live
    <3>4. run'[f].slot = NoSlot
      BY <2>3 DEF GoesOn, Alone
    <3>5. Alone'
      BY <1>6, <2>1, <2>3, <3>3, <3>4 DEF Alone, Restarts, Live
    <3> QED BY <3>2, <3>5
  <2>4. StartUnder(Id[First], Entry)
    BY <1>9 DEF Reenroll
  <2> QED BY <1>1, <1>2, <1>3, <2>2, <2>3, <2>4, StartUnderMoves, Assumed
<1>10. CASE Signal(o)
  <2>1. \A x \in Runs : /\ run'[x].state = run[x].state /\ run'[x].slot = run[x].slot
                        /\ run'[x].pc = run[x].pc
    BY <1>1, <1>10 DEF Signal, RunRecord
  <2> QED BY <1>1, <1>2, <1>3, <1>7, <2>1
<1>11. CASE ~CancelRun(o) /\ ~Reenroll(o) /\ ~Signal(o)
  <2>1. run' = run
    BY <1>1, <1>11 DEF OpStep, Evaluate, ApplyStop, ApplyUnsubscribe, BulkUnsubscribe,
       ReadWorkflowId, StartMoved, Adopt, RecordRuleRun, CancelFails, Redeliver, OpAt
  <2> QED BY <1>1, <1>2, <1>3, <1>7, <2>1
<1> QED BY <1>8, <1>9, <1>10, <1>11

\* At the other nodes nothing changes, and no excuse is taken away.
LEMMA PaidElsewhere ==
    ASSUME Typed, Alone, NEW s \in Slots, SendStep(s) \/ Crash(s) \/ Timeout(s),
           NEW n \in Nodes, n # att[s].node, Paid(n)
    PROVE  Paid(n)'
<1>1. /\ att \in [Slots -> [pc: SendPcs \union {"free"}, run: Runs, node: Nodes,
                            ask: BOOLEAN, late: BOOLEAN, hold: Nat]]
      /\ delivered \in [Nodes -> Nat] /\ messages \in [Nodes -> Nat] /\ faults \in Nat
  BY Assumed DEF Typed, AttT, MailT
<1>2. att'[s] = Free \/ att'[s].node = att[s].node
  BY <1>1 DEF SendStep, Lookup, CheckHold, CheckApproval, CheckRails, CheckSuppression, Deliver,
         Persist, Crash, Timeout, Return, Proceed
<1>3. delivered'[n] = delivered[n] /\ messages'[n] = messages[n]
  BY <1>1 DEF SendStep, Lookup, CheckHold, CheckApproval, CheckRails, CheckSuppression, Deliver,
         Persist, Crash, Timeout, mail
<1>4. faults' = faults \/ faults' = faults + 1
  BY DEF SendStep, Lookup, CheckHold, CheckApproval, CheckRails, CheckSuppression, Deliver,
         Persist, Crash, Timeout
<1>5. Carriers(n)' = Carriers(n) /\ InFlight(n)' = InFlight(n)
  <2>1. \A q \in Slots : q # s => att'[q] = att[q]
    BY AttemptMoves
  <2>2. s \notin Carriers(n) /\ s \notin InFlight(n)
    BY DEF Carriers, InFlight
  <2>3. s \notin Carriers(n)' /\ s \notin InFlight(n)'
    BY <1>2 DEF Carriers, InFlight, Carrying, Flying, Free
  <2>4. Carriers(n)' \ {s} = Carriers(n) \ {s} /\ InFlight(n)' \ {s} = InFlight(n) \ {s}
    BY <2>1 DEF Carriers, InFlight
  <2> QED BY <2>2, <2>3, <2>4
<1>6. Excused(n) => Excused(n)'
  <2>1. ASSUME NEW q \in Slots, att[q].pc # "free", att[q].node = n, Awaits(q) PROVE Excused(n)'
    <3>1. q # s /\ att'[q] = att[q] /\ att[q].run \in Runs
      BY <1>1, <2>1, AttemptMoves
    <3>2. run'[att[q].run] = run[att[q].run]
      BY <2>1, <3>1, AttemptMoves DEF Awaits
    <3>3. Awaits(q)'
      BY <2>1, <3>1, <3>2 DEF Awaits, Live
    <3> QED BY <2>1, <3>1, <3>3 DEF Excused
  <2>2. ~Live(First) => ~Live(First)'
    BY SendMoves, Assumed DEF Live
  <2> QED BY <2>1, <2>2 DEF Excused, Restarts
<1> DEFINE c == Cardinality(Carriers(n))
           i == Cardinality(InFlight(n))
<1>7. c \in Nat /\ i \in Nat /\ c' = c /\ i' = i
  BY <1>5, Counts
<1>8. delivered[n] + c <= 1 + faults
      /\ (messages[n] = 0 => delivered[n] + i <= faults + (IF Excused(n) THEN 1 ELSE 0))
  BY DEF Paid
<1> HIDE DEF c, i
<1>9. delivered'[n] + c' <= 1 + faults'
  BY <1>1, <1>3, <1>4, <1>7, <1>8
<1>10. messages'[n] = 0 => delivered'[n] + i' <= faults' + (IF Excused(n)' THEN 1 ELSE 0)
  BY <1>1, <1>3, <1>4, <1>6, <1>7, <1>8
<1> QED BY <1>9, <1>10 DEF Paid, c, i

\* At the attempt's own node: a lookup that finds nothing has room for one more
\* carrier, a delivery turns a carrier into a delivered message, an attempt that
\* ends gives up its excuse, and a lost one is a fault.
LEMMA PaidHere ==
    ASSUME Typed, Alone, NEW s \in Slots, SendStep(s) \/ Crash(s) \/ Timeout(s),
           NEW n \in Nodes, n = att[s].node, Paid(n)
    PROVE  Paid(n)'
<1>1. /\ att \in [Slots -> [pc: SendPcs \union {"free"}, run: Runs, node: Nodes,
                            ask: BOOLEAN, late: BOOLEAN, hold: Nat]]
      /\ delivered \in [Nodes -> Nat] /\ messages \in [Nodes -> Nat] /\ faults \in Nat
  BY Assumed DEF Typed, AttT, MailT
<1> DEFINE c  == Cardinality(Carriers(n))
           i  == Cardinality(InFlight(n))
           ex == IF Excused(n) THEN 1 ELSE 0
<1>2. /\ c \in Nat /\ i \in Nat /\ c' \in Nat /\ i' \in Nat /\ ex \in {0, 1} /\ ex' \in {0, 1}
      /\ s \notin Carriers(n) /\ s \in InFlight(n) => c + 1 <= i
      /\ s \in Carriers(n) => s \in InFlight(n)
  <2>1. /\ c' = Cardinality(Carriers(n)') /\ i' = Cardinality(InFlight(n)')
        /\ Carriers(n)' \subseteq Slots /\ InFlight(n)' \subseteq Slots
    BY DEF Carriers, InFlight
  <2>2. c' \in Nat /\ i' \in Nat
    BY <2>1, OneSlot
  <2> QED BY <2>2, Counts DEF Carriers, InFlight, Flying
<1>3. /\ (s \in Carriers(n) <=> s \in Carriers(n)') => c' = c
      /\ s \in Carriers(n) /\ s \notin Carriers(n)' => c' = c - 1
      /\ s \notin Carriers(n) /\ s \in Carriers(n)' => c' = c + 1
      /\ (s \in InFlight(n) <=> s \in InFlight(n)') => i' = i
      /\ s \in InFlight(n) /\ s \notin InFlight(n)' => i' = i - 1
  <2>1. /\ Carriers(n)' \ {s} = Carriers(n) \ {s} /\ InFlight(n)' \ {s} = InFlight(n) \ {s}
        /\ Carriers(n) \subseteq Slots /\ Carriers(n)' \subseteq Slots
        /\ InFlight(n) \subseteq Slots /\ InFlight(n)' \subseteq Slots
    BY AttemptMoves DEF Carriers, InFlight
  <2> DEFINE cs == Carriers(n)'
             fs == InFlight(n)'
  <2>2. c' = Cardinality(cs) /\ i' = Cardinality(fs)
    OBVIOUS
  <2> HIDE DEF cs, fs
  <2>3. cs \ {s} = Carriers(n) \ {s} /\ cs \subseteq Slots /\ Carriers(n) \subseteq Slots
        /\ fs \ {s} = InFlight(n) \ {s} /\ fs \subseteq Slots /\ InFlight(n) \subseteq Slots
    BY <2>1 DEF cs, fs
  <2>4. /\ (s \in Carriers(n) <=> s \in cs) => Cardinality(cs) = c
        /\ s \in Carriers(n) /\ s \notin cs => Cardinality(cs) = c - 1
        /\ s \notin Carriers(n) /\ s \in cs => Cardinality(cs) = c + 1
    BY <2>3, OneSlot
  <2>5. /\ (s \in InFlight(n) <=> s \in fs) => Cardinality(fs) = i
        /\ s \in InFlight(n) /\ s \notin fs => Cardinality(fs) = i - 1
    BY <2>3, OneSlot
  <2> QED BY <2>2, <2>4, <2>5 DEF cs, fs
<1>4. /\ delivered[n] + c <= 1 + faults
      /\ messages[n] = 0 => delivered[n] + i <= faults + ex
  BY DEF Paid
<1>5. /\ s \in Carriers(n) <=> att[s].pc \in Carrying
      /\ s \in InFlight(n) <=> att[s].pc \in Flying
  BY DEF Carriers, InFlight
<1>6. ASSUME att'[s].node = n
      PROVE  /\ s \in Carriers(n)' <=> att'[s].pc \in Carrying
             /\ s \in InFlight(n)' <=> att'[s].pc \in Flying
  BY <1>6 DEF Carriers, InFlight
<1>7. att'[s].pc = "free" => s \notin Carriers(n)' /\ s \notin InFlight(n)'
  BY DEF Carriers, InFlight, Carrying, Flying
<1>8. ASSUME run' = run, att[s].pc # "free", att'[s].pc # "free", att'[s].node = n,
             att'[s].run = att[s].run
      PROVE  ex' = ex
  <2>1. \A q \in Slots : /\ att'[q].pc # "free" <=> att[q].pc # "free"
                         /\ att'[q].node = att[q].node /\ att'[q].run = att[q].run
    BY <1>8, AttemptMoves
  <2>2. \A q \in Slots : Awaits(q)' <=> Awaits(q)
    BY <1>8, <2>1 DEF Awaits, Live
  <2>3. Excused(n)' <=> Excused(n)
    BY <1>8, <2>1, <2>2 DEF Excused, Restarts, Live
  <2> QED BY <2>3
<1>9. Paid(n)' <=> /\ delivered'[n] + c' <= 1 + faults'
                   /\ messages'[n] = 0 => delivered'[n] + i' <= faults' + ex'
  BY DEF Paid
<1>20. ASSUME NEW pc, NEW r, Return(s, pc, r) PROVE att'[s].pc = "free"
  <2>1. att' = [att EXCEPT ![s] = Free] /\ Free.pc = "free"
    BY <1>20 DEF Return, Free
  <2> QED BY <1>1, <2>1
<1>21. \A pc : Proceed(s, pc) => /\ att'[s].pc = pc /\ att'[s].node = n
                                 /\ att'[s].run = att[s].run /\ run' = run
  BY <1>1 DEF Proceed
<1> HIDE DEF c, i, ex
<1>10. CASE Lookup(s)
  <2>1. att[s].pc = "lookup" /\ UNCHANGED <<delivered, messages, faults>>
    BY <1>10 DEF Lookup, AtSend, mail
  <2>2. CASE messages[n] > 0 /\ Return(s, "progress", "none")
    <3>1. c' = c
      BY <1>3, <1>5, <1>7, <1>20, <2>1, <2>2 DEF Carrying
    <3>2. messages'[n] # 0
      BY <1>1, <2>1, <2>2
    <3> QED BY <1>4, <1>9, <2>1, <3>1, <3>2
  <2>3. CASE /\ messages[n] = 0 /\ run' = run
             /\ att' = [att EXCEPT ![s].pc = "hold", ![s].ask = level.ask, ![s].late = suppressed,
                                   ![s].hold = IF hold.standing THEN hold.count ELSE 0]
    <3>1. att'[s].pc = "hold" /\ att'[s].node = n /\ att'[s].run = att[s].run
      BY <1>1, <2>3
    <3>2. c' = c + 1 /\ i' = i /\ c + 1 <= i
      BY <1>2, <1>3, <1>5, <1>6, <2>1, <3>1 DEF Carrying, Flying
    <3>3. ex' = ex
      BY <1>8, <2>1, <2>3, <3>1
    <3> QED BY <1>1, <1>2, <1>4, <1>9, <2>1, <2>3, <3>2, <3>3
  <2> QED BY <1>10, <2>2, <2>3 DEF Lookup
<1>11. ASSUME att[s].pc \in Carrying, UNCHANGED <<delivered, messages, faults>>,
              \/ \E r : Return(s, "refused", r)
              \/ \E pc \in Carrying : Proceed(s, pc)
       PROVE  Paid(n)'
  <2>1. CASE \E r : Return(s, "refused", r)
    <3>1. c' = c - 1 /\ i' = i - 1
      BY <1>2, <1>3, <1>5, <1>7, <1>11, <1>20, <2>1
    <3> QED BY <1>1, <1>2, <1>4, <1>9, <1>11, <3>1
  <2>2. CASE \E pc \in Carrying : Proceed(s, pc)
    <3>1. att'[s].pc \in Carrying /\ att'[s].node = n /\ att'[s].run = att[s].run /\ run' = run
      BY <1>21, <2>2
    <3>2. c' = c /\ i' = i
      BY <1>3, <1>5, <1>6, <1>11, <3>1 DEF Flying
    <3>3. ex' = ex
      BY <1>8, <1>11, <3>1 DEF Carrying
    <3> QED BY <1>4, <1>9, <1>11, <3>2, <3>3
  <2> QED BY <1>11, <2>1, <2>2
<1>12. CASE CheckHold(s) \/ CheckApproval(s) \/ CheckRails(s) \/ CheckSuppression(s)
  <2>1. att[s].pc \in Carrying /\ UNCHANGED <<delivered, messages, faults>>
    BY <1>12 DEF CheckHold, CheckApproval, CheckRails, CheckSuppression, AtSend, Carrying, mail
  <2>2. (\E r : Return(s, "refused", r)) \/ \E pc \in Carrying : Proceed(s, pc)
    BY <1>12 DEF CheckHold, CheckApproval, CheckRails, CheckSuppression, Carrying
  <2> QED BY <1>11, <2>1, <2>2
<1>13. CASE Deliver(s)
  <2>1. /\ att[s].pc = "transport" /\ Proceed(s, "persist") /\ UNCHANGED <<messages, faults>>
        /\ delivered'[n] = delivered[n] + 1
    BY <1>1, <1>13 DEF Deliver, AtSend
  <2>2. /\ att'[s].pc = "persist" /\ att'[s].node = n /\ att'[s].run = att[s].run /\ run' = run
    BY <1>21, <2>1
  <2>3. c' = c - 1 /\ i' = i - 1
    BY <1>3, <1>5, <1>6, <2>1, <2>2 DEF Carrying, Flying
  <2>4. ex' = ex
    BY <1>8, <2>1, <2>2
  <2> QED BY <1>1, <1>2, <1>4, <1>9, <2>1, <2>3, <2>4
<1>14. CASE Persist(s)
  <2>1. /\ att[s].pc = "persist" /\ Return(s, "progress", "none") /\ UNCHANGED <<delivered, faults>>
        /\ messages'[n] = messages[n] + 1
    BY <1>1, <1>14 DEF Persist, AtSend
  <2>2. c' = c
    BY <1>3, <1>5, <1>7, <1>20, <2>1 DEF Carrying
  <2>3. messages'[n] # 0
    BY <1>1, <2>1
  <2> QED BY <1>4, <1>9, <2>1, <2>2, <2>3
<1>15. CASE Crash(s)
  <2>1. /\ att'[s].pc = "free" /\ UNCHANGED <<delivered, messages>> /\ faults' = faults + 1
    BY <1>1, <1>15 DEF Crash, Free, mail
  <2>2. c' \in {c, c - 1} /\ i' \in {i, i - 1}
    BY <1>3, <1>7, <2>1
  <2> QED BY <1>1, <1>2, <1>4, <1>9, <2>1, <2>2
<1>16. CASE Timeout(s)
  <2>1. att' = att /\ UNCHANGED <<delivered, messages>> /\ faults' = faults + 1
    BY <1>16 DEF Timeout, mail
  <2>2. c' = c /\ i' = i
    BY <2>1 DEF c, i, Carriers, InFlight
  <2> QED BY <1>1, <1>2, <1>4, <1>9, <2>1, <2>2
<1> QED BY <1>10, <1>12, <1>13, <1>14, <1>15, <1>16 DEF SendStep

\* A scheduled attempt is the only one its run waits for: it takes the excuse.
LEMMA PaidStart ==
    ASSUME Typed, Alone, NEW x \in Runs, StartSend(x), NEW n \in Nodes, Paid(n)
    PROVE  Paid(n)'
<1>1. /\ att \in [Slots -> [pc: SendPcs \union {"free"}, run: Runs, node: Nodes,
                            ask: BOOLEAN, late: BOOLEAN, hold: Nat]]
      /\ run \in [Runs -> RunRecord] /\ run[x].node \in Nodes
      /\ delivered \in [Nodes -> Nat] /\ messages \in [Nodes -> Nat] /\ faults \in Nat
  <2>1. run \in [Runs -> RunRecord]
    BY DEF Typed, RunT, Sound
  <2>2. run[x].node \in Nodes
    BY <2>1 DEF RunRecord
  <2> QED BY <2>1, <2>2, Assumed DEF Typed, AttT, MailT
<1> DEFINE a == [Free EXCEPT !.pc = "lookup", !.run = x, !.node = run[x].node]
<1>2. PICK s \in Slots : /\ att[s].pc = "free" /\ att' = [att EXCEPT ![s] = a]
                         /\ run' = [run EXCEPT ![x].pc = "sending", ![x].slot = s,
                                               ![x].tries = @ + 1]
  BY DEF StartSend
<1>3. a.pc = "lookup" /\ a.run = x /\ a.node = run[x].node
  BY DEF Free
<1> HIDE DEF a
<1>4. att'[s] = a /\ \A q \in Slots \ {s} : att'[q] = att[q]
  BY <1>1, <1>2
<1>5. run'[x].slot = s /\ Live(x) /\ Live(x)' /\ run[x].pc = "send"
  <2>1. Live(x) /\ run[x].pc = "send"
    BY DEF StartSend, At
  <2>2. run'[x].slot = s /\ run'[x].state = run[x].state
    BY <1>1, <1>2 DEF RunRecord
  <2> QED BY <2>1, <2>2 DEF Live
<1>6. ~Excused(n)
  <2>1. ASSUME NEW q \in Slots, Awaits(q) PROVE FALSE
    <3>1. Live(att[q].run) /\ run[att[q].run].slot = q /\ q # NoSlot /\ att[q].run \in Runs
      BY <1>1, <2>1, Assumed DEF Awaits
    <3>2. att[q].run = x
      BY <1>5, <3>1 DEF Alone, OneLive
    <3> QED BY <1>5, <3>1, <3>2 DEF Alone
  <2>2. ~Restarts => Live(First)
    BY <1>5 DEF Alone, Live
  <2> QED BY <2>1, <2>2 DEF Excused
<1>7. (Excused(n)' /\ s \in InFlight(n)') \/ n # run[x].node
  <2>1. Awaits(s)'
    BY <1>3, <1>4, <1>5 DEF Awaits, Live
  <2> QED BY <1>3, <1>4, <2>1 DEF Excused, InFlight, Flying
<1> DEFINE c == Cardinality(Carriers(n))
           i == Cardinality(InFlight(n))
<1>8. c' = c
  <2>1. Carriers(n)' = Carriers(n)
    BY <1>2, <1>3, <1>4 DEF Carriers, Carrying
  <2> QED BY <2>1
<1>9. n # run[x].node => i' = i
  <2>1. n # run[x].node => InFlight(n)' = InFlight(n)
    BY <1>2, <1>3, <1>4 DEF InFlight, Flying, Carrying
  <2> QED BY <2>1
<1>10. n = run[x].node => i' = i + 1
  <2> DEFINE fs == InFlight(n)'
  <2>1. i' = Cardinality(fs) /\ fs \subseteq Slots /\ InFlight(n) \subseteq Slots
        /\ fs \ {s} = InFlight(n) \ {s} /\ s \notin InFlight(n)
    BY <1>2, <1>4 DEF InFlight, Flying, Carrying
  <2>2. n = run[x].node => s \in fs
    BY <1>7
  <2> HIDE DEF fs
  <2> QED BY <2>1, <2>2, OneSlot
<1>11. c \in Nat /\ i \in Nat
  BY Counts
<1>12. /\ delivered[n] + c <= 1 + faults
       /\ messages[n] = 0 => delivered[n] + i <= faults
  BY <1>1, <1>6, <1>11 DEF Paid
<1> HIDE DEF c, i
<1>13. UNCHANGED <<delivered, messages, faults>>
  BY StartMoves
<1>14. delivered'[n] + c' <= 1 + faults'
  BY <1>8, <1>12, <1>13
<1>15. messages'[n] = 0 => delivered'[n] + i' <= faults' + (IF Excused(n)' THEN 1 ELSE 0)
  BY <1>1, <1>7, <1>9, <1>10, <1>11, <1>12, <1>13
<1> QED BY <1>14, <1>15 DEF Paid, c, i

DuplicateInv == Alone /\ \A n \in Nodes : Paid(n)

\* DuplicateInv is inductive.
LEMMA DuplicateStep ==
    ASSUME NeverBeside, Typed, DuplicateInv, [Next]_vars
    PROVE  DuplicateInv'
<1>1. Alone /\ faults \in Nat /\ (\A n \in Nodes : Paid(n))
  BY Assumed DEF DuplicateInv, Typed
<1>2. ASSUME Alone', UNCHANGED <<att, delivered, messages>>, faults' \in Nat, faults' >= faults,
             \A n \in Nodes : Excused(n) => Excused(n)'
      PROVE  DuplicateInv'
  BY <1>1, <1>2, PaidKept DEF DuplicateInv
<1>3. CASE People \/ UNCHANGED vars
  <2>1. UNCHANGED <<op, run, att, delivered, messages, faults>>
    BY <1>3 DEF People, HumanReply, ResumeAda, SetAutonomy, Decide, vars, mail
  <2>2. Alone'
    BY <1>1, <2>1 DEF Alone, OneLive, Live, Restarts
  <2>3. \A n \in Nodes : Excused(n) => Excused(n)'
    BY <2>1 DEF Excused, Awaits, Live, Restarts
  <2> QED BY <1>1, <1>2, <2>1, <2>2, <2>3
<1>4. ASSUME NEW x \in Runs, Walk(x) PROVE DuplicateInv'
  BY <1>1, <1>2, <1>4, AloneWalk
<1>5. ASSUME NEW o \in Ops, OpStep(o) \/ CancelFails(o) \/ Redeliver(o) PROVE DuplicateInv'
  BY <1>1, <1>2, <1>5, AloneOp
<1>6. ASSUME NEW x \in Runs, StartSend(x) PROVE DuplicateInv'
  <2>1. run \in [Runs -> RunRecord]
    BY DEF Typed, RunT, Sound
  <2>2. \A y \in Runs \ {x} : run'[y] = run[y]
    BY <1>6, <2>1 DEF StartSend
  <2>3. Live(x) /\ run'[x].state = run[x].state /\ run'[x].pc = "sending"
    BY <1>6, <2>1 DEF StartSend, RunRecord
  <2>4. Stays(x)
    BY <1>1, <2>3 DEF Stays, Live, Alone
  <2>5. \A y \in Runs : Stays(y)
    BY <1>1, <2>2, <2>4, StaysStill
  <2>6. op' = op
    BY <1>6 DEF StartSend
  <2>7. Alone'
    <3>1. \A o \in Ops : op'[o].pc = "cancel" => OpKind[o] \in Cancelling \union {"move"}
      BY <1>1, <2>6 DEF Alone
    <3> QED BY <1>1, <2>5, <3>1, AloneKept
  <2>8. \A n \in Nodes : Paid(n)'
    BY <1>1, <1>6, PaidStart
  <2> QED BY <2>7, <2>8 DEF DuplicateInv
<1>7. ASSUME NEW s \in Slots, SendStep(s) \/ Crash(s) \/ Timeout(s) PROVE DuplicateInv'
  <2>1. ASSUME NEW y \in Runs PROVE Stays(y)
    <3>1. CASE run'[y] = run[y]
      BY <1>1, <3>1, StaysStill
    <3>2. CASE Awaits(s) /\ y = att[s].run /\ run'[y].slot = NoSlot
      <4>1. Live(y) /\ (run'[y].state = run[y].state \/ run'[y].state = "failed")
        BY <1>7, <3>2, SendMoves DEF Awaits
      <4> QED BY <1>1, <3>2, <4>1 DEF Stays, Live, Alone
    <3> QED BY <1>7, <3>1, <3>2, AttemptMoves
  <2>2. op' = op
    BY <1>7, SendMoves
  <2>3. Alone'
    <3>1. \A o \in Ops : op'[o].pc = "cancel" => OpKind[o] \in Cancelling \union {"move"}
      BY <1>1, <2>2 DEF Alone
    <3> QED BY <1>1, <2>1, <3>1, AloneKept
  <2>4. \A n \in Nodes : Paid(n)'
    BY <1>1, <1>7, PaidElsewhere, PaidHere
  <2> QED BY <2>3, <2>4 DEF DuplicateInv
<1>8. ASSUME NEW x \in Runs, RunStep(x) \/ Abandon(x) \/ GiveUp(x) PROVE Walk(x) \/ StartSend(x)
  BY <1>8 DEF RunStep, Walk
<1>9. ASSUME NEW x \in Runs, Close(x) PROVE DuplicateInv'
  BY <1>1, <1>2, <1>9, AloneClose
<1> QED BY <1>3, <1>4, <1>5, <1>6, <1>7, <1>8, <1>9 DEF Next

\* Where no second run comes up beside an attempt of the first, a step reaches
\* the lead at most once more than calls failed, timed out or were lost: the
\* lookup of the Message row in sendEnrollmentStep stops every other repeat.
THEOREM DuplicatesPaidFor == ASSUME NeverBeside PROVE Spec => []DuplicatesNeedFaults
<1>1. Init => DuplicateInv
  <2> SUFFICES ASSUME Init PROVE DuplicateInv
    OBVIOUS
  <2>1. /\ \A s \in Slots : att[s] = Free /\ att[s].pc = "free"
        /\ \A n \in Nodes : delivered[n] = 0 /\ messages[n] = 0
        /\ faults = 0 /\ \A o \in Ops : op[o].pc = "idle"
    BY DEF Init, Free
  <2>2. /\ run[First] = Started(Unstarted, Entry)
        /\ \A x \in Runs \ {First} : run[x] = Unstarted
    BY Assumed DEF Init
  <2>3. Unstarted \in RunRecord
    BY Assumed DEF Unstarted, RunRecord, RunStates, RunPcs, Reasons
  <2>4. run[First].state = "open" /\ run[First].slot = NoSlot
    <3> DEFINE o == [Unstarted EXCEPT !.state = "open"]
    <3>1. run[First] = Arrived(o, Entry) /\ o.state = "open" /\ o.slot = NoSlot
      BY <2>2 DEF Started, Unstarted
    <3>2. o \in RunRecord
      BY <2>3 DEF RunRecord, RunStates, Unstarted
    <3> HIDE DEF o
    <3>3. Arrived(o, Entry).state = o.state /\ Arrived(o, Entry).slot \in {o.slot, NoSlot}
      BY <3>2, ArrivedGoesOn, Assumed DEF GoesOn
    <3> QED BY <3>1, <3>3
  <2>5. \A x \in Runs : x # First => run[x].state = "unstarted" /\ run[x].slot = NoSlot
    BY <2>2 DEF Unstarted
  <2>6. Alone
    BY <2>1, <2>4, <2>5 DEF Alone, OneLive, Live
  <2>7. ASSUME NEW n \in Nodes PROVE Paid(n)
    <3>1. Carriers(n) = {} /\ InFlight(n) = {}
      BY <2>1 DEF Carriers, InFlight, Carrying, Flying
    <3>2. Cardinality({}) = 0
      BY FS_EmptySet
    <3> QED BY <2>1, <3>1, <3>2 DEF Paid
  <2> QED BY <2>6, <2>7 DEF DuplicateInv
<1>2. Typed /\ DuplicateInv => DuplicatesNeedFaults
  <2> SUFFICES ASSUME Typed, DuplicateInv, NEW n \in Nodes PROVE delivered[n] <= 1 + faults
    BY DEF DuplicatesNeedFaults
  <2>1. delivered[n] \in Nat /\ faults \in Nat
    BY Assumed DEF Typed, MailT
  <2>2. delivered[n] + Cardinality(Carriers(n)) <= 1 + faults
    BY DEF DuplicateInv, Paid
  <2> QED BY <2>1, <2>2, Counts
<1>3. DuplicateInv /\ Typed /\ [Next]_vars => DuplicateInv'
  BY DuplicateStep
<1> QED BY <1>1, <1>2, <1>3, TypeInit, TypedStep, PTL DEF Spec
=============================================================================
