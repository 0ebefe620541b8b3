----------------------------- MODULE CampaignRun -----------------------------
(***************************************************************************)
(* One enrollment and the durable runs that walk its campaign graph:       *)
(* campaignWorkflow (packages/workflows/src/workflows.ts), its activities  *)
(* (activities.ts) with the email send boundary (channels/src/send.ts),    *)
(* and what else writes the enrollment or touches its runs: inbound        *)
(* replies, unsubscribe replies, rule actions (move, end, pause, suppress),*)
(* re-enrolling, a human's reply hold and Resume, approvals, autonomy.     *)
(*                                                                         *)
(* A run advances one activity at a time.  sendEnrollmentStep has several  *)
(* database calls and the transport in it, so it is an attempt of its own  *)
(* that advances call by call and outlives a timeout or the run's          *)
(* cancellation; the other activities are one transaction each.            *)
(***************************************************************************)
EXTENDS CampaignGraph, Sequences

CONSTANTS
    Runs, First,    \* workflow executions; First is the one enrolling started
    Id,             \* [Runs -> workflow ids]: an id may be used again once closed
    Slots,          \* bound: activity attempts in flight at a time
    NoSlot,
    Ops,            \* what happens to the enrollment from outside
    OpKind, Intent, Target, MoveId,  \* per op: its kind and its arguments
    MaxAttempts,    \* maximumAttempts of the retry policy (5 in the code)
    MaxFaults,      \* bound: crashes, timeouts, failed calls
    MaxHolds,       \* bound: human replies that place a hold
    MaxLevels,      \* bound: changes of the autonomy level
    AskFirst        \* the autonomy level is "ask" at the start

RuleKinds == {"move", "end", "pause", "suppress"}
OpKinds == RuleKinds \union {"reply", "unsubscribe", "bulk", "reenroll"}
Ids == {Id[x] : x \in Runs}

ASSUME RunsAssumption ==
    /\ First \in Runs /\ Runs = DOMAIN Id
    /\ NoSlot \notin Slots /\ IsFiniteSet(Slots)
ASSUME OpsAssumption ==
    /\ OpKind \in [Ops -> OpKinds]
    /\ Intent \in [Ops -> Intents]
    /\ Target \in [Ops -> Nodes]
    /\ MoveId \in [Ops -> Ids]
ASSUME BoundsAssumption ==
    /\ MaxAttempts \in Nat \ {0} /\ MaxFaults \in Nat
    /\ MaxHolds \in Nat /\ MaxLevels \in Nat /\ AskFirst \in BOOLEAN

VARIABLES
    enr,            \* the Enrollment row: [status, node, wf]
    run,            \* per execution, see TypeOK
    att,            \* per slot: [pc, run, node, ask, late, hold], a send attempt
    hold,           \* EnrollmentReplyHold: [standing, count]
    suppressed,     \* Suppression row and Contact.optOut, written together
    level,          \* guardrails.autonomy: [ask, changes]
    approval,       \* per node: the latest Approval row's status
    delivered,      \* history: per node, how often the transport took it
    messages,       \* per node: OUTBOUND Message rows
    op,             \* per op: [pc, wf], wf the workflow id it has read
    faults

world == <<hold, suppressed, level, approval>>
mail  == <<delivered, messages>>
vars  == <<enr, run, att, world, mail, op, faults>>

Statuses == {"ACTIVE", "PAUSED", "DONE", "UNSUBSCRIBED"}
Reasons  == {"none", "SUPPRESSED", "ENROLLMENT_HELD", "APPROVAL_REQUIRED",
             "APPROVAL_DISMISSED", "OTHER"}
Decisions == {"none", "PENDING", "APPROVED", "DISMISSED"}

\* A cancel is a request: the run is "closing" until Temporal has delivered it.
RunStates == {"unstarted", "open", "closing", "cancelled", "completed", "blocked", "stopped",
              "failed"}

\* The activities whose write may still land after the run was asked to stop.
Writing  == {"ask", "progress", "record", "refused", "routed", "complete"}
RunPcs   == Writing \union {"gone", "hold", "send", "sending", "asleep", "await"}
SendPcs  == {"lookup", "hold", "approval", "rails", "suppression", "transport", "persist"}
OpPcs    == {"idle", "assemble", "apply", "read", "cancel", "start", "adopt",
             "signal", "record", "done"}

TypeOK ==
    /\ enr \in [status: Statuses, node: Nodes \union {NoNode}, wf: Ids]
    /\ run \in [Runs -> [state: RunStates, pc: RunPcs, node: Nodes, goto: Nodes,
                         slot: Slots \union {NoSlot}, tries: 0..MaxAttempts,
                         reason: Reasons, inbox: Seq(Intents), stage: BOOLEAN]]
    /\ att \in [Slots -> [pc: SendPcs \union {"free"}, run: Runs, node: Nodes,
                          ask: BOOLEAN, late: BOOLEAN, hold: Nat]]
    /\ hold \in [standing: BOOLEAN, count: 0..MaxHolds]
    /\ suppressed \in BOOLEAN
    /\ level \in [ask: BOOLEAN, changes: 0..MaxLevels]
    /\ approval \in [Nodes -> Decisions]
    /\ delivered \in [Nodes -> Nat]
    /\ messages \in [Nodes -> Nat]
    /\ op \in [Ops -> [pc: OpPcs, wf: Ids]]
    /\ faults \in 0..MaxFaults

-----------------------------------------------------------------------------
\* Where a run stands when it arrives at a node: the activity it calls first.
FirstCall == [k \in NodeKinds |->
    CASE k = "send" -> "hold"
      [] k \in {"delay", "branch", "split"} -> "progress"
      [] k \in {"action", "subcampaign"} -> "record"
      [] k = "end" -> "complete"]

\* Off the end of the edge list a run completes where it stands.
Arrived(r, n) ==
    IF n = NoNode THEN [r EXCEPT !.pc = "complete"]
    ELSE [r EXCEPT !.node = n, !.pc = FirstCall[Kind[n]], !.tries = 0]

Started(r, n) == Arrived([r EXCEPT !.state = "open"], n)
Ended(r, state) == [r EXCEPT !.state = state, !.pc = "gone", !.slot = NoSlot]

\* A live run is open, or was asked to stop and has not heard of it.
Open(x) == run[x].state = "open"
Live(x) == run[x].state \in {"open", "closing"}
At(x, pc) == run[x].pc = pc /\ run[x].state \in {"open", "closing", "cancelled"}

\* A call's result only leads on in a run that was not asked to stop.
Resume(x, r) ==
    run' = [run EXCEPT ![x] = IF Open(x) THEN r ELSE [@ EXCEPT !.pc = "gone"]]

LiveUnder(id) == {x \in Runs : Live(x) /\ Id[x] = id}

Unstarted == [state |-> "unstarted", pc |-> "gone", node |-> Entry, goto |-> Entry,
              slot |-> NoSlot, tries |-> 0, reason |-> "none", inbox |-> <<>>, stage |-> FALSE]
Free == [pc |-> "free", run |-> First, node |-> Entry,
         ask |-> FALSE, late |-> FALSE, hold |-> 0]

\* enrollContact has created the row and started its run.
Init ==
    /\ enr = [status |-> "ACTIVE", node |-> NoNode, wf |-> Id[First]]
    /\ run = [x \in Runs |-> IF x = First THEN Started(Unstarted, Entry) ELSE Unstarted]
    /\ att = [s \in Slots |-> Free]
    /\ hold = [standing |-> FALSE, count |-> 0]
    /\ suppressed = FALSE
    /\ level = [ask |-> AskFirst, changes |-> 0]
    /\ approval = [n \in Nodes |-> "none"]
    /\ delivered = [n \in Nodes |-> 0]
    /\ messages = [n \in Nodes |-> 0]
    /\ op = [o \in Ops |-> [pc |-> "idle", wf |-> Id[First]]]
    /\ faults = 0

-----------------------------------------------------------------------------
(* The run: campaignWorkflow's loop.                                        *)

\* while (await isEnrollmentHeld) sleep: passes when no hold stands.
PollHold(x) ==
    /\ At(x, "hold") /\ Open(x) /\ ~hold.standing
    /\ run' = [run EXCEPT ![x].pc = "ask"]
    /\ UNCHANGED <<enr, att, world, mail, op, faults>>

\* ensureStepApproval at level "ask": the latest row decides, the first call
\* creates it PENDING; at any other level no approval is required.
PollApproval(x) ==
    LET n == run[x].node IN
    /\ At(x, "ask")
    /\ \/ /\ ~level.ask \/ approval[n] = "APPROVED"
          /\ Resume(x, [run[x] EXCEPT !.pc = "send"])
          /\ UNCHANGED approval
       \/ /\ level.ask /\ approval[n] = "DISMISSED"
          /\ Resume(x, [run[x] EXCEPT !.pc = "refused", !.reason = "APPROVAL_DISMISSED"])
          /\ UNCHANGED approval
       \/ /\ level.ask /\ approval[n] = "none"
          /\ approval' = [approval EXCEPT ![n] = "PENDING"]
          /\ Resume(x, run[x])
    /\ UNCHANGED <<enr, att, hold, suppressed, level, mail, op, faults>>

\* A worker takes the scheduled sendEnrollmentStep: a fresh attempt in a free slot.
StartSend(x) ==
    LET free == {s \in Slots : att[s].pc = "free"}
        s    == CHOOSE u \in free : TRUE
    IN  /\ At(x, "send") /\ Live(x) /\ free # {}
        /\ att' = [att EXCEPT ![s] = [Free EXCEPT !.pc = "lookup", !.run = x,
                                                  !.node = run[x].node]]
        /\ run' = [run EXCEPT ![x].pc = "sending", ![x].slot = s, ![x].tries = @ + 1]
        /\ UNCHANGED <<enr, world, mail, op, faults>>

\* Mutant: only an opt-out touches the status.
BlockedStatusKept(reason) == IF reason = "SUPPRESSED" THEN "UNSUBSCRIBED" ELSE enr.status

\* An opt-out marks the enrollment UNSUBSCRIBED, any other refusal pauses it.
BlockedStatus(reason) == IF reason = "SUPPRESSED" THEN "UNSUBSCRIBED" ELSE "PAUSED"

\* recordEnrollmentBlocked / recordComposeRefused: the refusal ends the run.
RecordBlocked(x) ==
    /\ At(x, "refused")
    /\ enr' = [enr EXCEPT !.node = run[x].node, !.status = BlockedStatus(run[x].reason)]
    /\ Resume(x, Ended(run[x], "blocked"))
    /\ UNCHANGED <<att, world, mail, op, faults>>

\* updateEnrollmentProgress: after a send, before a delay's sleep, before a
\* branch's wait (a split resolves at once, on no intent).
UpdateProgress(x) ==
    LET n == run[x].node IN
    /\ At(x, "progress")
    /\ enr' = [enr EXCEPT !.node = n]
    /\ Resume(x, CASE Kind[n] = "send" -> Arrived(run[x], NextAfter(n))
                   [] Kind[n] = "delay" -> [run[x] EXCEPT !.pc = "asleep"]
                   [] OTHER -> [run[x] EXCEPT !.pc = "await"])
    /\ UNCHANGED <<att, world, mail, op, faults>>

Wake(x) ==
    /\ At(x, "asleep") /\ Open(x)
    /\ run' = [run EXCEPT ![x] = Arrived(@, NextAfter(run[x].node))]
    /\ UNCHANGED <<enr, att, world, mail, op, faults>>

\* The branch resolves: no case for the intent and no default stops the run.
Route(x, intent, inbox) ==
    LET resolved == ResolveReplyBranch(run[x].node, intent)
        r == [run[x] EXCEPT !.inbox = inbox]
    IN  \/ /\ resolved = {}
           /\ run' = [run EXCEPT ![x] = Ended(r, "stopped")]
        \/ \E c \in resolved :
              run' = [run EXCEPT ![x] = [r EXCEPT !.pc = "routed", !.goto = c.goto,
                                                  !.stage = c.stage]]

\* condition(pendingIntents.length > 0): the oldest signalled intent, however
\* long ago it came.
TakeReply(x) ==
    /\ At(x, "await") /\ Open(x)
    /\ Kind[run[x].node] = "branch" /\ run[x].inbox # <<>>
    /\ Route(x, Head(run[x].inbox), Tail(run[x].inbox))
    /\ UNCHANGED <<enr, att, world, mail, op, faults>>

\* Mutant: a split waits for a reply too.
GoOnAfterTimeoutOnly(x) ==
    LET n == run[x].node IN
    /\ At(x, "await") /\ Open(x)
    /\ Kind[n] = "branch" /\ HasDefault(n) /\ run[x].inbox = <<>>
    /\ Route(x, NoIntent, run[x].inbox)
    /\ UNCHANGED <<enr, att, world, mail, op, faults>>

\* The wait times out, which it only does where there is a default case; a
\* split never waits.
GoOnWithoutReply(x) ==
    LET n == run[x].node IN
    /\ At(x, "await") /\ Open(x)
    /\ Kind[n] = "split" \/ (HasDefault(n) /\ run[x].inbox = <<>>)
    /\ Route(x, NoIntent, run[x].inbox)
    /\ UNCHANGED <<enr, att, world, mail, op, faults>>

\* recordIntendedAction, then the case's pipeline move if it has one.
RecordRoute(x) ==
    /\ At(x, "routed")
    /\ enr' = IF run[x].stage THEN [enr EXCEPT !.node = run[x].node] ELSE enr
    /\ Resume(x, Arrived(run[x], run[x].goto))
    /\ UNCHANGED <<att, world, mail, op, faults>>

\* recordIntendedAction of an action, a subcampaign or a deferred step: audit only.
RecordAction(x) ==
    /\ At(x, "record")
    /\ Resume(x, Arrived(run[x], NextAfter(run[x].node)))
    /\ UNCHANGED <<enr, att, world, mail, op, faults>>

\* completeEnrollment writes DONE whatever the status has become.
Complete(x) ==
    /\ At(x, "complete")
    /\ enr' = [enr EXCEPT !.status = "DONE", !.node = run[x].node]
    /\ Resume(x, Ended(run[x], "completed"))
    /\ UNCHANGED <<att, world, mail, op, faults>>

Cancelled(r) == [r EXCEPT !.state = "cancelled", !.slot = NoSlot,
                          !.pc = IF @ \in Writing THEN @ ELSE "gone"]

\* Temporal delivers the request and the run closes; a call that is out still runs.
Close(x) ==
    /\ run[x].state = "closing"
    /\ run' = [run EXCEPT ![x] = Cancelled(@)]
    /\ UNCHANGED <<enr, att, world, mail, op, faults>>

\* A cancelled run's last call never reached the database.
Abandon(x) ==
    /\ run[x].state = "cancelled" /\ run[x].pc # "gone"
    /\ run' = [run EXCEPT ![x].pc = "gone"]
    /\ UNCHANGED <<enr, att, world, mail, op, faults>>

\* A call other than the send used up its attempts: the workflow fails.
GiveUp(x) ==
    /\ Open(x) /\ run[x].pc \in Writing \union {"hold"} /\ faults < MaxFaults
    /\ run' = [run EXCEPT ![x] = Ended(@, "failed")]
    /\ faults' = faults + 1
    /\ UNCHANGED <<enr, att, world, mail, op>>

-----------------------------------------------------------------------------
(* The send attempt: sendEnrollmentStep around sendStep.                    *)

Awaits(s) == Live(att[s].run) /\ run[att[s].run].slot = s

\* The attempt's slot is free again; its run, if it still waits for it, goes on
\* unless it was asked to stop.
Return(s, pc, reason) ==
    LET x == att[s].run IN
    /\ att' = [att EXCEPT ![s] = Free]
    /\ run' = IF Awaits(s)
                THEN [run EXCEPT ![x].pc = IF Open(x) THEN pc ELSE "gone",
                                 ![x].slot = NoSlot, ![x].reason = reason]
                ELSE run

Proceed(s, pc) ==
    /\ att' = [att EXCEPT ![s].pc = pc]
    /\ UNCHANGED run

AtSend(s, pc) == att[s].pc = pc

\* Mutant: no look for an earlier Message.
LookupNothing(s) ==
    /\ AtSend(s, "lookup")
    /\ att' = [att EXCEPT ![s].pc = "hold", ![s].ask = level.ask, ![s].late = suppressed,
                          ![s].hold = IF hold.standing THEN hold.count ELSE 0]
    /\ UNCHANGED <<enr, run, world, mail, op, faults>>

\* An OUTBOUND Message for this node short-circuits; else the guardrails are
\* read, and with them the autonomy level used further down.
Lookup(s) ==
    /\ AtSend(s, "lookup")
    /\ \/ messages[att[s].node] > 0 /\ Return(s, "progress", "none")
       \/ /\ messages[att[s].node] = 0
          /\ att' = [att EXCEPT ![s].pc = "hold", ![s].ask = level.ask,
                                ![s].late = suppressed,
                                ![s].hold = IF hold.standing THEN hold.count ELSE 0]
          /\ UNCHANGED run
    /\ UNCHANGED <<enr, world, mail, op, faults>>

CheckHold(s) ==
    /\ AtSend(s, "hold")
    /\ IF hold.standing THEN Return(s, "refused", "ENROLLMENT_HELD")
                        ELSE Proceed(s, "approval")
    /\ UNCHANGED <<enr, world, mail, op, faults>>

\* Mutant: the boundary trusts the workflow's own poll.
CheckApprovalNever(s) ==
    /\ AtSend(s, "approval") /\ Proceed(s, "rails")
    /\ UNCHANGED <<enr, world, mail, op, faults>>

CheckApproval(s) ==
    /\ AtSend(s, "approval")
    /\ IF att[s].ask /\ approval[att[s].node] # "APPROVED"
          THEN Return(s, "refused", "APPROVAL_REQUIRED")
          ELSE Proceed(s, "rails")
    /\ UNCHANGED <<enr, world, mail, op, faults>>

\* Every other rail and the composer: tenant, sender, channel, window, caps ...
CheckRails(s) ==
    /\ AtSend(s, "rails")
    /\ Proceed(s, "suppression") \/ Return(s, "refused", "OTHER")
    /\ UNCHANGED <<enr, world, mail, op, faults>>

CheckSuppression(s) ==
    /\ AtSend(s, "suppression")
    /\ IF suppressed THEN Return(s, "refused", "SUPPRESSED") ELSE Proceed(s, "transport")
    /\ UNCHANGED <<enr, world, mail, op, faults>>

Deliver(s) ==
    /\ AtSend(s, "transport")
    /\ delivered' = [delivered EXCEPT ![att[s].node] = @ + 1]
    /\ Proceed(s, "persist")
    /\ UNCHANGED <<enr, world, messages, op, faults>>

Persist(s) ==
    /\ AtSend(s, "persist")
    /\ messages' = [messages EXCEPT ![att[s].node] = @ + 1]
    /\ Return(s, "progress", "none")
    /\ UNCHANGED <<enr, world, delivered, op, faults>>

\* Mutants: retrying without a maximum; a lost attempt that is not scheduled again.
RetriedForever(r) == [r EXCEPT !.pc = "send", !.slot = NoSlot]
RetriedNever(r) == [r EXCEPT !.slot = NoSlot]

\* What a lost attempt leaves its run to do: schedule another, or fail.
Retried(r) == IF r.tries < MaxAttempts THEN [r EXCEPT !.pc = "send", !.slot = NoSlot]
                                       ELSE Ended(r, "failed")

\* The worker dies, or a call throws: whatever the attempt did stays done.
Crash(s) ==
    /\ att[s].pc # "free" /\ faults < MaxFaults
    /\ att' = [att EXCEPT ![s] = Free]
    /\ run' = IF Awaits(s) THEN [run EXCEPT ![att[s].run] = Retried(@)] ELSE run
    /\ faults' = faults + 1
    /\ UNCHANGED <<enr, world, mail, op>>

\* startToCloseTimeout: the attempt is given up but goes on by itself.
Timeout(s) ==
    /\ att[s].pc # "free" /\ Awaits(s) /\ faults < MaxFaults
    /\ run' = [run EXCEPT ![att[s].run] = Retried(@)]
    /\ faults' = faults + 1
    /\ UNCHANGED <<enr, att, world, mail, op>>

-----------------------------------------------------------------------------
(* People: reply holds, approvals, the autonomy level.                      *)

\* A human's reply holds an ACTIVE enrollment that is not held yet.
HumanReply ==
    /\ enr.status = "ACTIVE" /\ ~hold.standing /\ hold.count < MaxHolds
    /\ hold' = [standing |-> TRUE, count |-> hold.count + 1]
    /\ UNCHANGED <<enr, run, att, suppressed, level, approval, mail, op, faults>>

ResumeAda ==
    /\ hold.standing
    /\ hold' = [hold EXCEPT !.standing = FALSE]
    /\ UNCHANGED <<enr, run, att, suppressed, level, approval, mail, op, faults>>

Decide(n, decision) ==
    /\ approval[n] = "PENDING"
    /\ approval' = [approval EXCEPT ![n] = decision]
    /\ UNCHANGED <<enr, run, att, hold, suppressed, level, mail, op, faults>>

SetAutonomy ==
    /\ level.changes < MaxLevels
    /\ level' = [ask |-> ~level.ask, changes |-> level.changes + 1]
    /\ UNCHANGED <<enr, run, att, hold, suppressed, approval, mail, op, faults>>

People == HumanReply \/ ResumeAda \/ SetAutonomy
          \/ \E n \in Nodes : Decide(n, "APPROVED") \/ Decide(n, "DISMISSED")

-----------------------------------------------------------------------------
(* What reaches the enrollment from outside.  A rule action is one delivery  *)
(* of the event to the rule engine; it is delivered again when the worker    *)
(* dies before the CampaignRuleRun row is in.                                *)

OpAt(o, kinds, pc) == OpKind[o] \in kinds /\ op[o].pc = pc
OpGoto(o, pc) == op' = [op EXCEPT ![o].pc = pc]

\* evaluateEventForRules reads the status once: rules fire for ACTIVE and DONE.
Evaluate(o) ==
    /\ OpAt(o, RuleKinds, "idle")
    /\ IF enr.status \in {"ACTIVE", "DONE"}
          THEN OpGoto(o, IF OpKind[o] = "move" THEN "assemble" ELSE "apply")
          ELSE OpGoto(o, "done")
    /\ UNCHANGED <<enr, run, att, world, mail, faults>>

\* setStatusAndCancel and suppress_contact: the status first, in one transaction.
ApplyStop(o) ==
    /\ OpAt(o, {"end", "pause", "suppress"}, "apply")
    /\ enr' = [enr EXCEPT !.status = CASE OpKind[o] = "end" -> "DONE"
                                       [] OpKind[o] = "pause" -> "PAUSED"
                                       [] OpKind[o] = "suppress" -> "UNSUBSCRIBED"]
    /\ suppressed' = (suppressed \/ OpKind[o] = "suppress")
    /\ OpGoto(o, "read")
    /\ UNCHANGED <<run, att, hold, level, approval, mail, faults>>

\* applyUnsubscribeReply: suppression, opt-out and status in one transaction;
\* what it will cancel is the enroll-time workflow id.
ApplyUnsubscribe(o) ==
    /\ OpAt(o, {"unsubscribe"}, "idle")
    /\ suppressed' = TRUE
    /\ enr' = [enr EXCEPT !.status = "UNSUBSCRIBED"]
    /\ op' = [op EXCEPT ![o] = [pc |-> "cancel", wf |-> Id[First]]]
    /\ UNCHANGED <<run, att, hold, level, approval, mail, faults>>

\* The contact list's bulk unsubscribe: one transaction, the run is left alone.
BulkUnsubscribe(o) ==
    /\ OpAt(o, {"bulk"}, "idle")
    /\ suppressed' = TRUE
    /\ enr' = IF enr.status \in {"ACTIVE", "PAUSED"}
                THEN [enr EXCEPT !.status = "UNSUBSCRIBED"] ELSE enr
    /\ OpGoto(o, "done")
    /\ UNCHANGED <<run, att, hold, level, approval, mail, faults>>

\* The stored workflow id is read: by a stop before it cancels, by a move while
\* it assembles its input, by the signal consumer before it signals.
ReadWorkflowId(o) ==
    /\ \/ OpAt(o, {"end", "pause", "suppress"}, "read")
       \/ OpAt(o, {"move"}, "assemble")
       \/ OpAt(o, {"reply"}, "idle")
    /\ op' = [op EXCEPT ![o] = [pc |-> IF OpKind[o] = "reply" THEN "signal" ELSE "cancel",
                                wf |-> enr.wf]]
    /\ UNCHANGED <<enr, run, att, world, mail, faults>>

AfterCancel(o) == CASE OpKind[o] = "move" -> "start"
                    [] OpKind[o] = "unsubscribe" -> "done"
                    [] OTHER -> "record"

\* cancelWorkflowById: the live execution of that id is asked to stop ("cooperative";
\* it goes on until Close); none is fine.
CancelRun(o) ==
    /\ op[o].pc = "cancel"
    /\ run' = [x \in Runs |-> IF x \in LiveUnder(op[o].wf)
                                THEN [run[x] EXCEPT !.state = "closing"] ELSE run[x]]
    /\ OpGoto(o, AfterCancel(o))
    /\ UNCHANGED <<enr, att, world, mail, faults>>

\* Mutant: a move goes on when the old run could not be cancelled.
AfterFailedCancelAnyway(o) == AfterCancel(o)

\* Logged by a stop and an unsubscribe; a move errors out.
AfterFailedCancel(o) == IF OpKind[o] = "move" THEN "record" ELSE AfterCancel(o)

CancelFails(o) ==
    /\ op[o].pc = "cancel" /\ faults < MaxFaults
    /\ OpGoto(o, AfterFailedCancel(o))
    /\ faults' = faults + 1
    /\ UNCHANGED <<enr, run, att, world, mail>>

\* client.workflow.start: refused while an execution of that id is live, one that
\* was only asked to stop included; the caller takes the refusal for its own
\* earlier start.
StartUnder(id, n) ==
    IF LiveUnder(id) # {} THEN UNCHANGED run
    ELSE LET fresh == {x \in Runs : Id[x] = id /\ run[x].state = "unstarted"}
         IN  /\ fresh # {}
             /\ run' = [run EXCEPT ![CHOOSE x \in fresh : TRUE] = Started(@, n)]

StartMoved(o) ==
    /\ OpAt(o, {"move"}, "start")
    /\ StartUnder(MoveId[o], Target[o])
    /\ OpGoto(o, "adopt")
    /\ UNCHANGED <<enr, att, world, mail, faults>>

\* moveEnrollmentToNode's last transaction makes the new run the stored one.
Adopt(o) ==
    /\ OpAt(o, {"move"}, "adopt")
    /\ enr' = [status |-> "ACTIVE", node |-> Target[o], wf |-> MoveId[o]]
    /\ OpGoto(o, "record")
    /\ UNCHANGED <<run, att, world, mail, faults>>

\* The CampaignRuleRun row: from here on a redelivery finds it and does nothing.
RecordRuleRun(o) ==
    /\ OpAt(o, RuleKinds, "record")
    /\ OpGoto(o, "done")
    /\ UNCHANGED <<enr, run, att, world, mail, faults>>

\* signalEnrollmentReply: a closed run's signal is an error, logged and lost.
Signal(o) ==
    /\ OpAt(o, {"reply"}, "signal")
    /\ run' = [x \in Runs |-> IF x \in LiveUnder(op[o].wf)
                                THEN [run[x] EXCEPT !.inbox = Append(@, Intent[o])]
                                ELSE run[x]]
    /\ OpGoto(o, "done")
    /\ UNCHANGED <<enr, att, world, mail, faults>>

\* enrollContact on an enrollment that exists: a start under the enroll-time id,
\* whatever the status is.
Reenroll(o) ==
    /\ OpAt(o, {"reenroll"}, "idle")
    /\ StartUnder(Id[First], Entry)
    /\ OpGoto(o, "done")
    /\ UNCHANGED <<enr, att, world, mail, faults>>

\* A queue worker dies in the middle of a job: the job is delivered again.
Redeliver(o) ==
    /\ op[o].pc \notin {"idle", "done"} /\ faults < MaxFaults
    /\ OpGoto(o, "idle")
    /\ faults' = faults + 1
    /\ UNCHANGED <<enr, run, att, world, mail>>

-----------------------------------------------------------------------------
RunStep(x) ==
    \/ PollHold(x) \/ PollApproval(x) \/ StartSend(x) \/ RecordBlocked(x)
    \/ UpdateProgress(x) \/ Wake(x) \/ TakeReply(x) \/ GoOnWithoutReply(x)
    \/ RecordRoute(x) \/ RecordAction(x) \/ Complete(x)

SendStep(s) ==
    \/ Lookup(s) \/ CheckHold(s) \/ CheckApproval(s) \/ CheckRails(s)
    \/ CheckSuppression(s) \/ Deliver(s) \/ Persist(s)

OpStep(o) ==
    \/ Evaluate(o) \/ ApplyStop(o) \/ ApplyUnsubscribe(o) \/ BulkUnsubscribe(o)
    \/ ReadWorkflowId(o) \/ CancelRun(o) \/ StartMoved(o) \/ Adopt(o)
    \/ RecordRuleRun(o) \/ Signal(o) \/ Reenroll(o)

Next ==
    \/ \E x \in Runs : RunStep(x) \/ Close(x) \/ Abandon(x) \/ GiveUp(x)
    \/ \E s \in Slots : SendStep(s) \/ Crash(s) \/ Timeout(s)
    \/ \E o \in Ops : OpStep(o) \/ CancelFails(o) \/ Redeliver(o)
    \/ People

\* Temporal drives every live run, its activities and its timers, and delivers a
\* cancel; the queues drive every job that has begun.  Nobody has to reply, decide
\* or resume.
Fairness ==
    /\ \A x \in Runs : WF_vars(RunStep(x)) /\ WF_vars(Close(x))
    /\ \A s \in Slots : WF_vars(SendStep(s))
    /\ \A o \in Ops : WF_vars(op[o].pc # "idle" /\ OpStep(o))

Spec == Init /\ [][Next]_vars /\ Fairness
-----------------------------------------------------------------------------
\* The same step never reaches the same lead twice ("retries and workflow
\* replays never double-send", activities.ts).  Holds while nothing fails and no
\* second run overlaps a send; see the README for where it does not.
DeliveredAtMostOnce == \A n \in Nodes : delivered[n] <= 1

\* Without a second run beside it, a duplicate always has a fault to blame: the
\* lookup of the Message row stops every repeat that is not paid for by one.
DuplicatesNeedFaults == \A n \in Nodes : delivered[n] <= 1 + faults

\* No send reaches the transport past a stop that stood when the attempt began
\* and still stands: a suppression, a human's hold, a level "ask" without a tap.
StandingStopsHold ==
    [][\A s \in Slots : (att[s].pc = "transport" /\ att'[s].pc = "persist") =>
          /\ ~att[s].late
          /\ ~(hold.standing /\ att[s].hold = hold.count)
          /\ att[s].ask => approval[att[s].node] = "APPROVED"]_vars

\* An ACTIVE enrollment has a run that nobody asked to stop, unless its run found
\* no case or failed, or a move is bringing the next one: no lead is ACTIVE and
\* forgotten.
NoForgottenLead ==
    enr.status = "ACTIVE" =>
        \/ \E x \in Runs : Open(x) \/ run[x].state \in {"stopped", "failed"}
        \/ \E o \in Ops : OpKind[o] = "move" /\ op[o].pc \in {"start", "adopt"}

\* Once an unsubscribe reply was handled every live run was asked to stop
\* (classify.ts: "the durable run is cancelled so no timer ever fires again for
\* this lead").
UnsubscribeEndsRuns ==
    (\E o \in Ops : OpKind[o] = "unsubscribe" /\ op[o].pc = "done")
        => \A x \in Runs : ~Open(x)

\* Of an enrollment's live runs at most one goes on: a second one is there only
\* while it was asked to stop (client.ts: "the old run is cancelled (cooperative; a
\* brief overlap ...)"), and starting twice dedupes by workflow id.
OneRunGoesOn == \A x, y \in Runs : Open(x) /\ Open(y) => x = y

\* What an open run may wait for without end: Resume, a decision, or the reply
\* of a branch that has no default case.
WaitsOnPeople(x) ==
    LET n == run[x].node IN
    /\ Open(x)
    /\ \/ run[x].pc = "hold" /\ hold.standing
       \/ run[x].pc = "ask" /\ approval[n] = "PENDING"
       \/ run[x].pc = "await" /\ run[x].inbox = <<>> /\ ~HasDefault(n)

\* Every live run ends or waits on people, and one that was asked to stop ends: no
\* timeout, crash or cancel strands it.
RunsSettle == \A x \in Runs : Live(x) ~> (~Live(x) \/ WaitsOnPeople(x))
=============================================================================
