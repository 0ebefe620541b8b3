------------------------------ MODULE VoiceCall ------------------------------
(***************************************************************************)
(* The Call rows of one contact in one campaign and the phone legs behind  *)
(* them: the dial endpoint with its best-time queue, the campaign's voice  *)
(* step, the voice session on the media stream, an operator jumping in and *)
(* the provider's status callback.  Each of them reads the row, works, and *)
(* writes it in separate transactions.                                     *)
(***************************************************************************)
EXTENDS Integers, FiniteSets

CONSTANTS
    Dials,          \* dial requests and step activities
    KindOf,         \* each one's kind: "direct", "best", "step", or "retry" of a slow one
    Rows,           \* ids of Call rows
    Legs,           \* the provider's call sids
    NoRow, NoLeg,
    MaxAttempts,    \* guardrails.voice.callMaxAttempts
    VoicemailAfter, \* guardrails.voice.voicemailAfter
    Answerable,     \* bound: legs somebody may pick up
    MaxDials,       \* bound: dials that begin
    MaxFaults       \* bound: throws, crashes, slow attempts, lost callbacks, the opt-out

ASSUME DialAssumption == KindOf \in [Dials -> {"direct", "best", "step", "retry"}]
(* The workflow schedules the step's activity once: "step" is its first       *)
(* attempt, the attempts that run beside a slow one are retries.              *)
ASSUME ActivityAssumption == \A d, e \in Dials : KindOf[d] = "step" /\ KindOf[e] = "step" => d = e
ASSUME SentinelAssumption == NoRow \notin Rows /\ NoLeg \notin Legs /\ IsFiniteSet(Rows)
ASSUME BoundAssumption ==
    MaxAttempts \in Nat \ {0} /\ VoicemailAfter \in Nat \ {0} /\ MaxFaults \in Nat

VARIABLES
    row,            \* Call: [status, outcome, sid, taken, step]
    dial,           \* each dial's progress: [pc, row, leg, job: it runs from the queue]
    leg,            \* the provider's view: [state, row, result]
    callback,       \* the status webhook per leg
    session,        \* the voice service's stream per leg
    starts,         \* legs whose session has its start still to write
    saw,            \* what a session's finalize read of the takeover marker
    operator,       \* the operator's jump-in: [pc, row, leg], the leg as it was when checked
    optedOut, faults,
    slow,           \* attempts and jobs taken for dead whose retry runs beside them
    endings,        \* history: terminal events published per row
    enders,         \* history: who published them
    early,          \* history: rows whose leg's callback found no sid
    unsaved,        \* history: legs that rang but never reached their row
    overtaken,      \* history: dials in flight past the rails at an opt-out or another dial
    rangOver,       \* history: dials that rang an opted-out contact
    crossed,        \* history: rows marked taken while a finalize held an older reading
    lateStart,      \* history: rows a session started after their leg was gone
    stranded        \* history: queued rows whose dial gave up

histVars == <<endings, enders, early, unsaved, overtaken, rangOver, crossed, lateStart, stranded>>
vars == <<row, dial, leg, callback, session, starts, saw, operator, optedOut, faults, slow,
          endings, enders, early, unsaved, overtaken, rangOver, crossed, lateStart, stranded>>

Outcomes == {"completed", "failed", "canceled"}     \* no answer and busy count as failed

FreeRow == [status |-> "none", outcome |-> "none", sid |-> NoLeg, taken |-> FALSE, step |-> FALSE]

TypeOK ==
    /\ row \in [Rows -> [status: {"none", "QUEUED", "IN_PROGRESS", "COMPLETED", "FAILED"},
                         outcome: Outcomes \union {"none"}, sid: Legs \union {NoLeg},
                         taken: BOOLEAN, step: BOOLEAN]]
    /\ dial \in [Dials -> [pc: {"idle", "again", "gate", "create", "place", "save", "report", "promise", "enqueue",
                                "queued", "fire", "done", "refused", "failed"},
                           row: Rows \union {NoRow}, leg: Legs \union {NoLeg}, job: BOOLEAN]]
    /\ leg \in [Legs -> [state: {"free", "ringing", "up", "room", "ended"},
                         row: Rows \union {NoRow}, result: Outcomes \union {"none"}]]
    /\ callback \in [Legs -> {"none", "due", "write", "done"}]
    /\ session \in [Legs -> {"off", "starting", "live", "ending", "write", "gone", "abandoned"}]
    /\ starts \subseteq Legs /\ saw \in [Legs -> BOOLEAN]
    /\ operator \in [pc: {"idle", "mark", "redirect", "done"}, row: Rows \union {NoRow},
                     leg: Legs \union {NoLeg}]
    /\ optedOut \in BOOLEAN /\ faults \in 0..MaxFaults
    /\ slow \subseteq Dials
    /\ endings \in [Rows -> Nat] /\ enders \in [Rows -> SUBSET {"webhook", "session", "refusal"}]
    /\ early \subseteq Rows /\ unsaved \subseteq Legs
    /\ overtaken \subseteq Dials /\ rangOver \subseteq Dials
    /\ crossed \subseteq Rows /\ lateStart \subseteq Rows /\ stranded \subseteq Rows

Init ==
    /\ row = [r \in Rows |-> FreeRow]
    /\ dial = [d \in Dials |-> [pc |-> "idle", row |-> NoRow, leg |-> NoLeg, job |-> FALSE]]
    /\ leg = [l \in Legs |-> [state |-> "free", row |-> NoRow, result |-> "none"]]
    /\ callback = [l \in Legs |-> "none"]
    /\ session = [l \in Legs |-> "off"]
    /\ starts = {} /\ saw = [l \in Legs |-> FALSE]
    /\ operator = [pc |-> "idle", row |-> NoRow, leg |-> NoLeg]
    /\ optedOut = FALSE /\ faults = 0 /\ slow = {}
    /\ endings = [r \in Rows |-> 0] /\ enders = [r \in Rows |-> {}]
    /\ early = {} /\ unsaved = {} /\ overtaken = {} /\ rangOver = {}
    /\ crossed = {} /\ lateStart = {} /\ stranded = {}

At(d, pc) == dial[d].pc = pc
Goto(d, pc) == dial' = [dial EXCEPT ![d].pc = pc]
Fault == faults < MaxFaults /\ faults' = faults + 1
Ends(r, who) ==
    /\ endings' = [endings EXCEPT ![r] = @ + 1]
    /\ enders' = [enders EXCEPT ![r] = @ \union {who}]

-----------------------------------------------------------------------------
(* assertDialAllowed: an attempt is a row with a sid, a failure one of them   *)
(* that went unanswered; consent, caps and the other rails are taken as open. *)

\* Mutant: a call counts once it was talked through.
AttemptsCompleted == Cardinality({r \in Rows : row[r].outcome = "completed"})
Attempts == Cardinality({r \in Rows : row[r].sid # NoLeg})
Unanswered == Cardinality({r \in Rows : row[r].sid # NoLeg /\ row[r].outcome = "failed"})
RailsClear == Attempts < MaxAttempts /\ Unanswered < VoicemailAfter /\ ~optedOut

PastRails == {d \in Dials : dial[d].pc \in {"create", "place", "save"}}

NewDial == Cardinality({d \in Dials : ~At(d, "idle")}) < MaxDials

(* Voice step: a row of this step with a sid is a duplicate, one without is   *)
(* resumed; which row an attempt found is what it goes by from then on.       *)
IsStep(d) == KindOf[d] = "step" \/ (KindOf[d] = "retry" /\ ~dial[d].job)
StepRows == {r \in Rows : row[r].step}
Found == IF StepRows = {} THEN {NoRow} ELSE StepRows
Dialed(r) == r # NoRow /\ row[r].sid # NoLeg

Begin(d) ==
    /\ (At(d, "idle") /\ KindOf[d] # "retry" /\ NewDial) \/ At(d, "again")
    /\ IF IsStep(d)
       THEN \E r \in Found :
              /\ dial' = [dial EXCEPT ![d].pc = IF Dialed(r) THEN "done" ELSE "gate", ![d].row = r]
              /\ stranded' = stranded \union ({dial[d].row} \ {r, NoRow})
       ELSE Goto(d, "gate") /\ UNCHANGED stranded
    /\ UNCHANGED <<row, leg, callback, session, starts, saw, operator, optedOut, faults, slow,
                   endings, enders, early, unsaved, overtaken, rangOver, crossed, lateStart>>

(* The calling window is no variable: the hour may pass an edge of it between *)
(* any two reads, so each read of it has both answers.  A closed window       *)
(* refuses a dial, but a best-time request it sends to the queue.             *)
HourMayRefuse(d) == KindOf[d] # "best"

(* The rails refuse, or the hour does; a step run again leaves the row it     *)
(* resumed.                                                                   *)
Refused(d) ==
    /\ At(d, "gate")
    /\ ~RailsClear \/ HourMayRefuse(d)
    /\ Goto(d, "refused")
    /\ stranded' = stranded \union ({dial[d].row} \ {NoRow})
    /\ UNCHANGED <<row, leg, callback, session, starts, saw, operator, optedOut, faults, slow,
                   endings, enders, early, unsaved, overtaken, rangOver, crossed, lateStart>>

Cleared(d) ==
    /\ At(d, "gate") /\ RailsClear
    /\ Goto(d, IF dial[d].row = NoRow THEN "create" ELSE "place")
    /\ overtaken' = IF PastRails \ {d} # {} THEN overtaken \union {d} ELSE overtaken
    /\ UNCHANGED <<row, leg, callback, session, starts, saw, operator, optedOut, faults, slow,
                   endings, enders, early, unsaved, rangOver, crossed, lateStart, stranded>>

(* queueBestTime: any QUEUED row without a sid is answered as the pending one. *)
PendingRows == {r \in Rows : row[r].status = "QUEUED" /\ row[r].sid = NoLeg}

Promise(d) ==
    /\ At(d, "gate") /\ KindOf[d] = "best" /\ RailsClear
    /\ Goto(d, IF PendingRows # {} THEN "done" ELSE "promise")
    /\ UNCHANGED <<row, leg, callback, session, starts, saw, operator, optedOut, faults, slow, histVars>>

(* The row is created first; what comes next is a call of its own. *)
NewRow(d, next) ==
    LET r == CHOOSE r \in Rows : row[r].status = "none" IN
    /\ \E free \in Rows : row[free].status = "none"
    /\ row' = [row EXCEPT ![r].status = "QUEUED", ![r].step = IsStep(d)]
    /\ dial' = [dial EXCEPT ![d].pc = next, ![d].row = r]

CreateQueued(d) ==
    /\ At(d, "promise")
    /\ NewRow(d, "enqueue")
    /\ UNCHANGED <<leg, callback, session, starts, saw, operator, optedOut, faults, slow, histVars>>

Enqueue(d) ==
    /\ At(d, "enqueue")
    /\ dial' = [dial EXCEPT ![d].pc = "queued", ![d].job = TRUE]
    /\ UNCHANGED <<row, leg, callback, session, starts, saw, operator, optedOut, faults, slow, histVars>>

Create(d) ==
    /\ At(d, "create")
    /\ NewRow(d, "place")
    /\ UNCHANGED <<leg, callback, session, starts, saw, operator, optedOut, faults, slow, histVars>>

(* fireQueuedCall when the job is due: only a QUEUED row without a sid.        *)
\* Mutant: any row still marked as queued is dialed.
FireableQueued(r) == row[r].status = "QUEUED"
Fireable(r) == r \in PendingRows

Fire(d) ==
    /\ At(d, "queued")
    /\ Goto(d, IF Fireable(dial[d].row) THEN "fire" ELSE "done")
    /\ UNCHANGED <<row, leg, callback, session, starts, saw, operator, optedOut, faults, slow, histVars>>

(* The full rails again, the hour first; a timing refusal puts the job off to *)
(* the next opening, any other one, or a window that never opens again,       *)
(* cancels the row and publishes call.refused.  Both write back the meta the  *)
(* job read when the row was still waiting, with no takeover in it.           *)
\* Mutant: only the caps are looked at again.
FireCaps == Attempts < MaxAttempts /\ Unanswered < VoicemailAfter
FireRails == RailsClear

FireCleared(d) ==
    /\ At(d, "fire") /\ FireRails
    /\ Goto(d, "place")
    /\ overtaken' = IF PastRails \ {d} # {} THEN overtaken \union {d} ELSE overtaken
    /\ UNCHANGED <<row, leg, callback, session, starts, saw, operator, optedOut, faults, slow,
                   endings, enders, early, unsaved, rangOver, crossed, lateStart, stranded>>

\* Mutant: the job is put off and nothing is armed for the next opening.
FireDropped(d) ==
    /\ At(d, "fire")
    /\ Goto(d, "done")
    /\ UNCHANGED <<row, leg, callback, session, starts, saw, operator, optedOut, faults, slow, histVars>>

FirePutOff(d) ==
    /\ At(d, "fire")
    /\ row' = [row EXCEPT ![dial[d].row].taken = FALSE]
    /\ Goto(d, "queued")
    /\ UNCHANGED <<leg, callback, session, starts, saw, operator, optedOut, faults, slow, histVars>>

FireRefused(d) ==
    /\ At(d, "fire")
    /\ row' = [row EXCEPT ![dial[d].row].status = "FAILED", ![dial[d].row].outcome = "canceled",
                          ![dial[d].row].taken = FALSE]
    /\ Ends(dial[d].row, "refusal")
    /\ Goto(d, "refused")
    /\ UNCHANGED <<leg, callback, session, starts, saw, operator, optedOut, faults, slow,
                   early, unsaved, overtaken, rangOver, crossed, lateStart, stranded>>

Place(d) ==
    LET l == CHOOSE l \in Legs : leg[l].state = "free" IN
    /\ At(d, "place") /\ \E free \in Legs : leg[free].state = "free"
    /\ leg' = [leg EXCEPT ![l] = [state |-> "ringing", row |-> dial[d].row, result |-> "none"]]
    /\ dial' = [dial EXCEPT ![d].pc = "save", ![d].leg = l]
    /\ rangOver' = IF optedOut THEN rangOver \union {d} ELSE rangOver
    /\ UNCHANGED <<row, callback, session, starts, saw, operator, optedOut, faults, slow,
                   endings, enders, early, unsaved, overtaken, crossed, lateStart, stranded>>

(* The sid is saved with a meta of the dial's own, whatever stood there.      *)
\* Mutant: what the provider answered is kept, its sid is not.
SidForgotten(d) == row[dial[d].row].sid
Sid(d) == dial[d].leg

Save(d) ==
    /\ At(d, "save")
    /\ row' = [row EXCEPT ![dial[d].row].sid = Sid(d), ![dial[d].row].taken = FALSE]
    /\ Goto(d, "report")
    /\ UNCHANGED <<leg, callback, session, starts, saw, operator, optedOut, faults, slow, histVars>>

Report(d) ==
    /\ At(d, "report")
    /\ Goto(d, "done")
    /\ UNCHANGED <<row, leg, callback, session, starts, saw, operator, optedOut, faults, slow, histVars>>

(* The provider refuses, a write throws or the process dies, at the latest    *)
(* before the activity or the job is reported done.  The workflow retries its *)
(* activity until its attempts are used up or the run is cancelled, and the   *)
(* queue a stalled job; a request gives up, a job whose handler threw has no  *)
(* second attempt.  (A failure before the row is written is a dial that did   *)
(* not begin.)                                                                *)
Retries(d) == IF IsStep(d) THEN (IF d \in slow THEN {} ELSE {"again"})
              ELSE IF dial[d].job THEN {"queued"} ELSE {}

DialFails(d) ==
    /\ dial[d].pc \in {"place", "save", "report", "enqueue", "fire"} /\ Fault
    /\ \E next \in Retries(d) \union {"failed"} :
          /\ dial' = [dial EXCEPT ![d].pc = next, ![d].leg = NoLeg]
          /\ stranded' = IF next = "failed" THEN stranded \union ({dial[d].row} \ {NoRow}) ELSE stranded
    /\ unsaved' = IF At(d, "save") THEN unsaved \union {dial[d].leg} ELSE unsaved
    /\ UNCHANGED <<row, leg, callback, session, starts, saw, operator, optedOut, slow,
                   endings, enders, early, overtaken, rangOver, crossed, lateStart>>

(* A slow attempt is not a dead one: the step's two minutes or the job's lock *)
(* run out, the retry starts, and the first one goes on beside it.            *)
AtWork(d) == IF IsStep(d) THEN dial[d].pc \in {"gate", "create", "place", "save", "report"}
             ELSE dial[d].job /\ dial[d].pc \in {"fire", "place", "save", "report"}

RetriedBeside(d, e) ==
    /\ AtWork(d) /\ d \notin slow
    /\ KindOf[e] = "retry" /\ At(e, "idle") /\ NewDial /\ Fault
    /\ dial' = [dial EXCEPT ![e] = IF IsStep(d) THEN [@ EXCEPT !.pc = "again"]
                                   ELSE [@ EXCEPT !.pc = "queued", !.row = dial[d].row, !.job = TRUE]]
    /\ slow' = slow \union {d}
    /\ UNCHANGED <<row, leg, callback, session, starts, saw, operator, optedOut, histVars>>

-----------------------------------------------------------------------------
(* The provider (external): a leg rings, is answered or not, and ends.        *)

Answer(l) ==
    /\ l \in Answerable /\ leg[l].state = "ringing"
    /\ leg' = [leg EXCEPT ![l].state = "up"]
    /\ session' = [session EXCEPT ![l] = "starting"]
    /\ UNCHANGED <<row, dial, callback, starts, saw, operator, optedOut, faults, slow, histVars>>

(* The stream of a leg that leaves it stops: a session that is still loading  *)
(* its context has nothing to finalize.                                       *)
Stopped(l) == CASE session[l] = "live" -> "ending"
                [] session[l] = "starting" -> "abandoned"
                [] OTHER -> session[l]

LegEnds(l) ==
    /\ leg[l].state \in {"ringing", "up", "room"}
    /\ \E result \in Outcomes \ {"canceled"} :
          /\ (result = "completed") = (leg[l].state # "ringing")
          /\ leg' = [leg EXCEPT ![l].state = "ended", ![l].result = result]
    /\ session' = [session EXCEPT ![l] = Stopped(l)]
    /\ callback' = [callback EXCEPT ![l] = "due"]
    /\ UNCHANGED <<row, dial, starts, saw, operator, optedOut, faults, slow, histVars>>

-----------------------------------------------------------------------------
(* webhooks/twilio-voice-status: the row is found by its sid, then written.   *)

RowOf(l) == {r \in Rows : row[r].sid = l}

\* Mutant: a call in progress is left to its session.
AwaitsUnlessLive(r) == row[r].outcome = "none" /\ row[r].status # "IN_PROGRESS"
AwaitsOutcome(r) == row[r].outcome = "none"

CallbackReads(l) ==
    /\ callback[l] = "due"
    /\ callback' = [callback EXCEPT ![l] =
           IF \E r \in RowOf(l) : AwaitsOutcome(r) THEN "write" ELSE "done"]
    /\ early' = IF RowOf(l) = {} THEN early \union {leg[l].row} ELSE early
    /\ UNCHANGED <<row, dial, leg, session, starts, saw, operator, optedOut, faults, slow,
                   endings, enders, unsaved, overtaken, rangOver, crossed, lateStart, stranded>>

\* Mutant: only the outcome is written.
StampOutcome(r, outcome) == row' = [row EXCEPT ![r].outcome = outcome]
Stamp(r, outcome) ==
    row' = [row EXCEPT ![r].status = IF outcome = "completed" THEN "COMPLETED" ELSE "FAILED",
                       ![r].outcome = outcome]

CallbackWrites(l) ==
    /\ callback[l] = "write"
    /\ Stamp(leg[l].row, leg[l].result)
    /\ Ends(leg[l].row, "webhook")
    /\ callback' = [callback EXCEPT ![l] = "done"]
    /\ UNCHANGED <<dial, leg, session, starts, saw, operator, optedOut, faults, slow,
                   early, unsaved, overtaken, rangOver, crossed, lateStart, stranded>>

CallbackLost(l) ==
    /\ callback[l] = "due" /\ Fault
    /\ callback' = [callback EXCEPT ![l] = "done"]
    /\ early' = early \union {leg[l].row}
    /\ UNCHANGED <<row, dial, leg, session, starts, saw, operator, optedOut, slow,
                   endings, enders, unsaved, overtaken, rangOver, crossed, lateStart, stranded>>

-----------------------------------------------------------------------------
(* The voice session: withCallStarted once the context is loaded, finalizeCall *)
(* when the stream stops or the session's own limits end it.                  *)

SessionLoads(l) ==
    /\ session[l] \in {"starting", "abandoned"}
    /\ session' = [session EXCEPT ![l] = IF @ = "starting" THEN "live" ELSE "gone"]
    /\ starts' = starts \union {l}
    /\ UNCHANGED <<row, dial, leg, callback, saw, operator, optedOut, faults, slow, histVars>>

StartWrites(l) ==
    /\ l \in starts
    /\ row' = [row EXCEPT ![leg[l].row].status = "IN_PROGRESS"]
    /\ starts' = starts \ {l}
    /\ lateStart' = IF session[l] # "live" THEN lateStart \union {leg[l].row} ELSE lateStart
    /\ UNCHANGED <<dial, leg, callback, session, saw, operator, optedOut, faults, slow,
                   endings, enders, early, unsaved, overtaken, rangOver, crossed, stranded>>

(* Idle timeout, call limit, provider failure, hang-up by the agent. *)
SessionEnds(l) ==
    /\ session[l] = "live" /\ l \notin starts
    /\ session' = [session EXCEPT ![l] = "ending"]
    /\ UNCHANGED <<row, dial, leg, callback, starts, saw, operator, optedOut, faults, slow, histVars>>

FinalizeReads(l) ==
    /\ session[l] = "ending"
    /\ saw' = [saw EXCEPT ![l] = row[leg[l].row].taken]
    /\ session' = [session EXCEPT ![l] = "write"]
    /\ UNCHANGED <<row, dial, leg, callback, starts, operator, optedOut, faults, slow, histVars>>

(* The update writes back the meta it read; without a takeover in it, also    *)
(* the end of the call, and publishes it.                                     *)
\* Mutant: the call is over whoever has it now.
LeavesOpenNever(l) == FALSE
LeavesOpen(l) == saw[l]

FinalizeWrites(l) ==
    LET r == leg[l].row IN
    /\ session[l] = "write"
    /\ \E outcome \in {"completed", "failed"} :
          row' = IF LeavesOpen(l) THEN [row EXCEPT ![r].taken = TRUE]
                 ELSE [row EXCEPT ![r].taken = saw[l], ![r].outcome = outcome,
                                  ![r].status = IF outcome = "completed" THEN "COMPLETED" ELSE "FAILED"]
    /\ IF LeavesOpen(l) THEN UNCHANGED <<endings, enders>> ELSE Ends(r, "session")
    /\ session' = [session EXCEPT ![l] = "gone"]
    /\ saw' = [saw EXCEPT ![l] = FALSE]
    /\ crossed' = IF row[r].taken # saw[l] THEN crossed \union {r} ELSE crossed
    /\ UNCHANGED <<dial, leg, callback, starts, operator, optedOut, faults, slow,
                   early, unsaved, overtaken, rangOver, lateStart, stranded>>

-----------------------------------------------------------------------------
(* Jump in: the row is checked, marked, and its leg redirected to the room.   *)

JumpChecks(r) ==
    /\ operator.pc = "idle"
    /\ row[r].status = "IN_PROGRESS" /\ row[r].outcome = "none"
    /\ ~row[r].taken /\ row[r].sid # NoLeg
    /\ operator' = [pc |-> "mark", row |-> r, leg |-> row[r].sid]
    /\ UNCHANGED <<row, dial, leg, callback, session, starts, saw, optedOut, faults, slow, histVars>>

JumpMarks ==
    LET r == operator.row IN
    /\ operator.pc = "mark"
    /\ row' = [row EXCEPT ![r].taken = TRUE]
    /\ operator' = [operator EXCEPT !.pc = "redirect"]
    /\ crossed' = IF row[r].outcome # "none" THEN crossed \union {r} ELSE crossed
    /\ UNCHANGED <<dial, leg, callback, session, starts, saw, optedOut, faults, slow,
                   endings, enders, early, unsaved, overtaken, rangOver, lateStart, stranded>>

JumpRedirects ==
    LET l == operator.leg IN
    /\ operator.pc = "redirect"
    /\ operator' = [operator EXCEPT !.pc = "done"]
    /\ IF leg[l].state = "up"
       THEN /\ leg' = [leg EXCEPT ![l].state = "room"]
            /\ session' = [session EXCEPT ![l] = Stopped(l)]
       ELSE UNCHANGED <<leg, session>>
    /\ UNCHANGED <<row, dial, callback, starts, saw, optedOut, faults, slow, histVars>>

-----------------------------------------------------------------------------
(* The contact's opt-out, still while no dial is where it could tell the      *)
(* difference.                                                                *)
DialAt(pcs) == \E d \in Dials : dial[d].pc \in pcs

OptOut ==
    /\ DialAt({"gate", "fire", "place"}) /\ ~optedOut /\ Fault
    /\ optedOut' = TRUE
    /\ overtaken' = overtaken \union PastRails
    /\ UNCHANGED <<row, dial, leg, callback, session, starts, saw, operator, slow,
                   endings, enders, early, unsaved, rangOver, crossed, lateStart, stranded>>

DialStep(d) ==
    \/ (At(d, "again") /\ Begin(d)) \/ Refused(d) \/ Cleared(d) \/ Promise(d) \/ Enqueue(d) \/ Fire(d)
    \/ FireCleared(d) \/ FirePutOff(d) \/ FireRefused(d) \/ Save(d) \/ Report(d)
    \/ CreateQueued(d) \/ Create(d) \/ Place(d)
LegStep(l) ==
    \/ CallbackReads(l) \/ CallbackWrites(l)
    \/ SessionLoads(l) \/ StartWrites(l) \/ FinalizeReads(l) \/ FinalizeWrites(l)
OperatorStep == JumpMarks \/ JumpRedirects

Next ==
    \/ \E d \in Dials : Begin(d) \/ DialStep(d) \/ DialFails(d)
    \/ \E d, e \in Dials : RetriedBeside(d, e)
    \/ \E l \in Legs : Answer(l) \/ LegEnds(l) \/ LegStep(l) \/ CallbackLost(l) \/ SessionEnds(l)
    \/ (\E r \in Rows : JumpChecks(r)) \/ OperatorStep
    \/ OptOut

Spec == Init /\ [][Next]_vars

-----------------------------------------------------------------------------
(* Properties *)

(* The rows of a call that an attempt and the retry beside it worked at. *)
Twice(r) == \E d \in slow : IF IsStep(d) THEN row[r].step ELSE dial[d].row = r
TwiceRows == {r \in Rows : Twice(r)}

(* A step or a queued call rings once, although activities and jobs are run   *)
(* again: a second leg, for its row or for another row of the step, needs a   *)
(* first one whose sid was never saved ("a crash between create and placeCall:*)
(* resume it", activities.ts), or a retry that ran beside a slow attempt.     *)
SameCall(r, q) == r = q \/ (row[r].step /\ row[q].step)
RingsOnce ==
    \A l, m \in Legs :
        /\ l # m /\ leg[l].row # NoRow /\ leg[m].row # NoRow
        /\ SameCall(leg[l].row, leg[m].row)
        => {l, m} \intersect unsaved # {} \/ Twice(leg[l].row)

(* The lifetime cap of calls that rang holds, unless dials passed the rails   *)
(* side by side, a sid was never saved, or a retry rang beside a slow attempt *)
(* for the same row: only rows with a sid count.                              *)
Rung == {l \in Legs : leg[l].state # "free"}
AttemptsHold == Cardinality(Rung) > MaxAttempts => overtaken # {} \/ unsaved # {} \/ slow # {}

(* "A queued call never bypasses a gate that would refuse a fresh one": a     *)
(* contact who opted out is rung only by a dial past its rails at that moment.*)
OptOutStopsDials == rangOver \subseteq overtaken

(* One terminal event per call ("one terminal event per call", runtime.ts),   *)
(* but for a call that both the stream's end and the status callback close,   *)
(* and for a row with legs of its own beside the one it knows.                *)
RangUnsaved == {leg[l].row : l \in unsaved}
Astray == RangUnsaved \union TwiceRows
EndingsExplained ==
    \A r \in Rows \ Astray :
        endings[r] > 1 => {"webhook", "session"} \subseteq enders[r]

(* "A taken-over call is still IN PROGRESS when Ada's leg stops": while the   *)
(* contact is in the room the row is not closed, unless the takeover crossed  *)
(* a finalize that had read the row before it, or the call rang twice.        *)
TakenStaysOpen ==
    \A l \in Legs : leg[l].state = "room" /\ session[l] = "gone" =>
        \A r \in RowOf(l) : row[r].outcome = "none" \/ r \in crossed \union TwiceRows

(* A row with an outcome does not look live, unless its session started when  *)
(* the leg was already gone, or it has legs beside the one it knows.          *)
EndedIsNotLive ==
    \A r \in Rows : row[r].outcome # "none" /\ row[r].status = "IN_PROGRESS" =>
        r \in lateStart \union Astray

(* A row whose leg ended and whose handlers are through has its outcome,      *)
(* unless the provider's callback came before the sid was saved, or not at    *)
(* all: nothing reconciles such a row later.                                  *)
Over(l) ==
    /\ leg[l].state = "ended" /\ callback[l] = "done"
    /\ session[l] \in {"off", "gone"} /\ l \notin starts
EveryCallEnds ==
    \A l \in Legs : Over(l) => \A r \in RowOf(l) : row[r].outcome # "none" \/ r \in early

(* "An honest 503 beats a phantom queued row nobody will ever dial"           *)
(* (voice.controller.ts): a queued row that never rang has a dial at work on  *)
(* it, unless that dial gave up half way.                                     *)
NoPhantomCall ==
    \A r \in PendingRows \ stranded :
        \E d \in Dials : dial[d].row = r /\ dial[d].pc \notin {"done", "refused", "failed"}
=============================================================================
