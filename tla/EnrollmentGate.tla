--------------------------- MODULE EnrollmentGate ---------------------------
(***************************************************************************)
(* The enrollment gate of one campaign (packages/workflows/src/enroll.ts): *)
(* API requests and hold drains take contacts through enrollContact side   *)
(* by side.  Every read and every write is a transaction of its own, so a  *)
(* decision may be old when it is written.  Verdicts land as VerdictSource *)
(* allows; people suppress contacts and flip the risky policy.             *)
(***************************************************************************)
EXTENDS Integers, FiniteSets

CONSTANTS
    Contacts,
    Answers,        \* verdicts validation may return
    Requests,       \* API requests to enroll, each made once
    AskOf,          \* the contact each one names
    Drains,         \* hold drains, run again and again
    Cap,            \* Campaign.enrollmentDailyCap
    CapEnabled,     \* Campaign.enrollmentCapEnabled
    Nobody,
    Routed,         \* bound: contacts a form or a Zap may route here
    MaxFaults,      \* bound: throws and crashes
    MaxChanges      \* bound: verdicts on a verdict, suppressions, policy flips, rows of forms

Procs == Requests \union Drains

ASSUME GateAssumption ==
    /\ AskOf \in [Requests -> Contacts] /\ Requests \intersect Drains = {}
    /\ Nobody \notin Contacts /\ Routed \subseteq Contacts
    /\ Answers \subseteq {"valid", "risky", "invalid"}
    /\ IsFiniteSet(Contacts)
ASSUME NumberAssumption ==
    /\ Cap \in Nat /\ CapEnabled \in BOOLEAN
    /\ MaxFaults \in Nat /\ MaxChanges \in Nat

VARIABLES
    verdict,        \* Contact.emailVerdict
    suppressed,     \* contacts in the suppression ledger
    policy,         \* the workspace's riskyPolicy
    hold,           \* EnrollmentHold per contact: [status, reason]
    entered,        \* Enrollment rows: "none", "today" or "before" per createdAt
    run,            \* the workflow of enroll-<id>: "none", "open", "closed"
    proc,           \* each request or drain: [pc, c, queue, full, reason]
    faults, changes,
    raced,          \* history: entries let in beside another count, today
    ungated,        \* history: contacts whose verdict landed over a reading or an
                    \* entry, or whose row a form or a Zap wrote
    excused,        \* history: contacts put back on hold after they entered, asked for
                    \* again when they had, lost by a throw or a crash, or in the hands
                    \* of two at once
    runs            \* history: runs started per contact

histVars == <<raced, ungated, excused, runs>>
vars == <<verdict, suppressed, policy, hold, entered, run, proc, faults, changes,
          raced, ungated, excused, runs>>

Source == INSTANCE VerdictSource

Unverified == "unverified"
Reasons == {"unverified", "risky_held", "cap_overflow"}
Idle == [pc |-> "idle", c |-> Nobody, queue |-> {}, full |-> FALSE, reason |-> "none"]

TypeOK ==
    /\ verdict \in [Contacts -> Answers \union {Unverified}]
    /\ suppressed \subseteq Contacts
    /\ policy \in {"hold", "enroll"}
    /\ hold \in [Contacts -> [status: {"none", "pending", "released", "refused"},
                              reason: Reasons \union {"none"}]]
    /\ entered \in [Contacts -> {"none", "today", "before"}]
    /\ run \in [Contacts -> {"none", "open", "closed"}]
    /\ proc \in [Procs -> [pc: {"idle", "next", "resolve", "refuse", "hold", "count",
                                "create", "start", "release", "done"},
                           c: Contacts \union {Nobody}, queue: SUBSET Contacts,
                           full: BOOLEAN, reason: Reasons \union {"none"}]]
    /\ faults \in 0..MaxFaults /\ changes \in 0..MaxChanges
    /\ raced \in BOOLEAN
    /\ ungated \subseteq Contacts /\ excused \subseteq Contacts
    /\ runs \in [Contacts -> Nat]

Init ==
    /\ Source!Init
    /\ suppressed = {} /\ policy = "hold"
    /\ hold = [c \in Contacts |-> [status |-> "none", reason |-> "none"]]
    /\ entered = [c \in Contacts |-> "none"]
    /\ run = [c \in Contacts |-> "none"]
    /\ proc = [p \in Procs |-> Idle]
    /\ faults = 0 /\ changes = 0
    /\ raced = FALSE /\ ungated = {} /\ excused = {}
    /\ runs = [c \in Contacts |-> 0]

At(p, pc) == proc[p].pc = pc
(* Another request or drain is at the contact too, or has it in its snapshot. *)
Shared(p, c) == \E q \in Procs \ {p} : proc[q].c = c \/ c \in proc[q].queue
Goto(p, pc) == proc' = [proc EXCEPT ![p].pc = pc]
(* enrollContact returns: a request is answered, a drain takes its next hold, *)
(* and skips the campaign's others once one of them hit the cap.              *)
Finish(p, full) ==
    proc' = [proc EXCEPT ![p] =
        IF p \in Drains THEN [Idle EXCEPT !.pc = "next", !.queue = proc[p].queue, !.full = full]
        ELSE [Idle EXCEPT !.pc = "done"]]

-----------------------------------------------------------------------------
(* Entering the gate: a request, or drainEnrollmentHolds over its snapshot.   *)

Ask(p) ==
    /\ p \in Requests /\ At(p, "idle")
    /\ proc' = [proc EXCEPT ![p].pc = "resolve", ![p].c = AskOf[p]]
    /\ UNCHANGED <<verdict, suppressed, policy, hold, entered, run, faults, changes, histVars>>

\* Mutant: a drain looks for holds that wait for a verdict only.
PendingUnverified == {c \in Contacts : hold[c].status = "pending" /\ hold[c].reason = "unverified"}
PendingHolds == {c \in Contacts : hold[c].status = "pending"}

DrainStart(p) ==
    /\ p \in Drains /\ At(p, "idle") /\ PendingHolds # {}
    /\ proc' = [proc EXCEPT ![p] = [Idle EXCEPT !.pc = "next", !.queue = PendingHolds]]
    /\ UNCHANGED <<verdict, suppressed, policy, hold, entered, run, faults, changes, histVars>>

(* A contact still waiting for a verdict stays held, unless it is suppressed. *)
Waits(c) == verdict[c] = Unverified /\ c \notin suppressed

DrainNext(p, c) ==
    /\ At(p, "next") /\ c \in proc[p].queue /\ ~proc[p].full
    /\ proc' = [proc EXCEPT ![p].queue = @ \ {c},
                            ![p].pc = IF Waits(c) THEN "next" ELSE "resolve",
                            ![p].c = IF Waits(c) THEN Nobody ELSE c]
    /\ UNCHANGED <<verdict, suppressed, policy, hold, entered, run, faults, changes, histVars>>

DrainEnd(p) ==
    /\ At(p, "next") /\ (proc[p].queue = {} \/ proc[p].full)
    /\ proc' = [proc EXCEPT ![p] = Idle]
    /\ UNCHANGED <<verdict, suppressed, policy, hold, entered, run, faults, changes, histVars>>

-----------------------------------------------------------------------------
(* enrollContact                                                              *)

\* Mutant: the ladder knows no invalid rung.
DecisionLenient(c) ==
    IF entered[c] # "none" THEN <<"start", "none">>
    ELSE IF Waits(c) THEN <<"hold", "unverified">>
    ELSE IF verdict[c] = "risky" /\ policy = "hold" THEN <<"hold", "risky_held">>
    ELSE IF CapEnabled THEN <<"count", "none">>
    ELSE <<"create", "none">>

(* The ladder, on one reading of contact, suppression, policy and prior row.  *)
Decision(c) ==
    IF entered[c] # "none" THEN <<"start", "none">>
    ELSE IF verdict[c] = "invalid" THEN <<"refuse", "none">>
    ELSE IF Waits(c) THEN <<"hold", "unverified">>
    ELSE IF verdict[c] = "risky" /\ policy = "hold" THEN <<"hold", "risky_held">>
    ELSE IF CapEnabled THEN <<"count", "none">>
    ELSE <<"create", "none">>

Resolve(p) ==
    LET c == proc[p].c
        d == Decision(c)
    IN
    /\ At(p, "resolve")
    /\ proc' = [proc EXCEPT ![p].pc = d[1], ![p].reason = d[2]]
    /\ excused' = IF p \in Requests /\ entered[c] # "none" THEN excused \union {c} ELSE excused
    /\ UNCHANGED <<verdict, suppressed, policy, hold, entered, run, faults, changes,
                   raced, ungated, runs>>

\* Mutant: the refusal's code lands in the reason column.
RefusedReasonCode(c) == "CONTACT_INVALID"
RefusedReason(c) == IF hold[c].status = "none" THEN "unverified" ELSE hold[c].reason

(* refuseHold: an existing hold keeps its reason. *)
Refuse(p) ==
    LET c == proc[p].c IN
    /\ At(p, "refuse")
    /\ hold' = [hold EXCEPT ![c] = [status |-> "refused", reason |-> RefusedReason(c)]]
    /\ Finish(p, FALSE)
    /\ UNCHANGED <<verdict, suppressed, policy, entered, run, faults, changes, histVars>>

(* upsertHold opens the hold again whatever has become of it meanwhile. *)
WriteHold(p) ==
    LET c == proc[p].c IN
    /\ At(p, "hold")
    /\ hold' = [hold EXCEPT ![c] = [status |-> "pending", reason |-> proc[p].reason]]
    /\ excused' = IF entered[c] # "none" THEN excused \union {c} ELSE excused
    /\ Finish(p, proc[p].reason = "cap_overflow")
    /\ UNCHANGED <<verdict, suppressed, policy, entered, run, faults, changes,
                   raced, ungated, runs>>

(* Verified entries of the day, counted in a transaction of its own. *)
Counted == {c \in Contacts : entered[c] = "today" /\ verdict[c] \in {"valid", "risky"}}
\* Mutant: the cap is compared one too late.
CapPassed == Cardinality(Counted) > Cap
CapReached == Cardinality(Counted) >= Cap

Count(p) ==
    /\ At(p, "count")
    /\ IF CapReached
       THEN proc' = [proc EXCEPT ![p].pc = "hold", ![p].reason = "cap_overflow"]
       ELSE Goto(p, "create")
    /\ raced' = (raced \/ (~CapReached /\ \E q \in Procs \ {p} : At(q, "create")))
    /\ UNCHANGED <<verdict, suppressed, policy, hold, entered, run, faults, changes,
                   ungated, excused, runs>>

\* Mutant: the hold is released before the run is started.
AfterCreateRelease == "release"
AfterCreate == "start"

Create(p) ==
    LET c == proc[p].c IN
    /\ At(p, "create") /\ entered[c] = "none"
    /\ entered' = [entered EXCEPT ![c] = "today"]
    /\ Goto(p, AfterCreate)
    /\ UNCHANGED <<verdict, suppressed, policy, hold, run, faults, changes, histVars>>

(* The unique (campaign, contact) refuses the second of two creates. *)
CreateTwice(p) ==
    /\ At(p, "create") /\ entered[proc[p].c] # "none"
    /\ Finish(p, FALSE)
    /\ UNCHANGED <<verdict, suppressed, policy, hold, entered, run, faults, changes, histVars>>

(* engine.start: deduplicated while the run of that id is open. *)
Start(p) ==
    LET c == proc[p].c IN
    /\ At(p, "start")
    /\ run' = [run EXCEPT ![c] = "open"]
    /\ runs' = IF run[c] = "open" THEN runs ELSE [runs EXCEPT ![c] = @ + 1]
    /\ excused' = IF Shared(p, c) THEN excused \union {c} ELSE excused
    /\ Goto(p, "release")
    /\ UNCHANGED <<verdict, suppressed, policy, hold, entered, faults, changes, raced, ungated>>

\* Mutant: the release misses the hold.
FreedNot(status) == status
Freed(status) == IF status = "pending" THEN "released" ELSE status

Release(p) ==
    LET c == proc[p].c IN
    /\ At(p, "release")
    /\ hold' = [hold EXCEPT ![c].status = Freed(@)]
    /\ excused' = IF Shared(p, c) THEN excused \union {c} ELSE excused
    /\ Finish(p, FALSE)
    /\ UNCHANGED <<verdict, suppressed, policy, entered, run, faults, changes,
                   raced, ungated, runs>>

(* A statement throws or the process dies; a drain goes on with its next hold *)
(* (after a crash, with the next pass).                                       *)
Throws(p) ==
    /\ proc[p].pc \in {"refuse", "hold", "count", "create", "start", "release"}
    /\ faults < MaxFaults /\ faults' = faults + 1
    /\ excused' = excused \union {proc[p].c}
    /\ Finish(p, FALSE)
    /\ UNCHANGED <<verdict, suppressed, policy, hold, entered, run, changes,
                   raced, ungated, runs>>

-----------------------------------------------------------------------------
(* The world around the gate.                                                 *)

Change == changes < MaxChanges /\ changes' = changes + 1
Reading(c) == \E p \in Procs : proc[p].c = c /\ proc[p].pc # "resolve"

VerdictLands(c, v) ==
    /\ verdict[c] # v /\ v \in Answers
    /\ verdict' = [verdict EXCEPT ![c] = v]
    /\ IF verdict[c] = Unverified THEN UNCHANGED changes ELSE Change
    /\ ungated' = IF entered[c] # "none" \/ Reading(c) THEN ungated \union {c} ELSE ungated
    /\ UNCHANGED <<suppressed, policy, hold, entered, run, proc, faults,
                   raced, excused, runs>>

Suppress(c) ==
    /\ c \notin suppressed /\ Change
    /\ suppressed' = suppressed \union {c}
    /\ UNCHANGED <<verdict, policy, hold, entered, run, proc, faults, histVars>>

FlipPolicy ==
    /\ Change
    /\ policy' = IF policy = "hold" THEN "enroll" ELSE "hold"
    /\ UNCHANGED <<verdict, suppressed, hold, entered, run, proc, faults, histVars>>

(* A public form or a Zap routes a contact into the campaign: it writes the   *)
(* row itself, past the ladder and the cap, and starts no run.                *)
FormRow(c) ==
    /\ c \in Routed /\ entered[c] = "none" /\ Change
    /\ entered' = [entered EXCEPT ![c] = "today"]
    /\ ungated' = ungated \union {c}
    /\ UNCHANGED <<verdict, suppressed, policy, hold, run, proc, faults,
                   raced, excused, runs>>

RunCloses(c) ==
    /\ run[c] = "open"
    /\ run' = [run EXCEPT ![c] = "closed"]
    /\ UNCHANGED <<verdict, suppressed, policy, hold, entered, proc, faults, changes, histVars>>

(* Midnight UTC.  Bound: not between a count and its create. *)
NextDay ==
    /\ \A p \in Procs : ~At(p, "create")
    /\ entered' = [c \in Contacts |-> IF entered[c] = "today" THEN "before" ELSE entered[c]]
    /\ raced' = FALSE
    /\ UNCHANGED <<verdict, suppressed, policy, hold, run, proc, faults, changes,
                   ungated, excused, runs>>

Enroll(p) ==
    Resolve(p) \/ Refuse(p) \/ WriteHold(p) \/ Count(p) \/ Create(p) \/ CreateTwice(p)
    \/ Start(p) \/ Release(p)
DrainStep(p) == DrainStart(p) \/ (\E c \in Contacts : DrainNext(p, c)) \/ DrainEnd(p)

Next ==
    \/ \E p \in Procs : Ask(p) \/ DrainStep(p) \/ Enroll(p) \/ Throws(p)
    \/ \E c \in Contacts : \/ \E v \in Answers : VerdictLands(c, v)
                           \/ Suppress(c) \/ FormRow(c) \/ RunCloses(c)
    \/ FlipPolicy \/ NextDay

(* The drain sweep's timer fires, a process that runs goes on, days pass. *)
Fairness ==
    /\ \A p \in Drains : WF_vars(DrainStep(p))
    /\ \A p \in Procs : WF_vars(Enroll(p))
    /\ SF_vars(NextDay)

Spec == Init /\ [][Next]_vars /\ Fairness

-----------------------------------------------------------------------------
(* Properties *)

(* A hold that says released stands for a run that was started: the release   *)
(* is the last write of enrollContact, so a crash leaves the hold to the next *)
(* drain.                                                                     *)
ReleasedWasStarted == \A c \in Contacts : hold[c].status = "released" => run[c] # "none"

(* The daily cap holds for what it counts unless two entries were counted     *)
(* side by side; an entry whose verdict moved afterwards is not counted       *)
(* against it, nor one a form wrote (enroll.ts:206-222 counts and creates in  *)
(* two transactions).                                                         *)
CapHolds == CapEnabled /\ ~raced => Cardinality(Counted \ ungated) <= Cap

(* An invalid address enters only if the verdict landed over an earlier       *)
(* reading ("never enrolls", enroll.ts, the ladder), or if a form or a Zap    *)
(* wrote the row: the gate lets any existing row through.                     *)
InvalidStaysOut ==
    \A c \in Contacts :
        entered[c] # "none" /\ verdict[c] = "invalid" => c \in ungated

(* Nobody goes through the sequence a second time unless someone asked for    *)
(* it: another run needs a request that found the row, a hold written by an   *)
(* old decision, a failure before the release, or two who have the contact in *)
(* hand at once (a drain's snapshot outlives the hold it was taken from).     *)
SecondRunExplained ==
    \A c \in Contacts : runs[c] > 1 => c \in excused

(* "The hold stays pending for the next pass. Never a silent drop": a held    *)
(* contact the gate could let in, or must refuse, does not stay pending.      *)
HoldsDrain ==
    \A c \in Contacts :
        hold[c].status = "pending" /\ verdict[c] \in {"valid", "invalid"}
            ~> (hold[c].status # "pending" \/ verdict[c] \notin {"valid", "invalid"})
=============================================================================
