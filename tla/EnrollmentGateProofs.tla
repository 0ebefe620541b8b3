------------------------ MODULE EnrollmentGateProofs ------------------------
(* What holds of the enrollment gate for every set of contacts, requests and  *)
(* drains, every cap, and every bound on faults and changes.                  *)
EXTENDS EnrollmentGate, FiniteSetTheorems, TLAPS

-----------------------------------------------------------------------------
(* Type correctness, with what the other invariants need of it: whoever is    *)
(* inside enrollContact works for a contact.                                  *)

Pcs == {"idle", "next", "resolve", "refuse", "hold", "count", "create", "start", "release", "done"}
Outside == {"idle", "next", "done"}
ProcRecord == [pc: Pcs, c: Contacts \union {Nobody}, queue: SUBSET Contacts,
               full: BOOLEAN, reason: Reasons \union {"none"}]
Working == {r \in ProcRecord : r.pc \notin Outside => r.c \in Contacts}
HoldRecord == [status: {"none", "pending", "released", "refused"}, reason: Reasons \union {"none"}]

ProcT  == proc \in [Procs -> Working]
HoldT  == hold \in [Contacts -> HoldRecord]
RowT   == /\ entered \in [Contacts -> {"none", "today", "before"}]
          /\ run \in [Contacts -> {"none", "open", "closed"}]
          /\ runs \in [Contacts -> Nat]
WorldT == /\ verdict \in [Contacts -> Answers \union {Unverified}]
          /\ suppressed \subseteq Contacts /\ policy \in {"hold", "enroll"}
          /\ faults \in 0..MaxFaults /\ changes \in 0..MaxChanges
          /\ raced \in BOOLEAN
MarksT == ungated \subseteq Contacts /\ excused \subseteq Contacts

Typed == ProcT /\ HoldT /\ RowT /\ WorldT /\ MarksT

\* The strengthened form has the type invariant as a part.
LEMMA TypedImplies == Typed => TypeOK
<1> SUFFICES ASSUME Typed PROVE TypeOK
  OBVIOUS
<1>1. proc \in [Procs -> ProcRecord]
  BY DEF Typed, ProcT, Working
<1> QED BY <1>1 DEF Typed, HoldT, RowT, WorldT, MarksT, TypeOK, ProcRecord, HoldRecord, Pcs

\* The records a process may be left with.
LEMMA Records ==
    /\ Idle \in Working /\ [Idle EXCEPT !.pc = "done"] \in Working
    /\ \A Q \in SUBSET Contacts : \A full \in BOOLEAN :
          [Idle EXCEPT !.pc = "next", !.queue = Q, !.full = full] \in Working
    /\ \A Q \in SUBSET Contacts : [Idle EXCEPT !.pc = "next", !.queue = Q] \in Working
    /\ \A r \in Working : \A pc \in Pcs :
          r.pc \notin Outside \/ pc \in Outside => [r EXCEPT !.pc = pc] \in Working
BY DEF Idle, Working, ProcRecord, Pcs, Outside, Reasons

\* enrollContact's return leaves a well-formed process.
LEMMA FinishTyped ==
    ASSUME Typed, NEW p \in Procs, NEW full \in BOOLEAN, Finish(p, full)
    PROVE  ProcT'
<1>1. proc[p].queue \in SUBSET Contacts
  BY DEF Typed, ProcT, Working, ProcRecord
<1> QED BY <1>1, Records DEF Finish, Typed, ProcT

\* Init is well formed.
LEMMA TypeInit == Init => Typed
<1> SUFFICES ASSUME Init PROVE Typed
  OBVIOUS
<1>1. ProcT
  BY Records DEF Init, ProcT
<1>2. HoldT
  BY DEF Init, HoldT, HoldRecord
<1>3. RowT /\ MarksT
  BY DEF Init, RowT, MarksT
<1>4. WorldT
  <2>1. verdict \in [Contacts -> Answers \union {Unverified}]
    BY DEF Init, Source!Init, Source!Unverified, Unverified
  <2>2. 0 \in 0..MaxFaults /\ 0 \in 0..MaxChanges
    BY NumberAssumption
  <2>3. raced \in BOOLEAN
    BY DEF Init
  <2>4. suppressed \subseteq Contacts /\ policy \in {"hold", "enroll"}
        /\ faults \in 0..MaxFaults /\ changes \in 0..MaxChanges
    BY <2>2 DEF Init
  <2> QED BY <2>1, <2>3, <2>4 DEF WorldT
<1> QED BY <1>1, <1>2, <1>3, <1>4 DEF Typed

\* Every step of a request or a drain keeps the types.
LEMMA ProcStepTyped ==
    ASSUME Typed, NEW p \in Procs, Ask(p) \/ DrainStep(p) \/ Enroll(p) \/ Throws(p)
    PROVE  Typed'
<1> USE DEF Typed
<1>1. proc[p] \in Working /\ proc[p] \in ProcRecord /\ proc \in [Procs -> Working]
  BY DEF ProcT, Working
<1>2. proc[p].queue \in SUBSET Contacts /\ proc[p].reason \in Reasons \union {"none"}
      /\ proc[p].pc \in Pcs /\ (proc[p].pc \notin Outside => proc[p].c \in Contacts)
  BY <1>1 DEF ProcRecord, Working
<1>3. ASSUME NEW r \in Working, proc' = [proc EXCEPT ![p] = r] PROVE ProcT'
  BY <1>1, <1>3 DEF ProcT
<1>4. ASSUME NEW pc \in Pcs, Goto(p, pc), proc[p].pc \notin Outside PROVE ProcT'
  <2>1. [proc[p] EXCEPT !.pc = pc] \in Working
    BY <1>1, <1>4, Records
  <2> QED BY <1>3, <1>4, <2>1 DEF Goto
<1>5. CASE Ask(p)
  <2>1. AskOf[p] \in Contacts
    BY <1>5, GateAssumption DEF Ask
  <2>2. [proc[p] EXCEPT !.pc = "resolve", !.c = AskOf[p]] \in Working
    BY <1>1, <2>1 DEF Working, ProcRecord, Pcs
  <2>3. ProcT'
    BY <1>3, <1>5, <2>2 DEF Ask
  <2> QED BY <1>5, <2>3 DEF Ask, HoldT, RowT, WorldT, MarksT, histVars
<1>6. CASE DrainStep(p)
  <2>1. ProcT'
    <3>1. CASE DrainStart(p)
      <4>1. PendingHolds \in SUBSET Contacts
        BY DEF PendingHolds
      <4> QED BY <1>3, <3>1, <4>1, Records DEF DrainStart
    <3>2. CASE \E c \in Contacts : DrainNext(p, c)
      <4>1. PICK c \in Contacts : DrainNext(p, c)
        BY <3>2
      <4> DEFINE r == [proc[p] EXCEPT !.queue = @ \ {c}, !.pc = IF Waits(c) THEN "next" ELSE "resolve",
                                      !.c = IF Waits(c) THEN Nobody ELSE c]
      <4>2. r \in Working
        BY <1>1 DEF Working, ProcRecord, Pcs, Outside
      <4>3. proc' = [proc EXCEPT ![p] = r]
        BY <1>1, <4>1 DEF DrainNext, ProcRecord
      <4> QED BY <1>3, <4>2, <4>3
    <3>3. CASE DrainEnd(p)
      BY <1>3, <3>3, Records DEF DrainEnd
    <3> QED BY <1>6, <3>1, <3>2, <3>3 DEF DrainStep
  <2> QED BY <1>6, <2>1 DEF DrainStep, DrainStart, DrainNext, DrainEnd, HoldT, RowT, WorldT, MarksT, histVars
<1>7. CASE Resolve(p)
  <2> DEFINE d == Decision(proc[p].c)
  <2>1. d[1] \in Pcs /\ d[2] \in Reasons \union {"none"}
    BY DEF Decision, Pcs, Reasons
  <2>2. proc[p].c \in Contacts
    BY <1>2, <1>7 DEF Resolve, At, Outside
  <2>3. [proc[p] EXCEPT !.pc = d[1], !.reason = d[2]] \in Working
    BY <1>1, <2>1, <2>2 DEF Working, ProcRecord
  <2>4. ProcT'
    BY <1>3, <1>7, <2>3 DEF Resolve
  <2>5. MarksT'
    BY <1>7, <2>2 DEF Resolve, MarksT
  <2> QED BY <1>7, <2>4, <2>5 DEF Resolve, HoldT, RowT, WorldT
<1>8. CASE Refuse(p)
  <2>1. proc[p].c \in Contacts
    BY <1>2, <1>8 DEF Refuse, At, Outside
  <2>2. HoldT'
    BY <1>8, <2>1 DEF Refuse, RefusedReason, HoldT, HoldRecord, Reasons
  <2>3. ProcT'
    BY <1>8, FinishTyped DEF Refuse
  <2> QED BY <1>8, <2>2, <2>3 DEF Refuse, RowT, WorldT, MarksT, histVars
<1>9. CASE WriteHold(p)
  <2>1. proc[p].c \in Contacts
    BY <1>2, <1>9 DEF WriteHold, At, Outside
  <2>2. HoldT'
    BY <1>2, <1>9, <2>1 DEF WriteHold, HoldT, HoldRecord
  <2>3. ProcT'
    BY <1>9, FinishTyped DEF WriteHold
  <2>4. MarksT'
    BY <1>9, <2>1 DEF WriteHold, MarksT
  <2> QED BY <1>9, <2>2, <2>3, <2>4 DEF WriteHold, RowT, WorldT
<1>10. CASE Count(p)
  <2>1. [proc[p] EXCEPT !.pc = "hold", !.reason = "cap_overflow"] \in Working
    BY <1>1, <1>2, <1>10 DEF Count, At, Working, ProcRecord, Pcs, Outside, Reasons
  <2>2. ProcT'
    BY <1>3, <1>4, <1>10, <2>1 DEF Count, At, Pcs, Outside
  <2> QED BY <1>10, <2>2 DEF Count, HoldT, RowT, WorldT, MarksT
<1>11. CASE Create(p)
  <2>1. ProcT'
    BY <1>4, <1>11 DEF Create, AfterCreate, At, Pcs, Outside
  <2>2. RowT'
    BY <1>11 DEF Create, RowT, histVars
  <2> QED BY <1>11, <2>1, <2>2 DEF Create, HoldT, WorldT, MarksT, histVars
<1>12. CASE CreateTwice(p)
  <2>1. ProcT'
    BY <1>12, FinishTyped DEF CreateTwice
  <2> QED BY <1>12, <2>1 DEF CreateTwice, HoldT, RowT, WorldT, MarksT, histVars
<1>13. CASE Start(p)
  <2>1. ProcT'
    BY <1>4, <1>13 DEF Start, At, Pcs, Outside
  <2>2. proc[p].c \in Contacts
    BY <1>2, <1>13 DEF Start, At, Outside
  <2>3. RowT'
    BY <1>13, <2>2 DEF Start, RowT
  <2>4. MarksT'
    BY <1>13, <2>2 DEF Start, MarksT
  <2> QED BY <1>13, <2>1, <2>3, <2>4 DEF Start, HoldT, WorldT
<1>14. CASE Release(p)
  <2>1. ProcT'
    BY <1>14, FinishTyped DEF Release
  <2>2. HoldT'
    <3>1. proc[p].c \in Contacts /\ hold[proc[p].c] \in HoldRecord
      BY <1>2, <1>14 DEF Release, At, Outside, HoldT
    <3>2. [hold[proc[p].c] EXCEPT !.status = Freed(hold[proc[p].c].status)] \in HoldRecord
      BY <3>1 DEF HoldRecord, Freed
    <3>3. hold' = [hold EXCEPT ![proc[p].c] = [hold[proc[p].c] EXCEPT !.status = Freed(hold[proc[p].c].status)]]
      BY <1>14 DEF Release
    <3> QED BY <3>1, <3>2, <3>3 DEF HoldT
  <2>3. MarksT'
    <3>1. proc[p].c \in Contacts
      BY <1>2, <1>14 DEF Release, At, Outside
    <3> QED BY <1>14, <3>1 DEF Release, MarksT
  <2> QED BY <1>14, <2>1, <2>2, <2>3 DEF Release, RowT, WorldT
<1>15. CASE Throws(p)
  <2>1. ProcT'
    BY <1>15, FinishTyped DEF Throws
  <2>2. proc[p].c \in Contacts
    BY <1>2, <1>15 DEF Throws, Outside
  <2>3. MarksT'
    BY <1>15, <2>2 DEF Throws, MarksT
  <2>4. WorldT'
    BY <1>15, NumberAssumption DEF Throws, WorldT
  <2> QED BY <1>15, <2>1, <2>3, <2>4 DEF Throws, HoldT, RowT
<1> QED BY <1>5, <1>6, <1>7, <1>8, <1>9, <1>10, <1>11, <1>12, <1>13, <1>14, <1>15 DEF Enroll

\* So does everything around the gate.
LEMMA WorldStepTyped ==
    ASSUME Typed,
           \/ \E c \in Contacts : \/ \E v \in Answers : VerdictLands(c, v)
                                  \/ Suppress(c) \/ FormRow(c) \/ RunCloses(c)
           \/ FlipPolicy \/ NextDay
    PROVE  Typed'
<1> USE DEF Typed
<1>1. changes' \in 0..MaxChanges
  BY NumberAssumption DEF VerdictLands, Suppress, FormRow, RunCloses, FlipPolicy, NextDay, Change, WorldT
<1>2. CASE \E c \in Contacts : \E v \in Answers : VerdictLands(c, v)
  BY <1>1, <1>2 DEF VerdictLands, ProcT, HoldT, RowT, WorldT, MarksT
<1>3. CASE \E c \in Contacts : Suppress(c)
  BY <1>1, <1>3 DEF Suppress, ProcT, HoldT, RowT, WorldT, MarksT, histVars
<1>4. CASE \E c \in Contacts : RunCloses(c)
  BY <1>1, <1>4 DEF RunCloses, ProcT, HoldT, RowT, WorldT, MarksT, histVars
<1>5. CASE FlipPolicy
  BY <1>1, <1>5 DEF FlipPolicy, ProcT, HoldT, RowT, WorldT, MarksT, histVars
<1>6. CASE NextDay
  BY <1>1, <1>6 DEF NextDay, ProcT, HoldT, RowT, WorldT, MarksT
<1>7. CASE \E c \in Contacts : FormRow(c)
  BY <1>1, <1>7 DEF FormRow, ProcT, HoldT, RowT, WorldT, MarksT
<1> QED BY <1>2, <1>3, <1>4, <1>5, <1>6, <1>7

\* A step that changes nothing keeps the types.
LEMMA StutterTyped == Typed /\ UNCHANGED vars => Typed'
BY DEF Typed, ProcT, HoldT, RowT, WorldT, MarksT, vars

\* Every state of the gate is well typed.
THEOREM Typing == Spec => []TypeOK
<1>1. Typed /\ [Next]_vars => Typed'
  BY ProcStepTyped, WorldStepTyped, StutterTyped DEF Next
<1> QED BY TypeInit, TypedImplies, <1>1, PTL DEF Spec

-----------------------------------------------------------------------------
(* A released hold stands for a started run.  The invariant adds what makes   *)
(* it inductive: whoever is about to release has started the run, and no run  *)
(* is ever forgotten.                                                         *)

Releasing == {p \in Procs : proc[p].pc = "release"}
StartedFirst == \A p \in Releasing : run[proc[p].c] # "none"
ReleaseInv == Typed /\ ReleasedWasStarted /\ StartedFirst

\* Only a start changes a run of a contact, and none makes it "none" again.
LEMMA RunsStay ==
    ASSUME Typed, Next
    PROVE  \A c \in Contacts : run[c] # "none" => run'[c] # "none"
<1> USE DEF Typed, RowT
<1>1. CASE \E p \in Procs : Start(p)
  BY <1>1 DEF Start
<1>2. CASE \E c \in Contacts : RunCloses(c)
  BY <1>2 DEF RunCloses
<1>3. CASE UNCHANGED run
  BY <1>3
<1>4. ASSUME NEW p \in Procs, Ask(p) \/ DrainStep(p) \/ Throws(p) PROVE UNCHANGED run
  BY <1>4 DEF Ask, DrainStep, DrainStart, DrainNext, DrainEnd, Throws
<1>5. ASSUME NEW p \in Procs, Enroll(p) PROVE Start(p) \/ UNCHANGED run
  BY <1>5 DEF Enroll, Resolve, Refuse, WriteHold, Count, Create, CreateTwice, Release
<1>6. ASSUME NEW c \in Contacts, \/ \E v \in Answers : VerdictLands(c, v)
                                 \/ Suppress(c) \/ FormRow(c) \/ RunCloses(c)
      PROVE  RunCloses(c) \/ UNCHANGED run
  BY <1>6 DEF VerdictLands, Suppress, FormRow
<1>7. CASE FlipPolicy \/ NextDay
  BY <1>3, <1>7 DEF FlipPolicy, NextDay
<1> HIDE DEF Typed, RowT
<1> QED BY <1>1, <1>2, <1>3, <1>4, <1>5, <1>6, <1>7 DEF Next

\* A process comes to its release by starting the run.
LEMMA ReleasingFrom ==
    ASSUME Typed, Next, NEW p \in Procs, proc'[p].pc = "release"
    PROVE  \/ proc[p].pc = "release" /\ proc'[p].c = proc[p].c
           \/ Start(p)
<1>1. ASSUME NEW q \in Procs, Ask(q) \/ DrainStep(q) \/ Enroll(q) \/ Throws(q)
      PROVE  \/ proc[p].pc = "release" /\ proc'[p].c = proc[p].c
             \/ Start(p)
  <2> USE DEF Typed, ProcT, Working, ProcRecord
  <2>1. CASE q # p
    <3>1. proc'[p] = proc[p]
      <4>1. CASE Ask(q) \/ DrainStep(q)
        <5>1. CASE Ask(q)
          BY <2>1, <5>1 DEF Ask
        <5>2. CASE DrainStart(q) \/ DrainEnd(q)
          BY <2>1, <5>2 DEF DrainStart, DrainEnd
        <5>3. CASE \E c \in Contacts : DrainNext(q, c)
          BY <2>1, <5>3 DEF DrainNext
        <5> QED BY <4>1, <5>1, <5>2, <5>3 DEF DrainStep
      <4>2. CASE Refuse(q) \/ WriteHold(q) \/ CreateTwice(q) \/ Release(q) \/ Throws(q)
        <5>1. \E full : Finish(q, full)
          BY <4>2 DEF Refuse, WriteHold, CreateTwice, Release, Throws
        <5> QED BY <2>1, <5>1 DEF Finish
      <4>3. CASE Resolve(q)
        BY <2>1, <4>3 DEF Resolve
      <4>4. CASE Count(q)
        BY <2>1, <4>4 DEF Count, Goto
      <4>5. CASE Create(q) \/ Start(q)
        BY <2>1, <4>5 DEF Create, Start, Goto
      <4> QED BY <1>1, <4>1, <4>2, <4>3, <4>4, <4>5 DEF Enroll
    <3> QED BY <3>1
  <2>2. CASE q = p
    <3>1. CASE Start(p)
      BY <3>1
    <3>2. CASE Ask(p) \/ DrainStep(p)
      <4>1. CASE Ask(p)
        BY <4>1 DEF Ask
      <4>2. CASE DrainStart(p) \/ DrainEnd(p)
        <5>1. CASE DrainStart(p)
          <6>1. proc'[p].pc = "next"
            BY <5>1 DEF DrainStart, Idle
          <6> QED BY <6>1
        <5>2. CASE DrainEnd(p)
          <6>1. proc'[p].pc = "idle"
            BY <5>2 DEF DrainEnd, Idle
          <6> QED BY <6>1
        <5> QED BY <4>2, <5>1, <5>2
      <4>3. CASE \E c \in Contacts : DrainNext(p, c)
        BY <4>3 DEF DrainNext
      <4> QED BY <3>2, <4>1, <4>2, <4>3 DEF DrainStep
    <3>3. CASE Resolve(p)
      BY <3>3 DEF Resolve, Decision
    <3>4. CASE Count(p) \/ Create(p)
      BY <3>4 DEF Count, Create, AfterCreate, Goto
    <3>5. CASE Refuse(p) \/ WriteHold(p) \/ CreateTwice(p) \/ Release(p) \/ Throws(p)
      <4>1. \E full : Finish(p, full)
        BY <3>5 DEF Refuse, WriteHold, CreateTwice, Release, Throws
      <4> QED BY <4>1 DEF Finish, Idle
    <3> QED BY <1>1, <2>2, <3>1, <3>2, <3>3, <3>4, <3>5 DEF Enroll
  <2> QED BY <2>1, <2>2
<1>2. CASE UNCHANGED proc
  BY <1>2
<1> QED BY <1>1, <1>2 DEF Next, VerdictLands, Suppress, FormRow, RunCloses, FlipPolicy, NextDay

\* Every step keeps the invariant.
LEMMA ReleaseStep == ReleaseInv /\ Next => StartedFirst' /\ ReleasedWasStarted'
<1> SUFFICES ASSUME ReleaseInv, Next PROVE StartedFirst' /\ ReleasedWasStarted'
  OBVIOUS
<1>1. Typed /\ \A c \in Contacts : run[c] # "none" => run'[c] # "none"
  BY RunsStay DEF ReleaseInv
<1>2. StartedFirst'
  <2> SUFFICES ASSUME NEW p \in Procs, proc'[p].pc = "release" PROVE run'[proc'[p].c] # "none"
    BY DEF StartedFirst, Releasing
  <2>1. proc[p] \in Working
    BY <1>1 DEF Typed, ProcT
  <2>2. CASE proc[p].pc = "release" /\ proc'[p].c = proc[p].c
    BY <1>1, <2>1, <2>2 DEF ReleaseInv, StartedFirst, Releasing, Working, Outside
  <2>3. CASE Start(p)
    <3>1. proc[p].c \in Contacts /\ proc'[p].c = proc[p].c
      BY <1>1, <2>1, <2>3 DEF Start, At, Goto, Working, ProcRecord, Outside, Typed, ProcT
    <3> QED BY <1>1, <2>3, <3>1 DEF Start, Typed, RowT
  <2> QED BY <1>1, <2>2, <2>3, ReleasingFrom
<1>3. ReleasedWasStarted'
  <2> SUFFICES ASSUME NEW c \in Contacts, hold'[c].status = "released" PROVE run'[c] # "none"
    BY DEF ReleasedWasStarted
  <2>1. CASE hold[c].status = "released"
    BY <1>1, <2>1 DEF ReleaseInv, ReleasedWasStarted
  <2>2. CASE hold[c].status # "released" /\ \E p \in Procs : Release(p)
    <3>1. PICK p \in Procs : Release(p)
      BY <2>2
    <3>2. proc[p].c = c
      BY <1>1, <2>2, <3>1 DEF Release, Typed, HoldT
    <3> QED BY <1>1, <3>1, <3>2 DEF Release, At, ReleaseInv, StartedFirst, Releasing
  <2>3. CASE \E p \in Procs : Refuse(p) \/ WriteHold(p)
    <3>1. \A d \in Contacts : hold'[d].status = "released" => hold[d].status = "released"
      <4>1. PICK p \in Procs : Refuse(p) \/ WriteHold(p)
        BY <2>3
      <4>2. \E r : r.status # "released" /\ hold' = [hold EXCEPT ![proc[p].c] = r]
        BY <4>1 DEF Refuse, WriteHold
      <4> QED BY <1>1, <4>2 DEF Typed, HoldT
    <3> QED BY <1>1, <3>1 DEF ReleaseInv, ReleasedWasStarted
  <2>4. CASE UNCHANGED hold
    BY <1>1, <2>4 DEF ReleaseInv, ReleasedWasStarted
  <2>5. CASE \E p \in Procs : Ask(p) \/ DrainStep(p) \/ Enroll(p) \/ Throws(p)
    <3>1. PICK p \in Procs : Ask(p) \/ DrainStep(p) \/ Enroll(p) \/ Throws(p)
      BY <2>5
    <3>2. CASE Ask(p) \/ DrainStep(p) \/ Throws(p)
      <4>1. UNCHANGED hold
        BY <3>2 DEF Ask, DrainStep, DrainStart, DrainNext, DrainEnd, Throws
      <4> QED BY <2>4, <4>1
    <3>3. CASE Resolve(p) \/ Count(p) \/ Create(p) \/ CreateTwice(p) \/ Start(p)
      <4>1. UNCHANGED hold
        BY <3>3 DEF Resolve, Count, Create, CreateTwice, Start
      <4> QED BY <2>4, <4>1
    <3> QED BY <2>1, <2>2, <2>3, <3>1, <3>2, <3>3 DEF Enroll
  <2>6. CASE \/ \E d \in Contacts : \/ \E v \in Answers : VerdictLands(d, v)
                                    \/ Suppress(d) \/ FormRow(d) \/ RunCloses(d)
             \/ FlipPolicy \/ NextDay
    <3>1. UNCHANGED hold
      BY <2>6 DEF VerdictLands, Suppress, FormRow, RunCloses, FlipPolicy, NextDay
    <3> QED BY <2>4, <3>1
  <2> QED BY <2>5, <2>6 DEF ReleaseInv, Next
<1> QED BY <1>2, <1>3

\* A hold that says released stands for a run that was started.
THEOREM ReleasedStarted == Spec => []ReleasedWasStarted
<1>1. Init => ReleaseInv
  <2> SUFFICES ASSUME Init PROVE ReleaseInv
    OBVIOUS
  <2>1. Typed
    BY TypeInit
  <2>2. ReleasedWasStarted /\ StartedFirst
    BY DEF Init, ReleasedWasStarted, StartedFirst, Releasing, Idle
  <2> QED BY <2>1, <2>2 DEF ReleaseInv
<1>2. ReleaseInv /\ [Next]_vars => ReleaseInv'
  <2>1. ReleaseInv /\ UNCHANGED vars => ReleaseInv'
    BY StutterTyped DEF ReleaseInv, ReleasedWasStarted, StartedFirst, Releasing, vars
  <2>2. ReleaseInv /\ Next => Typed'
    BY ProcStepTyped, WorldStepTyped DEF ReleaseInv, Next
  <2> QED BY <2>1, <2>2, ReleaseStep DEF ReleaseInv
<1>3. ReleaseInv => ReleasedWasStarted
  BY DEF ReleaseInv
<1> QED BY <1>1, <1>2, <1>3, PTL DEF Spec

-----------------------------------------------------------------------------
(* An invalid address enters only over an older reading.  The invariant adds  *)
(* the contacts on their way in: past the ladder, before their row.           *)

OnTheWay == {p \in Procs : proc[p].pc \in {"count", "create"}}
InvalidOnTheWay == \A p \in OnTheWay : verdict[proc[p].c] = "invalid" => proc[p].c \in ungated
InvalidInv == Typed /\ InvalidStaysOut /\ InvalidOnTheWay

\* A process comes on the way in only past the ladder, or goes on from the count.
LEMMA WayIn ==
    ASSUME Typed, NEW p \in Procs, NEW q \in Procs,
           Ask(q) \/ DrainStep(q) \/ Enroll(q) \/ Throws(q),
           proc'[p].pc \in {"count", "create"}
    PROVE  /\ proc'[p].c = proc[p].c
           /\ \/ proc[p].pc \in {"count", "create"}
              \/ proc[p].pc = "resolve" /\ verdict[proc[p].c] # "invalid"
<1> USE DEF Typed, ProcT, Working, ProcRecord
<1>1. CASE q # p
  <2>1. proc'[p] = proc[p]
    <3>1. CASE Ask(q)
      BY <1>1, <3>1 DEF Ask
    <3>2. CASE DrainStart(q) \/ DrainEnd(q)
      BY <1>1, <3>2 DEF DrainStart, DrainEnd
    <3>3. CASE \E c \in Contacts : DrainNext(q, c)
      BY <1>1, <3>3 DEF DrainNext
    <3>4. CASE Refuse(q) \/ WriteHold(q) \/ CreateTwice(q) \/ Release(q) \/ Throws(q)
      <4>1. \E full : Finish(q, full)
        BY <3>4 DEF Refuse, WriteHold, CreateTwice, Release, Throws
      <4> QED BY <1>1, <4>1 DEF Finish
    <3>5. CASE Resolve(q)
      BY <1>1, <3>5 DEF Resolve
    <3>6. CASE Count(q)
      BY <1>1, <3>6 DEF Count, Goto
    <3>7. CASE Create(q) \/ Start(q)
      BY <1>1, <3>7 DEF Create, Start, Goto
    <3> QED BY <3>1, <3>2, <3>3, <3>4, <3>5, <3>6, <3>7 DEF DrainStep, Enroll
  <2> QED BY <2>1
<1>2. CASE q = p
  <2>1. CASE Ask(p)
    BY <2>1 DEF Ask
  <2>2. CASE DrainStart(p)
    <3>1. proc'[p].pc = "next"
      BY <2>2 DEF DrainStart, Idle
    <3> QED BY <3>1
  <2>3. CASE DrainEnd(p)
    <3>1. proc'[p].pc = "idle"
      BY <2>3 DEF DrainEnd, Idle
    <3> QED BY <3>1
  <2>4. CASE \E c \in Contacts : DrainNext(p, c)
    BY <2>4 DEF DrainNext
  <2>5. CASE Refuse(p) \/ WriteHold(p) \/ CreateTwice(p) \/ Release(p) \/ Throws(p)
    <3>1. \E full : Finish(p, full)
      BY <2>5 DEF Refuse, WriteHold, CreateTwice, Release, Throws
    <3>2. proc'[p].pc \in {"next", "done"}
      BY <3>1 DEF Finish, Idle
    <3> QED BY <3>2
  <2>6. CASE Resolve(p)
    <3>1. proc'[p].c = proc[p].c /\ proc'[p].pc = Decision(proc[p].c)[1] /\ proc[p].pc = "resolve"
      BY <2>6 DEF Resolve, At
    <3>2. Decision(proc[p].c)[1] \in {"count", "create"} => verdict[proc[p].c] # "invalid"
      BY DEF Decision
    <3> QED BY <3>1, <3>2
  <2>7. CASE Count(p)
    BY <2>7 DEF Count, Goto, At
  <2>8. CASE Create(p) \/ Start(p)
    <3>1. proc'[p].pc \in {"start", "release"}
      BY <2>8 DEF Create, Start, Goto, AfterCreate
    <3> QED BY <3>1
  <2> QED BY <1>2, <2>1, <2>2, <2>3, <2>4, <2>5, <2>6, <2>7, <2>8 DEF DrainStep, Enroll
<1> QED BY <1>1, <1>2

\* A request or a drain touches no verdict, and enters a contact by Create only.
LEMMA EntersByCreate ==
    ASSUME Typed, NEW q \in Procs, Ask(q) \/ DrainStep(q) \/ Enroll(q) \/ Throws(q)
    PROVE  /\ UNCHANGED <<verdict, ungated>>
           /\ Create(q) \/ UNCHANGED entered
<1>1. CASE Ask(q) \/ DrainStep(q) \/ Throws(q)
  BY <1>1 DEF Ask, DrainStep, DrainStart, DrainNext, DrainEnd, Throws, histVars
<1>2. CASE Enroll(q)
  BY <1>2 DEF Enroll, Resolve, Refuse, WriteHold, Count, Create, CreateTwice, Start, Release, histVars
<1> QED BY <1>1, <1>2

\* Every step keeps the invariant.
LEMMA InvalidStep == InvalidInv /\ Next => InvalidStaysOut' /\ InvalidOnTheWay'
<1> SUFFICES ASSUME InvalidInv, Next PROVE InvalidStaysOut' /\ InvalidOnTheWay'
  OBVIOUS
<1>1. Typed /\ \A p \in Procs : proc[p] \in Working
  BY DEF InvalidInv, Typed, ProcT
<1>2. CASE \E q \in Procs : Ask(q) \/ DrainStep(q) \/ Enroll(q) \/ Throws(q)
  <2>1. PICK q \in Procs : Ask(q) \/ DrainStep(q) \/ Enroll(q) \/ Throws(q)
    BY <1>2
  <2>2. UNCHANGED <<verdict, ungated>> /\ (Create(q) \/ UNCHANGED entered)
    BY <1>1, <2>1, EntersByCreate
  <2>3. InvalidOnTheWay'
    <3> SUFFICES ASSUME NEW p \in Procs, proc'[p].pc \in {"count", "create"},
                        verdict'[proc'[p].c] = "invalid"
                 PROVE  proc'[p].c \in ungated'
      BY DEF InvalidOnTheWay, OnTheWay
    <3> QED BY <1>1, <2>1, <2>2, WayIn DEF InvalidInv, InvalidOnTheWay, OnTheWay
  <2>4. InvalidStaysOut'
    <3>1. CASE Create(q)
      <4>1. proc[q].c \in Contacts /\ entered' = [entered EXCEPT ![proc[q].c] = "today"]
            /\ (verdict[proc[q].c] = "invalid" => proc[q].c \in ungated)
        BY <1>1, <3>1 DEF Create, At, Working, Outside, InvalidInv, InvalidOnTheWay, OnTheWay
      <4> QED BY <1>1, <2>2, <4>1 DEF InvalidInv, InvalidStaysOut, Typed, RowT
    <3>2. CASE UNCHANGED entered
      BY <2>2, <3>2 DEF InvalidInv, InvalidStaysOut
    <3> QED BY <2>2, <3>1, <3>2
  <2> QED BY <2>3, <2>4
<1>3. CASE \E c \in Contacts : \E v \in Answers : VerdictLands(c, v)
  <2>1. PICK c \in Contacts, v \in Answers : VerdictLands(c, v)
    BY <1>3
  <2>2. /\ verdict' = [verdict EXCEPT ![c] = v] /\ UNCHANGED <<entered, proc>>
        /\ ungated \subseteq ungated'
        /\ (entered[c] # "none" \/ Reading(c) => c \in ungated')
    BY <1>1, <2>1 DEF VerdictLands, Typed, MarksT
  <2>3. InvalidStaysOut'
    BY <1>1, <2>2 DEF InvalidInv, InvalidStaysOut, Typed, WorldT
  <2>4. InvalidOnTheWay'
    <3> SUFFICES ASSUME NEW p \in OnTheWay, verdict'[proc[p].c] = "invalid"
                 PROVE  proc[p].c \in ungated'
      BY <2>2 DEF InvalidOnTheWay, OnTheWay
    <3>1. CASE proc[p].c = c
      BY <2>2, <3>1 DEF Reading, OnTheWay
    <3>2. CASE proc[p].c # c
      BY <1>1, <2>2, <3>2 DEF InvalidInv, InvalidOnTheWay, OnTheWay, Typed, WorldT
    <3> QED BY <3>1, <3>2
  <2> QED BY <2>3, <2>4
<1>4. CASE (\E c \in Contacts : Suppress(c) \/ RunCloses(c)) \/ FlipPolicy \/ NextDay
  <2>1. UNCHANGED <<verdict, ungated, proc>>
    BY <1>4 DEF Suppress, RunCloses, FlipPolicy, NextDay, histVars
  <2>2. \A c \in Contacts : entered'[c] # "none" => entered[c] # "none"
    <3>1. CASE UNCHANGED entered
      BY <3>1
    <3>2. CASE NextDay
      BY <3>2 DEF NextDay
    <3> QED BY <1>4, <3>1, <3>2 DEF Suppress, RunCloses, FlipPolicy
  <2> QED BY <2>1, <2>2 DEF InvalidInv, InvalidStaysOut, InvalidOnTheWay, OnTheWay
<1>5. CASE \E c \in Contacts : FormRow(c)
  <2>1. PICK c \in Contacts : FormRow(c)
    BY <1>5
  <2>2. /\ entered' = [entered EXCEPT ![c] = "today"] /\ ungated' = ungated \union {c}
        /\ UNCHANGED <<verdict, proc>>
    BY <2>1 DEF FormRow
  <2>3. InvalidOnTheWay'
    BY <2>2 DEF InvalidInv, InvalidOnTheWay, OnTheWay
  <2>4. InvalidStaysOut'
    BY <1>1, <2>2 DEF InvalidInv, InvalidStaysOut, Typed, RowT
  <2> QED BY <2>3, <2>4
<1> QED BY <1>2, <1>3, <1>4, <1>5 DEF Next

\* No invalid address enters on a verdict that was known when it was read.
THEOREM InvalidKeptOut == Spec => []InvalidStaysOut
<1>1. Init => InvalidInv
  <2> SUFFICES ASSUME Init PROVE InvalidInv
    OBVIOUS
  <2>1. Typed
    BY TypeInit
  <2>2. InvalidStaysOut
    BY DEF Init, InvalidStaysOut
  <2>3. InvalidOnTheWay
    BY DEF Init, InvalidOnTheWay, OnTheWay, Idle
  <2> QED BY <2>1, <2>2, <2>3 DEF InvalidInv
<1>2. InvalidInv /\ [Next]_vars => InvalidInv'
  <2>1. Typed /\ [Next]_vars => Typed'
    BY ProcStepTyped, WorldStepTyped, StutterTyped DEF Next
  <2>2. InvalidInv /\ UNCHANGED vars => InvalidStaysOut' /\ InvalidOnTheWay'
    BY DEF vars, InvalidInv, InvalidStaysOut, InvalidOnTheWay, OnTheWay
  <2> QED BY <2>1, <2>2, InvalidStep DEF InvalidInv
<1>3. InvalidInv => InvalidStaysOut
  BY DEF InvalidInv
<1> QED BY <1>1, <1>2, <1>3, PTL DEF Spec

-----------------------------------------------------------------------------
(* Nobody is started twice without a reason.  For a contact without one the   *)
(* invariant says who may still start a run: nobody, once there has been a    *)
(* run, but beside the one who started it and is about to release the hold.   *)

\* The process will come to the start of a run for the contact if it finds a row.
ComesToStart(r, p, c) ==
    \/ c \in r.queue
    \/ r.c = c /\ (r.pc = "start" \/ (p \in Drains /\ r.pc = "resolve"))
ToStart(p, c) == ComesToStart(proc[p], p, c)
AtRelease(p, c) == proc[p].pc = "release" /\ proc[p].c = c

RunHasRow ==
    /\ \A c \in Contacts : run[c] # "none" => entered[c] # "none"
    /\ \A c \in Contacts : run[c] = "none" => runs[c] = 0
    /\ \A p \in Procs : proc[p].pc = "start" => entered[proc[p].c] # "none"

\* Whoever is at a contact has taken it out of its snapshot; a request has none.
InHand ==
    \A p \in Procs : proc[p].c \notin proc[p].queue /\ (p \in Requests => proc[p].queue = {})

StartedOnce(c) ==
    /\ runs[c] <= 1
    /\ \A p \in Procs : ToStart(p, c) => \/ run[c] = "none"
                                         \/ \E q \in Procs \ {p} : AtRelease(q, c)
    /\ hold[c].status = "pending" => \/ run[c] = "none"
                                     \/ \E q \in Procs : AtRelease(q, c)

SecondInv == Typed /\ RunHasRow /\ InHand /\ \A c \in Contacts \ excused : StartedOnce(c)

\* A step of a process that starts no run: of a contact without a reason the
\* process comes to no start it was not coming to, it releases only what nobody
\* else is coming to, and reopens no hold of a contact that has been started.
LEMMA QuietStep ==
    ASSUME SecondInv, NEW p \in Procs, NEW r, proc' = [proc EXCEPT ![p] = r],
           UNCHANGED <<run, runs>>, excused \subseteq excused',
           \A c \in Contacts : entered[c] # "none" => entered'[c] # "none",
           r.pc = "start" => r.c \in Contacts /\ entered'[r.c] # "none",
           NEW c \in Contacts \ excused',
           ComesToStart(r, p, c) => \/ ToStart(p, c) \/ run[c] = "none"
                                    \/ \E q \in Procs \ {p} : AtRelease(q, c),
           AtRelease(p, c) => /\ hold'[c].status # "pending"
                              /\ ~ComesToStart(r, p, c)
                              /\ \A q \in Procs \ {p} : ~ToStart(q, c),
           hold'[c].status = "pending" => \/ hold[c].status = "pending" \/ run[c] = "none"
    PROVE  StartedOnce(c)'
<1>1. proc'[p] = r /\ \A q \in Procs \ {p} : proc'[q] = proc[q]
  BY DEF SecondInv, Typed, ProcT
<1>2. StartedOnce(c) /\ c \in Contacts
  BY DEF SecondInv
<1>3. runs'[c] <= 1
  BY <1>2 DEF StartedOnce
<1>4. \A q \in Procs : AtRelease(q, c) /\ q # p => AtRelease(q, c)'
  BY <1>1 DEF AtRelease
<1>5. ASSUME NEW q \in Procs, ToStart(q, c)'
      PROVE  run'[c] = "none" \/ \E x \in Procs \ {q} : AtRelease(x, c)'
  <2>1. CASE q = p
    <3>1. ComesToStart(r, p, c)
      BY <1>1, <1>5, <2>1 DEF ToStart, ComesToStart
    <3>2. run[c] = "none" \/ \E x \in Procs \ {p} : AtRelease(x, c)
      BY <1>2, <3>1 DEF StartedOnce
    <3> QED BY <1>4, <2>1, <3>2
  <2>2. CASE q # p
    <3>1. ToStart(q, c)
      BY <1>1, <1>5, <2>2 DEF ToStart, ComesToStart
    <3>2. run[c] = "none" \/ \E x \in Procs \ {q} : AtRelease(x, c)
      BY <1>2, <3>1 DEF StartedOnce
    <3>3. ~AtRelease(p, c)
      BY <2>2, <3>1
    <3> QED BY <1>4, <3>2, <3>3
  <2> QED BY <2>1, <2>2
<1>6. ASSUME hold'[c].status = "pending"
      PROVE  run'[c] = "none" \/ \E x \in Procs : AtRelease(x, c)'
  <2>1. run[c] = "none" \/ \E x \in Procs : AtRelease(x, c)
    BY <1>2, <1>6 DEF StartedOnce
  <2>2. ~AtRelease(p, c)
    BY <1>6
  <2> QED BY <1>4, <2>1, <2>2
<1> QED BY <1>3, <1>5, <1>6 DEF StartedOnce

\* The rows and runs keep to each other.
LEMMA RowsKeep ==
    ASSUME Typed, RunHasRow, NEW p \in Procs, NEW r, proc' = [proc EXCEPT ![p] = r],
           UNCHANGED <<run, runs>>, InHand,
           r.c \notin r.queue, p \in Requests => r.queue = {},
           \A c \in Contacts : entered[c] # "none" => entered'[c] # "none",
           r.pc = "start" => r.c \in Contacts /\ entered'[r.c] # "none"
    PROVE  RunHasRow' /\ InHand'
<1>1. proc'[p] = r /\ \A q \in Procs \ {p} : proc'[q] = proc[q]
  BY DEF Typed, ProcT
<1>2. ASSUME NEW q \in Procs, proc'[q].pc = "start" PROVE entered'[proc'[q].c] # "none"
  <2>1. CASE q = p
    BY <1>1, <1>2, <2>1
  <2>2. CASE q # p
    <3>1. proc[q].pc = "start" /\ proc'[q].c = proc[q].c /\ proc[q].c \in Contacts
      BY <1>1, <1>2, <2>2 DEF Typed, ProcT, Working, Outside
    <3> QED BY <3>1 DEF RunHasRow
  <2> QED BY <2>1, <2>2
<1>3. RunHasRow'
  BY <1>2 DEF RunHasRow
<1>4. ASSUME NEW q \in Procs
      PROVE  proc'[q].c \notin proc'[q].queue /\ (q \in Requests => proc'[q].queue = {})
  BY <1>1 DEF InHand
<1> QED BY <1>3, <1>4 DEF InHand

\* The start of a run: the first of its contact, or beside one who shares it.
LEMMA StartStep ==
    ASSUME SecondInv, NEW p \in Procs, Start(p)
    PROVE  RunHasRow' /\ InHand' /\ \A c \in Contacts \ excused' : StartedOnce(c)'
<1> DEFINE k == proc[p].c
<1>1. /\ Typed /\ RunHasRow /\ k \in Contacts /\ entered' = entered /\ hold' = hold
      /\ proc[p].pc = "start" /\ run' = [run EXCEPT ![k] = "open"] /\ entered[k] # "none"
      /\ runs' = IF run[k] = "open" THEN runs ELSE [runs EXCEPT ![k] = @ + 1]
      /\ excused' = IF Shared(p, k) THEN excused \union {k} ELSE excused
      /\ proc' = [proc EXCEPT ![p].pc = "release"]
  BY DEF SecondInv, RunHasRow, Start, At, Goto, Typed, ProcT, Working, Outside
<1>2. /\ proc'[p].pc = "release" /\ proc'[p].c = k /\ proc'[p].queue = proc[p].queue
      /\ \A q \in Procs \ {p} : proc'[q] = proc[q]
  BY <1>1 DEF Typed, ProcT, Working, ProcRecord
<1>3. run \in [Contacts -> {"none", "open", "closed"}] /\ runs \in [Contacts -> Nat]
  BY <1>1 DEF Typed, RowT
<1>4. RunHasRow'
  <2>1. ASSUME NEW q \in Procs, proc'[q].pc = "start" PROVE entered'[proc'[q].c] # "none"
    BY <1>1, <1>2, <2>1 DEF RunHasRow
  <2>2. ASSUME NEW c \in Contacts, run'[c] # "none" PROVE entered'[c] # "none"
    BY <1>1, <1>3, <2>2 DEF RunHasRow
  <2>3. ASSUME NEW c \in Contacts, run'[c] = "none" PROVE runs'[c] = 0
    BY <1>1, <1>3, <2>3 DEF RunHasRow
  <2> QED BY <2>1, <2>2, <2>3 DEF RunHasRow
<1>5. ASSUME NEW c \in Contacts, c \notin excused' PROVE StartedOnce(c)'
  <2>1. StartedOnce(c) /\ (c = k => ~Shared(p, k))
    BY <1>1, <1>5 DEF SecondInv
  <2>2. CASE c = k
    <3>1. \A q \in Procs \ {p} : proc[q].c # k /\ k \notin proc[q].queue
      BY <2>1, <2>2 DEF Shared
    <3>2. run[k] = "none"
      <4>1. ToStart(p, k)
        BY <1>1 DEF ToStart, ComesToStart
      <4> QED BY <2>1, <2>2, <3>1, <4>1 DEF StartedOnce, AtRelease
    <3>3. runs'[c] <= 1
      BY <1>1, <1>3, <2>2, <3>2 DEF RunHasRow
    <3>4. AtRelease(p, c)'
      BY <1>2, <2>2 DEF AtRelease
    <3>5. ASSUME NEW q \in Procs, ToStart(q, c)' PROVE FALSE
      <4>1. CASE q = p
        BY <1>1, <1>2, <2>2, <3>5, <4>1 DEF ToStart, ComesToStart, SecondInv, InHand
      <4>2. CASE q # p
        BY <1>2, <2>2, <3>1, <3>5, <4>2 DEF ToStart, ComesToStart
      <4> QED BY <4>1, <4>2
    <3> QED BY <3>3, <3>4, <3>5 DEF StartedOnce
  <2>3. CASE c # k
    <3>1. run'[c] = run[c] /\ runs'[c] = runs[c]
      BY <1>1, <1>3, <2>3
    <3>2. \A q \in Procs : AtRelease(q, c) => AtRelease(q, c)'
      BY <1>1, <1>2 DEF AtRelease
    <3>3. \A q \in Procs : ToStart(q, c)' => ToStart(q, c)
      BY <1>2, <2>3 DEF ToStart, ComesToStart
    <3> QED BY <1>1, <2>1, <3>1, <3>2, <3>3 DEF StartedOnce
  <2> QED BY <2>2, <2>3
<1>6. InHand'
  <2>1. ASSUME NEW q \in Procs
        PROVE  proc'[q].c \notin proc'[q].queue /\ (q \in Requests => proc'[q].queue = {})
    BY <1>2 DEF SecondInv, InHand
  <2> QED BY <2>1 DEF InHand
<1> QED BY <1>4, <1>5, <1>6

SecondRest == RunHasRow /\ InHand /\ \A c \in Contacts \ excused : StartedOnce(c)

\* What enrollContact's return leaves of a process.
Left(p, full) == IF p \in Drains THEN [Idle EXCEPT !.pc = "next", !.queue = proc[p].queue, !.full = full]
                 ELSE [Idle EXCEPT !.pc = "done"]

LEMMA LeftIs ==
    ASSUME Typed, InHand, NEW p \in Procs, NEW full
    PROVE  /\ Finish(p, full) <=> proc' = [proc EXCEPT ![p] = Left(p, full)]
           /\ Left(p, full).c = Nobody /\ Left(p, full).pc \in {"next", "done"}
           /\ Left(p, full).queue \subseteq proc[p].queue
           /\ proc[p].queue \subseteq Contacts /\ Nobody \notin Contacts
           /\ p \in Requests => Left(p, full).queue = {}
           /\ \A c \in Contacts : ComesToStart(Left(p, full), p, c) => c \in proc[p].queue
           /\ proc[p].pc \in Pcs \ Outside => proc[p].c \in Contacts \ proc[p].queue
<1>1. proc[p].queue \subseteq Contacts /\ Nobody \notin Contacts
  BY GateAssumption DEF Typed, ProcT, Working, ProcRecord
<1>2. /\ Left(p, full).c = Nobody /\ Left(p, full).pc \in {"next", "done"}
      /\ Left(p, full).queue \subseteq proc[p].queue
      /\ p \in Requests => Left(p, full).queue = {}
  BY DEF Left, Idle, InHand
<1>3. Finish(p, full) <=> proc' = [proc EXCEPT ![p] = Left(p, full)]
  BY DEF Finish, Left
<1>4. ASSUME NEW c \in Contacts, ComesToStart(Left(p, full), p, c) PROVE c \in proc[p].queue
  BY <1>1, <1>2, <1>4 DEF ComesToStart
<1>5. proc[p].pc \in Pcs \ Outside => proc[p].c \in Contacts \ proc[p].queue
  BY DEF InHand, Typed, ProcT, Working
<1> QED BY <1>1, <1>2, <1>3, <1>4, <1>5

\* A request or a drain comes to its contact: who picks one up that has been
\* started finds the one who started it about to release the hold.
LEMMA EntryStep ==
    ASSUME SecondInv, NEW p \in Procs, Ask(p) \/ DrainStep(p)
    PROVE  SecondRest'
<1>1. Typed /\ RunHasRow /\ InHand
  BY DEF SecondInv
<1>2. /\ proc[p] \in ProcRecord /\ proc[p].queue \subseteq Contacts
      /\ Nobody \notin Contacts /\ Requests \intersect Drains = {}
  BY <1>1, GateAssumption DEF Typed, ProcT, Working, ProcRecord
<1>3. UNCHANGED <<entered, run, runs, excused, hold>>
  BY DEF Ask, DrainStep, DrainStart, DrainNext, DrainEnd, histVars
<1>4. ASSUME NEW r, proc' = [proc EXCEPT ![p] = r], r.pc # "start", r.c \notin r.queue,
             p \in Requests => r.queue = {}, proc[p].pc # "release",
             \A c \in Contacts : ComesToStart(r, p, c) => ToStart(p, c) \/ hold[c].status = "pending"
      PROVE  SecondRest'
  <2>1. RunHasRow' /\ InHand'
    BY <1>1, <1>3, <1>4, RowsKeep
  <2>2. ASSUME NEW c \in Contacts \ excused' PROVE StartedOnce(c)'
    <3>1. ~AtRelease(p, c)
      BY <1>4 DEF AtRelease
    <3>2. StartedOnce(c)
      BY <1>3 DEF SecondInv
    <3>3. ComesToStart(r, p, c) => \/ ToStart(p, c) \/ run[c] = "none"
                                   \/ \E q \in Procs \ {p} : AtRelease(q, c)
      BY <1>4, <3>1, <3>2 DEF StartedOnce
    <3> QED BY <1>3, <1>4, <3>1, <3>3, QuietStep
  <2> QED BY <2>1, <2>2 DEF SecondRest
<1>5. CASE Ask(p)
  <2> DEFINE r == [proc[p] EXCEPT !.pc = "resolve", !.c = AskOf[p]]
  <2>1. proc' = [proc EXCEPT ![p] = r] /\ p \in Requests /\ proc[p].pc = "idle"
    BY <1>5 DEF Ask, At
  <2>2. r.pc = "resolve" /\ r.queue = {}
    BY <1>1, <1>2, <2>1 DEF InHand, ProcRecord
  <2>3. \A c \in Contacts : ~ComesToStart(r, p, c)
    BY <1>2, <2>1, <2>2 DEF ComesToStart
  <2> HIDE DEF r
  <2> QED BY <1>4, <2>1, <2>2, <2>3
<1>6. CASE DrainStart(p)
  <2> DEFINE r == [Idle EXCEPT !.pc = "next", !.queue = PendingHolds]
  <2>1. proc' = [proc EXCEPT ![p] = r] /\ p \in Drains /\ proc[p].pc = "idle"
    BY <1>6 DEF DrainStart, At
  <2>2. r.pc = "next" /\ r.queue = PendingHolds /\ r.c = Nobody /\ Nobody \notin PendingHolds
    BY <1>2 DEF Idle, PendingHolds
  <2>3. \A c \in Contacts : ComesToStart(r, p, c) => hold[c].status = "pending"
    BY <1>2, <2>2 DEF ComesToStart, PendingHolds
  <2> HIDE DEF r
  <2> QED BY <1>2, <1>4, <2>1, <2>2, <2>3
<1>7. CASE \E d \in Contacts : DrainNext(p, d)
  <2>1. PICK d \in Contacts : DrainNext(p, d)
    BY <1>7
  <2> DEFINE r == [proc[p] EXCEPT !.queue = @ \ {d}, !.pc = IF Waits(d) THEN "next" ELSE "resolve",
                                  !.c = IF Waits(d) THEN Nobody ELSE d]
  <2>2. proc' = [proc EXCEPT ![p] = r] /\ proc[p].pc = "next" /\ d \in proc[p].queue
    BY <1>2, <2>1 DEF DrainNext, At, ProcRecord
  <2>3. /\ r.pc \in {"next", "resolve"} /\ r.queue = proc[p].queue \ {d} /\ r.c \in {Nobody, d}
    BY <1>2 DEF ProcRecord
  <2> HIDE DEF r
  <2>4. p \notin Requests
    BY <1>1, <2>2 DEF InHand
  <2>5. \A c \in Contacts : ComesToStart(r, p, c) => ToStart(p, c)
    BY <1>2, <2>2, <2>3 DEF ComesToStart, ToStart
  <2> QED BY <1>2, <1>4, <2>2, <2>3, <2>4, <2>5
<1>8. CASE DrainEnd(p)
  <2>1. /\ proc' = [proc EXCEPT ![p] = Idle] /\ proc[p].pc = "next"
        /\ Idle.pc = "idle" /\ Idle.queue = {} /\ Idle.c = Nobody
    BY <1>8 DEF DrainEnd, At, Idle
  <2>2. \A c \in Contacts : ~ComesToStart(Idle, p, c)
    BY <1>2, <2>1 DEF ComesToStart
  <2> QED BY <1>4, <2>1, <2>2
<1> QED BY <1>5, <1>6, <1>7, <1>8 DEF DrainStep

\* The ladder, the count and the row: a request that finds a row has a reason, a
\* drain was coming to its start, and a contact without a row has no run.
LEMMA InsideStep ==
    ASSUME SecondInv, NEW p \in Procs, Resolve(p) \/ Count(p) \/ Create(p)
    PROVE  SecondRest'
<1> DEFINE k == proc[p].c
<1>1. Typed /\ RunHasRow /\ InHand /\ proc[p] \in ProcRecord
  BY DEF SecondInv, Typed, ProcT, Working
<1>2. /\ UNCHANGED <<run, runs, hold>> /\ excused \subseteq excused'
      /\ proc[p].pc \in {"resolve", "count", "create"} /\ k \in Contacts \ proc[p].queue
  BY <1>1 DEF Resolve, Count, Create, At, histVars, InHand, Typed, ProcT, Working, Outside
<1>3. \A c \in Contacts : entered[c] # "none" => entered'[c] # "none"
  BY <1>1 DEF Resolve, Count, Create, Typed, RowT
<1>4. ASSUME NEW r, proc' = [proc EXCEPT ![p] = r], r.c = k, r.queue = proc[p].queue, r.pc # "resolve",
             r.pc = "start" => /\ entered'[k] # "none"
                               /\ k \in excused' \/ run[k] = "none" \/ ToStart(p, k)
      PROVE  SecondRest'
  <2>1. RunHasRow' /\ InHand'
    BY <1>1, <1>2, <1>3, <1>4, RowsKeep DEF InHand
  <2>2. ASSUME NEW c \in Contacts \ excused' PROVE StartedOnce(c)'
    <3>1. ~AtRelease(p, c)
      BY <1>2 DEF AtRelease
    <3>2. ComesToStart(r, p, c) => ToStart(p, c) \/ run[c] = "none"
      BY <1>4 DEF ComesToStart, ToStart
    <3> QED BY <1>2, <1>3, <1>4, <3>1, <3>2, QuietStep
  <2> QED BY <2>1, <2>2 DEF SecondRest
<1>5. CASE Resolve(p)
  <2> DEFINE d == Decision(k)
             r == [proc[p] EXCEPT !.pc = d[1], !.reason = d[2]]
  <2>1. /\ proc' = [proc EXCEPT ![p] = r] /\ UNCHANGED entered /\ proc[p].pc = "resolve"
        /\ excused' = IF p \in Requests /\ entered[k] # "none" THEN excused \union {k} ELSE excused
    BY <1>5 DEF Resolve, At
  <2>2. d[1] # "resolve" /\ (d[1] = "start" => entered[k] # "none")
    BY DEF Decision
  <2>3. r.c = k /\ r.queue = proc[p].queue /\ r.pc = d[1]
    BY <1>1 DEF ProcRecord
  <2>4. d[1] = "start" => k \in excused' \/ ToStart(p, k)
    BY <2>1, <2>2 DEF ToStart, ComesToStart, Procs
  <2> HIDE DEF d, r
  <2> QED BY <1>4, <2>1, <2>2, <2>3, <2>4
<1>6. CASE Count(p)
  <2> DEFINE r == IF CapReached THEN [proc[p] EXCEPT !.pc = "hold", !.reason = "cap_overflow"]
                  ELSE [proc[p] EXCEPT !.pc = "create"]
  <2>1. proc' = [proc EXCEPT ![p] = r]
    BY <1>6 DEF Count, Goto
  <2>2. r.c = k /\ r.queue = proc[p].queue /\ r.pc \in {"hold", "create"}
    BY <1>1 DEF ProcRecord
  <2> HIDE DEF r
  <2> QED BY <1>4, <2>1, <2>2
<1>7. CASE Create(p)
  <2> DEFINE r == [proc[p] EXCEPT !.pc = "start"]
  <2>1. proc' = [proc EXCEPT ![p] = r] /\ entered[k] = "none"
        /\ entered' = [entered EXCEPT ![k] = "today"]
    BY <1>7 DEF Create, Goto, AfterCreate
  <2>2. r.c = k /\ r.queue = proc[p].queue /\ r.pc = "start"
    BY <1>1 DEF ProcRecord
  <2>3. entered'[k] # "none" /\ run[k] = "none"
    BY <1>1, <1>2, <2>1 DEF RunHasRow, Typed, RowT
  <2> HIDE DEF r
  <2> QED BY <1>4, <2>1, <2>2, <2>3
<1> QED BY <1>5, <1>6, <1>7

\* The ways out of enrollContact: a hold is opened again for a contact without a
\* row or with a reason, and released where nobody else has the contact in hand.
LEMMA LeaveStep ==
    ASSUME SecondInv, NEW p \in Procs,
           Refuse(p) \/ WriteHold(p) \/ CreateTwice(p) \/ Release(p) \/ Throws(p)
    PROVE  SecondRest'
<1> DEFINE k == proc[p].c
<1>1. Typed /\ RunHasRow /\ InHand /\ hold \in [Contacts -> HoldRecord]
  BY DEF SecondInv, Typed, HoldT
<1>2. UNCHANGED <<run, runs, entered>> /\ excused \subseteq excused'
  BY DEF Refuse, WriteHold, CreateTwice, Release, Throws, histVars
<1>3. k \in Contacts /\ k \notin proc[p].queue
  BY <1>1 DEF Refuse, WriteHold, CreateTwice, Release, Throws, At, InHand, Typed, ProcT, Working, Outside
<1>4. PICK full : Finish(p, full)
  BY DEF Refuse, WriteHold, CreateTwice, Release, Throws
<1> DEFINE r == Left(p, full)
<1>5. /\ proc' = [proc EXCEPT ![p] = r] /\ r.c = Nobody /\ r.pc \in {"next", "done"}
      /\ r.queue \subseteq proc[p].queue /\ Nobody \notin r.queue /\ (p \in Requests => r.queue = {})
      /\ \A c \in Contacts : ComesToStart(r, p, c) => c \in proc[p].queue
  BY <1>1, <1>4, LeftIs
<1> HIDE DEF r
<1>6. \A c \in Contacts : ComesToStart(r, p, c) => ToStart(p, c)
  BY <1>5 DEF ToStart, ComesToStart
<1>7. RunHasRow' /\ InHand'
  BY <1>1, <1>2, <1>5, RowsKeep
<1>8. ASSUME NEW c \in Contacts \ excused' PROVE StartedOnce(c)'
  <2>1. AtRelease(p, c) => /\ hold'[c].status # "pending"
                           /\ ~ComesToStart(r, p, c)
                           /\ \A q \in Procs \ {p} : ~ToStart(q, c)
    <3> SUFFICES ASSUME AtRelease(p, c)
                 PROVE  /\ hold'[c].status # "pending"
                        /\ ~ComesToStart(r, p, c)
                        /\ \A q \in Procs \ {p} : ~ToStart(q, c)
      OBVIOUS
    <3>1. c = k /\ proc[p].pc = "release"
      BY DEF AtRelease
    <3>2. Release(p)
      BY <1>8, <3>1 DEF Refuse, WriteHold, CreateTwice, Throws, At
    <3>3. ~Shared(p, k) /\ hold' = [hold EXCEPT ![k].status = Freed(@)]
      BY <1>8, <3>1, <3>2 DEF Release
    <3>4. hold'[c].status # "pending"
      BY <1>1, <1>3, <3>1, <3>3 DEF Freed, HoldRecord
    <3>5. \A q \in Procs \ {p} : ~ToStart(q, c)
      BY <3>1, <3>3 DEF Shared, ToStart, ComesToStart
    <3> QED BY <1>3, <1>5, <3>1, <3>4, <3>5
  <2>2. hold'[c].status = "pending" => hold[c].status = "pending" \/ run[c] = "none"
    <3>1. CASE Refuse(p)
      BY <1>1, <1>3, <3>1 DEF Refuse, HoldRecord
    <3>2. CASE WriteHold(p)
      <4>1. hold' = [hold EXCEPT ![k] = [status |-> "pending", reason |-> proc[p].reason]]
            /\ (entered[k] # "none" => k \in excused')
        BY <3>2 DEF WriteHold
      <4>2. c = k => run[c] = "none"
        BY <1>1, <1>8, <4>1 DEF RunHasRow
      <4> QED BY <1>1, <4>1, <4>2
    <3>3. CASE Release(p)
      BY <1>1, <1>3, <3>3 DEF Release, Freed, HoldRecord
    <3>4. CASE CreateTwice(p) \/ Throws(p)
      BY <3>4 DEF CreateTwice, Throws, histVars
    <3> QED BY <3>1, <3>2, <3>3, <3>4
  <2> QED BY <1>2, <1>5, <1>6, <2>1, <2>2, QuietStep
<1> QED BY <1>7, <1>8 DEF SecondRest

\* What happens around the gate starts no run and reopens no hold.
LEMMA AsideStep ==
    ASSUME SecondInv,
           \/ \E c \in Contacts : \/ \E v \in Answers : VerdictLands(c, v)
                                  \/ Suppress(c) \/ FormRow(c) \/ RunCloses(c)
           \/ FlipPolicy \/ NextDay \/ UNCHANGED vars
    PROVE  SecondRest'
<1>1. Typed /\ RunHasRow /\ InHand
  BY DEF SecondInv
<1>2. UNCHANGED <<proc, hold, runs, excused>>
  BY DEF VerdictLands, Suppress, FormRow, RunCloses, FlipPolicy, NextDay, histVars, vars
<1>3. \A c \in Contacts : entered[c] # "none" => entered'[c] # "none"
  <2>1. CASE \E c \in Contacts : FormRow(c)
    BY <1>1, <2>1 DEF FormRow, Typed, RowT
  <2>2. CASE NextDay
    BY <2>2 DEF NextDay
  <2>3. CASE UNCHANGED entered
    BY <2>3
  <2> QED BY <2>1, <2>2, <2>3 DEF VerdictLands, Suppress, RunCloses, FlipPolicy, vars
<1>4. \A c \in Contacts : run'[c] = "none" <=> run[c] = "none"
  <2>1. CASE \E c \in Contacts : RunCloses(c)
    BY <1>1, <2>1 DEF RunCloses, Typed, RowT
  <2>2. CASE UNCHANGED run
    BY <2>2
  <2> QED BY <2>1, <2>2 DEF VerdictLands, Suppress, FormRow, FlipPolicy, NextDay, vars
<1>5. RunHasRow'
  <2>1. \A p \in Procs : proc[p].pc = "start" => proc[p].c \in Contacts
    BY <1>1 DEF Typed, ProcT, Working, Outside
  <2> QED BY <1>1, <1>2, <1>3, <1>4, <2>1 DEF RunHasRow
<1>6. InHand'
  BY <1>1, <1>2 DEF InHand
<1>7. ASSUME NEW c \in Contacts \ excused' PROVE StartedOnce(c)'
  <2>1. StartedOnce(c) /\ c \in Contacts
    BY <1>2 DEF SecondInv
  <2> QED BY <1>2, <1>4, <2>1 DEF StartedOnce, ToStart, ComesToStart, AtRelease
<1> QED BY <1>5, <1>6, <1>7 DEF SecondRest

\* A second run of a contact has one of the reasons the mark records: the contact
\* was held again or asked for again after it had entered, a statement threw, or
\* two had it in hand at once.
THEOREM SecondRunHasReason == Spec => []SecondRunExplained
<1>1. Init => SecondInv
  <2> SUFFICES ASSUME Init PROVE SecondInv
    OBVIOUS
  <2>1. Typed
    BY TypeInit
  <2>2. /\ proc = [p \in Procs |-> Idle] /\ Idle.pc = "idle" /\ Idle.queue = {}
        /\ run = [c \in Contacts |-> "none"] /\ runs = [c \in Contacts |-> 0]
        /\ \A c \in Contacts : hold[c].status = "none"
    BY DEF Init, Idle
  <2>3. RunHasRow /\ InHand
    BY <2>2 DEF RunHasRow, InHand
  <2>4. \A c \in Contacts : StartedOnce(c)
    BY <2>2 DEF StartedOnce
  <2> QED BY <2>1, <2>3, <2>4 DEF SecondInv
<1>2. SecondInv /\ [Next]_vars => SecondInv'
  <2> SUFFICES ASSUME SecondInv, [Next]_vars PROVE SecondInv'
    OBVIOUS
  <2>1. Typed'
    BY ProcStepTyped, WorldStepTyped, StutterTyped DEF Next, SecondInv
  <2>2. SecondRest'
    <3>1. ASSUME NEW p \in Procs, Ask(p) \/ DrainStep(p) \/ Enroll(p) \/ Throws(p) PROVE SecondRest'
      BY <3>1, EntryStep, InsideStep, LeaveStep, StartStep DEF Enroll, SecondRest
    <3> QED BY <3>1, AsideStep DEF Next
  <2> QED BY <2>1, <2>2 DEF SecondInv, SecondRest
<1>3. SecondInv => SecondRunExplained
  BY DEF SecondInv, StartedOnce, SecondRunExplained, Typed, RowT
<1> QED BY <1>1, <1>2, <1>3, PTL DEF Spec

-----------------------------------------------------------------------------
(* The daily cap.  An entry is let in only by a count that found room, and    *)
(* unless two were let in side by side nobody else is between that count and  *)
(* the row; what a later verdict or a form adds is marked ungated.            *)

Kept == Counted \ ungated
Entering == {p \in Procs : proc[p].pc = "create"}
Room == /\ Cardinality(Kept) <= Cap
        /\ \A p \in Entering : Cardinality(Kept) < Cap /\ \A q \in Entering : q = p
CapInv == Typed /\ (CapEnabled /\ ~raced => Room)

\* Fewer entries count for less, and one more for one more at most.
LEMMA KeptCounts ==
    /\ IsFiniteSet(Kept) /\ IsFiniteSet(Counted)
    /\ Cardinality(Kept) \in Nat /\ Cardinality(Counted) \in Nat
    /\ Cardinality(Kept) <= Cardinality(Counted)
<1>1. IsFiniteSet(Counted) /\ Kept \subseteq Counted
  <2>1. Counted \subseteq Contacts /\ IsFiniteSet(Contacts)
    BY GateAssumption DEF Counted
  <2> QED BY <2>1, FS_Subset DEF Kept
<1> QED BY <1>1, FS_Subset, FS_CardinalityType

LEMMA KeptShrinks ==
    ASSUME Kept' \subseteq Kept
    PROVE  Cardinality(Kept)' \in Nat /\ Cardinality(Kept)' <= Cardinality(Kept)
<1>1. IsFiniteSet(Kept)
  BY KeptCounts
<1>2. IsFiniteSet(Kept') /\ Cardinality(Kept') <= Cardinality(Kept)
  BY <1>1, FS_Subset
<1>3. Cardinality(Kept') \in Nat
  BY <1>2, FS_CardinalityType
<1> QED BY <1>2, <1>3

LEMMA KeptGrowsByOne ==
    ASSUME NEW c, Kept' \subseteq Kept \union {c}
    PROVE  Cardinality(Kept)' \in Nat /\ Cardinality(Kept)' <= Cardinality(Kept) + 1
<1>1. IsFiniteSet(Kept) /\ Cardinality(Kept) \in Nat
  BY KeptCounts
<1>2. /\ IsFiniteSet(Kept \union {c})
      /\ Cardinality(Kept \union {c}) <= Cardinality(Kept) + 1
  BY <1>1, FS_AddElement
<1>3. IsFiniteSet(Kept') /\ Cardinality(Kept') <= Cardinality(Kept \union {c})
  BY <1>2, FS_Subset
<1>4. Cardinality(Kept') \in Nat /\ Cardinality(Kept \union {c}) \in Nat
  BY <1>2, <1>3, FS_CardinalityType
<1> QED BY <1>1, <1>2, <1>3, <1>4

\* A step that lets nobody in and leaves no count behind it keeps the room.
LEMMA RoomKept ==
    ASSUME CapInv, CapEnabled, ~raced', raced => raced', Kept' \subseteq Kept,
           Entering' \subseteq Entering
    PROVE  Room'
<1>1. Cardinality(Kept)' \in Nat /\ Cardinality(Kept)' <= Cardinality(Kept)
  BY KeptShrinks
<1>2. Room /\ Cap \in Nat /\ Cardinality(Kept) \in Nat
  BY NumberAssumption, KeptCounts DEF CapInv
<1> QED BY <1>1, <1>2 DEF Room

\* Who comes to the row comes from a count, where the campaign has a cap.
LEMMA ComesToCreate ==
    ASSUME Typed, CapEnabled, NEW p \in Procs, NEW q \in Procs,
           Ask(q) \/ DrainStep(q) \/ Enroll(q) \/ Throws(q), proc'[p].pc = "create"
    PROVE  proc[p].pc = "create" \/ (p = q /\ Count(p))
<1>1. /\ proc'[p].c = proc[p].c
      /\ proc[p].pc \in {"count", "create"} \/ proc[p].pc = "resolve"
  BY WayIn
<1>2. CASE p # q /\ proc[p].pc # "create"
  <2>1. proc'[p] = proc[p]
    <3>1. \A r : proc' = [proc EXCEPT ![q] = r] => proc'[p] = proc[p]
      BY <1>2 DEF Typed, ProcT
    <3>2. \E r : proc' = [proc EXCEPT ![q] = r]
      BY DEF Typed, ProcT, Ask, DrainStep, DrainStart, DrainNext, DrainEnd, Throws, Enroll, Resolve,
             Refuse, WriteHold, Count, Create, CreateTwice, Start, Release, Goto, Finish
    <3> QED BY <3>1, <3>2
  <2> QED BY <1>2, <2>1
<1>3. CASE p = q /\ proc[p].pc = "count"
  <2>1. Count(p) \/ Throws(p)
    BY <1>3 DEF Ask, DrainStep, DrainStart, DrainNext, DrainEnd, Enroll, Resolve, Refuse, WriteHold,
                Create, CreateTwice, Start, Release, At
  <2>2. ~Throws(p)
    <3>1. Finish(p, FALSE) => proc'[p].pc \in {"next", "done"}
      BY DEF Typed, ProcT, Finish, Idle
    <3> QED BY <3>1 DEF Throws
  <2> QED BY <1>3, <2>1, <2>2
<1>4. CASE p = q /\ proc[p].pc = "resolve"
  <2>1. Resolve(p)
    BY <1>4 DEF Ask, DrainStep, DrainStart, DrainNext, DrainEnd, Enroll, Count, Refuse, WriteHold,
                Create, CreateTwice, Start, Release, Throws, At
  <2>2. proc'[p].pc = Decision(proc[p].c)[1]
    BY <2>1 DEF Resolve, Typed, ProcT, Working, ProcRecord
  <2>3. Decision(proc[p].c)[1] # "create"
    BY DEF Decision
  <2> QED BY <2>2, <2>3
<1> QED BY <1>1, <1>2, <1>3, <1>4

\* Every step of a request or a drain keeps the room.
LEMMA RoomStep ==
    ASSUME CapInv, CapEnabled, ~raced', NEW q \in Procs,
           Ask(q) \/ DrainStep(q) \/ Enroll(q) \/ Throws(q)
    PROVE  Room'
<1>1. Typed /\ raced \in BOOLEAN /\ raced' \in BOOLEAN
  BY ProcStepTyped DEF CapInv, Typed, WorldT
<1>2. UNCHANGED <<verdict, ungated>> /\ (Create(q) \/ UNCHANGED entered)
  BY <1>1, EntersByCreate
<1>3. raced => raced'
  <2>1. CASE Count(q)
    BY <2>1 DEF Count
  <2>2. CASE UNCHANGED raced
    BY <2>2
  <2> QED BY <2>1, <2>2 DEF Ask, DrainStep, DrainStart, DrainNext, DrainEnd, Throws, Enroll, Resolve,
                           Refuse, WriteHold, Create, CreateTwice, Start, Release, histVars
<1>4. Room /\ Cap \in Nat
  BY <1>3, NumberAssumption DEF CapInv
<1>5. CASE Create(q)
  <2>1. q \in Entering /\ Cardinality(Kept) < Cap /\ \A p \in Entering : p = q
    BY <1>4, <1>5 DEF Create, At, Entering, Room
  <2>2. Entering' = {}
    <3> SUFFICES ASSUME NEW p \in Procs, proc'[p].pc = "create" PROVE FALSE
      BY DEF Entering
    <3>1. p = q
      BY <1>1, <1>5, <2>1, ComesToCreate DEF Entering, Count, Create, At
    <3>2. proc'[q].pc = "start"
      BY <1>1, <1>5 DEF Create, Goto, AfterCreate, Typed, ProcT, Working, ProcRecord
    <3> QED BY <3>1, <3>2
  <2>3. Kept' \subseteq Kept \union {proc[q].c}
    BY <1>1, <1>2, <1>5 DEF Create, Kept, Counted, Typed, RowT
  <2>4. Cardinality(Kept)' \in Nat /\ Cardinality(Kept)' <= Cardinality(Kept) + 1
    BY <2>3, KeptGrowsByOne
  <2>5. Cardinality(Kept) \in Nat
    BY KeptCounts
  <2> QED BY <1>4, <2>1, <2>2, <2>4, <2>5 DEF Room
<1>6. CASE UNCHANGED entered /\ Count(q) /\ ~CapReached
  <2>1. Kept' = Kept /\ Cardinality(Kept) < Cap
    <3>1. Kept' = Kept
      BY <1>2, <1>6 DEF Kept, Counted
    <3>2. Cardinality(Counted) < Cap
      BY <1>4, <1>6, KeptCounts DEF CapReached
    <3> QED BY <1>4, <3>1, <3>2, KeptCounts
  <2>2. \A p \in Procs \ {q} : proc[p].pc # "create"
    BY <1>6 DEF Count, At
  <2>3. \A p \in Entering' : p = q
    BY <1>1, <2>2, ComesToCreate DEF Entering
  <2>4. Cardinality(Kept)' = Cardinality(Kept) /\ Cardinality(Kept) \in Nat
    BY <2>1, KeptCounts
  <2> QED BY <1>4, <2>1, <2>3, <2>4 DEF Room
<1>7. CASE UNCHANGED entered /\ ~(Count(q) /\ ~CapReached)
  <2>1. Kept' \subseteq Kept
    BY <1>2, <1>7 DEF Kept, Counted
  <2>2. Entering' \subseteq Entering
    <3> SUFFICES ASSUME NEW p \in Procs, proc'[p].pc = "create" PROVE proc[p].pc = "create"
      BY DEF Entering
    <3>1. Count(q) => proc'[q].pc = "hold"
      BY <1>1, <1>7 DEF Count, Typed, ProcT, Working, ProcRecord
    <3> QED BY <1>1, <3>1, ComesToCreate
  <2> QED BY <1>1, <1>3, <2>1, <2>2, RoomKept
<1> QED BY <1>2, <1>5, <1>6, <1>7

\* Around the gate: what counts anew is marked, and at midnight nothing counts.
LEMMA RoomAround ==
    ASSUME CapInv, CapEnabled, ~raced',
           \/ \E c \in Contacts : \/ \E v \in Answers : VerdictLands(c, v)
                                  \/ Suppress(c) \/ FormRow(c) \/ RunCloses(c)
           \/ FlipPolicy \/ NextDay \/ UNCHANGED vars
    PROVE  Room'
<1>1. Typed /\ UNCHANGED proc
  BY DEF CapInv, VerdictLands, Suppress, FormRow, RunCloses, FlipPolicy, NextDay, vars
<1>2. Entering' = Entering
  BY <1>1 DEF Entering
<1>3. CASE NextDay
  <2>1. Kept' = {}
    BY <1>1, <1>3 DEF NextDay, Kept, Counted, Typed, RowT
  <2>2. Entering = {}
    BY <1>3 DEF NextDay, At, Entering
  <2>3. Cardinality(Kept)' = 0
    BY <2>1, FS_EmptySet
  <2> QED BY <1>2, <2>2, <2>3, NumberAssumption DEF Room
<1>4. CASE \E c \in Contacts : \E v \in Answers : VerdictLands(c, v)
  <2>1. PICK c \in Contacts, v \in Answers : VerdictLands(c, v)
    BY <1>4
  <2>2. Kept' \subseteq Kept
    BY <1>1, <2>1 DEF VerdictLands, Kept, Counted, Typed, WorldT
  <2> QED BY <1>1, <1>2, <2>1, <2>2, RoomKept DEF VerdictLands
<1>5. CASE \E c \in Contacts : FormRow(c)
  <2>1. Kept' \subseteq Kept
    BY <1>1, <1>5 DEF FormRow, Kept, Counted, Typed, RowT
  <2> QED BY <1>1, <1>2, <1>5, <2>1, RoomKept DEF FormRow
<1>6. CASE (\E c \in Contacts : Suppress(c) \/ RunCloses(c)) \/ FlipPolicy \/ UNCHANGED vars
  <2>1. UNCHANGED <<verdict, entered, ungated, raced>>
    BY <1>6 DEF Suppress, RunCloses, FlipPolicy, histVars, vars
  <2>2. Kept' = Kept
    BY <2>1 DEF Kept, Counted
  <2> QED BY <1>1, <1>2, <2>1, <2>2, RoomKept
<1> QED BY <1>3, <1>4, <1>5, <1>6

\* The daily cap holds for what it counts, for every cap and any number of
\* requests and drains, unless two were let in side by side that day.
THEOREM CapKept == Spec => []CapHolds
<1>1. Init => CapInv
  <2> SUFFICES ASSUME Init PROVE CapInv
    OBVIOUS
  <2>1. Kept = {} /\ Entering = {}
    BY DEF Init, Kept, Counted, Entering, Idle
  <2>2. Cardinality(Kept) = 0
    BY <2>1, FS_EmptySet
  <2> QED BY <2>1, <2>2, TypeInit, NumberAssumption DEF CapInv, Room
<1>2. CapInv /\ [Next]_vars => CapInv'
  <2> SUFFICES ASSUME CapInv, [Next]_vars PROVE CapInv'
    OBVIOUS
  <2>1. Typed'
    BY ProcStepTyped, WorldStepTyped, StutterTyped DEF Next, CapInv
  <2>2. ASSUME CapEnabled, ~raced' PROVE Room'
    BY <2>2, RoomStep, RoomAround DEF Next
  <2> QED BY <2>1, <2>2 DEF CapInv
<1>3. CapInv => CapHolds
  BY DEF CapInv, Room, Kept, CapHolds
<1> QED BY <1>1, <1>2, <1>3, PTL DEF Spec

=============================================================================
