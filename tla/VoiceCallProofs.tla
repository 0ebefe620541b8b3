--------------------------- MODULE VoiceCallProofs ---------------------------
(* What holds of the calls of a contact for every number of dials, rows and   *)
(* legs, every cap and every bound.                                           *)
EXTENDS VoiceCall, FiniteSetTheorems, TLAPS

-----------------------------------------------------------------------------
(* Type correctness.  It is inductive with two more facts: whoever works on a *)
(* row has one, and a leg nobody placed has no session and no callback.       *)

Pcs == {"idle", "again", "gate", "create", "place", "save", "report", "promise", "enqueue",
        "queued", "fire", "done", "refused", "failed"}
WithRow == {"place", "save", "report", "enqueue", "queued", "fire"}
RowRecord == [status: {"none", "QUEUED", "IN_PROGRESS", "COMPLETED", "FAILED"},
              outcome: Outcomes \union {"none"}, sid: Legs \union {NoLeg},
              taken: BOOLEAN, step: BOOLEAN]
DialRecord == [pc: Pcs, row: Rows \union {NoRow}, leg: Legs \union {NoLeg}, job: BOOLEAN]
Placed == {r \in DialRecord : /\ r.pc \in WithRow => r.row \in Rows
                              /\ r.pc = "save" => r.leg \in Legs}
LegRecord == [state: {"free", "ringing", "up", "room", "ended"},
              row: Rows \union {NoRow}, result: Outcomes \union {"none"}]
Dialled == {r \in LegRecord : IF r.state = "free" THEN r.row = NoRow ELSE r.row \in Rows}

RowT  == row \in [Rows -> RowRecord]
DialT == dial \in [Dials -> Placed]
LegT  == /\ leg \in [Legs -> Dialled]
         /\ callback \in [Legs -> {"none", "due", "write", "done"}]
         /\ session \in [Legs -> {"off", "starting", "live", "ending", "write", "gone", "abandoned"}]
         /\ starts \subseteq Legs /\ saw \in [Legs -> BOOLEAN]
         /\ \A l \in Legs : leg[l].state = "free" =>
                session[l] = "off" /\ callback[l] = "none" /\ l \notin starts
Jump == [pc: {"idle", "mark", "redirect", "done"}, row: Rows \union {NoRow}, leg: Legs \union {NoLeg}]
RoomT == operator \in {o \in Jump : o.pc # "idle" => o.row \in Rows}
WorldT == optedOut \in BOOLEAN /\ faults \in 0..MaxFaults /\ slow \subseteq Dials
EndT  == endings \in [Rows -> Nat] /\ enders \in [Rows -> SUBSET {"webhook", "session", "refusal"}]
MarksT == /\ early \subseteq Rows /\ unsaved \subseteq Legs
          /\ overtaken \subseteq Dials /\ rangOver \subseteq Dials
          /\ crossed \subseteq Rows /\ lateStart \subseteq Rows /\ stranded \subseteq Rows

Typed == RowT /\ DialT /\ LegT /\ RoomT /\ WorldT /\ EndT /\ MarksT

\* The strengthened form has the type invariant as a part.
LEMMA TypedImplies == Typed => TypeOK
<1> SUFFICES ASSUME Typed PROVE TypeOK
  OBVIOUS
<1>1. dial \in [Dials -> DialRecord] /\ leg \in [Legs -> LegRecord]
  BY DEF Typed, DialT, LegT, Placed, Dialled
<1>2. operator \in Jump
  BY DEF Typed, RoomT
<1> QED BY <1>1, <1>2 DEF Typed, RowT, LegT, WorldT, EndT, MarksT, TypeOK, RowRecord, DialRecord,
       LegRecord, Jump, Pcs

\* Init is well formed.
LEMMA TypeInit == Init => Typed
<1> SUFFICES ASSUME Init PROVE Typed
  OBVIOUS
<1>1. RowT
  BY DEF Init, RowT, RowRecord, FreeRow
<1>2. DialT
  BY DEF Init, DialT, Placed, DialRecord, Pcs, WithRow
<1>3. LegT
  BY DEF Init, LegT, Dialled, LegRecord
<1>4. RoomT
  BY DEF Init, RoomT, Jump
<1>5. WorldT
  <2>1. 0 \in 0..MaxFaults
    BY BoundAssumption
  <2> QED BY <2>1 DEF Init, WorldT
<1>6. EndT /\ MarksT
  BY DEF Init, EndT, MarksT
<1> QED BY <1>1, <1>2, <1>3, <1>4, <1>5, <1>6 DEF Typed

\* A dial that stays well formed keeps them all well formed.
LEMMA DialMoves ==
    ASSUME DialT, NEW d \in Dials, NEW r \in Placed, dial' = [dial EXCEPT ![d] = r]
    PROVE  DialT'
BY DEF DialT

\* Moving on keeps a dial well formed unless it comes to need a row or a leg.
LEMMA GotoTyped ==
    ASSUME DialT, NEW d \in Dials, NEW pc \in Pcs, Goto(d, pc),
           pc \in WithRow => dial[d].pc \in WithRow,
           pc # "save"
    PROVE  DialT'
<1>1. dial[d] \in Placed
  BY DEF DialT
<1>2. [dial[d] EXCEPT !.pc = pc] \in Placed
  BY <1>1 DEF Placed, DialRecord
<1> QED BY <1>1, <1>2, DialMoves DEF Goto

\* So does writing a well-formed row.
LEMMA RowWritten ==
    ASSUME RowT, NEW r \in Rows, NEW new \in RowRecord, row' = [row EXCEPT ![r] = new]
    PROVE  RowT'
BY DEF RowT

\* What an update may put into a row.
LEMMA RowUpdates ==
    ASSUME NEW old \in RowRecord
    PROVE  /\ \A outcome \in Outcomes : \A status \in {"COMPLETED", "FAILED"} :
                [old EXCEPT !.status = status, !.outcome = outcome] \in RowRecord
           /\ \A outcome \in Outcomes : \A status \in {"COMPLETED", "FAILED"} : \A taken \in BOOLEAN :
                [old EXCEPT !.taken = taken, !.outcome = outcome, !.status = status] \in RowRecord
           /\ \A outcome \in Outcomes :
                [old EXCEPT !.status = "FAILED", !.outcome = outcome, !.taken = FALSE] \in RowRecord
           /\ \A sid \in Legs \union {NoLeg} : [old EXCEPT !.sid = sid, !.taken = FALSE] \in RowRecord
           /\ \A taken \in BOOLEAN : [old EXCEPT !.taken = taken] \in RowRecord
           /\ [old EXCEPT !.status = "IN_PROGRESS"] \in RowRecord
           /\ \A step \in BOOLEAN : [old EXCEPT !.status = "QUEUED", !.step = step] \in RowRecord
BY DEF RowRecord

\* A terminal event is counted for its row.
LEMMA EndsTyped ==
    ASSUME EndT, NEW r \in Rows, NEW who \in {"webhook", "session", "refusal"}, Ends(r, who)
    PROVE  EndT'
<1>1. endings[r] + 1 \in Nat /\ enders[r] \union {who} \in SUBSET {"webhook", "session", "refusal"}
  BY DEF EndT
<1> QED BY <1>1 DEF EndT, Ends

\* What an attempt's beginning does: a step goes by a row it found, if there is one.
LEMMA BeginMoves ==
    ASSUME DialT, NEW d \in Dials, Begin(d)
    PROVE  /\ dial[d].pc \in {"idle", "again"} /\ (dial[d].pc = "idle" => KindOf[d] # "retry")
           /\ \A e \in Dials \ {d} : dial'[e] = dial[e]
           /\ dial'[d].pc \in {"done", "gate"} /\ (dial'[d].job <=> dial[d].job) /\ dial'[d].leg = dial[d].leg
           /\ dial'[d] \in Placed
           /\ IsStep(d) => /\ dial'[d].row \in Found
                           /\ (dial'[d].pc = "done" <=> Dialed(dial'[d].row))
                           /\ stranded' = stranded \union ({dial[d].row} \ {dial'[d].row, NoRow})
           /\ ~IsStep(d) => dial'[d].row = dial[d].row /\ dial'[d].pc = "gate" /\ stranded' = stranded
           /\ UNCHANGED <<row, leg, callback, session, starts, saw, operator, optedOut, faults, slow,
                          endings, enders, early, unsaved, overtaken, rangOver, crossed, lateStart>>
<1>1. dial[d] \in Placed /\ dial[d].pc \in {"idle", "again"} /\ (dial[d].pc = "idle" => KindOf[d] # "retry")
  BY DEF Begin, At, DialT
<1>2. UNCHANGED <<row, leg, callback, session, starts, saw, operator, optedOut, faults, slow,
                  endings, enders, early, unsaved, overtaken, rangOver, crossed, lateStart>>
  BY DEF Begin
<1>3. CASE IsStep(d)
  <2>1. PICK r \in Found :
            /\ dial' = [dial EXCEPT ![d].pc = IF Dialed(r) THEN "done" ELSE "gate", ![d].row = r]
            /\ stranded' = stranded \union ({dial[d].row} \ {r, NoRow})
    BY <1>3 DEF Begin
  <2>2. r \in Rows \union {NoRow}
    BY DEF Found, StepRows
  <2>3. /\ dial'[d].pc = (IF Dialed(r) THEN "done" ELSE "gate") /\ dial'[d].row = r
        /\ (dial'[d].job <=> dial[d].job) /\ dial'[d].leg = dial[d].leg /\ dial'[d] \in Placed
        /\ \A e \in Dials \ {d} : dial'[e] = dial[e]
    BY <1>1, <2>1, <2>2 DEF DialT, Placed, DialRecord, Pcs, WithRow
  <2>4. /\ dial'[d].row \in Found /\ (dial'[d].pc = "done" <=> Dialed(dial'[d].row))
        /\ stranded' = stranded \union ({dial[d].row} \ {dial'[d].row, NoRow})
        /\ dial'[d].pc \in {"done", "gate"}
    <3>1. dial'[d].row = r /\ dial'[d].pc \in {"done", "gate"}
      BY <2>3
    <3>2. dial'[d].pc = "done" <=> Dialed(dial'[d].row)
      BY <2>3 DEF Dialed
    <3> QED BY <2>1, <3>1, <3>2
  <2> QED BY <1>1, <1>2, <1>3, <2>3, <2>4
<1>4. CASE ~IsStep(d)
  <2>1. dial' = [dial EXCEPT ![d].pc = "gate"] /\ stranded' = stranded
    BY <1>4 DEF Begin, Goto
  <2>2. /\ dial'[d].pc = "gate" /\ dial'[d].row = dial[d].row
        /\ (dial'[d].job <=> dial[d].job) /\ dial'[d].leg = dial[d].leg /\ dial'[d] \in Placed
        /\ \A e \in Dials \ {d} : dial'[e] = dial[e]
    BY <1>1, <2>1 DEF DialT, Placed, DialRecord, Pcs, WithRow
  <2> QED BY <1>1, <1>2, <1>4, <2>1, <2>2
<1> QED BY <1>3, <1>4

\* What the start of a retry beside a slow attempt does: a step's begins anew, a
\* job's has the row of the job.
LEMMA BesideMoves ==
    ASSUME DialT, NEW d \in Dials, NEW e \in Dials, RetriedBeside(d, e)
    PROVE  /\ KindOf[e] = "retry" /\ dial[e].pc = "idle" /\ AtWork(d) /\ d # e
           /\ \A x \in Dials \ {e} : dial'[x] = dial[x]
           /\ dial'[e].leg = dial[e].leg
           /\ \/ IsStep(d) /\ dial'[e].pc = "again" /\ dial'[e].row = dial[e].row /\ (dial'[e].job <=> dial[e].job)
              \/ /\ ~IsStep(d) /\ dial[d].job /\ dial'[e].pc = "queued" /\ dial'[e].row = dial[d].row
                 /\ dial'[e].job
           /\ slow' = slow \union {d}
           /\ UNCHANGED <<row, leg, callback, session, starts, saw, operator, optedOut, histVars>>
<1> USE DEF DialT
<1>1. dial[e] \in DialRecord /\ dial[d] \in DialRecord
  BY DEF Placed
<1>2. /\ KindOf[e] = "retry" /\ dial[e].pc = "idle" /\ AtWork(d) /\ d # e
      /\ slow' = slow \union {d} /\ (IsStep(d) \/ dial[d].job)
      /\ UNCHANGED <<row, leg, callback, session, starts, saw, operator, optedOut, histVars>>
  BY DEF RetriedBeside, At, AtWork
<1>3. CASE IsStep(d)
  <2>1. dial' = [dial EXCEPT ![e] = [dial[e] EXCEPT !.pc = "again"]]
    BY <1>3 DEF RetriedBeside
  <2> QED BY <1>1, <1>2, <1>3, <2>1 DEF DialRecord
<1>4. CASE ~IsStep(d)
  <2>1. dial' = [dial EXCEPT ![e] = [dial[e] EXCEPT !.pc = "queued", !.row = dial[d].row, !.job = TRUE]]
    BY <1>4 DEF RetriedBeside
  <2> QED BY <1>1, <1>2, <1>4, <2>1 DEF DialRecord
<1> QED BY <1>3, <1>4

\* A step that only moves one dial on keeps the types.
LEMMA MoveOnTyped ==
    ASSUME Typed, NEW d \in Dials,
           Begin(d) \/ Promise(d) \/ Enqueue(d) \/ Fire(d) \/ FirePutOff(d) \/ Report(d)
    PROVE  Typed'
<1> USE DEF Typed
<1>1. dial[d] \in Placed
  BY DEF DialT
<1>2. CASE Begin(d)
  <2>1. /\ \A e \in Dials \ {d} : dial'[e] = dial[e]
        /\ dial'[d] \in Placed /\ stranded' \subseteq stranded \union ({dial[d].row} \ {NoRow})
        /\ UNCHANGED <<row, leg, callback, session, starts, saw, operator, optedOut, faults, slow,
                       endings, enders, early, unsaved, overtaken, rangOver, crossed, lateStart>>
    BY <1>2, BeginMoves
  <2>2. \E new : dial' = [dial EXCEPT ![d] = new]
    <3>1. CASE IsStep(d)
      <4>1. PICK r : dial' = [dial EXCEPT ![d].pc = IF Dialed(r) THEN "done" ELSE "gate", ![d].row = r]
        BY <1>2, <3>1 DEF Begin
      <4> QED BY <4>1
    <3>2. CASE ~IsStep(d)
      BY <1>2, <3>2 DEF Begin, Goto
    <3> QED BY <3>1, <3>2
  <2>3. DialT'
    BY <2>1, <2>2 DEF DialT
  <2>4. MarksT'
    BY <1>1, <2>1 DEF MarksT, Placed, DialRecord
  <2> QED BY <2>1, <2>3, <2>4 DEF RowT, LegT, RoomT, WorldT, EndT
<1>3. CASE Enqueue(d)
  <2>1. [dial[d] EXCEPT !.pc = "queued", !.job = TRUE] \in Placed
    BY <1>1, <1>3 DEF Enqueue, At, Placed, DialRecord, Pcs, WithRow
  <2>2. DialT'
    BY <1>3, <2>1, DialMoves DEF Enqueue
  <2> QED BY <1>3, <2>2 DEF Enqueue, RowT, LegT, RoomT, WorldT, EndT, MarksT, histVars
<1>4. CASE Promise(d) \/ Fire(d) \/ Report(d)
  <2>1. DialT'
    BY <1>4, GotoTyped DEF Promise, Fire, Report, At, Pcs, WithRow
  <2> QED BY <1>4, <2>1 DEF Promise, Fire, Report, RowT, LegT, RoomT, WorldT, EndT, MarksT, histVars
<1>5. CASE FirePutOff(d)
  <2> DEFINE r == dial[d].row
  <2>1. DialT'
    BY <1>5, GotoTyped DEF FirePutOff, At, Pcs, WithRow
  <2>2. RowT'
    <3>1. r \in Rows /\ row[r] \in RowRecord
      BY <1>1, <1>5 DEF FirePutOff, At, Placed, WithRow, RowT
    <3>2. row' = [row EXCEPT ![r] = [row[r] EXCEPT !.taken = FALSE]]
      BY <1>5 DEF FirePutOff
    <3> QED BY <3>1, <3>2, RowUpdates, RowWritten
  <2> QED BY <1>5, <2>1, <2>2 DEF FirePutOff, LegT, RoomT, WorldT, EndT, MarksT, histVars
<1> QED BY <1>2, <1>3, <1>4, <1>5

\* Passing or failing the rails keeps the types.
LEMMA RailsTyped ==
    ASSUME Typed, NEW d \in Dials,
           Refused(d) \/ Cleared(d) \/ FireCleared(d) \/ FireRefused(d)
    PROVE  Typed'
<1> USE DEF Typed
<1>1. dial[d] \in Placed
  BY DEF DialT
<1>2. CASE Refused(d)
  <2>1. DialT'
    BY <1>2, GotoTyped DEF Refused, Pcs, WithRow
  <2>2. MarksT'
    BY <1>1, <1>2 DEF Refused, MarksT, Placed, DialRecord
  <2> QED BY <1>2, <2>1, <2>2 DEF Refused, RowT, LegT, RoomT, WorldT, EndT
<1>3. CASE Cleared(d)
  <2> DEFINE new == [dial[d] EXCEPT !.pc = IF dial[d].row = NoRow THEN "create" ELSE "place"]
  <2>1. new \in Placed
    BY <1>1 DEF Placed, DialRecord, Pcs, WithRow
  <2>2. dial' = [dial EXCEPT ![d] = new]
    BY <1>3 DEF Cleared, Goto
  <2>3. DialT'
    BY <2>1, <2>2, DialMoves
  <2>4. MarksT'
    BY <1>3 DEF Cleared, MarksT
  <2> QED BY <1>3, <2>3, <2>4 DEF Cleared, RowT, LegT, RoomT, WorldT, EndT
<1>4. CASE FireCleared(d)
  <2>1. DialT'
    BY <1>4, GotoTyped DEF FireCleared, At, Pcs, WithRow
  <2>2. MarksT'
    BY <1>4 DEF FireCleared, MarksT
  <2> QED BY <1>4, <2>1, <2>2 DEF FireCleared, RowT, LegT, RoomT, WorldT, EndT
<1>5. CASE FireRefused(d)
  <2>1. DialT'
    BY <1>5, GotoTyped DEF FireRefused, Pcs, WithRow
  <2> DEFINE r == dial[d].row
  <2>4. r \in Rows /\ row[r] \in RowRecord
    BY <1>1, <1>5 DEF FireRefused, At, Placed, WithRow, RowT
  <2>2. RowT'
    <3>1. [row[r] EXCEPT !.status = "FAILED", !.outcome = "canceled", !.taken = FALSE] \in RowRecord
      BY <2>4, RowUpdates DEF Outcomes
    <3>2. row' = [row EXCEPT ![r] = [row[r] EXCEPT !.status = "FAILED", !.outcome = "canceled", !.taken = FALSE]]
      BY <1>5 DEF FireRefused
    <3> QED BY <2>4, <3>1, <3>2, RowWritten
  <2>3. EndT'
    BY <1>5, <2>4, EndsTyped DEF FireRefused
  <2> QED BY <1>5, <2>1, <2>2, <2>3 DEF FireRefused, LegT, RoomT, WorldT, MarksT
<1> QED BY <1>2, <1>3, <1>4, <1>5

\* Placing a call keeps the types: the row first, then the leg, then its sid.
LEMMA PlacingTyped ==
    ASSUME Typed, NEW d \in Dials,
           CreateQueued(d) \/ Create(d) \/ Place(d) \/ Save(d) \/ DialFails(d)
    PROVE  Typed'
<1> USE DEF Typed
<1>1. dial[d] \in Placed /\ IsStep(d) \in BOOLEAN
  BY DEF DialT, IsStep
<1>2. ASSUME NEW next \in {"enqueue", "place"}, NewRow(d, next) PROVE RowT' /\ DialT'
  <2> DEFINE r == CHOOSE r \in Rows : row[r].status = "none"
  <2>1. r \in Rows
    BY <1>2 DEF NewRow
  <2>2. row' = [row EXCEPT ![r] = [row[r] EXCEPT !.status = "QUEUED", !.step = IsStep(d)]]
        /\ dial' = [dial EXCEPT ![d] = [dial[d] EXCEPT !.pc = next, !.row = r]]
    BY <1>2 DEF NewRow
  <2> HIDE DEF r
  <2>3. [row[r] EXCEPT !.status = "QUEUED", !.step = IsStep(d)] \in RowRecord
    BY <1>1, <2>1, RowUpdates DEF RowT
  <2>4. [dial[d] EXCEPT !.pc = next, !.row = r] \in Placed
    BY <1>1, <2>1 DEF Placed, DialRecord, Pcs, WithRow
  <2> QED BY <2>1, <2>2, <2>3, <2>4, RowWritten, DialMoves
<1>3. CASE CreateQueued(d)
  <2>1. RowT' /\ DialT'
    BY <1>2, <1>3 DEF CreateQueued
  <2> QED BY <1>3, <2>1 DEF CreateQueued, LegT, RoomT, WorldT, EndT, MarksT, histVars
<1>4. CASE Create(d)
  <2>1. RowT' /\ DialT'
    BY <1>2, <1>4 DEF Create
  <2> QED BY <1>4, <2>1 DEF Create, LegT, RoomT, WorldT, EndT, MarksT, histVars
<1>5. CASE Place(d)
  <2> DEFINE l == CHOOSE l \in Legs : leg[l].state = "free"
  <2>1. l \in Legs /\ dial[d].row \in Rows
    BY <1>1, <1>5 DEF Place, At, Placed, WithRow
  <2>2. /\ leg' = [leg EXCEPT ![l] = [state |-> "ringing", row |-> dial[d].row, result |-> "none"]]
        /\ dial' = [dial EXCEPT ![d] = [dial[d] EXCEPT !.pc = "save", !.leg = l]]
    BY <1>5 DEF Place
  <2> HIDE DEF l
  <2>3. [dial[d] EXCEPT !.pc = "save", !.leg = l] \in Placed
    BY <1>1, <2>1 DEF Placed, DialRecord, Pcs, WithRow
  <2>4. DialT'
    BY <2>2, <2>3, DialMoves
  <2>5. [state |-> "ringing", row |-> dial[d].row, result |-> "none"] \in Dialled
    BY <2>1 DEF Dialled, LegRecord
  <2>6. LegT'
    <3>1. leg' \in [Legs -> Dialled]
      BY <2>1, <2>2, <2>5 DEF LegT
    <3>2. \A m \in Legs : leg'[m].state = "free" => leg[m].state = "free"
      BY <2>1, <2>2 DEF LegT
    <3> QED BY <1>5, <3>1, <3>2 DEF Place, LegT
  <2>7. MarksT'
    BY <1>5 DEF Place, MarksT
  <2> QED BY <1>5, <2>4, <2>6, <2>7 DEF Place, RowT, RoomT, WorldT, EndT
<1>6. CASE Save(d)
  <2>1. DialT'
    BY <1>6, GotoTyped DEF Save, At, Pcs, WithRow
  <2>2. RowT'
    <3>1. dial[d].row \in Rows /\ Sid(d) \in Legs \union {NoLeg}
      BY <1>1, <1>6 DEF Save, At, Placed, DialRecord, WithRow, Sid
    <3>2. [row[dial[d].row] EXCEPT !.sid = Sid(d), !.taken = FALSE] \in RowRecord
      BY <3>1, RowUpdates DEF RowT
    <3>3. row' = [row EXCEPT ![dial[d].row] = [row[dial[d].row] EXCEPT !.sid = Sid(d), !.taken = FALSE]]
      BY <1>6 DEF Save
    <3> QED BY <3>1, <3>2, <3>3, RowWritten
  <2> QED BY <1>6, <2>1, <2>2 DEF Save, LegT, RoomT, WorldT, EndT, MarksT, histVars
<1>7. CASE DialFails(d)
  <2>1. PICK next \in {"again", "queued", "failed"} :
            /\ dial' = [dial EXCEPT ![d].pc = next, ![d].leg = NoLeg]
            /\ stranded' = IF next = "failed" THEN stranded \union ({dial[d].row} \ {NoRow}) ELSE stranded
    BY <1>7 DEF DialFails, Retries
  <2>2. dial[d].row \in Rows /\ (dial[d].pc = "save" => dial[d].leg \in Legs)
    BY <1>1, <1>7 DEF DialFails, Placed, WithRow
  <2>3. [dial[d] EXCEPT !.pc = next, !.leg = NoLeg] \in Placed
    BY <1>1, <2>2 DEF Placed, DialRecord, Pcs, WithRow
  <2>4. DialT'
    BY <2>1, <2>3, DialMoves
  <2>5. MarksT'
    BY <1>7, <2>1, <2>2 DEF DialFails, At, MarksT
  <2>6. WorldT'
    BY <1>7, BoundAssumption DEF DialFails, Fault, WorldT
  <2> QED BY <1>7, <2>4, <2>5, <2>6 DEF DialFails, RowT, LegT, RoomT, EndT
<1> QED BY <1>3, <1>4, <1>5, <1>6, <1>7

\* So does a retry that starts beside a slow attempt.
LEMMA BesideTyped ==
    ASSUME Typed, NEW d \in Dials, NEW e \in Dials, RetriedBeside(d, e)
    PROVE  Typed'
<1> USE DEF Typed
<1>1. /\ AtWork(d) /\ \A x \in Dials \ {e} : dial'[x] = dial[x]
      /\ \/ IsStep(d) /\ dial'[e].pc = "again" /\ dial'[e].row = dial[e].row
         \/ dial'[e].pc = "queued" /\ dial'[e].row = dial[d].row
      /\ UNCHANGED <<row, leg, callback, session, starts, saw, operator, optedOut, histVars>>
      /\ slow' = slow \union {d}
  BY BesideMoves
<1>2. DialT'
  <2>1. dial[e] \in Placed /\ dial[d] \in Placed
    BY DEF DialT
  <2>2. CASE IsStep(d)
    <3>1. dial' = [dial EXCEPT ![e] = [dial[e] EXCEPT !.pc = "again"]]
      BY <2>2 DEF RetriedBeside
    <3>2. [dial[e] EXCEPT !.pc = "again"] \in Placed
      BY <2>1 DEF Placed, DialRecord, Pcs, WithRow
    <3> QED BY <3>1, <3>2, DialMoves
  <2>3. CASE ~IsStep(d)
    <3>1. dial' = [dial EXCEPT ![e] = [dial[e] EXCEPT !.pc = "queued", !.row = dial[d].row, !.job = TRUE]]
      BY <2>3 DEF RetriedBeside
    <3>2. dial[d].row \in Rows
      BY <1>1, <2>1, <2>3 DEF AtWork, Placed, WithRow
    <3>3. [dial[e] EXCEPT !.pc = "queued", !.row = dial[d].row, !.job = TRUE] \in Placed
      BY <2>1, <3>2 DEF Placed, DialRecord, Pcs, WithRow
    <3> QED BY <3>1, <3>3, DialMoves
  <2> QED BY <2>2, <2>3
<1>3. WorldT'
  BY <1>1, BoundAssumption DEF RetriedBeside, Fault, WorldT
<1> QED BY <1>1, <1>2, <1>3 DEF RowT, LegT, RoomT, EndT, MarksT, histVars

\* A leg that was placed has a row.
LEMMA LegHasRow ==
    ASSUME Typed, NEW l \in Legs,
           callback[l] # "none" \/ session[l] # "off" \/ l \in starts \/ leg[l].state # "free"
    PROVE  leg[l].state # "free" /\ leg[l].row \in Rows /\ row[leg[l].row] \in RowRecord
BY DEF Typed, LegT, Dialled, RowT

\* What the provider and the status callback do keeps the types.
LEMMA ProviderTyped ==
    ASSUME Typed, NEW l \in Legs,
           Answer(l) \/ LegEnds(l) \/ CallbackReads(l) \/ CallbackWrites(l) \/ CallbackLost(l)
    PROVE  Typed'
<1> USE DEF Typed
<1>1. leg[l].state # "free" /\ leg[l].row \in Rows /\ row[leg[l].row] \in RowRecord
  BY LegHasRow DEF Answer, LegEnds, CallbackReads, CallbackWrites, CallbackLost
<1>2. leg[l] \in Dialled
  BY DEF LegT
<1>3. CASE Answer(l)
  <2>1. [leg[l] EXCEPT !.state = "up"] \in Dialled
    BY <1>1, <1>2 DEF Dialled, LegRecord
  <2>2. LegT'
    BY <1>1, <1>3, <2>1 DEF Answer, LegT
  <2> QED BY <1>3, <2>2 DEF Answer, RowT, DialT, RoomT, WorldT, EndT, MarksT, histVars
<1>4. CASE LegEnds(l)
  <2>1. PICK result \in Outcomes \ {"canceled"} :
            leg' = [leg EXCEPT ![l].state = "ended", ![l].result = result]
    BY <1>4 DEF LegEnds
  <2>2. [leg[l] EXCEPT !.state = "ended", !.result = result] \in Dialled
    BY <1>1, <1>2 DEF Dialled, LegRecord
  <2>3. Stopped(l) \in {"off", "starting", "live", "ending", "write", "gone", "abandoned"}
    BY DEF Stopped, LegT
  <2>4. leg' \in [Legs -> Dialled]
    BY <2>1, <2>2 DEF LegT
  <2>5. \A m \in Legs : leg'[m].state = "free" => m # l /\ leg[m].state = "free"
    BY <2>1 DEF LegT
  <2>6. LegT'
    BY <1>4, <2>3, <2>4, <2>5 DEF LegEnds, LegT
  <2> QED BY <1>4, <2>6 DEF LegEnds, RowT, DialT, RoomT, WorldT, EndT, MarksT, histVars
<1>5. CASE CallbackReads(l)
  <2>1. LegT'
    BY <1>1, <1>5 DEF CallbackReads, LegT
  <2>2. MarksT'
    BY <1>1, <1>5 DEF CallbackReads, MarksT
  <2> QED BY <1>5, <2>1, <2>2 DEF CallbackReads, RowT, DialT, RoomT, WorldT, EndT
<1>6. CASE CallbackWrites(l)
  <2>1. LegT'
    BY <1>1, <1>6 DEF CallbackWrites, LegT
  <2>2. EndT'
    BY <1>1, <1>6, EndsTyped DEF CallbackWrites
  <2>3. RowT'
    BY <1>1, <1>2, <1>6 DEF CallbackWrites, Stamp, RowT, RowRecord, Dialled, LegRecord
  <2> QED BY <1>6, <2>1, <2>2, <2>3 DEF CallbackWrites, DialT, RoomT, WorldT, MarksT
<1>7. CASE CallbackLost(l)
  <2>1. LegT'
    BY <1>1, <1>7 DEF CallbackLost, LegT
  <2>2. MarksT'
    BY <1>1, <1>7 DEF CallbackLost, MarksT
  <2>3. WorldT'
    BY <1>7, BoundAssumption DEF CallbackLost, Fault, WorldT
  <2> QED BY <1>7, <2>1, <2>2, <2>3 DEF CallbackLost, RowT, DialT, RoomT, EndT
<1> QED BY <1>3, <1>4, <1>5, <1>6, <1>7

\* So does everything a voice session does.
LEMMA SessionTyped ==
    ASSUME Typed, NEW l \in Legs,
           SessionLoads(l) \/ StartWrites(l) \/ SessionEnds(l) \/ FinalizeReads(l) \/ FinalizeWrites(l)
    PROVE  Typed'
<1> USE DEF Typed
<1>1. leg[l].state # "free" /\ leg[l].row \in Rows /\ row[leg[l].row] \in RowRecord
  BY LegHasRow DEF SessionLoads, StartWrites, SessionEnds, FinalizeReads, FinalizeWrites
<1>2. CASE SessionLoads(l) \/ SessionEnds(l)
  <2>1. LegT'
    BY <1>1, <1>2 DEF SessionLoads, SessionEnds, LegT
  <2> QED BY <1>2, <2>1 DEF SessionLoads, SessionEnds, RowT, DialT, RoomT, WorldT, EndT, MarksT, histVars
<1>3. CASE StartWrites(l)
  <2>1. LegT'
    BY <1>3 DEF StartWrites, LegT
  <2>2. RowT'
    <3>1. row' = [row EXCEPT ![leg[l].row] = [row[leg[l].row] EXCEPT !.status = "IN_PROGRESS"]]
      BY <1>3 DEF StartWrites
    <3> QED BY <1>1, <3>1, RowUpdates, RowWritten
  <2>3. MarksT'
    BY <1>1, <1>3 DEF StartWrites, MarksT
  <2> QED BY <1>3, <2>1, <2>2, <2>3 DEF StartWrites, DialT, RoomT, WorldT, EndT
<1>4. CASE FinalizeReads(l)
  <2>1. row[leg[l].row].taken \in BOOLEAN
    BY <1>1 DEF RowRecord
  <2>2. LegT'
    BY <1>1, <1>4, <2>1 DEF FinalizeReads, LegT
  <2> QED BY <1>4, <2>2 DEF FinalizeReads, RowT, DialT, RoomT, WorldT, EndT, MarksT, histVars
<1>5. CASE FinalizeWrites(l)
  <2> DEFINE r == leg[l].row
  <2>1. saw[l] \in BOOLEAN
    BY DEF LegT
  <2>2. RowT'
    <3>1. CASE LeavesOpen(l)
      <4>1. row' = [row EXCEPT ![r] = [row[r] EXCEPT !.taken = TRUE]]
        BY <1>5, <3>1 DEF FinalizeWrites
      <4> QED BY <1>1, <4>1, RowUpdates, RowWritten
    <3>2. CASE ~LeavesOpen(l)
      <4>1. PICK outcome \in {"completed", "failed"} :
                row' = [row EXCEPT ![r] = [row[r] EXCEPT !.taken = saw[l], !.outcome = outcome,
                            !.status = IF outcome = "completed" THEN "COMPLETED" ELSE "FAILED"]]
        BY <1>5, <3>2 DEF FinalizeWrites
      <4>2. outcome \in Outcomes
        BY DEF Outcomes
      <4> QED BY <1>1, <2>1, <4>1, <4>2, RowUpdates, RowWritten
    <3> QED BY <3>1, <3>2
  <2>3. EndT'
    <3>1. CASE LeavesOpen(l)
      BY <1>5, <3>1 DEF FinalizeWrites, EndT
    <3>2. CASE ~LeavesOpen(l)
      BY <1>1, <1>5, <3>2, EndsTyped DEF FinalizeWrites
    <3> QED BY <3>1, <3>2
  <2>4. LegT'
    BY <1>1, <1>5 DEF FinalizeWrites, LegT
  <2>5. MarksT'
    BY <1>1, <1>5 DEF FinalizeWrites, MarksT
  <2> QED BY <1>5, <2>2, <2>3, <2>4, <2>5 DEF FinalizeWrites, DialT, RoomT, WorldT
<1> QED BY <1>2, <1>3, <1>4, <1>5

\* And the operator and the opt-out.
LEMMA WorldTyped ==
    ASSUME Typed, (\E r \in Rows : JumpChecks(r)) \/ OperatorStep \/ OptOut
    PROVE  Typed'
<1> USE DEF Typed
<1>1. CASE \E r \in Rows : JumpChecks(r)
  <2>1. PICK r \in Rows : operator' = [pc |-> "mark", row |-> r, leg |-> row[r].sid]
    BY <1>1 DEF JumpChecks
  <2>2. row[r].sid \in Legs \union {NoLeg}
    BY DEF RowT, RowRecord
  <2>3. RoomT'
    BY <2>1, <2>2 DEF RoomT, Jump
  <2> QED BY <1>1, <2>3 DEF JumpChecks, RowT, DialT, LegT, WorldT, EndT, MarksT, histVars
<1>2. CASE JumpMarks
  <2>1. operator.row \in Rows /\ row[operator.row] \in RowRecord
    BY <1>2 DEF JumpMarks, RoomT, RowT
  <2>2. RowT'
    <3>1. row' = [row EXCEPT ![operator.row] = [row[operator.row] EXCEPT !.taken = TRUE]]
      BY <1>2 DEF JumpMarks
    <3> QED BY <2>1, <3>1, RowUpdates, RowWritten
  <2>3. RoomT'
    BY <1>2, <2>1 DEF JumpMarks, RoomT, Jump
  <2>4. MarksT'
    BY <1>2, <2>1 DEF JumpMarks, MarksT
  <2> QED BY <1>2, <2>2, <2>3, <2>4 DEF JumpMarks, DialT, LegT, WorldT, EndT
<1>3. CASE JumpRedirects
  <2> DEFINE l == operator.leg
  <2>1. RoomT'
    BY <1>3 DEF JumpRedirects, RoomT, Jump
  <2>2. LegT'
    <3>1. CASE l \in Legs /\ leg[l].state = "up"
      <4>1. leg' = [leg EXCEPT ![l] = [leg[l] EXCEPT !.state = "room"]]
            /\ session' = [session EXCEPT ![l] = Stopped(l)]
        BY <1>3, <3>1 DEF JumpRedirects
      <4>2. [leg[l] EXCEPT !.state = "room"] \in Dialled
        BY <3>1 DEF LegT, Dialled, LegRecord
      <4>3. Stopped(l) \in {"off", "starting", "live", "ending", "write", "gone", "abandoned"}
        BY <3>1 DEF Stopped, LegT
      <4>4. leg' \in [Legs -> Dialled] /\ \A m \in Legs : leg'[m].state = "free" => m # l /\ leg[m].state = "free"
        BY <3>1, <4>1, <4>2 DEF LegT
      <4> QED BY <1>3, <4>1, <4>3, <4>4 DEF JumpRedirects, LegT
    <3>2. CASE l \notin Legs
      <4>1. leg' = leg /\ session' = session
        BY <1>3, <3>2 DEF JumpRedirects, LegT
      <4> QED BY <1>3, <4>1 DEF JumpRedirects, LegT
    <3>3. CASE l \in Legs /\ leg[l].state # "up"
      BY <1>3, <3>3 DEF JumpRedirects, LegT
    <3> QED BY <3>1, <3>2, <3>3
  <2> QED BY <1>3, <2>1, <2>2 DEF JumpRedirects, RowT, DialT, WorldT, EndT, MarksT, histVars
<1>5. CASE OptOut
  <2>1. MarksT'
    BY <1>5 DEF OptOut, MarksT, PastRails
  <2>2. WorldT'
    BY <1>5, BoundAssumption DEF OptOut, Fault, WorldT
  <2> QED BY <1>5, <2>1, <2>2 DEF OptOut, RowT, DialT, LegT, RoomT, EndT
<1> QED BY <1>1, <1>2, <1>3, <1>5 DEF OperatorStep

\* Every step keeps the types.
LEMMA TypeStep == Typed /\ [Next]_vars => Typed'
<1> SUFFICES ASSUME Typed, [Next]_vars PROVE Typed'
  OBVIOUS
<1>1. ASSUME NEW d \in Dials, Begin(d) \/ DialStep(d) \/ DialFails(d) PROVE Typed'
  BY <1>1, MoveOnTyped, RailsTyped, PlacingTyped DEF DialStep
<1>2. ASSUME NEW l \in Legs, Answer(l) \/ LegEnds(l) \/ LegStep(l) \/ CallbackLost(l) \/ SessionEnds(l)
      PROVE  Typed'
  BY <1>2, ProviderTyped, SessionTyped DEF LegStep
<1>3. CASE UNCHANGED vars
  BY <1>3 DEF vars, Typed, RowT, DialT, LegT, RoomT, WorldT, EndT, MarksT
<1> QED BY <1>1, <1>2, <1>3, WorldTyped, BesideTyped DEF Next

\* Every state of the calls is well typed.
THEOREM Typing == Spec => []TypeOK
BY TypeInit, TypedImplies, TypeStep, PTL DEF Spec

-----------------------------------------------------------------------------
(* An opt-out stops every dial but those already past the rails.              *)

OptOutInv == DialT /\ OptOutStopsDials /\ (optedOut => PastRails \subseteq overtaken)

\* A dial comes past the rails only while the contact has not opted out.
LEMMA PastRailsGrows ==
    ASSUME DialT, NEW d \in Dials, Begin(d) \/ DialStep(d) \/ DialFails(d)
    PROVE  /\ optedOut => PastRails' \subseteq PastRails
           /\ UNCHANGED optedOut /\ overtaken \subseteq overtaken'
<1>1. UNCHANGED optedOut /\ overtaken \subseteq overtaken'
  BY DEF Begin, DialStep, DialFails, Refused, Cleared, Promise, Enqueue, Fire, FireCleared, FirePutOff,
     FireRefused, Save, Report, CreateQueued, Create, Place, histVars
<1>2. \A e \in Dials \ {d} : dial'[e] = dial[e]
  <2>1. CASE Refused(d) \/ Cleared(d) \/ Promise(d) \/ Fire(d) \/ FireCleared(d) \/ FirePutOff(d)
             \/ FireRefused(d) \/ Save(d) \/ Report(d)
    <3>1. \E pc : Goto(d, pc)
      BY <2>1 DEF Refused, Cleared, Promise, Fire, FireCleared, FirePutOff, FireRefused, Save, Report
    <3> QED BY <3>1 DEF Goto, DialT
  <2>2. CASE CreateQueued(d) \/ Create(d)
    <3>1. \E pc : NewRow(d, pc)
      BY <2>2 DEF CreateQueued, Create
    <3> QED BY <3>1 DEF NewRow, DialT
  <2>3. CASE DialFails(d)
    <3>1. \E pc : dial' = [dial EXCEPT ![d].pc = pc, ![d].leg = NoLeg]
      BY <2>3 DEF DialFails
    <3> QED BY <3>1 DEF DialT
  <2>4. CASE Begin(d)
    BY <2>4, BeginMoves
  <2>5. CASE Enqueue(d)
    BY <2>5 DEF Enqueue, DialT
  <2>6. CASE Place(d)
    BY <2>6 DEF Place, DialT
  <2> QED BY <2>1, <2>2, <2>3, <2>4, <2>5, <2>6 DEF DialStep
<1>3. ASSUME optedOut, dial'[d].pc \in {"create", "place", "save"}
      PROVE  dial[d].pc \in {"create", "place", "save"}
  <2> USE DEF DialT
  <2>1. CASE Refused(d) \/ Promise(d) \/ Fire(d) \/ FirePutOff(d) \/ FireRefused(d) \/ Save(d) \/ Report(d)
    <3>1. \E pc \in {"done", "refused", "promise", "fire", "queued", "report"} : Goto(d, pc)
      BY <2>1 DEF Refused, Promise, Fire, FirePutOff, FireRefused, Save, Report
    <3> QED BY <1>3, <3>1 DEF Goto
  <2>2. CASE Cleared(d) \/ FireCleared(d)
    BY <1>3, <2>2 DEF Cleared, FireCleared, FireRails, RailsClear
  <2>3. CASE CreateQueued(d) \/ Enqueue(d)
    <3>1. dial'[d].pc \in {"enqueue", "queued"}
      <4>1. CASE CreateQueued(d)
        <5>1. \E r : dial' = [dial EXCEPT ![d].pc = "enqueue", ![d].row = r]
          BY <4>1 DEF CreateQueued, NewRow
        <5> QED BY <5>1
      <4>2. CASE Enqueue(d)
        BY <4>2 DEF Enqueue
      <4> QED BY <2>3, <4>1, <4>2
    <3> QED BY <1>3, <3>1
  <2>4. CASE Create(d) \/ Place(d)
    BY <2>4 DEF Create, Place, At
  <2>5. CASE DialFails(d)
    <3>1. \E pc \in {"again", "queued", "failed"} : dial' = [dial EXCEPT ![d].pc = pc, ![d].leg = NoLeg]
      BY <2>5 DEF DialFails, Retries
    <3>2. dial'[d].pc \in {"again", "queued", "failed"}
      BY <3>1
    <3> QED BY <1>3, <3>2
  <2>6. CASE Begin(d)
    BY <1>3, <2>6, BeginMoves
  <2> QED BY <2>1, <2>2, <2>3, <2>4, <2>5, <2>6 DEF DialStep
<1> QED BY <1>1, <1>2, <1>3 DEF PastRails

\* Every step keeps the invariant.
LEMMA OptOutStep == Typed /\ OptOutInv /\ [Next]_vars => OptOutInv'
<1> SUFFICES ASSUME Typed, OptOutInv, [Next]_vars PROVE OptOutInv'
  OBVIOUS
<1>1. DialT'
  BY TypeStep DEF Typed
<1>2. ASSUME NEW d \in Dials, Begin(d) \/ DialStep(d) \/ DialFails(d) PROVE OptOutInv'
  <2>1. (optedOut => PastRails' \subseteq PastRails) /\ UNCHANGED optedOut /\ overtaken \subseteq overtaken'
    BY <1>2, PastRailsGrows DEF OptOutInv
  <2>2. CASE Place(d)
    <3>1. rangOver' \subseteq rangOver \union {d} /\ (~optedOut => rangOver' = rangOver) /\ d \in PastRails
      BY <2>2 DEF Place, At, PastRails
    <3> QED BY <1>1, <2>1, <3>1 DEF OptOutInv, OptOutStopsDials
  <2>3. CASE UNCHANGED rangOver
    BY <1>1, <2>1, <2>3 DEF OptOutInv, OptOutStopsDials
  <2>4. Place(d) \/ UNCHANGED rangOver
    BY <1>2 DEF Begin, DialStep, DialFails, Refused, Cleared, Promise, Enqueue, Fire, FireCleared, FirePutOff,
       FireRefused, Save, Report, CreateQueued, Create, histVars
  <2> QED BY <2>2, <2>3, <2>4
<1>3. CASE UNCHANGED <<dial, optedOut, overtaken, rangOver>>
  BY <1>1, <1>3 DEF OptOutInv, OptOutStopsDials, PastRails
<1>4. ASSUME NEW l \in Legs, Answer(l) \/ LegEnds(l) \/ LegStep(l) \/ CallbackLost(l) \/ SessionEnds(l)
      PROVE  UNCHANGED <<dial, optedOut, overtaken, rangOver>>
  BY <1>4 DEF Answer, LegEnds, LegStep, CallbackLost, SessionEnds, CallbackReads, CallbackWrites,
     SessionLoads, StartWrites, FinalizeReads, FinalizeWrites, Ends, histVars
<1>5. CASE (\E r \in Rows : JumpChecks(r)) \/ OperatorStep
  <2>1. UNCHANGED <<dial, optedOut, overtaken, rangOver>>
    BY <1>5 DEF JumpChecks, OperatorStep, JumpMarks, JumpRedirects, histVars
  <2> QED BY <1>3, <2>1
<1>6. CASE OptOut
  BY <1>1, <1>6 DEF OptOut, OptOutInv, OptOutStopsDials, PastRails
<1>7. CASE UNCHANGED vars
  BY <1>3, <1>7 DEF vars
<1>8. ASSUME NEW d \in Dials, NEW e \in Dials, RetriedBeside(d, e) PROVE OptOutInv'
  <2>1. /\ \A x \in Dials \ {e} : dial'[x] = dial[x]
        /\ dial'[e].pc \in {"again", "queued"} /\ UNCHANGED <<optedOut, overtaken, rangOver>>
    BY <1>8, BesideMoves DEF Typed, histVars
  <2>2. PastRails' \subseteq PastRails
    BY <2>1 DEF PastRails
  <2> QED BY <1>1, <2>1, <2>2 DEF OptOutInv, OptOutStopsDials
<1> QED BY <1>2, <1>3, <1>4, <1>5, <1>6, <1>7, <1>8 DEF Next

\* A contact who opted out is rung only by a dial past its rails at that moment.
THEOREM OptOutHolds == Spec => []OptOutStopsDials
<1>1. Init => Typed /\ OptOutInv
  BY TypeInit DEF Typed, Init, OptOutInv, OptOutStopsDials
<1>2. Typed /\ OptOutInv /\ [Next]_vars => (Typed /\ OptOutInv)'
  BY TypeStep, OptOutStep
<1>3. Typed /\ OptOutInv => OptOutStopsDials
  BY DEF OptOutInv
<1> QED BY <1>1, <1>2, <1>3, PTL DEF Spec

-----------------------------------------------------------------------------
(* Who owns a row.  That a call rings once needs: one dial per row and one    *)
(* row per step unless a retry runs beside a slow attempt, a dial about to    *)
(* ring has a row without a sid, and every leg is known to its row, being     *)
(* saved by the row's dial, or lost with it.                                  *)

StepSlow == \E d \in slow : IsStep(d)

Fresh == \A r \in Rows : row[r].status = "none" => row[r].sid = NoLeg /\ ~row[r].step

(* A job has its row; an attempt begins with none, a request makes its own.   *)
JobPcs == {"queued", "fire", "place", "save", "report", "done", "refused", "failed"}
FlowOf(d) ==
    /\ dial[d].job => dial[d].pc \in JobPcs /\ dial[d].row \in Rows /\ KindOf[d] # "step"
    /\ dial[d].pc \in {"queued", "fire"} => dial[d].job
    /\ dial[d].pc = "again" => IsStep(d)
    /\ dial[d].pc \in {"promise", "enqueue"} => KindOf[d] = "best"
    /\ dial[d].pc \in {"idle", "create"} => dial[d].row = NoRow
    /\ dial[d].pc \in {"gate", "promise"} /\ ~IsStep(d) => dial[d].row = NoRow
    /\ d \in slow => dial[d].pc \notin {"idle", "again"} /\ (IsStep(d) \/ dial[d].job)
Flow == \A d \in Dials : FlowOf(d)

AsideBy(d) == KindOf[d] = "retry" /\ ~dial[d].job /\ dial[d].pc # "idle" => StepSlow
Aside == \A d \in Dials : AsideBy(d)

OwnedBy(d) == dial[d].row # NoRow => row[dial[d].row].status # "none" /\ (row[dial[d].row].step <=> IsStep(d))
Owned ==
    /\ \A d \in Dials : OwnedBy(d)
    /\ \A d, e \in Dials : d # e /\ dial[d].row = dial[e].row /\ dial[d].row # NoRow => Twice(dial[d].row)
UnrungBy(d) == dial[d].pc \in {"gate", "fire", "place", "save"} /\ dial[d].row \in Rows =>
                   row[dial[d].row].sid = NoLeg \/ Twice(dial[d].row)
Unrung == \A d \in Dials : UnrungBy(d)
UnmadeBy(d) == IsStep(d) /\ dial[d].pc \in {"gate", "create"} /\ dial[d].row = NoRow => StepRows = {} \/ StepSlow
Unmade == \A d \in Dials : UnmadeBy(d)
OneStepRow == \A r, s \in StepRows : r = s \/ StepSlow
KnownLeg(l) ==
    \/ l \in unsaved \/ row[leg[l].row].sid = l \/ Twice(leg[l].row)
    \/ \E d \in Dials : dial[d].pc = "save" /\ dial[d].leg = l /\ dial[d].row = leg[l].row
Known == \A l \in Legs : leg[l].state # "free" => KnownLeg(l)

Ownership == Fresh /\ Flow /\ Aside /\ Owned /\ Unrung /\ Unmade /\ OneStepRow /\ Known

\* A call with two legs that are both known has two dials, two sids or two rows.
LEMMA OwnershipImplies == Typed /\ Ownership => RingsOnce
<1> SUFFICES ASSUME Typed, Ownership, NEW l \in Legs, NEW m \in Legs, l # m,
                    leg[l].row # NoRow, leg[m].row # NoRow, SameCall(leg[l].row, leg[m].row),
                    l \notin unsaved, m \notin unsaved, ~Twice(leg[l].row)
             PROVE  FALSE
  BY DEF RingsOnce
<1>1. leg[l].state # "free" /\ leg[m].state # "free" /\ leg[l].row \in Rows /\ leg[m].row \in Rows
      /\ l # NoLeg /\ m # NoLeg
  BY SentinelAssumption DEF Typed, LegT, Dialled
<1>2. leg[l].row = leg[m].row
  <2> SUFFICES ASSUME leg[l].row # leg[m].row PROVE FALSE
    OBVIOUS
  <2>1. leg[l].row \in StepRows /\ leg[m].row \in StepRows
    BY <1>1 DEF SameCall, StepRows
  <2>2. StepSlow
    BY <2>1 DEF Ownership, OneStepRow
  <2> QED BY <2>1, <2>2 DEF StepSlow, Twice, StepRows
<1>3. ASSUME NEW k \in Legs, k \in {l, m}
      PROVE  \/ row[leg[l].row].sid = k
             \/ \E d \in Dials : dial[d].pc = "save" /\ dial[d].leg = k /\ dial[d].row = leg[l].row
  BY <1>1, <1>2, <1>3 DEF Ownership, Known, KnownLeg
<1>4. ASSUME NEW d \in Dials, dial[d].pc = "save", dial[d].row = leg[l].row
      PROVE  row[leg[l].row].sid = NoLeg
  BY <1>1, <1>4 DEF Ownership, Unrung, UnrungBy
<1>5. \A d, e \in Dials : dial[d].row = leg[l].row /\ dial[e].row = leg[l].row => d = e
  BY <1>1, SentinelAssumption DEF Ownership, Owned
<1>6. ~\E d \in Dials : dial[d].pc = "save" /\ dial[d].row = leg[l].row
  BY <1>1, <1>3, <1>4, <1>5
<1> QED BY <1>3, <1>6

\* What a slow attempt and its rows stay; with it a row stays worked at twice.
Steady ==
    /\ slow \subseteq slow'
    /\ \A d \in slow : (dial'[d].job <=> dial[d].job) /\ (~IsStep(d) => dial'[d].row = dial[d].row)
    /\ \A r \in Rows : row[r].step => row'[r].step

LEMMA SteadyKeeps ==
    ASSUME Steady
    PROVE  (StepSlow => StepSlow') /\ \A r \in Rows : Twice(r) => Twice(r)'
<1>1. \A d \in slow : IsStep(d)' <=> IsStep(d)
  BY DEF Steady, IsStep
<1>2. StepSlow => StepSlow'
  BY <1>1 DEF Steady, StepSlow
<1>3. ASSUME NEW r \in Rows, Twice(r) PROVE Twice(r)'
  <2>1. PICK d \in slow : IF IsStep(d) THEN row[r].step ELSE dial[d].row = r
    BY <1>3 DEF Twice
  <2>2. d \in slow' /\ (IF IsStep(d)' THEN row'[r].step ELSE dial'[d].row = r)
    BY <1>1, <2>1 DEF Steady
  <2> QED BY <2>2 DEF Twice
<1> QED BY <1>2, <1>3

\* Two attempts of the step are at work only beside a slow one.
LEMMA TwoAttempts ==
    ASSUME Aside, NEW d \in Dials, NEW e \in Dials, d # e, IsStep(d), IsStep(e),
           dial[d].pc # "idle", dial[e].pc # "idle"
    PROVE  StepSlow
BY ActivityAssumption DEF Aside, AsideBy, IsStep

\* What a step of one dial must respect for everybody to own what they owned.
LEMMA DialKeepsOwnership ==
    ASSUME Typed, Ownership, Steady, NEW d \in Dials,
           \A e \in Dials \ {d} : dial'[e] = dial[e],
           \A e \in slow' \ slow : e \in Dials /\ e # d /\ dial[e].pc \notin {"idle", "again"} /\ (IsStep(e) \/ dial[e].job),
           \A r \in Rows : row[r].status # "none" => row'[r].status # "none" /\ (row'[r].step <=> row[r].step),
           \A r \in Rows : row'[r].sid # row[r].sid =>
               (row[r].sid = NoLeg \/ Twice(r)') /\ \A e \in Dials \ {d} : dial[e].row = r => Twice(r)',
           Fresh', FlowOf(d)', AsideBy(d)', OwnedBy(d)', UnrungBy(d)', UnmadeBy(d)', OneStepRow',
           \A e \in Dials \ {d} : dial[e].row = dial'[d].row /\ dial'[d].row # NoRow => dial'[d].row \in TwiceRows',
           StepRows' = StepRows \/ StepSlow' \/ (IsStep(d) /\ dial[d].pc # "idle"),
           \A l \in Legs : leg[l].state # "free" => leg'[l].row = leg[l].row,
           \A l \in Legs : leg[l].state = "free" /\ leg'[l].state # "free" => KnownLeg(l)',
           unsaved \subseteq unsaved',
           dial[d].pc = "save" => dial[d].leg \in unsaved' \/ row'[dial[d].row].sid = dial[d].leg
                                  \/ dial'[d] = dial[d]
    PROVE  Ownership'
<1> USE DEF Typed, Ownership
<1>1. (StepSlow => StepSlow') /\ \A r \in Rows : Twice(r) => Twice(r)'
  BY SteadyKeeps
<1>2. ASSUME NEW e \in Dials, e # d
      PROVE  /\ dial'[e] = dial[e] /\ (IsStep(e)' <=> IsStep(e))
             /\ dial[e].row # NoRow => dial[e].row \in Rows
  BY <1>2 DEF DialT, Placed, DialRecord, IsStep
<1>3. Flow' /\ Aside'
  <2> SUFFICES ASSUME NEW e \in Dials, e # d PROVE FlowOf(e)' /\ AsideBy(e)'
    BY DEF Flow, Aside
  <2>1. FlowOf(e) /\ AsideBy(e) /\ (e \in slow' => e \in slow \/ (dial[e].pc \notin {"idle", "again"} /\ (IsStep(e) \/ dial[e].job)))
    BY DEF Flow, Aside
  <2> QED BY <1>1, <1>2, <2>1 DEF FlowOf, AsideBy
<1>4. Owned'
  <2>1. \A e \in Dials : OwnedBy(e)'
    <3> SUFFICES ASSUME NEW e \in Dials, e # d PROVE OwnedBy(e)'
      OBVIOUS
    <3> QED BY <1>2 DEF Owned, OwnedBy
  <2>2. ASSUME NEW e \in Dials, NEW f \in Dials, e # f, dial'[e].row = dial'[f].row, dial'[e].row # NoRow
        PROVE  dial'[e].row \in TwiceRows'
    <3>1. CASE e = d
      BY <1>2, <2>2, <3>1
    <3>2. CASE f = d
      BY <1>2, <2>2, <3>2
    <3>3. CASE e # d /\ f # d
      <4>1. dial[e].row \in Rows /\ Twice(dial[e].row)
        BY <1>2, <2>2, <3>3 DEF Owned
      <4> QED BY <1>1, <1>2, <3>3, <4>1 DEF TwiceRows
    <3> QED BY <3>1, <3>2, <3>3
  <2>3. \A r : r \in TwiceRows' => Twice(r)'
    BY DEF TwiceRows
  <2> QED BY <2>1, <2>2, <2>3 DEF Owned
<1>5. Unrung'
  <2> SUFFICES ASSUME NEW e \in Dials, e # d PROVE UnrungBy(e)'
    BY DEF Unrung
  <2>1. UnrungBy(e)
    BY DEF Unrung
  <2> QED BY <1>1, <1>2, <2>1 DEF UnrungBy
<1>6. Unmade'
  <2> SUFFICES ASSUME NEW e \in Dials, e # d PROVE UnmadeBy(e)'
    BY DEF Unmade
  <2>1. UnmadeBy(e)
    BY DEF Unmade
  <2>2. CASE StepRows' = StepRows \/ StepSlow'
    BY <1>1, <1>2, <2>1, <2>2 DEF UnmadeBy
  <2>3. CASE IsStep(d) /\ dial[d].pc # "idle"
    <3>1. IsStep(e) /\ dial[e].pc # "idle" => StepSlow
      BY <2>3, TwoAttempts
    <3> QED BY <1>1, <1>2, <3>1 DEF UnmadeBy
  <2> QED BY <2>2, <2>3
<1>7. Known'
  <2> SUFFICES ASSUME NEW l \in Legs, leg[l].state # "free" PROVE KnownLeg(l)'
    BY DEF Known
  <2>1. leg[l].row \in Rows /\ leg'[l].row = leg[l].row /\ l # NoLeg
    BY SentinelAssumption DEF LegT, Dialled
  <2>2. CASE l \in unsaved \/ Twice(leg[l].row)
    BY <1>1, <2>1, <2>2 DEF KnownLeg
  <2>3. CASE row[leg[l].row].sid = l
    BY <2>1, <2>3 DEF KnownLeg
  <2>4. ASSUME NEW e \in Dials, dial[e].pc = "save", dial[e].leg = l, dial[e].row = leg[l].row
        PROVE  KnownLeg(l)'
    <3>1. CASE e = d
      BY <2>1, <2>4, <3>1 DEF KnownLeg
    <3>2. CASE e # d
      BY <1>2, <2>1, <2>4, <3>2 DEF KnownLeg
    <3> QED BY <3>1, <3>2
  <2> QED BY <2>2, <2>3, <2>4 DEF Known, KnownLeg
<1> QED BY <1>3, <1>4, <1>5, <1>6, <1>7

\* What a step may do to rows and legs without touching who owns them.
RowsQuiet == \A r \in Rows : /\ row'[r].sid = row[r].sid /\ (row'[r].step <=> row[r].step)
                             /\ row'[r].status = "none" => row[r].status = "none"
                             /\ row'[r].status = "QUEUED" => row[r].status = "QUEUED"
LegsQuiet == \A l \in Legs : leg'[l].row = leg[l].row /\ (leg'[l].state = "free" <=> leg[l].state = "free")

\* A step that leaves the dials alone keeps ownership.
LEMMA QuietKeepsOwnership ==
    ASSUME Typed, Ownership, RowsQuiet, LegsQuiet, UNCHANGED <<dial, unsaved, slow>>
    PROVE  Ownership'
<1> USE DEF Typed, Ownership
<1>1. \A d \in Dials : (IsStep(d)' <=> IsStep(d)) /\ (dial[d].row # NoRow => dial[d].row \in Rows)
  BY DEF DialT, Placed, DialRecord, IsStep
<1>2. (StepSlow' <=> StepSlow) /\ StepRows' = StepRows /\ \A r \in Rows : Twice(r) => Twice(r)'
  <2>1. Steady
    BY DEF Steady, RowsQuiet
  <2>2. StepSlow' => StepSlow
    BY <1>1 DEF StepSlow, IsStep
  <2> QED BY <2>1, <2>2, SteadyKeeps DEF StepRows, RowsQuiet
<1>3. Fresh'
  BY DEF Fresh, RowsQuiet
<1>4. Flow' /\ Aside'
  <2> SUFFICES ASSUME NEW d \in Dials PROVE FlowOf(d)' /\ AsideBy(d)'
    BY DEF Flow, Aside
  <2>1. FlowOf(d) /\ AsideBy(d)
    BY DEF Flow, Aside
  <2> QED BY <1>1, <1>2, <2>1 DEF FlowOf, AsideBy
<1>5. Owned'
  <2>1. \A d \in Dials : OwnedBy(d)'
    BY <1>1 DEF Owned, OwnedBy, RowsQuiet
  <2> QED BY <1>1, <1>2, <2>1 DEF Owned
<1>6. Unrung'
  BY <1>2 DEF Unrung, UnrungBy, RowsQuiet
<1>7. Unmade' /\ OneStepRow'
  <2>1. OneStepRow'
    BY <1>2 DEF OneStepRow
  <2> QED BY <1>1, <1>2, <2>1 DEF Unmade, UnmadeBy
<1>8. Known'
  <2>1. \A l \in Legs : leg[l].state # "free" => leg[l].row \in Rows
    BY DEF LegT, Dialled
  <2> QED BY <1>2, <2>1 DEF Known, KnownLeg, RowsQuiet, LegsQuiet
<1> QED BY <1>3, <1>4, <1>5, <1>6, <1>7, <1>8

\* The sessions and the callbacks leave ownership alone.
LEMMA LegsLeaveOwnership ==
    ASSUME Typed, NEW l \in Legs,
           Answer(l) \/ LegEnds(l) \/ LegStep(l) \/ CallbackLost(l) \/ SessionEnds(l)
    PROVE  RowsQuiet /\ LegsQuiet /\ UNCHANGED <<dial, unsaved, slow, stranded>>
<1> USE DEF Typed
<1>1. UNCHANGED <<dial, unsaved, slow, stranded>>
  BY DEF Answer, LegEnds, LegStep, CallbackLost, SessionEnds, CallbackReads, CallbackWrites,
     SessionLoads, StartWrites, FinalizeReads, FinalizeWrites, Ends, histVars
<1>2. LegsQuiet
  <2>1. CASE Answer(l)
    BY <2>1 DEF Answer, LegsQuiet, LegT
  <2>2. CASE LegEnds(l)
    <3>1. PICK result \in Outcomes : leg' = [leg EXCEPT ![l].state = "ended", ![l].result = result]
      BY <2>2 DEF LegEnds
    <3>2. leg[l].state # "free"
      BY <2>2 DEF LegEnds
    <3> QED BY <3>1, <3>2 DEF LegsQuiet, LegT
  <2>3. CASE UNCHANGED leg
    BY <2>3 DEF LegsQuiet
  <2> QED BY <2>1, <2>2, <2>3 DEF LegStep, CallbackLost, SessionEnds, CallbackReads, CallbackWrites,
          SessionLoads, StartWrites, FinalizeReads, FinalizeWrites
<1>3. RowsQuiet
  <2>1. CASE CallbackWrites(l)
    BY <2>1 DEF CallbackWrites, Stamp, RowsQuiet, RowT
  <2>2. CASE StartWrites(l)
    BY <2>2 DEF StartWrites, RowsQuiet, RowT
  <2>3. CASE FinalizeWrites(l)
    <3>1. CASE LeavesOpen(l)
      <4>1. row' = [row EXCEPT ![leg[l].row].taken = TRUE]
        BY <2>3, <3>1 DEF FinalizeWrites
      <4> QED BY <4>1 DEF RowsQuiet, RowT
    <3>2. CASE ~LeavesOpen(l)
      <4>1. PICK outcome \in {"completed", "failed"} :
              row' = [row EXCEPT ![leg[l].row].taken = saw[l], ![leg[l].row].outcome = outcome,
                      ![leg[l].row].status = IF outcome = "completed" THEN "COMPLETED" ELSE "FAILED"]
        BY <2>3, <3>2 DEF FinalizeWrites
      <4> QED BY <4>1 DEF RowsQuiet, RowT
    <3> QED BY <3>1, <3>2
  <2>4. CASE UNCHANGED row
    BY <2>4 DEF RowsQuiet
  <2> QED BY <2>1, <2>2, <2>3, <2>4 DEF Answer, LegEnds, LegStep, CallbackLost, SessionEnds,
          CallbackReads, SessionLoads, FinalizeReads, histVars
<1> QED BY <1>1, <1>2, <1>3

\* So do the operator and the opt-out.
LEMMA WorldLeavesOwnership ==
    ASSUME Typed,
           (\E r \in Rows : JumpChecks(r)) \/ OperatorStep \/ OptOut \/ UNCHANGED vars
    PROVE  RowsQuiet /\ LegsQuiet /\ UNCHANGED <<dial, unsaved, slow, stranded>>
<1> USE DEF Typed
<1>1. CASE JumpMarks
  <2>1. row' = [row EXCEPT ![operator.row].taken = TRUE] /\ UNCHANGED <<leg, dial, unsaved, slow, stranded>>
    BY <1>1 DEF JumpMarks
  <2> QED BY <2>1 DEF RowsQuiet, LegsQuiet, RowT
<1>2. CASE JumpRedirects
  <2>1. UNCHANGED <<row, dial, unsaved, slow, stranded>>
    BY <1>2 DEF JumpRedirects, histVars
  <2> DEFINE l == operator.leg
  <2>2. \/ UNCHANGED leg
        \/ leg[l].state = "up" /\ leg' = [leg EXCEPT ![l].state = "room"]
    BY <1>2 DEF JumpRedirects
  <2> HIDE DEF l
  <2>3. LegsQuiet
    <3>1. CASE l \in Legs
      <4>1. \A m \in Legs : leg'[m].row = leg[m].row /\ (m # l => leg'[m] = leg[m])
        BY <2>2, <3>1 DEF LegT, Dialled, LegRecord
      <4>2. leg[l].state = "free" <=> leg'[l].state = "free"
        BY <2>2, <3>1 DEF LegT, Dialled, LegRecord
      <4> QED BY <4>1, <4>2 DEF LegsQuiet
    <3>2. CASE l \notin Legs
      <4>1. UNCHANGED leg
        BY <2>2, <3>2 DEF LegT
      <4> QED BY <4>1 DEF LegsQuiet
    <3> QED BY <3>1, <3>2
  <2> QED BY <2>1, <2>3 DEF RowsQuiet
<1>3. CASE UNCHANGED <<row, leg, dial, unsaved, slow, stranded>>
  BY <1>3 DEF RowsQuiet, LegsQuiet
<1> QED BY <1>1, <1>2, <1>3 DEF OperatorStep, JumpChecks, OptOut, vars, histVars

\* A dial that goes on with its row keeps it, as long as it leaves no leg behind
\* unsaved and rings no row that rang.
LEMMA GoingOnKeepsOwnership ==
    ASSUME Typed, Ownership, RowsQuiet, UNCHANGED <<leg, slow>>, NEW d \in Dials,
           \A e \in Dials \ {d} : dial'[e] = dial[e],
           dial'[d].row = dial[d].row, FlowOf(d)',
           IsStep(d)' <=> IsStep(d), d \in slow => (dial'[d].job <=> dial[d].job),
           KindOf[d] = "retry" => dial[d].pc # "idle" /\ (dial'[d].job <=> dial[d].job),
           dial'[d].pc # "save",
           dial[d].pc = "save" => dial[d].leg \in unsaved',
           unsaved \subseteq unsaved',
           dial'[d].pc \in {"gate", "fire", "place"} /\ dial[d].row \in Rows =>
               row[dial[d].row].sid = NoLeg \/ Twice(dial[d].row),
           IsStep(d) /\ dial'[d].pc \in {"gate", "create"} => dial[d].pc \in {"gate", "create"}
    PROVE  Ownership'
<1> USE DEF Ownership
<1>1. Steady
  BY DEF Steady, RowsQuiet, Typed, WorldT
<1>2. (StepSlow => StepSlow') /\ \A r \in Rows : Twice(r) => Twice(r)'
  BY <1>1, SteadyKeeps
<1>3. dial[d].row # NoRow => dial[d].row \in Rows
  BY DEF Typed, DialT, Placed, DialRecord
<1>4. Fresh' /\ StepRows' = StepRows
  BY DEF Fresh, RowsQuiet, StepRows
<1>5. OneStepRow'
  BY <1>2, <1>4 DEF OneStepRow
<1>6. AsideBy(d)'
  BY <1>2 DEF Aside, AsideBy
<1>7. OwnedBy(d)'
  <2>1. OwnedBy(d)
    BY DEF Owned
  <2> QED BY <1>3, <2>1 DEF OwnedBy, RowsQuiet
<1>8. UnrungBy(d)'
  BY <1>2 DEF UnrungBy, RowsQuiet
<1>9. UnmadeBy(d)'
  BY <1>2, <1>4 DEF Unmade, UnmadeBy
<1>10. ASSUME NEW e \in Dials \ {d}, dial[e].row = dial'[d].row, dial'[d].row # NoRow
       PROVE  dial'[d].row \in TwiceRows'
  <2>1. dial[d].row \in Rows /\ Twice(dial[d].row)
    BY <1>3, <1>10 DEF Owned
  <2> QED BY <1>2, <2>1 DEF TwiceRows
<1>11. /\ \A r \in Rows : row[r].status # "none" => row'[r].status # "none" /\ (row'[r].step <=> row[r].step)
       /\ \A r \in Rows : row'[r].sid = row[r].sid
  BY DEF RowsQuiet
<1> QED BY <1>1, <1>4, <1>5, <1>6, <1>7, <1>8, <1>9, <1>10, <1>11, DialKeepsOwnership

\* The moves of a dial that keep its row and ring nobody.
Moves(d) ==
    \/ Refused(d) \/ Cleared(d) \/ Promise(d) \/ Enqueue(d) \/ Fire(d) \/ FireCleared(d)
    \/ FirePutOff(d) \/ FireRefused(d) \/ Report(d)

\* Each is a going on.
LEMMA MovesGoOn ==
    ASSUME Typed, Ownership, NEW d \in Dials, Moves(d)
    PROVE  /\ RowsQuiet /\ UNCHANGED <<leg, unsaved, slow>>
           /\ \A e \in Dials \ {d} : dial'[e] = dial[e]
           /\ dial'[d].row = dial[d].row /\ dial'[d].pc # "save"
           /\ dial[d].pc \notin {"idle", "save"} /\ FlowOf(d)'
           /\ (dial'[d].job <=> dial[d].job) \/ (KindOf[d] = "best" /\ d \notin slow)
           /\ (dial'[d].pc \in {"gate", "fire", "place"} /\ dial[d].row \in Rows =>
                   row[dial[d].row].sid = NoLeg \/ Twice(dial[d].row))
           /\ (IsStep(d) /\ dial'[d].pc \in {"gate", "create"} => dial[d].pc \in {"gate", "create"})
<1> USE DEF Typed
<1>1. UNCHANGED <<leg, unsaved, slow>>
  BY DEF Moves, Refused, Cleared, Promise, Enqueue, Fire, FireCleared, FirePutOff, FireRefused, Report, histVars
<1>2. RowsQuiet
  <2>1. CASE FireRefused(d)
    BY <2>1 DEF FireRefused, RowsQuiet, RowT
  <2>2. CASE FirePutOff(d)
    BY <2>2 DEF FirePutOff, RowsQuiet, RowT
  <2>3. CASE UNCHANGED row
    BY <2>3 DEF RowsQuiet
  <2> QED BY <2>1, <2>2, <2>3 DEF Moves, Refused, Cleared, Promise, Enqueue, Fire, FireCleared, Report
<1>3. dial[d].pc \notin {"idle", "save"}
  BY DEF Moves, Refused, Cleared, Promise, Enqueue, Fire, FireCleared, FirePutOff, FireRefused, Report, At
<1>4. FlowOf(d) /\ UnrungBy(d) /\ dial[d] \in DialRecord
  BY DEF Ownership, Flow, Unrung, DialT, Placed
<1>5. CASE Enqueue(d)
  <2>1. dial[d].pc = "enqueue" /\ dial' = [dial EXCEPT ![d].pc = "queued", ![d].job = TRUE]
    BY <1>5 DEF Enqueue, At
  <2>2. /\ dial'[d].pc = "queued" /\ dial'[d].job /\ dial'[d].row = dial[d].row
        /\ \A e \in Dials \ {d} : dial'[e] = dial[e]
    BY <1>4, <2>1 DEF DialT, DialRecord
  <2>3. KindOf[d] = "best" /\ dial[d].row \in Rows /\ d \notin slow
    BY <1>4, <2>1 DEF FlowOf, JobPcs, DialT, Placed, WithRow, IsStep
  <2>4. FlowOf(d)'
    BY <1>1, <2>2, <2>3 DEF FlowOf, JobPcs
  <2> QED BY <1>1, <1>2, <1>3, <2>2, <2>3, <2>4
<1>6. ASSUME NEW pc, Goto(d, pc)
      PROVE  /\ \A e \in Dials \ {d} : dial'[e] = dial[e]
             /\ dial'[d].row = dial[d].row /\ dial'[d].pc = pc /\ (dial'[d].job <=> dial[d].job)
             /\ (IsStep(d)' <=> IsStep(d))
  BY <1>4, <1>6 DEF Goto, DialT, DialRecord, IsStep
<1>7. CASE Refused(d)
  <2>1. Goto(d, "refused") /\ dial[d].pc = "gate"
    BY <1>7 DEF Refused, At
  <2>2. FlowOf(d)'
    BY <1>1, <1>4, <1>6, <2>1 DEF FlowOf, JobPcs
  <2> QED BY <1>1, <1>2, <1>3, <1>6, <2>1, <2>2
<1>8. CASE Cleared(d)
  <2>1. Goto(d, IF dial[d].row = NoRow THEN "create" ELSE "place") /\ dial[d].pc = "gate"
    BY <1>8 DEF Cleared, At
  <2>2. FlowOf(d)'
    BY <1>1, <1>4, <1>6, <2>1 DEF FlowOf, JobPcs
  <2> QED BY <1>1, <1>2, <1>3, <1>4, <1>6, <2>1, <2>2 DEF UnrungBy
<1>9. CASE Promise(d)
  <2>1. Goto(d, IF PendingRows # {} THEN "done" ELSE "promise") /\ dial[d].pc = "gate" /\ KindOf[d] = "best"
    BY <1>9 DEF Promise, At
  <2>2. FlowOf(d)'
    BY <1>1, <1>4, <1>6, <2>1 DEF FlowOf, JobPcs, IsStep
  <2> QED BY <1>1, <1>2, <1>3, <1>6, <2>1, <2>2
<1>10. CASE Fire(d)
  <2>1. Goto(d, IF Fireable(dial[d].row) THEN "fire" ELSE "done") /\ dial[d].pc = "queued"
    BY <1>10 DEF Fire, At
  <2>2. FlowOf(d)'
    BY <1>1, <1>4, <1>6, <2>1 DEF FlowOf, JobPcs
  <2>3. dial'[d].pc = "fire" => row[dial[d].row].sid = NoLeg
    BY <1>6, <2>1 DEF Fireable, PendingRows
  <2>4. dial'[d].pc \in {"fire", "done"}
    BY <1>6, <2>1
  <2> QED BY <1>1, <1>2, <1>3, <1>6, <2>1, <2>2, <2>3, <2>4
<1>11. CASE FireCleared(d) \/ FirePutOff(d) \/ FireRefused(d)
  <2>1. PICK pc \in {"place", "queued", "refused"} : Goto(d, pc)
    BY <1>11 DEF FireCleared, FirePutOff, FireRefused
  <2>2. dial[d].pc = "fire"
    BY <1>11 DEF FireCleared, FirePutOff, FireRefused, At
  <2>3. FlowOf(d)'
    BY <1>1, <1>4, <1>6, <2>1, <2>2 DEF FlowOf, JobPcs
  <2> QED BY <1>1, <1>2, <1>3, <1>4, <1>6, <2>1, <2>2, <2>3 DEF UnrungBy
<1>12. CASE Report(d)
  <2>1. Goto(d, "done") /\ dial[d].pc = "report"
    BY <1>12 DEF Report, At
  <2>2. FlowOf(d)'
    BY <1>1, <1>4, <1>6, <2>1 DEF FlowOf, JobPcs
  <2> QED BY <1>1, <1>2, <1>3, <1>6, <2>1, <2>2
<1> QED BY <1>5, <1>7, <1>8, <1>9, <1>10, <1>11, <1>12 DEF Moves

\* They keep ownership.
LEMMA MovesKeepOwnership ==
    ASSUME Typed, Ownership, NEW d \in Dials, Moves(d)
    PROVE  Ownership'
<1>1. /\ RowsQuiet /\ UNCHANGED <<leg, unsaved, slow>>
      /\ \A e \in Dials \ {d} : dial'[e] = dial[e]
      /\ dial'[d].row = dial[d].row /\ dial'[d].pc # "save"
      /\ dial[d].pc \notin {"idle", "save"} /\ FlowOf(d)'
      /\ (dial'[d].job <=> dial[d].job) \/ (KindOf[d] = "best" /\ d \notin slow)
      /\ (dial'[d].pc \in {"gate", "fire", "place"} /\ dial[d].row \in Rows =>
              row[dial[d].row].sid = NoLeg \/ Twice(dial[d].row))
      /\ (IsStep(d) /\ dial'[d].pc \in {"gate", "create"} => dial[d].pc \in {"gate", "create"})
  BY MovesGoOn
<1>2. IsStep(d)' <=> IsStep(d)
  BY <1>1 DEF IsStep
<1> QED BY <1>1, <1>2, GoingOnKeepsOwnership

\* An attempt begins: it goes by the step's row, if there is one.
LEMMA BeginKeepsOwnership ==
    ASSUME Typed, Ownership, NEW d \in Dials, Begin(d)
    PROVE  Ownership'
<1> USE DEF Ownership
<1>1. /\ dial[d].pc \in {"idle", "again"} /\ (dial[d].pc = "idle" => KindOf[d] # "retry")
      /\ \A e \in Dials \ {d} : dial'[e] = dial[e]
      /\ dial'[d].pc \in {"done", "gate"} /\ (dial'[d].job <=> dial[d].job)
      /\ IsStep(d) => /\ dial'[d].row \in Found
                      /\ (dial'[d].pc = "done" <=> Dialed(dial'[d].row))
      /\ ~IsStep(d) => dial'[d].row = dial[d].row /\ dial'[d].pc = "gate"
      /\ UNCHANGED <<row, leg, slow, unsaved>>
  BY BeginMoves DEF Typed
<1>2. FlowOf(d) /\ d \notin slow /\ ~dial[d].job /\ (IsStep(d)' <=> IsStep(d))
  BY <1>1 DEF Flow, FlowOf, JobPcs, IsStep
<1>3. CASE ~IsStep(d)
  <2>1. dial[d].pc = "idle" /\ dial[d].row = NoRow /\ dial'[d].row = NoRow
    BY <1>1, <1>2, <1>3 DEF FlowOf
  <2>2. FlowOf(d)' /\ RowsQuiet
    BY <1>1, <1>2, <1>3, <2>1 DEF FlowOf, RowsQuiet
  <2> QED BY <1>1, <1>2, <1>3, <2>1, <2>2, SentinelAssumption, GoingOnKeepsOwnership
<1>4. CASE IsStep(d)
  <2> DEFINE r == dial'[d].row
  <2>1. Steady
    BY <1>1, <1>2 DEF Steady, Typed, WorldT
  <2>2. (StepSlow => StepSlow') /\ \A q \in Rows : Twice(q) => Twice(q)'
    BY <2>1, SteadyKeeps
  <2>3. StepRows' = StepRows /\ StepRows \subseteq Rows /\ (r # NoRow => r \in StepRows) /\ (r = NoRow => StepRows = {})
    BY <1>1, <1>4, SentinelAssumption DEF Found, StepRows
  <2>4. FlowOf(d)' /\ AsideBy(d)'
    <3>1. FlowOf(d)'
      BY <1>1, <1>2, <1>4 DEF FlowOf
    <3>2. AsideBy(d)'
      BY <1>1, <1>2, <2>2 DEF Aside, AsideBy
    <3> QED BY <3>1, <3>2
  <2>5. OwnedBy(d)' /\ UnrungBy(d)' /\ UnmadeBy(d)'
    <3>1. OwnedBy(d)'
      BY <1>1, <1>2, <1>4, <2>3 DEF OwnedBy, Fresh, StepRows
    <3>2. UnrungBy(d)'
      BY <1>1, <1>4, <2>3, SentinelAssumption DEF UnrungBy, Dialed
    <3>3. UnmadeBy(d)'
      BY <2>3 DEF UnmadeBy
    <3> QED BY <3>1, <3>2, <3>3
  <2>6. Fresh' /\ OneStepRow'
    BY <1>1, <2>2, <2>3 DEF Fresh, OneStepRow
  <2>7. ASSUME NEW e \in Dials \ {d}, dial[e].row = r, r # NoRow PROVE r \in TwiceRows'
    <3>1. IsStep(e) /\ dial[e].pc # "idle" /\ r \in Rows
      BY <2>3, <2>7 DEF Owned, OwnedBy, StepRows, Flow, FlowOf
    <3>2. StepSlow
      <4>1. CASE dial[d].pc = "idle"
        <5>1. KindOf[e] = "retry" /\ ~dial[e].job
          BY <1>1, <1>4, <2>7, <3>1, <4>1, ActivityAssumption DEF IsStep
        <5> QED BY <3>1, <5>1 DEF Aside, AsideBy
      <4>2. CASE dial[d].pc # "idle"
        BY <1>4, <2>7, <3>1, <4>2, TwoAttempts
      <4> QED BY <4>1, <4>2
    <3>3. Twice(r)
      BY <2>3, <2>7, <3>2 DEF StepSlow, Twice, StepRows
    <3> QED BY <2>2, <3>1, <3>3 DEF TwiceRows
  <2>8. dial[d].pc # "save"
    BY <1>1
  <2> HIDE DEF r
  <2>9. \A e \in Dials \ {d} : dial[e].row = dial'[d].row /\ dial'[d].row # NoRow => dial'[d].row \in TwiceRows'
    BY <2>7 DEF r
  <2> QED BY <1>1, <2>1, <2>3, <2>4, <2>5, <2>6, <2>8, <2>9, DialKeepsOwnership
<1> QED BY <1>3, <1>4

\* A dial that fails takes the leg it did not save with it.
LEMMA FailsKeepOwnership ==
    ASSUME Typed, Ownership, NEW d \in Dials, DialFails(d)
    PROVE  Ownership'
<1> USE DEF Ownership
<1>1. PICK next \in Retries(d) \union {"failed"} : dial' = [dial EXCEPT ![d].pc = next, ![d].leg = NoLeg]
  BY DEF DialFails
<1>2. /\ dial[d].pc \in {"place", "save", "report", "enqueue", "fire"}
      /\ UNCHANGED <<row, leg, slow>>
      /\ unsaved' = IF dial[d].pc = "save" THEN unsaved \union {dial[d].leg} ELSE unsaved
  BY DEF DialFails, At
<1>3. /\ dial'[d].pc = next /\ dial'[d].row = dial[d].row /\ (dial'[d].job <=> dial[d].job)
      /\ \A e \in Dials \ {d} : dial'[e] = dial[e]
  BY <1>1 DEF Typed, DialT, Placed, DialRecord
<1>4. /\ next \in {"again", "queued", "failed"} /\ (next = "again" => IsStep(d) /\ d \notin slow)
      /\ (next = "queued" => dial[d].job)
  BY DEF Retries
<1>5. FlowOf(d) /\ (IsStep(d)' <=> IsStep(d)) /\ (IsStep(d) => ~dial[d].job)
  BY <1>3 DEF Flow, FlowOf, IsStep
<1>6. FlowOf(d)' /\ RowsQuiet
  BY <1>2, <1>3, <1>4, <1>5 DEF FlowOf, JobPcs, RowsQuiet
<1> QED BY <1>2, <1>3, <1>4, <1>5, <1>6, GoingOnKeepsOwnership

\* A dial that makes its row makes it nobody else's.
LEMMA CreateKeepsOwnership ==
    ASSUME Typed, Ownership, NEW d \in Dials, CreateQueued(d) \/ Create(d)
    PROVE  Ownership'
<1> USE DEF Ownership
<1>1. PICK next \in {"place", "enqueue"} :
         /\ NewRow(d, next) /\ UNCHANGED <<leg, slow, unsaved>>
         /\ dial[d].pc = IF next = "place" THEN "create" ELSE "promise"
  BY DEF CreateQueued, Create, At, histVars
<1> DEFINE r == CHOOSE r \in Rows : row[r].status = "none"
<1>2. /\ r \in Rows /\ row[r].status = "none"
      /\ row' = [row EXCEPT ![r] = [row[r] EXCEPT !.status = "QUEUED", !.step = IsStep(d)]]
      /\ dial' = [dial EXCEPT ![d] = [dial[d] EXCEPT !.pc = next, !.row = r]]
  BY <1>1 DEF NewRow
<1> HIDE DEF r
<1>3. /\ row'[r].status = "QUEUED" /\ (row'[r].step <=> IsStep(d)) /\ row'[r].sid = row[r].sid
      /\ \A q \in Rows : q # r => row'[q] = row[q]
  BY <1>2 DEF Typed, RowT, RowRecord, IsStep
<1>4. /\ dial'[d].pc = next /\ dial'[d].row = r /\ (dial'[d].job <=> dial[d].job)
      /\ \A e \in Dials \ {d} : dial'[e] = dial[e]
  BY <1>2 DEF Typed, DialT, Placed, DialRecord
<1>5. row[r].sid = NoLeg /\ ~row[r].step
  BY <1>2 DEF Fresh
<1>6. FlowOf(d) /\ ~dial[d].job /\ (IsStep(d) => dial[d].pc = "create") /\ (IsStep(d)' <=> IsStep(d))
  BY <1>1, <1>4 DEF Flow, FlowOf, JobPcs, IsStep
<1>7. Steady
  <2>1. d \in slow => IsStep(d)
    BY <1>6 DEF FlowOf
  <2> QED BY <1>1, <1>3, <1>4, <1>5, <2>1 DEF Steady, Typed, WorldT
<1>8. StepSlow => StepSlow'
  BY <1>7, SteadyKeeps
<1>9. FlowOf(d)' /\ AsideBy(d)' /\ OwnedBy(d)' /\ UnrungBy(d)' /\ UnmadeBy(d)'
  <2>1. FlowOf(d)'
    BY <1>1, <1>2, <1>4, <1>6 DEF FlowOf, JobPcs
  <2>2. AsideBy(d)'
    BY <1>1, <1>4, <1>8 DEF Aside, AsideBy
  <2>3. OwnedBy(d)' /\ UnrungBy(d)' /\ UnmadeBy(d)'
    BY <1>1, <1>3, <1>4, <1>5, <1>6 DEF OwnedBy, UnrungBy, UnmadeBy
  <2> QED BY <2>1, <2>2, <2>3
<1>10. Fresh'
  BY <1>3 DEF Fresh
<1>11. CASE ~IsStep(d)
  <2>1. StepRows' = StepRows
    BY <1>3, <1>5, <1>11 DEF StepRows
  <2>2. OneStepRow'
    BY <1>8, <2>1 DEF OneStepRow
  <2>3. \A e \in Dials \ {d} : dial[e].row # r
    BY <1>2, SentinelAssumption DEF Owned, OwnedBy
  <2> QED BY <1>1, <1>3, <1>4, <1>5, <1>7, <1>9, <1>10, <1>2, <2>1, <2>2, <2>3, DialKeepsOwnership
<1>12. CASE IsStep(d)
  <2>1. StepRows' \subseteq StepRows \union {r}
    BY <1>3 DEF StepRows
  <2>2. StepRows = {} \/ StepSlow
    BY <1>1, <1>6, <1>12 DEF Unmade, UnmadeBy, FlowOf
  <2>3. OneStepRow'
    BY <1>8, <2>1, <2>2 DEF OneStepRow
  <2>4. \A e \in Dials \ {d} : dial[e].row # r
    BY <1>2, SentinelAssumption DEF Owned, OwnedBy
  <2> QED BY <1>1, <1>3, <1>4, <1>5, <1>6, <1>7, <1>9, <1>10, <1>2, <1>12, <2>3, <2>4, DialKeepsOwnership
<1> QED BY <1>11, <1>12

\* A dial that rings has its leg in hand.
LEMMA PlaceKeepsOwnership ==
    ASSUME Typed, Ownership, NEW d \in Dials, Place(d)
    PROVE  Ownership'
<1> USE DEF Ownership
<1>1. PICK l \in Legs :
      /\ leg[l].state = "free" /\ dial[d].pc = "place"
      /\ leg' = [leg EXCEPT ![l] = [state |-> "ringing", row |-> dial[d].row, result |-> "none"]]
      /\ dial' = [dial EXCEPT ![d] = [dial[d] EXCEPT !.pc = "save", !.leg = l]]
      /\ UNCHANGED <<row, slow, unsaved>>
  BY DEF Place, At
<1>2. /\ dial'[d].pc = "save" /\ dial'[d].leg = l /\ dial'[d].row = dial[d].row
      /\ (dial'[d].job <=> dial[d].job) /\ \A e \in Dials \ {d} : dial'[e] = dial[e]
  BY <1>1 DEF Typed, DialT, Placed, DialRecord
<1>3. leg'[l].row = dial[d].row /\ \A m \in Legs \ {l} : leg'[m] = leg[m]
  BY <1>1 DEF Typed, LegT
<1>4. Steady
  BY <1>1, <1>2 DEF Steady, Typed, WorldT
<1>5. (StepSlow => StepSlow') /\ \A r \in Rows : Twice(r) => Twice(r)'
  BY <1>4, SteadyKeeps
<1>6. FlowOf(d) /\ AsideBy(d) /\ OwnedBy(d) /\ UnrungBy(d) /\ (IsStep(d)' <=> IsStep(d))
  BY <1>2 DEF Flow, Aside, Owned, Unrung, IsStep
<1>7. FlowOf(d)' /\ AsideBy(d)'
  BY <1>1, <1>2, <1>5, <1>6 DEF FlowOf, AsideBy, JobPcs
<1>8. OwnedBy(d)' /\ UnrungBy(d)' /\ UnmadeBy(d)'
  BY <1>1, <1>2, <1>5, <1>6 DEF OwnedBy, UnrungBy, UnmadeBy
<1>9. StepRows' = StepRows /\ Fresh' /\ OneStepRow'
  BY <1>1, <1>5 DEF StepRows, Fresh, OneStepRow
<1>10. ASSUME NEW e \in Dials \ {d}, dial[e].row = dial'[d].row, dial'[d].row # NoRow
       PROVE  dial'[d].row \in TwiceRows'
  <2>1. dial[d].row \in Rows /\ Twice(dial[d].row)
    BY <1>2, <1>10 DEF Owned, Typed, DialT, Placed, DialRecord
  <2> QED BY <1>2, <1>5, <2>1 DEF TwiceRows
<1>11. KnownLeg(l)'
  BY <1>2, <1>3 DEF KnownLeg
<1>12. /\ \A m \in Legs : leg[m].state # "free" => leg'[m].row = leg[m].row
       /\ \A m \in Legs : leg[m].state = "free" /\ leg'[m].state # "free" => KnownLeg(m)'
  BY <1>1, <1>3, <1>11
<1> QED BY <1>1, <1>2, <1>4, <1>7, <1>8, <1>9, <1>10, <1>12, DialKeepsOwnership

\* A dial that saves its sid writes its own row, over another's only if it was worked at twice.
LEMMA SaveKeepsOwnership ==
    ASSUME Typed, Ownership, NEW d \in Dials, Save(d)
    PROVE  Ownership'
<1> USE DEF Ownership
<1>1. PICK r \in Rows :
      /\ dial[d].row = r /\ dial[d].pc = "save" /\ dial[d] \in Placed
      /\ row' = [row EXCEPT ![r] = [row[r] EXCEPT !.sid = dial[d].leg, !.taken = FALSE]]
      /\ dial' = [dial EXCEPT ![d] = [dial[d] EXCEPT !.pc = "report"]]
      /\ UNCHANGED <<leg, slow, unsaved>>
  BY DEF Save, Sid, At, Goto, Typed, DialT, Placed, WithRow, histVars
<1>2. /\ dial'[d].pc = "report" /\ dial'[d].row = r
      /\ (dial'[d].job <=> dial[d].job) /\ \A e \in Dials \ {d} : dial'[e] = dial[e]
  BY <1>1 DEF Typed, DialT, Placed, DialRecord
<1>3. /\ row'[r].sid = dial[d].leg /\ row'[r].status = row[r].status /\ (row'[r].step <=> row[r].step)
      /\ \A q \in Rows : q # r => row'[q] = row[q]
  BY <1>1 DEF Typed, RowT, RowRecord
<1>4. Steady
  BY <1>1, <1>2, <1>3 DEF Steady, Typed, WorldT
<1>5. (StepSlow => StepSlow') /\ \A q \in Rows : Twice(q) => Twice(q)'
  BY <1>4, SteadyKeeps
<1>6. FlowOf(d) /\ AsideBy(d) /\ OwnedBy(d) /\ UnrungBy(d) /\ (IsStep(d)' <=> IsStep(d))
  BY <1>2 DEF Flow, Aside, Owned, Unrung, IsStep
<1>7. FlowOf(d)' /\ AsideBy(d)'
  BY <1>1, <1>2, <1>5, <1>6 DEF FlowOf, AsideBy, JobPcs
<1>8. OwnedBy(d)' /\ UnrungBy(d)' /\ UnmadeBy(d)'
  BY <1>1, <1>2, <1>3, <1>6 DEF OwnedBy, UnrungBy, UnmadeBy
<1>9. StepRows' = StepRows
  BY <1>3 DEF StepRows
<1>10. OneStepRow'
  BY <1>5, <1>9 DEF OneStepRow
<1>11. row[r].status # "none" /\ (row[r].sid = NoLeg \/ Twice(r)')
  BY <1>1, <1>5, <1>6, SentinelAssumption DEF OwnedBy, UnrungBy
<1>12. Fresh'
  BY <1>3, <1>11 DEF Fresh
<1>13. ASSUME NEW e \in Dials \ {d}, dial[e].row = r PROVE Twice(r)'
  BY <1>1, <1>5, <1>13, SentinelAssumption DEF Owned
<1>15. \A e \in Dials \ {d} : dial[e].row = dial'[d].row /\ dial'[d].row # NoRow => dial'[d].row \in TwiceRows'
  BY <1>1, <1>2, <1>13 DEF TwiceRows
<1>16. \A q \in Rows : row'[q].sid # row[q].sid =>
          (row[q].sid = NoLeg \/ Twice(q)') /\ \A e \in Dials \ {d} : dial[e].row = q => Twice(q)'
  BY <1>3, <1>11, <1>13
<1>17. \A q \in Rows : row[q].status # "none" => row'[q].status # "none" /\ (row'[q].step <=> row[q].step)
  BY <1>3
<1> QED BY <1>1, <1>2, <1>3, <1>4, <1>7, <1>8, <1>9, <1>10, <1>12, <1>15, <1>16, <1>17, DialKeepsOwnership

\* The retry that starts beside a slow attempt has its row only if that row is worked at twice.
LEMMA BesideKeepsOwnership ==
    ASSUME Typed, Ownership, NEW d \in Dials, NEW e \in Dials, RetriedBeside(d, e)
    PROVE  Ownership'
<1> USE DEF Ownership
<1>1. /\ KindOf[e] = "retry" /\ dial[e].pc = "idle" /\ AtWork(d) /\ d # e
      /\ \A x \in Dials \ {e} : dial'[x] = dial[x]
      /\ \/ IsStep(d) /\ dial'[e].pc = "again" /\ dial'[e].row = dial[e].row /\ (dial'[e].job <=> dial[e].job)
         \/ /\ ~IsStep(d) /\ dial[d].job /\ dial'[e].pc = "queued" /\ dial'[e].row = dial[d].row /\ dial'[e].job
      /\ slow' = slow \union {d}
      /\ UNCHANGED <<row, leg, unsaved>>
  BY BesideMoves DEF Typed, histVars
<1>2. FlowOf(e) /\ FlowOf(d) /\ OwnedBy(d) /\ e \notin slow /\ ~dial[e].job /\ dial[e].row = NoRow
  BY <1>1 DEF Flow, FlowOf, JobPcs, Owned
<1>3. dial[d].pc \notin {"idle", "again"} /\ (IsStep(d) \/ dial[d].job) /\ (IsStep(d)' <=> IsStep(d)) /\ dial'[d] = dial[d]
  BY <1>1 DEF AtWork, IsStep
<1>4. Steady
  BY <1>1, <1>2 DEF Steady, Typed, WorldT
<1>5. (StepSlow => StepSlow') /\ \A r \in Rows : Twice(r) => Twice(r)'
  BY <1>4, SteadyKeeps
<1>6. StepRows' = StepRows /\ Fresh' /\ OneStepRow'
  BY <1>1, <1>5 DEF StepRows, Fresh, OneStepRow
<1>7. FlowOf(e)' /\ AsideBy(e)' /\ OwnedBy(e)' /\ UnrungBy(e)' /\ UnmadeBy(e)'
  <2>1. CASE IsStep(d)
    <3>1. dial'[e].pc = "again" /\ dial'[e].row = NoRow /\ ~dial'[e].job /\ e \notin slow' /\ StepSlow'
      BY <1>1, <1>2, <1>3, <2>1 DEF StepSlow
    <3> QED BY <1>1, <3>1, SentinelAssumption DEF FlowOf, AsideBy, OwnedBy, UnrungBy, UnmadeBy, IsStep
  <2>2. CASE ~IsStep(d)
    <3>1. dial'[e].pc = "queued" /\ dial'[e].row = dial[d].row /\ dial'[e].job /\ e \notin slow' /\ dial[d].row \in Rows
      BY <1>1, <1>2, <2>2 DEF FlowOf
    <3>2. row[dial[d].row].status # "none" /\ ~row[dial[d].row].step
      BY <1>2, <2>2, <3>1, SentinelAssumption DEF OwnedBy
    <3> QED BY <1>1, <3>1, <3>2 DEF FlowOf, JobPcs, AsideBy, OwnedBy, UnrungBy, UnmadeBy, IsStep
  <2> QED BY <2>1, <2>2
<1>8. ASSUME NEW x \in Dials \ {e}, dial[x].row = dial'[e].row, dial'[e].row # NoRow
      PROVE  dial'[e].row \in TwiceRows'
  <2>1. ~IsStep(d) /\ dial'[e].row = dial[d].row /\ dial[d].row \in Rows
    BY <1>1, <1>2, <1>8 DEF FlowOf
  <2> QED BY <1>1, <1>3, <2>1 DEF TwiceRows, Twice
<1>9. \A x \in slow' \ slow : x \in Dials /\ x # e /\ dial[x].pc \notin {"idle", "again"} /\ (IsStep(x) \/ dial[x].job)
  BY <1>1, <1>3
<1> QED BY <1>1, <1>4, <1>6, <1>7, <1>8, <1>9, DialKeepsOwnership

\* Every step keeps ownership.
LEMMA OwnershipStep == Typed /\ Ownership /\ [Next]_vars => Ownership'
<1> SUFFICES ASSUME Typed, Ownership, [Next]_vars PROVE Ownership'
  OBVIOUS
<1>1. ASSUME NEW d \in Dials, Begin(d) \/ DialStep(d) \/ DialFails(d) PROVE Ownership'
  BY <1>1, BeginKeepsOwnership, FailsKeepOwnership, CreateKeepsOwnership, PlaceKeepsOwnership,
     SaveKeepsOwnership, MovesKeepOwnership DEF DialStep, Moves
<1>2. ASSUME NEW d \in Dials, NEW e \in Dials, RetriedBeside(d, e) PROVE Ownership'
  BY <1>2, BesideKeepsOwnership
<1>3. ASSUME NEW l \in Legs, Answer(l) \/ LegEnds(l) \/ LegStep(l) \/ CallbackLost(l) \/ SessionEnds(l)
      PROVE  Ownership'
  BY <1>3, LegsLeaveOwnership, QuietKeepsOwnership
<1>4. CASE (\E r \in Rows : JumpChecks(r)) \/ OperatorStep \/ OptOut \/ UNCHANGED vars
  BY <1>4, WorldLeavesOwnership, QuietKeepsOwnership
<1> QED BY <1>1, <1>2, <1>3, <1>4 DEF Next

\* At first nobody has a row.
LEMMA OwnershipInit == Init => Ownership
<1> SUFFICES ASSUME Init PROVE Ownership
  OBVIOUS
<1>1. Fresh /\ Flow /\ Aside
  BY DEF Init, FreeRow, Fresh, Flow, FlowOf, Aside, AsideBy
<1>2. Owned /\ Unrung /\ Unmade /\ OneStepRow /\ Known
  BY DEF Init, FreeRow, Owned, OwnedBy, Unrung, UnrungBy, Unmade, UnmadeBy, OneStepRow, StepRows, Known
<1> QED BY <1>1, <1>2 DEF Ownership

\* A step or a queued call rings once, unless a sid was lost or a retry ran
\* beside a slow attempt at it.
THEOREM RingsOnceHolds == Spec => []RingsOnce
<1>1. Init => Typed /\ Ownership
  BY TypeInit, OwnershipInit
<1>2. Typed /\ Ownership /\ [Next]_vars => (Typed /\ Ownership)'
  BY TypeStep, OwnershipStep
<1>3. Typed /\ Ownership => RingsOnce
  BY OwnershipImplies
<1> QED BY <1>1, <1>2, <1>3, PTL DEF Spec

-----------------------------------------------------------------------------
(* No phantom: a pending row is tended.  The invariant adds that a dial about *)
(* to report has saved its sid.                                               *)

Closed == {"done", "refused", "failed"}
Reported == \A d \in Dials : dial[d].pc = "report" => row[dial[d].row].sid # NoLeg
Tended == Reported /\ NoPhantomCall

\* A step that leaves the dials alone leaves the rows tended.
LEMMA QuietKeepsTended ==
    ASSUME Typed, Tended, RowsQuiet, UNCHANGED <<dial, stranded>>
    PROVE  Tended'
<1> USE DEF Typed, Tended
<1>1. PendingRows' \subseteq PendingRows
  BY DEF PendingRows, RowsQuiet
<1>2. Reported'
  BY DEF Reported, RowsQuiet, DialT, Placed, WithRow
<1>3. NoPhantomCall'
  BY <1>1 DEF NoPhantomCall
<1> QED BY <1>2, <1>3

\* A step of one dial keeps the rows tended if it closes none it leaves pending.
LEMMA DialKeepsTended ==
    ASSUME Typed, Tended, NEW d \in Dials,
           \A e \in Dials \ {d} : dial'[e] = dial[e],
           \A r \in Rows : row[r].sid # NoLeg => row'[r].sid # NoLeg,
           dial'[d].pc = "report" => row'[dial'[d].row].sid # NoLeg,
           stranded \subseteq stranded',
           \A r \in PendingRows' : r \in PendingRows \/ r = dial'[d].row,
           \A r \in PendingRows' \ stranded' : dial[d].row = r => dial'[d].row = r,
           \A r \in PendingRows' \ stranded' : dial'[d].row = r => dial'[d].pc \notin Closed
    PROVE  Tended'
<1> USE DEF Typed, Tended
<1>1. Reported'
  <2> SUFFICES ASSUME NEW e \in Dials, dial'[e].pc = "report" PROVE row'[dial'[e].row].sid # NoLeg
    BY DEF Reported
  <2>1. CASE e = d
    BY <2>1
  <2>2. CASE e # d
    <3>1. dial'[e] = dial[e] /\ dial[e].row \in Rows /\ row[dial[e].row].sid # NoLeg
      BY <2>2 DEF DialT, Placed, WithRow, Reported
    <3> QED BY <3>1
  <2> QED BY <2>1, <2>2
<1>2. NoPhantomCall'
  <2> SUFFICES ASSUME NEW r \in PendingRows' \ stranded'
               PROVE  \E e \in Dials : dial'[e].row = r /\ dial'[e].pc \notin Closed
    BY DEF NoPhantomCall, Closed
  <2>1. CASE r = dial'[d].row
    BY <2>1
  <2>2. CASE r # dial'[d].row
    <3>1. r \in PendingRows \ stranded
      BY <2>2
    <3>2. PICK e \in Dials : dial[e].row = r /\ dial[e].pc \notin Closed
      BY <3>1 DEF NoPhantomCall, Closed
    <3>3. e # d
      BY <2>2, <3>2
    <3> QED BY <3>2, <3>3
  <2> QED BY <2>1, <2>2
<1> QED BY <1>1, <1>2

\* Where a move leads, and what it may end over.
LEMMA MovesEnd ==
    ASSUME Typed, Ownership, Tended, NEW d \in Dials, Moves(d)
    PROVE  /\ dial'[d].pc # "report" /\ stranded \subseteq stranded'
           /\ dial[d].row \in PendingRows' \ stranded' => dial'[d].pc \notin Closed
<1> USE DEF Typed
<1>1. ASSUME NEW pc, Goto(d, pc) PROVE dial'[d].pc = pc
  BY <1>1 DEF Goto, DialT
<1>2. stranded \subseteq stranded'
  BY DEF Moves, Refused, Cleared, Promise, Enqueue, Fire, FireCleared, FirePutOff, FireRefused, Report, histVars
<1>3. FlowOf(d) /\ NoRow \notin PendingRows'
  BY SentinelAssumption DEF Ownership, Flow, PendingRows
<1>4. CASE Refused(d)
  <2>1. Goto(d, "refused") /\ stranded' = stranded \union ({dial[d].row} \ {NoRow})
    BY <1>4 DEF Refused
  <2>2. dial[d].row \notin PendingRows' \ stranded'
    BY <1>3, <2>1
  <2> QED BY <1>1, <1>2, <2>1, <2>2
<1>5. CASE Promise(d)
  <2>1. dial[d].row = NoRow
    BY <1>3, <1>5 DEF Promise, At, FlowOf, IsStep
  <2>2. Goto(d, "done") \/ Goto(d, "promise")
    BY <1>5 DEF Promise
  <2> QED BY <1>1, <1>2, <1>3, <2>1, <2>2
<1>6. CASE Enqueue(d)
  <2>1. dial'[d].pc = "queued"
    BY <1>6 DEF Enqueue, DialT
  <2> QED BY <1>2, <2>1 DEF Closed
<1>7. CASE Fire(d)
  <2>1. PendingRows' = PendingRows
    BY <1>7 DEF Fire, PendingRows
  <2>2. (Goto(d, "done") /\ dial[d].row \notin PendingRows) \/ Goto(d, "fire")
    BY <1>7 DEF Fire, Fireable
  <2> QED BY <1>1, <1>2, <2>1, <2>2 DEF Closed
<1>8. CASE Cleared(d) \/ FireCleared(d) \/ FirePutOff(d)
  <2>1. Goto(d, "create") \/ Goto(d, "place") \/ Goto(d, "queued")
    BY <1>8 DEF Cleared, FireCleared, FirePutOff
  <2> QED BY <1>1, <1>2, <2>1 DEF Closed
<1>9. CASE FireRefused(d)
  <2>1. dial[d].row \in Rows
    BY <1>9 DEF FireRefused, At, DialT, Placed, WithRow
  <2>2. row'[dial[d].row].status = "FAILED"
    BY <1>9, <2>1 DEF FireRefused, RowT, RowRecord
  <2>3. dial[d].row \notin PendingRows' /\ Goto(d, "refused")
    BY <1>9, <2>2 DEF FireRefused, PendingRows
  <2> QED BY <1>1, <1>2, <2>3
<1>10. CASE Report(d)
  <2>1. dial[d].row \notin PendingRows' /\ Goto(d, "done")
    BY <1>10 DEF Report, At, Tended, Reported, PendingRows
  <2> QED BY <1>1, <1>2, <2>1
<1> QED BY <1>4, <1>5, <1>6, <1>7, <1>8, <1>9, <1>10 DEF Moves

\* A move leaves the rows tended.
LEMMA MovesKeepTended ==
    ASSUME Typed, Ownership, Tended, NEW d \in Dials, Moves(d)
    PROVE  Tended'
<1>1. RowsQuiet /\ dial'[d].row = dial[d].row /\ \A e \in Dials \ {d} : dial'[e] = dial[e]
  BY MovesGoOn
<1>2. /\ dial'[d].pc # "report" /\ stranded \subseteq stranded'
      /\ dial[d].row \in PendingRows' \ stranded' => dial'[d].pc \notin Closed
  BY MovesEnd
<1>3. PendingRows' \subseteq PendingRows /\ \A r \in Rows : row[r].sid # NoLeg => row'[r].sid # NoLeg
  BY <1>1 DEF PendingRows, RowsQuiet
<1> QED BY <1>1, <1>2, <1>3, DialKeepsTended

\* An attempt that begins leaves the row it had, or takes it up again.
LEMMA BeginKeepsTended ==
    ASSUME Typed, Ownership, Tended, NEW d \in Dials, Begin(d)
    PROVE  Tended'
<1>1. /\ \A e \in Dials \ {d} : dial'[e] = dial[e]
      /\ dial'[d].pc \in {"done", "gate"}
      /\ IsStep(d) => /\ dial'[d].pc = "done" <=> Dialed(dial'[d].row)
                      /\ stranded' = stranded \union ({dial[d].row} \ {dial'[d].row, NoRow})
      /\ ~IsStep(d) => dial'[d].row = dial[d].row /\ dial'[d].pc = "gate" /\ stranded' = stranded
      /\ UNCHANGED row
  BY BeginMoves DEF Typed
<1>2. PendingRows' = PendingRows /\ NoRow \notin PendingRows
  BY <1>1, SentinelAssumption DEF PendingRows
<1>3. dial'[d].row \in PendingRows => dial'[d].pc # "done"
  BY <1>1 DEF PendingRows, Dialed
<1> QED BY <1>1, <1>2, <1>3, DialKeepsTended DEF Closed

\* A new row is tended by the dial that made it.
LEMMA CreateKeepsTended ==
    ASSUME Typed, Ownership, Tended, NEW d \in Dials, CreateQueued(d) \/ Create(d)
    PROVE  Tended'
<1>1. PICK next \in {"place", "enqueue"} : NewRow(d, next) /\ UNCHANGED stranded
  BY DEF CreateQueued, Create, histVars
<1>2. dial[d].row = NoRow
  BY DEF CreateQueued, Create, At, Ownership, Flow, FlowOf, IsStep
<1>3. PICK r \in Rows :
      /\ row' = [row EXCEPT ![r] = [row[r] EXCEPT !.status = "QUEUED", !.step = IsStep(d)]]
      /\ dial' = [dial EXCEPT ![d] = [dial[d] EXCEPT !.pc = next, !.row = r]]
  BY <1>1 DEF NewRow
<1>4. row'[r].sid = row[r].sid /\ \A q \in Rows : q # r => row'[q] = row[q]
  BY <1>3 DEF Typed, RowT, RowRecord
<1>5. /\ dial'[d].pc = next /\ dial'[d].row = r
      /\ \A e \in Dials \ {d} : dial'[e] = dial[e]
  BY <1>3 DEF Typed, DialT, Placed, DialRecord
<1>6. NoRow \notin PendingRows' /\ \A q \in PendingRows' : q \in PendingRows \/ q = r
  BY <1>4, SentinelAssumption DEF PendingRows
<1>7. \A q \in Rows : row[q].sid # NoLeg => row'[q].sid # NoLeg
  BY <1>4
<1> QED BY <1>1, <1>2, <1>5, <1>6, <1>7, DialKeepsTended DEF Closed

\* So is the row of a dial that places, saves or fails.
LEMMA PlacingKeepsTended ==
    ASSUME Typed, Ownership, Tended, NEW d \in Dials, Place(d) \/ Save(d) \/ DialFails(d)
    PROVE  Tended'
<1> USE DEF Typed
<1>1. dial[d] \in DialRecord /\ dial[d].row \in Rows /\ dial[d].row # NoRow
  BY SentinelAssumption DEF DialT, Placed, WithRow, Place, Save, DialFails, At
<1>2. CASE Place(d)
  <2>1. PICK l : dial' = [dial EXCEPT ![d].pc = "save", ![d].leg = l]
    BY <1>2 DEF Place
  <2>2. UNCHANGED <<row, stranded>>
    BY <1>2 DEF Place
  <2>3. /\ dial'[d].pc = "save" /\ dial'[d].row = dial[d].row
        /\ \A e \in Dials \ {d} : dial'[e] = dial[e]
    BY <1>1, <2>1 DEF DialT, DialRecord
  <2>4. PendingRows' = PendingRows
    BY <2>2 DEF PendingRows
  <2> QED BY <2>2, <2>3, <2>4, DialKeepsTended DEF Closed
<1>3. CASE Save(d)
  <2>1. /\ row' = [row EXCEPT ![dial[d].row] = [row[dial[d].row] EXCEPT !.sid = dial[d].leg, !.taken = FALSE]]
        /\ dial' = [dial EXCEPT ![d].pc = "report"]
        /\ UNCHANGED stranded /\ dial[d].leg # NoLeg
    BY <1>3, SentinelAssumption DEF Save, Sid, Goto, histVars, At, DialT, Placed
  <2>2. /\ dial'[d].pc = "report" /\ dial'[d].row = dial[d].row
        /\ \A e \in Dials \ {d} : dial'[e] = dial[e]
    BY <1>1, <2>1 DEF DialT, DialRecord
  <2>3. /\ row'[dial[d].row].sid # NoLeg /\ \A s \in Rows \ {dial[d].row} : row'[s] = row[s]
    BY <1>1, <2>1 DEF RowT, RowRecord
  <2>4. PendingRows' \subseteq PendingRows
    BY <2>3 DEF PendingRows
  <2>5. \A s \in Rows : row[s].sid # NoLeg => row'[s].sid # NoLeg
    BY <1>1, <2>3
  <2> QED BY <2>1, <2>2, <2>3, <2>4, <2>5, DialKeepsTended DEF Closed
<1>4. CASE DialFails(d)
  <2>1. PICK next \in {"again", "queued", "failed"} :
            /\ dial' = [dial EXCEPT ![d].pc = next, ![d].leg = NoLeg]
            /\ stranded' = IF next = "failed" THEN stranded \union ({dial[d].row} \ {NoRow}) ELSE stranded
    BY <1>4 DEF DialFails, Retries
  <2>2. UNCHANGED row
    BY <1>4 DEF DialFails
  <2>3. /\ dial'[d].pc = next /\ dial'[d].row = dial[d].row
        /\ \A e \in Dials \ {d} : dial'[e] = dial[e]
    BY <1>1, <2>1 DEF DialT, DialRecord
  <2>4. PendingRows' = PendingRows
    BY <2>2 DEF PendingRows
  <2>5. stranded \subseteq stranded' /\ (next = "failed" => dial[d].row \in stranded')
    BY <1>1, <2>1
  <2> QED BY <2>2, <2>3, <2>4, <2>5, DialKeepsTended DEF Closed
<1> QED BY <1>2, <1>3, <1>4

\* A retry beside a slow attempt begins with no row, or at the job's own.
LEMMA BesideKeepsTended ==
    ASSUME Typed, Ownership, Tended, NEW d \in Dials, NEW e \in Dials, RetriedBeside(d, e)
    PROVE  Tended'
<1>1. /\ dial[e].pc = "idle" /\ \A x \in Dials \ {e} : dial'[x] = dial[x]
      /\ dial'[e].pc \in {"again", "queued"} /\ UNCHANGED <<row, stranded>>
  BY BesideMoves DEF Typed, histVars
<1>2. dial[e].row = NoRow
  BY <1>1 DEF Ownership, Flow, FlowOf
<1>3. PendingRows' = PendingRows /\ NoRow \notin PendingRows
  BY <1>1, SentinelAssumption DEF PendingRows
<1> QED BY <1>1, <1>2, <1>3, DialKeepsTended DEF Closed

\* Every step leaves the rows tended.
LEMMA TendedStep == Typed /\ Ownership /\ Tended /\ [Next]_vars => Tended'
<1> SUFFICES ASSUME Typed, Ownership, Tended, [Next]_vars PROVE Tended'
  OBVIOUS
<1>1. ASSUME NEW d \in Dials, Begin(d) \/ DialStep(d) \/ DialFails(d) PROVE Tended'
  BY <1>1, MovesKeepTended, BeginKeepsTended, CreateKeepsTended, PlacingKeepsTended DEF DialStep, Moves
<1>2. ASSUME NEW l \in Legs, Answer(l) \/ LegEnds(l) \/ LegStep(l) \/ CallbackLost(l) \/ SessionEnds(l)
      PROVE  Tended'
  BY <1>2, LegsLeaveOwnership, QuietKeepsTended
<1>3. CASE (\E r \in Rows : JumpChecks(r)) \/ OperatorStep \/ OptOut \/ UNCHANGED vars
  BY <1>3, WorldLeavesOwnership, QuietKeepsTended
<1>4. ASSUME NEW d \in Dials, NEW e \in Dials, RetriedBeside(d, e) PROVE Tended'
  BY <1>4, BesideKeepsTended
<1> QED BY <1>1, <1>2, <1>3, <1>4 DEF Next

\* There are no rows at first.
LEMMA TendedInit == Init => Tended
BY DEF Init, Tended, Reported, NoPhantomCall, PendingRows, FreeRow

\* A queued call that never rang has a dial at work on it, unless its dial gave
\* up half way.
THEOREM NoPhantomHolds == Spec => []NoPhantomCall
<1>1. Init => Typed /\ Ownership /\ Tended
  BY TypeInit, OwnershipInit, TendedInit
<1>2. Typed /\ Ownership /\ Tended /\ [Next]_vars => (Typed /\ Ownership /\ Tended)'
  BY TypeStep, OwnershipStep, TendedStep
<1>3. Tended => NoPhantomCall
  BY DEF Tended
<1> QED BY <1>1, <1>2, <1>3, PTL DEF Spec

-----------------------------------------------------------------------------
(* The attempts.  While nobody passed the rails beside another, no sid was    *)
(* lost and no retry ran beside a slow attempt, the rung legs are within the  *)
(* cap, with room for who is past the rails.                                  *)

Rails ==
    /\ \A d, e \in PastRails : d = e
    /\ IsFiniteSet(Rung) /\ Cardinality(Rung) <= MaxAttempts
    /\ \A d \in Dials : dial[d].pc \in {"create", "place"} => Cardinality(Rung) < MaxAttempts
AttemptInv == overtaken = {} /\ unsaved = {} /\ slow = {} => Rails

\* Where every leg is known to its row, the rails count every leg that rang.
LEMMA RungCounted ==
    ASSUME Typed, Ownership, unsaved = {}, slow = {}, \A d \in Dials : dial[d].pc # "save"
    PROVE  IsFiniteSet(Rung) /\ Cardinality(Rung) \in Nat /\ Attempts \in Nat
           /\ Cardinality(Rung) <= Attempts
<1> DEFINE Sids == {r \in Rows : row[r].sid # NoLeg}
           f == [l \in Rung |-> leg[l].row]
<1>1. IsFiniteSet(Sids) /\ Attempts = Cardinality(Sids)
  <2>1. Sids \subseteq Rows
    OBVIOUS
  <2> QED BY <2>1, SentinelAssumption, FS_Subset DEF Attempts
<1>2. ASSUME NEW l \in Rung PROVE leg[l].row \in Sids /\ row[leg[l].row].sid = l
  <2>1. leg[l].row \in Rows /\ row[leg[l].row].sid = l
    BY <1>2 DEF Typed, LegT, Dialled, Rung, Ownership, Known, KnownLeg, Twice
  <2> QED BY <2>1, SentinelAssumption DEF Rung
<1>3. f \in Injection(Rung, Sids)
  <2> HIDE DEF Sids
  <2>1. f \in [Rung -> Sids]
    BY <1>2
  <2>2. \A l, m \in Rung : f[l] = f[m] => l = m
    BY <1>2
  <2> QED BY <2>1, <2>2 DEF Injection, IsInjective
<1> HIDE DEF Sids, f
<1>4. IsFiniteSet(Rung) /\ Cardinality(Rung) <= Cardinality(Sids)
  BY <1>1, <1>3, FS_Injection
<1> QED BY <1>1, <1>4, FS_CardinalityType

\* A step that rings nobody and lets nobody past the rails keeps the room.
LEMMA RailsQuiet ==
    ASSUME AttemptInv, overtaken \subseteq overtaken', unsaved \subseteq unsaved', slow \subseteq slow',
           PastRails' \subseteq PastRails, Rung' = Rung,
           \A d \in Dials : dial'[d].pc \in {"create", "place"} => dial[d].pc \in {"create", "place"}
    PROVE  AttemptInv'
<1> SUFFICES ASSUME overtaken' = {}, unsaved' = {}, slow' = {} PROVE Rails'
  BY DEF AttemptInv
<1>1. Rails
  BY DEF AttemptInv
<1> QED BY <1>1 DEF Rails

\* What the other moves of a dial do to the rails.
LEMMA LeavesRails ==
    ASSUME Typed, NEW d \in Dials,
           \/ Begin(d) \/ Refused(d) \/ Promise(d) \/ Enqueue(d) \/ Fire(d) \/ FirePutOff(d)
           \/ FireRefused(d) \/ Save(d) \/ Report(d) \/ CreateQueued(d) \/ DialFails(d)
    PROVE  /\ dial'[d].pc \notin {"create", "place", "save"}
           /\ \A e \in Dials \ {d} : dial'[e] = dial[e]
           /\ UNCHANGED <<leg, overtaken, slow>> /\ unsaved \subseteq unsaved'
<1> USE DEF Typed
<1>1. UNCHANGED <<leg, overtaken, slow>> /\ unsaved \subseteq unsaved'
  BY DEF Begin, Refused, Promise, Enqueue, Fire, FirePutOff, FireRefused, Save, Report, CreateQueued,
     DialFails, histVars
<1>2. ASSUME ~Begin(d)
      PROVE  \E pc \in {"again", "queued", "failed", "enqueue", "done", "gate", "refused", "promise", "fire", "report"} :
                \E r : r.pc = pc /\ dial' = [dial EXCEPT ![d] = r]
  <2> DEFINE Away == {"again", "queued", "failed", "enqueue", "done", "gate", "refused", "promise", "fire", "report"}
  <2>1. dial[d] \in DialRecord
    BY DEF DialT, Placed
  <2>2. CASE Refused(d) \/ Promise(d) \/ Fire(d) \/ FirePutOff(d) \/ FireRefused(d) \/ Save(d) \/ Report(d)
    <3>1. PICK pc \in Away : Goto(d, pc)
      BY <2>2 DEF Refused, Promise, Fire, FirePutOff, FireRefused, Save, Report
    <3>2. dial' = [dial EXCEPT ![d] = [dial[d] EXCEPT !.pc = pc]] /\ [dial[d] EXCEPT !.pc = pc].pc = pc
      BY <2>1, <3>1 DEF Goto, DialRecord
    <3> QED BY <3>2
  <2>3. CASE Enqueue(d)
    <3>1. /\ dial' = [dial EXCEPT ![d] = [dial[d] EXCEPT !.pc = "queued", !.job = TRUE]]
          /\ [dial[d] EXCEPT !.pc = "queued", !.job = TRUE].pc = "queued"
      BY <2>1, <2>3 DEF Enqueue, DialRecord
    <3> QED BY <3>1
  <2>4. CASE CreateQueued(d)
    <3>1. PICK r : dial' = [dial EXCEPT ![d].pc = "enqueue", ![d].row = r]
      BY <2>4 DEF CreateQueued, NewRow
    <3>2. /\ dial' = [dial EXCEPT ![d] = [dial[d] EXCEPT !.pc = "enqueue", !.row = r]]
          /\ [dial[d] EXCEPT !.pc = "enqueue", !.row = r].pc = "enqueue"
      BY <2>1, <3>1 DEF DialRecord
    <3> QED BY <3>2
  <2>5. CASE DialFails(d)
    <3>1. PICK pc \in {"again", "queued", "failed"} : dial' = [dial EXCEPT ![d].pc = pc, ![d].leg = NoLeg]
      BY <2>5 DEF DialFails, Retries
    <3>2. /\ dial' = [dial EXCEPT ![d] = [dial[d] EXCEPT !.pc = pc, !.leg = NoLeg]]
          /\ [dial[d] EXCEPT !.pc = pc, !.leg = NoLeg].pc = pc
      BY <2>1, <3>1 DEF DialRecord
    <3> QED BY <3>2
  <2> QED BY <1>2, <2>2, <2>3, <2>4, <2>5
<1>3. dial'[d].pc \notin {"create", "place", "save"} /\ \A e \in Dials \ {d} : dial'[e] = dial[e]
  BY <1>2, BeginMoves DEF DialT
<1> QED BY <1>1, <1>3

\* Whoever clears the rails alone finds every leg counted.
LEMMA ClearedKeepsRoom ==
    ASSUME Typed, Ownership, AttemptInv, NEW d \in Dials, Cleared(d) \/ FireCleared(d)
    PROVE  AttemptInv'
<1> SUFFICES ASSUME overtaken' = {}, unsaved' = {}, slow' = {} PROVE Rails'
  BY DEF AttemptInv
<1>1. /\ PastRails \ {d} = {} /\ unsaved = {} /\ slow = {} /\ Attempts < MaxAttempts /\ UNCHANGED leg
      /\ dial[d].pc \in {"gate", "fire"}
  <2>1. overtaken' = IF PastRails \ {d} # {} THEN overtaken \union {d} ELSE overtaken
    BY DEF Cleared, FireCleared
  <2>2. PastRails \ {d} = {}
    BY <2>1
  <2> QED BY <2>2 DEF Cleared, FireCleared, FireRails, RailsClear, At, histVars
<1>2. \A e \in Dials : dial[e].pc # "save"
  BY <1>1 DEF PastRails
<1>3. IsFiniteSet(Rung) /\ Cardinality(Rung) < MaxAttempts /\ Cardinality(Rung) \in Nat
  BY <1>1, <1>2, RungCounted, BoundAssumption
<1>4. Rung' = Rung
  BY <1>1 DEF Rung
<1>5. \A e \in Dials \ {d} : dial'[e] = dial[e]
  <2>1. CASE Cleared(d)
    BY <2>1 DEF Cleared, Goto, Typed, DialT
  <2>2. CASE FireCleared(d)
    BY <2>2 DEF FireCleared, Goto, Typed, DialT
  <2> QED BY <2>1, <2>2
<1>6. PastRails' \subseteq {d}
  BY <1>1, <1>5 DEF PastRails
<1> QED BY <1>3, <1>4, <1>6, BoundAssumption DEF Rails

\* A dial that makes its row and rings takes the room it was given.
LEMMA RingingKeepsRoom ==
    ASSUME Typed, AttemptInv, NEW d \in Dials, Create(d) \/ Place(d)
    PROVE  AttemptInv'
<1> SUFFICES ASSUME overtaken' = {}, unsaved' = {}, slow' = {} PROVE Rails'
  BY DEF AttemptInv
<1>1. UNCHANGED <<overtaken, unsaved, slow>> /\ dial[d].pc \in {"create", "place"}
  BY DEF Create, Place, At, histVars
<1>2. Rails /\ d \in PastRails
  BY <1>1 DEF AttemptInv, PastRails
<1>3. /\ IsFiniteSet(Rung) /\ Cardinality(Rung) < MaxAttempts /\ Cardinality(Rung) \in Nat
      /\ \A e \in Dials \ {d} : dial[e].pc \notin {"create", "place", "save"}
  BY <1>1, <1>2, FS_CardinalityType DEF Rails, PastRails
<1>4. dial[d] \in DialRecord
  BY DEF Typed, DialT, Placed
<1>5. CASE Create(d)
  <2>1. Rung' = Rung
    BY <1>5 DEF Create, Rung
  <2>2. \E r : dial' = [dial EXCEPT ![d].pc = "place", ![d].row = r]
    BY <1>5 DEF Create, NewRow
  <2>3. \A e \in Dials \ {d} : dial'[e] = dial[e]
    BY <2>2 DEF Typed, DialT
  <2>4. PastRails' \subseteq {d}
    BY <1>3, <2>3 DEF PastRails
  <2> QED BY <1>3, <2>1, <2>4, BoundAssumption DEF Rails
<1>6. CASE Place(d)
  <2> DEFINE l == CHOOSE l \in Legs : leg[l].state = "free"
  <2>1. /\ l \in Legs
        /\ leg' = [leg EXCEPT ![l] = [state |-> "ringing", row |-> dial[d].row, result |-> "none"]]
        /\ dial' = [dial EXCEPT ![d].pc = "save", ![d].leg = l]
    BY <1>6 DEF Place
  <2> HIDE DEF l
  <2>2. dial'[d].pc = "save" /\ \A e \in Dials \ {d} : dial'[e] = dial[e]
    BY <1>4, <2>1 DEF Typed, DialT, DialRecord
  <2>3. PastRails' \subseteq {d} /\ \A e \in Dials : dial'[e].pc \notin {"create", "place"}
    BY <1>3, <2>2 DEF PastRails
  <2>4. Rung' = Rung \union {l}
    BY <2>1 DEF Rung, Typed, LegT
  <2>5. IsFiniteSet(Rung \union {l}) /\ Cardinality(Rung \union {l}) <= Cardinality(Rung) + 1
    BY <1>3, FS_AddElement
  <2>6. Cardinality(Rung \union {l}) \in Nat
    BY <2>5, FS_CardinalityType
  <2>7. Cardinality(Rung \union {l}) <= MaxAttempts
    BY <1>3, <2>5, <2>6, BoundAssumption
  <2> QED BY <2>3, <2>4, <2>5, <2>7 DEF Rails
<1> QED BY <1>5, <1>6

\* Every step keeps the room.
LEMMA AttemptStep == Typed /\ Ownership /\ AttemptInv /\ [Next]_vars => AttemptInv'
<1> SUFFICES ASSUME Typed, Ownership, AttemptInv, [Next]_vars PROVE AttemptInv'
  OBVIOUS
<1>1. ASSUME NEW d \in Dials, Begin(d) \/ DialStep(d) \/ DialFails(d) PROVE AttemptInv'
  <2>1. CASE Cleared(d) \/ FireCleared(d) \/ Create(d) \/ Place(d)
    BY <2>1, ClearedKeepsRoom, RingingKeepsRoom
  <2>2. CASE ~(Cleared(d) \/ FireCleared(d) \/ Create(d) \/ Place(d))
    <3>1. /\ dial'[d].pc \notin {"create", "place", "save"}
          /\ \A e \in Dials \ {d} : dial'[e] = dial[e]
          /\ UNCHANGED <<leg, overtaken, slow>> /\ unsaved \subseteq unsaved'
      BY <1>1, <2>2, LeavesRails DEF DialStep
    <3>2. PastRails' \subseteq PastRails /\ Rung' = Rung
      BY <3>1 DEF PastRails, Rung
    <3> QED BY <3>1, <3>2, RailsQuiet
  <2> QED BY <2>1, <2>2
<1>2. ASSUME UNCHANGED <<dial, unsaved, slow>>, overtaken \subseteq overtaken',
             \A l \in Legs : leg'[l].state = "free" <=> leg[l].state = "free"
      PROVE  AttemptInv'
  <2>1. PastRails' = PastRails /\ Rung' = Rung
    BY <1>2 DEF PastRails, Rung
  <2> QED BY <1>2, <2>1, RailsQuiet
<1>3. ASSUME NEW l \in Legs, Answer(l) \/ LegEnds(l) \/ LegStep(l) \/ CallbackLost(l) \/ SessionEnds(l)
      PROVE  AttemptInv'
  <2>1. UNCHANGED <<dial, unsaved, slow, overtaken>>
    BY <1>3 DEF Answer, LegEnds, LegStep, CallbackLost, SessionEnds, CallbackReads, CallbackWrites,
       SessionLoads, StartWrites, FinalizeReads, FinalizeWrites, Ends, histVars
  <2> QED BY <1>2, <1>3, <2>1, LegsLeaveOwnership DEF LegsQuiet
<1>4. CASE (\E r \in Rows : JumpChecks(r)) \/ OperatorStep \/ OptOut \/ UNCHANGED vars
  <2>1. UNCHANGED <<dial, unsaved, slow>> /\ overtaken \subseteq overtaken'
    BY <1>4 DEF JumpChecks, OperatorStep, JumpMarks, JumpRedirects, OptOut, vars, histVars
  <2> QED BY <1>2, <1>4, <2>1, WorldLeavesOwnership DEF LegsQuiet
<1>5. ASSUME NEW d \in Dials, NEW e \in Dials, RetriedBeside(d, e) PROVE AttemptInv'
  <2>1. slow' # {}
    BY <1>5, BesideMoves DEF Typed
  <2> QED BY <2>1 DEF AttemptInv
<1> QED BY <1>1, <1>3, <1>4, <1>5 DEF Next

\* The lifetime cap of calls that rang holds, unless dials passed the rails side
\* by side, a sid was lost on its way into the row or a retry ran beside a slow
\* attempt.
THEOREM AttemptsKept == Spec => []AttemptsHold
<1>1. Init => Typed /\ Ownership /\ AttemptInv
  <2> SUFFICES ASSUME Init PROVE AttemptInv
    BY TypeInit, OwnershipInit
  <2>1. Rung = {} /\ PastRails = {} /\ \A d \in Dials : dial[d].pc = "idle"
    BY DEF Init, Rung, PastRails
  <2> QED BY <2>1, FS_EmptySet, BoundAssumption DEF AttemptInv, Rails
<1>2. Typed /\ Ownership /\ AttemptInv /\ [Next]_vars => (Typed /\ Ownership /\ AttemptInv)'
  BY TypeStep, OwnershipStep, AttemptStep
<1>3. AttemptInv => AttemptsHold
  <2> SUFFICES ASSUME AttemptInv, overtaken = {}, unsaved = {}, slow = {} PROVE ~(Cardinality(Rung) > MaxAttempts)
    BY DEF AttemptsHold
  <2>1. Cardinality(Rung) <= MaxAttempts /\ Cardinality(Rung) \in Nat
    BY FS_CardinalityType DEF AttemptInv, Rails
  <2> QED BY <2>1, BoundAssumption
<1> QED BY <1>1, <1>2, <1>3, PTL DEF Spec

-----------------------------------------------------------------------------
(* The rows and their legs.  A row's sid is its leg; what the provider's      *)
(* callback, the voice session and the operator may do to the row follows     *)
(* from how far the leg has come.  A row worked at twice may know another leg.*)

SidOwned ==
    /\ \A r \in Rows : row[r].sid # NoLeg => /\ leg[row[r].sid].state # "free"
                                             /\ leg[row[r].sid].row = r
    /\ \A d \in Dials : dial[d].pc = "save" => /\ leg[dial[d].leg].state # "free"
                                               /\ leg[dial[d].leg].row = dial[d].row
    /\ \A l \in unsaved : leg[l].state # "free"

ProgressOf(l) ==
    /\ callback[l] # "none" => leg[l].state = "ended"
    /\ leg[l].state = "ended" => leg[l].result # "none"
    /\ session[l] \in {"starting", "live"} => leg[l].state = "up"
    /\ session[l] # "off" => leg[l].state \in {"up", "room", "ended"}
    /\ callback[l] = "write" => row[leg[l].row].sid = l \/ Twice(leg[l].row)
Progress == \A l \in Legs : ProgressOf(l)

(* A callback that is through has written the outcome, found one, or found no *)
(* row.                                                                       *)
CalledBack == \A l \in Legs :
    callback[l] = "done" => row[leg[l].row].outcome # "none" \/ leg[l].row \in early

(* Each of the three publishes for a row once, and the refusal only for a row *)
(* that never rings.                                                          *)
Ender(r, who) == IF who \in enders[r] THEN 1 ELSE 0
LegsOf(r) == {l \in Legs : leg[l].row = r}
ToldOf(r) ==
    /\ endings[r] = Ender(r, "webhook") + Ender(r, "session") + Ender(r, "refusal")
    /\ "webhook" \in enders[r] => LegsOf(r) # {} /\ \A l \in LegsOf(r) : callback[l] = "done"
    /\ "session" \in enders[r] => LegsOf(r) # {} /\ \A l \in LegsOf(r) : session[l] = "gone"
    /\ "refusal" \in enders[r] => /\ LegsOf(r) = {} /\ row[r].status # "none" /\ ~row[r].step
                                  /\ \A d \in Dials : dial[d].row = r => dial[d].pc = "refused"
Told == \A r \in Rows \ Astray : ToldOf(r)
OutcomeTold == \A r \in Rows : row[r].outcome # "none" => enders[r] # {}

(* A takeover's mark is on a row with a leg, and a row closed under it is     *)
(* marked or was closed by its leg's callback; the operator has a leg of it.  *)
Taken(r) == row[r].taken \/ r \in crossed \/ Twice(r)
Held == /\ row[operator.row].sid # NoLeg /\ operator.leg \in Legs
        /\ leg[operator.leg].state # "free" /\ leg[operator.leg].row = operator.row
Marked ==
    /\ \A r \in Rows : row[r].taken => row[r].sid # NoLeg
    /\ \A r \in Rows : row[r].taken /\ row[r].outcome # "none" =>
           r \in crossed \/ Twice(r) \/ callback[row[r].sid] = "done"
    /\ \A l \in Legs : saw[l] => leg[l].state # "free" /\ row[leg[l].row].sid # NoLeg
    /\ operator.pc \in {"mark", "redirect"} => Held
    /\ operator.pc = "redirect" => Taken(operator.row)
    /\ \A l \in Legs : leg[l].state = "room" => Taken(leg[l].row)

CallInv == /\ Typed /\ Ownership /\ SidOwned /\ Progress /\ CalledBack
           /\ Told /\ OutcomeTold /\ Marked /\ EndedIsNotLive

\* Rows go astray and stay so.
LEMMA AstrayGrows ==
    ASSUME Steady, unsaved \subseteq unsaved', \A l \in unsaved : leg'[l].row = leg[l].row
    PROVE  Astray \subseteq Astray' /\ \A r \in Rows : Twice(r) => Twice(r)'
<1>1. \A r \in Rows : Twice(r) => Twice(r)'
  BY SteadyKeeps
<1>2. RangUnsaved \subseteq RangUnsaved'
  BY DEF RangUnsaved
<1> QED BY <1>1, <1>2 DEF Astray, TwiceRows

\* A step that leaves dials and rows their places leads none astray.
LEMMA QuietAstray ==
    ASSUME Typed, RowsQuiet, LegsQuiet, UNCHANGED <<dial, unsaved, slow>>
    PROVE  Astray' = Astray /\ \A r \in Rows : Twice(r)' <=> Twice(r)
<1>1. \A d \in slow : IsStep(d)' <=> IsStep(d)
  BY DEF IsStep
<1>2. \A r \in Rows : Twice(r)' <=> Twice(r)
  BY <1>1 DEF Twice, RowsQuiet
<1>3. RangUnsaved' = RangUnsaved
  <2>1. \A l \in unsaved : leg'[l].row = leg[l].row
    BY DEF Typed, MarksT, LegsQuiet
  <2> QED BY <2>1 DEF RangUnsaved
<1> QED BY <1>2, <1>3 DEF Astray, TwiceRows

\* A dial's step that rings nobody, saves nothing and refuses nothing.
Calm(d) ==
    /\ Steady
    /\ \A e \in Dials \ {d} : dial'[e] = dial[e]
    /\ dial'[d].pc # "save" /\ dial[d].pc # "refused"
    /\ \A r \in Rows : dial'[d].row = r => dial[d].row = r \/ row[r].step \/ row[r].status = "none" \/ Twice(r)'
    /\ \A r \in Rows :
          /\ row'[r].sid = row[r].sid /\ row'[r].outcome = row[r].outcome
          /\ row'[r].taken => row[r].taken
          /\ row[r].taken => row'[r].taken \/ Twice(r)
          /\ row[r].status # "none" => row'[r].status # "none" /\ (row'[r].step <=> row[r].step)
          /\ row'[r].status = "IN_PROGRESS" => row[r].status = "IN_PROGRESS"
    /\ UNCHANGED <<leg, callback, session, saw, operator, endings, enders, early, crossed, lateStart>>
    /\ unsaved \subseteq unsaved' /\ \A l \in unsaved' \ unsaved : leg[l].state # "free"

\* A step that leaves the rows alone need only be calm in its dial.
LEMMA CalmDial ==
    ASSUME NEW d \in Dials, UNCHANGED row, slow \subseteq slow',
           \A e \in slow : (dial'[e].job <=> dial[e].job) /\ (~IsStep(e) => dial'[e].row = dial[e].row),
           \A e \in Dials \ {d} : dial'[e] = dial[e],
           dial'[d].pc # "save", dial[d].pc # "refused",
           \A r \in Rows : dial'[d].row = r => dial[d].row = r \/ row[r].step \/ row[r].status = "none" \/ Twice(r)',
           UNCHANGED <<leg, callback, session, saw, operator, endings, enders, early, crossed, lateStart>>,
           unsaved \subseteq unsaved', \A l \in unsaved' \ unsaved : leg[l].state # "free"
    PROVE  Calm(d)
BY DEF Calm, Steady

\* Most moves of a dial are calm.
LEMMA CalmMoves ==
    ASSUME CallInv, NEW d \in Dials, Moves(d), ~FireRefused(d)
    PROVE  Calm(d)
<1> USE DEF CallInv
<1>1. /\ UNCHANGED slow /\ dial'[d].pc # "save" /\ dial'[d].row = dial[d].row
      /\ \A e \in Dials \ {d} : dial'[e] = dial[e]
      /\ (dial'[d].job <=> dial[d].job) \/ (KindOf[d] = "best" /\ d \notin slow)
  BY MovesGoOn
<1>2. UNCHANGED <<leg, callback, session, saw, operator, endings, enders, early, unsaved, crossed, lateStart>>
  BY DEF Moves, Refused, Cleared, Promise, Enqueue, Fire, FireCleared, FirePutOff, Report, histVars
<1>3. dial[d].pc # "refused"
  BY DEF Moves, Refused, Cleared, Promise, Enqueue, Fire, FireCleared, FirePutOff, Report, At
<1>4. \A e \in slow : e \in Dials /\ (dial'[e].job <=> dial[e].job) /\ dial'[e].row = dial[e].row
  BY <1>1 DEF Typed, WorldT
<1>5. CASE UNCHANGED row
  BY <1>1, <1>2, <1>3, <1>4, <1>5, CalmDial
<1>6. CASE FirePutOff(d)
  <2>1. PICK r \in Rows : r = dial[d].row /\ row' = [row EXCEPT ![r].taken = FALSE] /\ dial[d].pc = "fire"
    BY <1>6 DEF FirePutOff, At, Typed, DialT, Placed, WithRow
  <2>2. /\ ~row'[r].taken /\ row'[r].sid = row[r].sid /\ row'[r].outcome = row[r].outcome
        /\ row'[r].status = row[r].status /\ (row'[r].step <=> row[r].step)
        /\ \A q \in Rows : q # r => row'[q] = row[q]
    BY <2>1 DEF Typed, RowT, RowRecord
  <2>3. row[r].taken => Twice(r)
    BY <2>1 DEF Ownership, Unrung, UnrungBy, Marked
  <2>4. ASSUME NEW q \in Rows
        PROVE  /\ row'[q].sid = row[q].sid /\ row'[q].outcome = row[q].outcome
               /\ row'[q].taken => row[q].taken
               /\ row[q].taken => row'[q].taken \/ Twice(q)
               /\ row'[q].status = row[q].status /\ (row'[q].step <=> row[q].step)
    <3>1. CASE q = r
      BY <2>2, <2>3, <3>1
    <3>2. CASE q # r
      BY <2>2, <3>2
    <3> QED BY <3>1, <3>2
  <2>5. Steady
    BY <1>1, <1>4, <2>4 DEF Steady
  <2> QED BY <1>1, <1>2, <1>3, <2>4, <2>5 DEF Calm
<1> QED BY <1>5, <1>6 DEF Moves, Refused, Cleared, Promise, Enqueue, Fire, FireCleared, Report

\* So are a beginning, a new row, a failure and a retry's start.
LEMMA CalmRows ==
    ASSUME CallInv, NEW d \in Dials, Begin(d) \/ CreateQueued(d) \/ Create(d) \/ DialFails(d)
    PROVE  Calm(d)
<1> USE DEF CallInv
<1>1. dial[d] \in DialRecord /\ FlowOf(d) /\ slow \subseteq Dials
  BY DEF Typed, DialT, Placed, WorldT, Ownership, Flow
<1>2. CASE Begin(d)
  <2>1. /\ dial[d].pc \in {"idle", "again"} /\ \A e \in Dials \ {d} : dial'[e] = dial[e]
        /\ dial'[d].pc \in {"done", "gate"}
        /\ dial'[d].row \in Found \/ dial'[d].row = dial[d].row
        /\ UNCHANGED <<row, slow, leg, callback, session, saw, operator, endings, enders, early, unsaved, crossed,
                       lateStart>>
    BY <1>2, BeginMoves DEF Typed
  <2>2. d \notin slow /\ \A r \in Rows : dial'[d].row = r => dial[d].row = r \/ row[r].step
    BY <1>1, <2>1, SentinelAssumption DEF FlowOf, Found, StepRows
  <2>3. \A e \in slow : dial'[e] = dial[e]
    BY <1>1, <2>1, <2>2
  <2> QED BY <2>1, <2>2, <2>3, CalmDial
<1>3. CASE CreateQueued(d) \/ Create(d)
  <2>1. PICK next \in {"enqueue", "place"} :
            /\ NewRow(d, next) /\ dial[d].pc \in {"create", "promise"}
            /\ UNCHANGED <<slow, leg, callback, session, saw, operator, endings, enders, early, unsaved, crossed,
                           lateStart>>
    BY <1>3 DEF CreateQueued, Create, At, histVars
  <2>2. PICK r \in Rows :
        /\ row[r].status = "none"
        /\ row' = [row EXCEPT ![r] = [row[r] EXCEPT !.status = "QUEUED", !.step = IsStep(d)]]
        /\ dial' = [dial EXCEPT ![d] = [dial[d] EXCEPT !.pc = next, !.row = r]]
    BY <2>1 DEF NewRow
  <2>3. /\ dial'[d].pc = next /\ dial'[d].row = r /\ (dial'[d].job <=> dial[d].job)
        /\ \A e \in Dials \ {d} : dial'[e] = dial[e]
    BY <1>1, <2>2 DEF Typed, DialT, DialRecord
  <2>4. /\ row'[r].sid = row[r].sid /\ row'[r].outcome = row[r].outcome /\ (row'[r].taken <=> row[r].taken)
        /\ row'[r].status = "QUEUED" /\ \A s \in Rows : s # r => row'[s] = row[s]
    BY <2>2 DEF Typed, RowT, RowRecord
  <2>5. \A s \in Rows :
          /\ row'[s].sid = row[s].sid /\ row'[s].outcome = row[s].outcome /\ (row'[s].taken <=> row[s].taken)
          /\ row[s].status # "none" => row'[s].status # "none" /\ (row'[s].step <=> row[s].step)
          /\ row'[s].status = "IN_PROGRESS" => row[s].status = "IN_PROGRESS"
    BY <2>2, <2>4
  <2>6. Steady
    <3>1. ~row[r].step /\ (d \in slow => IsStep(d))
      BY <1>1, <2>1, <2>2 DEF Ownership, Fresh, FlowOf, JobPcs
    <3>2. \A s \in Rows : row[s].step => row'[s].step
      BY <2>4, <3>1
    <3> QED BY <1>1, <2>1, <2>3, <3>1, <3>2 DEF Steady
  <2> QED BY <2>1, <2>2, <2>3, <2>5, <2>6 DEF Calm
<1>4. CASE DialFails(d)
  <2>1. PICK next \in {"again", "queued", "failed"} : dial' = [dial EXCEPT ![d].pc = next, ![d].leg = NoLeg]
    BY <1>4 DEF DialFails, Retries
  <2>2. /\ UNCHANGED <<row, slow, leg, callback, session, saw, operator, endings, enders, early, crossed, lateStart>>
        /\ dial[d].pc # "refused"
        /\ unsaved' = IF dial[d].pc = "save" THEN unsaved \union {dial[d].leg} ELSE unsaved
    BY <1>4 DEF DialFails, At
  <2>3. /\ dial'[d].pc = next /\ dial'[d].row = dial[d].row /\ (dial'[d].job <=> dial[d].job)
        /\ \A e \in Dials \ {d} : dial'[e] = dial[e]
    BY <1>1, <2>1 DEF Typed, DialT, DialRecord
  <2>4. unsaved \subseteq unsaved' /\ \A l \in unsaved' \ unsaved : leg[l].state # "free"
    BY <2>2 DEF SidOwned
  <2>5. \A e \in slow : (dial'[e].job <=> dial[e].job) /\ dial'[e].row = dial[e].row
    BY <1>1, <2>3
  <2> QED BY <2>2, <2>3, <2>4, <2>5, CalmDial
<1> QED BY <1>2, <1>3, <1>4

LEMMA CalmBeside ==
    ASSUME CallInv, NEW d \in Dials, NEW e \in Dials, RetriedBeside(d, e)
    PROVE  Calm(e)
<1> USE DEF CallInv
<1>1. /\ KindOf[e] = "retry" /\ dial[e].pc = "idle" /\ d # e
      /\ \A x \in Dials \ {e} : dial'[x] = dial[x]
      /\ \/ IsStep(d) /\ dial'[e].pc = "again" /\ dial'[e].row = dial[e].row
         \/ ~IsStep(d) /\ dial'[e].pc = "queued" /\ dial'[e].row = dial[d].row
      /\ slow' = slow \union {d}
      /\ UNCHANGED <<row, leg, callback, session, starts, saw, operator, optedOut, histVars>>
  BY BesideMoves DEF Typed
<1>2. e \notin slow /\ slow \subseteq Dials
  BY <1>1 DEF Ownership, Flow, FlowOf, Typed, WorldT
<1>3. \A x \in slow : dial'[x] = dial[x]
  BY <1>1, <1>2
<1>4. \A r \in Rows : dial'[e].row = r => dial[e].row = r \/ Twice(r)'
  <2>1. IsStep(d)' <=> IsStep(d)
    BY <1>1 DEF IsStep
  <2> QED BY <1>1, <2>1 DEF Twice
<1> QED BY <1>1, <1>3, <1>4, CalmDial DEF histVars

\* A calm step keeps everything said of rows and legs.
LEMMA CalmKeeps ==
    ASSUME CallInv, NEW d \in Dials, Calm(d), Typed', Ownership'
    PROVE  CallInv'
<1> USE DEF CallInv
<1>1. \A l \in Legs : leg[l].state # "free" => leg[l].row \in Rows
  BY DEF Typed, LegT, Dialled
<1>2. Astray \subseteq Astray' /\ \A r \in Rows : Twice(r) => Twice(r)'
  BY AstrayGrows DEF Calm
<1>3. SidOwned'
  BY DEF SidOwned, Calm
<1>4. Progress'
  BY <1>1, <1>2 DEF Progress, ProgressOf, Calm, Typed, LegT
<1>5. CalledBack'
  BY <1>1 DEF CalledBack, Calm, Typed, LegT
<1>6. Told'
  <2> SUFFICES ASSUME NEW r \in Rows, r \notin Astray'
      PROVE  /\ endings[r] = Ender(r, "webhook") + Ender(r, "session") + Ender(r, "refusal")
             /\ "webhook" \in enders[r] => LegsOf(r) # {} /\ \A l \in LegsOf(r) : callback[l] = "done"
             /\ "session" \in enders[r] => LegsOf(r) # {} /\ \A l \in LegsOf(r) : session[l] = "gone"
             /\ "refusal" \in enders[r] => /\ LegsOf(r) = {} /\ row'[r].status # "none" /\ ~row'[r].step
                                           /\ \A e \in Dials : dial'[e].row = r => dial'[e].pc = "refused"
    BY DEF Calm, Told, ToldOf, Ender, LegsOf
  <2>1. r \in Rows \ Astray /\ ~Twice(r)'
    BY <1>2 DEF Astray, TwiceRows
  <2>2. ASSUME "refusal" \in enders[r]
        PROVE  /\ row'[r].status # "none" /\ ~row'[r].step
               /\ \A e \in Dials : dial'[e].row = r => dial'[e].pc = "refused"
    BY <2>1, <2>2 DEF Told, ToldOf, Calm
  <2> QED BY <2>1, <2>2 DEF Told, ToldOf
<1>7. OutcomeTold'
  BY DEF OutcomeTold, Calm
<1>8. EndedIsNotLive'
  BY <1>2 DEF EndedIsNotLive, Calm
<1>9. Marked'
  <2>1. \A r \in Rows : Taken(r) => Taken(r)'
    BY <1>2 DEF Taken, Calm
  <2>2. operator.pc \in {"mark", "redirect"} => operator.row \in Rows
    BY DEF Typed, RoomT
  <2>3. \A l \in Legs : leg[l].state = "room" => Taken(leg[l].row)'
    <3>1. leg' = leg
      BY DEF Calm
    <3> QED BY <1>1, <2>1, <3>1 DEF Marked, Taken
  <2>4. operator.pc = "redirect" => Taken(operator.row)'
    <3>1. operator' = operator
      BY DEF Calm
    <3> QED BY <2>1, <2>2, <3>1 DEF Marked, Taken
  <2>5. operator.pc \in {"mark", "redirect"} => Held'
    BY <2>2 DEF Marked, Held, Calm
  <2>6. \A l \in Legs : saw[l] => leg[l].state # "free" /\ row'[leg[l].row].sid # NoLeg
    BY <1>1 DEF Marked, Calm
  <2>7. \A r \in Rows : /\ row'[r].taken => row'[r].sid # NoLeg
                        /\ row'[r].taken /\ row'[r].outcome # "none" =>
                               r \in crossed \/ Twice(r)' \/ callback[row'[r].sid] = "done"
    BY <1>2 DEF Marked, Calm
  <2> QED BY <2>3, <2>4, <2>5, <2>6, <2>7 DEF Marked, Calm
<1> QED BY <1>3, <1>4, <1>5, <1>6, <1>7, <1>8, <1>9

\* A leg placed for a row that has not gone astray is its first.
LEMMA PlaceKeeps ==
    ASSUME CallInv, NEW d \in Dials, Place(d), Typed', Ownership'
    PROVE  CallInv'
<1> USE DEF CallInv
<1>0. PICK r \in Rows : r = dial[d].row
  BY DEF Place, At, Typed, DialT, Placed, WithRow
<1>1. PICK l \in Legs :
      /\ leg[l].state = "free" /\ dial[d].pc = "place"
      /\ leg' = [leg EXCEPT ![l] = [state |-> "ringing", row |-> r, result |-> "none"]]
      /\ dial' = [dial EXCEPT ![d].pc = "save", ![d].leg = l]
      /\ UNCHANGED <<slow, row, callback, session, starts, saw, operator, endings, enders, early, unsaved,
                     crossed, lateStart>>
  BY <1>0 DEF Place, At
<1>2. dial[d] \in DialRecord /\ dial[d].row = r
  BY <1>0 DEF Typed, DialT, Placed
<1>3. /\ dial'[d].pc = "save" /\ dial'[d].leg = l /\ dial'[d].row = r /\ (dial'[d].job <=> dial[d].job)
      /\ \A e \in Dials \ {d} : dial'[e] = dial[e]
  BY <1>1, <1>2 DEF Typed, DialT, DialRecord
<1>4. /\ leg'[l].state = "ringing" /\ leg'[l].row = r /\ \A m \in Legs \ {l} : leg'[m] = leg[m]
      /\ session[l] = "off" /\ callback[l] = "none" /\ leg[l].row = NoRow
  BY <1>1 DEF Typed, LegT, Dialled
<1>5. SidOwned' /\ Astray \subseteq Astray' /\ \A q \in Rows : Twice(q) => Twice(q)'
  <2>1. l \notin unsaved /\ \A m \in unsaved : m \in Legs
    BY <1>1 DEF SidOwned, Typed, MarksT
  <2>2. \A s \in Rows : row[s].sid # NoLeg => row[s].sid # l /\ row[s].sid \in Legs
    BY <1>1 DEF SidOwned, Typed, RowT, RowRecord
  <2>3. \A e \in Dials \ {d} : dial[e].pc = "save" => dial[e].leg # l /\ dial[e].leg \in Legs
    BY <1>1 DEF SidOwned, Typed, DialT, Placed
  <2>4. SidOwned'
    <3>1. \A s \in Rows : row[s].sid # NoLeg => leg'[row[s].sid].state # "free" /\ leg'[row[s].sid].row = s
      BY <1>4, <2>2 DEF SidOwned
    <3>2. ASSUME NEW e \in Dials, dial'[e].pc = "save"
          PROVE  leg'[dial'[e].leg].state # "free" /\ leg'[dial'[e].leg].row = dial'[e].row
      <4>1. CASE e = d
        BY <1>3, <1>4, <4>1
      <4>2. CASE e # d
        BY <1>3, <1>4, <2>3, <3>2, <4>2 DEF SidOwned
      <4> QED BY <4>1, <4>2
    <3>3. \A m \in unsaved : leg'[m].state # "free"
      BY <1>4, <2>1 DEF SidOwned
    <3>4. UNCHANGED <<row, unsaved>>
      BY <1>1
    <3> QED BY <3>1, <3>2, <3>3, <3>4 DEF SidOwned
  <2>5. Steady
    BY <1>1, <1>2, <1>3 DEF Steady, Typed, WorldT
  <2>6. unsaved' = unsaved /\ \A m \in unsaved : leg'[m].row = leg[m].row
    BY <1>1, <1>4, <2>1
  <2> QED BY <2>4, <2>5, <2>6, AstrayGrows
<1>5a. \A m \in Legs : leg[m].state # "free" => leg[m].row \in Rows
  BY DEF Typed, LegT, Dialled
<1>6. Progress'
  <2> SUFFICES ASSUME NEW m \in Legs PROVE ProgressOf(m)'
    BY DEF Progress
  <2>1. CASE m = l
    BY <1>1, <1>4, <2>1 DEF ProgressOf
  <2>2. CASE m # l
    BY <1>1, <1>4, <1>5, <1>5a, <2>2 DEF Progress, ProgressOf
  <2> QED BY <2>1, <2>2
<1>7. CalledBack'
  BY <1>1, <1>4 DEF CalledBack
<1>9. Told'
  <2> SUFFICES ASSUME NEW s \in Rows, s \notin Astray'
      PROVE  /\ endings[s] = Ender(s, "webhook") + Ender(s, "session") + Ender(s, "refusal")
             /\ "webhook" \in enders[s] => LegsOf(s)' # {} /\ \A m \in LegsOf(s)' : callback[m] = "done"
             /\ "session" \in enders[s] => LegsOf(s)' # {} /\ \A m \in LegsOf(s)' : session[m] = "gone"
             /\ "refusal" \in enders[s] => /\ LegsOf(s)' = {} /\ row[s].status # "none" /\ ~row[s].step
                                           /\ \A e \in Dials : dial'[e].row = s => dial'[e].pc = "refused"
    BY <1>1 DEF Told, ToldOf, Ender
  <2>0. s \in Rows \ Astray
    BY <1>5
  <2>1. CASE s = r
    <3>1. LegsOf(s) = {}
      <4> SUFFICES ASSUME NEW m \in Legs, leg[m].row = s PROVE FALSE
        BY DEF LegsOf
      <4>1. m # l /\ leg'[m].row = s /\ leg'[l].row = s /\ s # NoRow
        BY <1>4, <2>1, SentinelAssumption
      <4>2. RingsOnce'
        BY OwnershipImplies, PTL
      <4>3. {m, l} \intersect unsaved' # {} \/ s \in TwiceRows'
        BY <4>1, <4>2 DEF RingsOnce, SameCall, TwiceRows
      <4>4. s \in RangUnsaved' \/ s \in TwiceRows'
        BY <4>1, <4>3 DEF RangUnsaved
      <4> QED BY <4>4 DEF Astray
    <3>2. "webhook" \notin enders[s] /\ "session" \notin enders[s]
      BY <2>0, <3>1 DEF Told, ToldOf
    <3>3. "refusal" \notin enders[s]
      BY <1>1, <1>2, <2>0, <2>1 DEF Told, ToldOf
    <3> QED BY <2>0, <3>2, <3>3 DEF Told, ToldOf
  <2>2. CASE s # r
    <3>1. LegsOf(s)' = LegsOf(s)
      BY <1>2, <1>4, <2>2, SentinelAssumption DEF LegsOf
    <3>2. \A e \in Dials : dial'[e].row = s => dial'[e] = dial[e]
      BY <1>3, <2>2
    <3> QED BY <2>0, <3>1, <3>2 DEF Told, ToldOf
  <2> QED BY <2>1, <2>2
<1>10. OutcomeTold'
  BY <1>1 DEF OutcomeTold
<1>11. EndedIsNotLive'
  BY <1>1, <1>5 DEF EndedIsNotLive
<1>12. Marked'
  <2>1. \A s \in Rows : row[s].taken => row[s].sid # NoLeg
    BY DEF Marked
  <2>2. \A m \in Legs : leg'[m].state # "free" => (leg'[m].state = leg[m].state /\ leg'[m].row = leg[m].row) \/ m = l
    BY <1>4
  <2>3. ASSUME NEW m \in Legs, leg'[m].state = "room" PROVE Taken(leg[m].row)'
    <3>1. PICK q \in Rows : q = leg[m].row /\ leg'[m].row = q /\ leg[m].state = "room"
      BY <1>4, <1>5a, <2>2, <2>3
    <3>2. Taken(q)'
      BY <1>1, <1>5, <3>1 DEF Marked, Taken
    <3> QED BY <3>1, <3>2 DEF Taken, Twice
  <2>4. operator.pc \in {"mark", "redirect"} => operator.row \in Rows
    BY DEF Typed, RoomT
  <2>5. operator'.pc = "redirect" => Taken(operator.row)'
    BY <1>1, <1>5, <2>4 DEF Marked, Taken
  <2>6. operator'.pc \in {"mark", "redirect"} => Held'
    <3>1. operator.pc \in {"mark", "redirect"} => operator.leg # l
      BY <1>1 DEF Marked, Held
    <3> QED BY <1>1, <1>4, <3>1 DEF Marked, Held
  <2>7. \A m \in Legs : saw'[m] => leg'[m].state # "free" /\ row'[leg'[m].row].sid # NoLeg
    BY <1>1, <1>4 DEF Marked
  <2>8. \A s \in Rows : row'[s].taken /\ row'[s].outcome # "none" =>
             s \in crossed' \/ Twice(s)' \/ callback'[row'[s].sid] = "done"
    BY <1>1, <1>5 DEF Marked
  <2> QED BY <1>1, <2>1, <2>3, <2>5, <2>6, <2>7, <2>8 DEF Marked
<1> QED BY <1>5, <1>6, <1>7, <1>9, <1>10, <1>11, <1>12

\* A row's sid is set once, before anything came of its leg.
LEMMA SaveKeeps ==
    ASSUME CallInv, NEW d \in Dials, Save(d), Typed', Ownership'
    PROVE  CallInv'
<1> USE DEF CallInv
<1>1. PICK r \in Rows :
      /\ r = dial[d].row /\ dial[d] \in DialRecord /\ dial[d].pc = "save" /\ (row[r].sid = NoLeg \/ Twice(r))
      /\ dial[d].leg \in Legs /\ dial[d].leg # NoLeg
  BY SentinelAssumption DEF Save, At, Typed, DialT, Placed, WithRow, Ownership, Unrung, UnrungBy
<1>2. /\ row' = [row EXCEPT ![r].sid = dial[d].leg, ![r].taken = FALSE] /\ dial' = [dial EXCEPT ![d].pc = "report"]
      /\ UNCHANGED <<slow, leg, callback, session, starts, saw, operator, endings, enders, early, unsaved,
                     crossed, lateStart>>
  BY <1>1 DEF Save, Sid, Goto, histVars
<1>3. /\ dial'[d].pc = "report" /\ dial'[d].row = r /\ (dial'[d].job <=> dial[d].job)
      /\ \A e \in Dials \ {d} : dial'[e] = dial[e]
  BY <1>1, <1>2 DEF Typed, DialT, DialRecord
<1>4. /\ row'[r].sid = dial[d].leg /\ ~row'[r].taken /\ \A s \in Rows \ {r} : row'[s] = row[s]
      /\ \A s \in Rows : /\ row'[s].status = row[s].status /\ (row'[s].step <=> row[s].step)
                         /\ row'[s].outcome = row[s].outcome
  BY <1>1, <1>2 DEF Typed, RowT, RowRecord
<1>5. \A l \in Legs : leg[l].state # "free" => leg[l].row \in Rows
  BY DEF Typed, LegT, Dialled
<1>6. SidOwned' /\ Astray \subseteq Astray' /\ \A q \in Rows : Twice(q) => Twice(q)'
  <2>1. SidOwned'
    <3>1. ASSUME NEW s \in Rows, row'[s].sid # NoLeg
          PROVE  leg'[row'[s].sid].state # "free" /\ leg'[row'[s].sid].row = s
      <4>1. leg' = leg
        BY <1>2
      <4>2. CASE s = r
        BY <1>1, <1>4, <4>1, <4>2 DEF SidOwned
      <4>3. CASE s # r
        <5>1. row'[s] = row[s]
          BY <1>4, <4>3
        <5> QED BY <3>1, <4>1, <5>1 DEF SidOwned
      <4> QED BY <4>2, <4>3
    <3>2. ASSUME NEW e \in Dials, dial'[e].pc = "save"
          PROVE  leg'[dial'[e].leg].state # "free" /\ leg'[dial'[e].leg].row = dial'[e].row
      <4>1. e # d
        BY <1>3, <3>2
      <4>2. dial'[e] = dial[e]
        BY <1>3, <4>1
      <4> QED BY <1>2, <3>2, <4>2 DEF SidOwned
    <3>3. \A l \in unsaved' : leg'[l].state # "free"
      BY <1>2 DEF SidOwned
    <3> QED BY <3>1, <3>2, <3>3 DEF SidOwned
  <2>2. Steady
    BY <1>1, <1>2, <1>3, <1>4 DEF Steady, Typed, WorldT
  <2> QED BY <1>2, <2>1, <2>2, AstrayGrows
<1>7. Progress'
  <2>1. ASSUME NEW l \in Legs, callback'[l] = "write"
        PROVE  (row[leg[l].row].sid = l \/ Twice(leg[l].row))'
    <3>1. PICK q \in Rows : /\ q = leg[l].row /\ q = leg'[l].row /\ l # NoLeg
                            /\ row[q].sid = l \/ Twice(q)
      BY <1>2, <1>5, <2>1, SentinelAssumption DEF Progress, ProgressOf
    <3>2. row'[q].sid = l \/ Twice(q)'
      BY <1>1, <1>4, <1>6, <3>1
    <3> QED BY <3>1, <3>2 DEF Twice
  <2> QED BY <1>2, <2>1 DEF Progress, ProgressOf
<1>8. CalledBack'
  <2>1. \A l \in Legs : callback[l] = "done" => leg[l].row \in Rows
    BY <1>5 DEF Progress, ProgressOf
  <2> QED BY <1>2, <1>4, <2>1 DEF CalledBack
<1>10. Told'
  <2> SUFFICES ASSUME NEW s \in Rows, s \notin Astray'
      PROVE  /\ endings[s] = Ender(s, "webhook") + Ender(s, "session") + Ender(s, "refusal")
             /\ "webhook" \in enders[s] => LegsOf(s) # {} /\ \A m \in LegsOf(s) : callback[m] = "done"
             /\ "session" \in enders[s] => LegsOf(s) # {} /\ \A m \in LegsOf(s) : session[m] = "gone"
             /\ "refusal" \in enders[s] => /\ LegsOf(s) = {} /\ row'[s].status # "none" /\ ~row'[s].step
                                           /\ \A e \in Dials : dial'[e].row = s => dial'[e].pc = "refused"
    BY <1>2 DEF Told, ToldOf, Ender, LegsOf
  <2>0. s \in Rows \ Astray
    BY <1>6
  <2>1. "refusal" \in enders[s] => s # r
    BY <1>1, <2>0 DEF Told, ToldOf
  <2>2. \A e \in Dials : dial'[e].row = s /\ s # r => dial'[e] = dial[e]
    BY <1>3
  <2> QED BY <1>4, <2>0, <2>1, <2>2 DEF Told, ToldOf
<1>11. OutcomeTold'
  BY <1>2, <1>4 DEF OutcomeTold
<1>12. EndedIsNotLive'
  BY <1>2, <1>4, <1>6 DEF EndedIsNotLive
<1>13. Marked'
  <2>1. \A l \in Legs : saw[l] => leg[l].row \in Rows
    BY <1>5 DEF Marked
  <2>2. operator.pc \in {"mark", "redirect"} => operator.row \in Rows
    BY DEF Typed, RoomT
  <2>3. \A s \in Rows : row[s].sid # NoLeg => row'[s].sid # NoLeg
    BY <1>1, <1>4
  <2>4. /\ \A s \in Rows : row'[s].taken => row'[s].sid # NoLeg
        /\ \A s \in Rows : row'[s].taken /\ row'[s].outcome # "none"
                              => s \in crossed' \/ Twice(s)' \/ callback'[row'[s].sid] = "done"
    BY <1>2, <1>4, <1>6, <2>3 DEF Marked
  <2>5. ASSUME NEW s \in Rows, Taken(s) PROVE Taken(s)'
    <3>1. row[r].taken => Twice(r)
      BY <1>1 DEF Marked
    <3> QED BY <1>2, <1>4, <1>6, <2>5, <3>1 DEF Taken
  <2>6. ASSUME NEW l \in Legs, leg'[l].state = "room" PROVE Taken(leg[l].row)'
    <3>1. PICK q \in Rows : q = leg[l].row /\ q = leg'[l].row /\ leg[l].state = "room"
      BY <1>2, <1>5, <2>6
    <3>2. Taken(q)'
      BY <2>5, <3>1 DEF Marked, Taken
    <3> QED BY <3>1, <3>2 DEF Taken, Twice
  <2>7. operator'.pc = "redirect" => Taken(operator.row)'
    BY <1>2, <2>2, <2>5 DEF Marked, Taken
  <2>8. operator'.pc \in {"mark", "redirect"} => Held'
    BY <1>2, <2>2, <2>3 DEF Marked, Held
  <2>9. \A l \in Legs : saw'[l] => leg'[l].state # "free" /\ row'[leg'[l].row].sid # NoLeg
    BY <1>2, <2>1, <2>3 DEF Marked
  <2> QED BY <2>4, <2>6, <2>7, <2>8, <2>9 DEF Marked
<1> QED BY <1>6, <1>7, <1>8, <1>10, <1>11, <1>12, <1>13

\* A queued call that is refused never rang.
LEMMA RefusalKeeps ==
    ASSUME CallInv, NEW d \in Dials, FireRefused(d), Typed', Ownership'
    PROVE  CallInv'
<1> USE DEF CallInv
<1>1. PICK r \in Rows :
      /\ r = dial[d].row /\ r # NoRow /\ dial[d] \in DialRecord /\ dial[d].pc = "fire"
      /\ row[r].sid = NoLeg \/ Twice(r)
  BY SentinelAssumption DEF FireRefused, At, Typed, DialT, Placed, WithRow, Ownership, Unrung, UnrungBy
<1>2. /\ row' = [row EXCEPT ![r].status = "FAILED", ![r].outcome = "canceled", ![r].taken = FALSE]
      /\ Ends(r, "refusal") /\ dial' = [dial EXCEPT ![d].pc = "refused"]
      /\ UNCHANGED <<slow, leg, callback, session, starts, saw, operator, early, unsaved, crossed, lateStart>>
  BY <1>1 DEF FireRefused, Goto
<1>3. /\ dial'[d].pc = "refused" /\ dial'[d].row = r /\ (dial'[d].job <=> dial[d].job)
      /\ \A e \in Dials \ {d} : dial'[e] = dial[e] /\ (dial[e].row # r \/ Twice(r))
  BY <1>1, <1>2 DEF Typed, DialT, DialRecord, Ownership, Owned
<1>4. ~row[r].step /\ row[r].status # "none"
  <2>1. FlowOf(d) /\ OwnedBy(d)
    BY DEF Ownership, Flow, Owned
  <2> QED BY <1>1, <2>1 DEF FlowOf, OwnedBy, IsStep
<1>5. \A l \in Legs : leg[l].state # "free" => leg[l].row \in Rows
  BY DEF Typed, LegT, Dialled
<1>6. ASSUME NEW l \in Legs, leg[l].row = r, ~Twice(r) PROVE l \in unsaved
  <2>1. leg[l].state # "free" /\ l # NoLeg
    BY <1>1, <1>6, SentinelAssumption DEF Typed, LegT, Dialled
  <2>2. ~\E e \in Dials : dial[e].pc = "save" /\ dial[e].leg = l /\ dial[e].row = r
    BY <1>1, <1>3, <1>6
  <2>3. row[leg[l].row].sid # l
    BY <1>1, <1>6, <2>1
  <2> QED BY <1>6, <2>1, <2>2, <2>3 DEF Ownership, Known, KnownLeg
<1>7. /\ row'[r].status = "FAILED" /\ row'[r].outcome = "canceled" /\ ~row'[r].taken
      /\ \A s \in Rows \ {r} : row'[s] = row[s]
      /\ \A s \in Rows : row'[s].sid = row[s].sid /\ (row'[s].step <=> row[s].step)
  <2>1. row \in [Rows -> RowRecord] /\ \A s \in Rows \ {r} : row'[s] = row[s]
    BY <1>2 DEF Typed, RowT
  <2>2. row'[r] = [row[r] EXCEPT !.status = "FAILED", !.outcome = "canceled", !.taken = FALSE]
    BY <1>2, <2>1
  <2>3. /\ row'[r].status = "FAILED" /\ row'[r].outcome = "canceled" /\ ~row'[r].taken
        /\ row'[r].sid = row[r].sid /\ (row'[r].step <=> row[r].step)
    BY <2>1, <2>2 DEF RowRecord
  <2> QED BY <2>1, <2>3
<1>8. /\ enders'[r] = enders[r] \union {"refusal"} /\ \A s \in Rows \ {r} : enders'[s] = enders[s]
      /\ endings'[r] = endings[r] + 1 /\ \A s \in Rows \ {r} : endings'[s] = endings[s]
  BY <1>1, <1>2 DEF Ends, Typed, EndT
<1>9. SidOwned' /\ Astray \subseteq Astray' /\ \A q \in Rows : Twice(q) => Twice(q)'
  <2>1. \A e \in Dials : dial'[e].pc = "save" => dial'[e] = dial[e]
    BY <1>3
  <2>2. SidOwned'
    <3>1. UNCHANGED <<leg, unsaved>> /\ \A s \in Rows : row'[s].sid = row[s].sid
      BY <1>2, <1>7
    <3> QED BY <2>1, <3>1 DEF SidOwned
  <2>3. Steady
    BY <1>1, <1>2, <1>3, <1>7 DEF Steady, Typed, WorldT
  <2> QED BY <1>2, <2>2, <2>3, AstrayGrows
<1>10. Progress'
  <2>1. \A l \in Legs : callback[l] = "write" => leg[l].row \in Rows
    BY <1>5 DEF Progress, ProgressOf
  <2> QED BY <1>2, <1>7, <1>9, <2>1 DEF Progress, ProgressOf
<1>11. CalledBack'
  <2>1. \A l \in Legs : callback[l] = "done" => leg[l].row \in Rows
    BY <1>5 DEF Progress, ProgressOf
  <2>2. ASSUME NEW s \in Rows, row[s].outcome # "none" PROVE row'[s].outcome # "none"
    <3>1. CASE s = r
      BY <1>7, <3>1
    <3>2. CASE s # r
      BY <1>7, <2>2, <3>2
    <3> QED BY <3>1, <3>2
  <2>3. UNCHANGED <<leg, callback, early>>
    BY <1>2
  <2> QED BY <2>1, <2>2, <2>3 DEF CalledBack
<1>13. Told'
  <2> SUFFICES ASSUME NEW s \in Rows, s \notin Astray'
      PROVE  /\ endings'[s] = Ender(s, "webhook")' + Ender(s, "session")' + Ender(s, "refusal")'
             /\ "webhook" \in enders'[s] => LegsOf(s) # {} /\ \A m \in LegsOf(s) : callback[m] = "done"
             /\ "session" \in enders'[s] => LegsOf(s) # {} /\ \A m \in LegsOf(s) : session[m] = "gone"
             /\ "refusal" \in enders'[s] => /\ LegsOf(s) = {} /\ row'[s].status # "none" /\ ~row'[s].step
                                            /\ \A e \in Dials : dial'[e].row = s => dial'[e].pc = "refused"
    BY <1>2 DEF Told, ToldOf, LegsOf
  <2>0. s \in Rows \ Astray /\ ~Twice(s)
    BY <1>9 DEF Astray, TwiceRows
  <2>1. CASE s # r
    <3>1. \A e \in Dials : dial'[e].row = s => dial'[e] = dial[e]
      BY <1>3, <2>1
    <3> QED BY <1>7, <1>8, <2>0, <2>1, <3>1 DEF Told, ToldOf, Ender
  <2>2. CASE s = r
    <3>1. LegsOf(s) = {}
      <4>1. \A l \in unsaved : leg[l].row # s
        BY <2>0 DEF Astray, RangUnsaved
      <4> QED BY <1>6, <2>0, <2>2, <4>1 DEF LegsOf
    <3>2. "webhook" \notin enders[s] /\ "session" \notin enders[s]
      BY <2>0, <3>1 DEF Told, ToldOf
    <3>3. "refusal" \notin enders[s]
      BY <1>1, <2>0, <2>2 DEF Told, ToldOf
    <3>4. endings[s] = 0
      BY <2>0, <3>2, <3>3 DEF Told, ToldOf, Ender
    <3>5. /\ "webhook" \notin enders'[s] /\ "session" \notin enders'[s] /\ "refusal" \in enders'[s]
          /\ endings'[s] = 1
      BY <1>8, <2>2, <3>2, <3>4
    <3> QED BY <1>3, <1>4, <1>7, <2>0, <2>2, <3>1, <3>5 DEF Ender
  <2> QED BY <2>1, <2>2
<1>14. OutcomeTold'
  BY <1>7, <1>8 DEF OutcomeTold
<1>15. EndedIsNotLive'
  BY <1>2, <1>7, <1>9 DEF EndedIsNotLive
<1>16. Marked'
  <2>1. \A l \in Legs : saw[l] => leg[l].row \in Rows
    BY <1>5 DEF Marked
  <2>2. operator.pc \in {"mark", "redirect"} => operator.row \in Rows
    BY DEF Typed, RoomT
  <2>3. row[r].taken => Twice(r)
    BY <1>1 DEF Marked
  <2>4. ASSUME NEW s \in Rows, Taken(s) PROVE Taken(s)'
    BY <1>2, <1>7, <1>9, <2>3, <2>4 DEF Taken
  <2>5. ASSUME NEW l \in Legs, leg'[l].state = "room" PROVE Taken(leg[l].row)'
    <3>1. PICK q \in Rows : q = leg[l].row /\ q = leg'[l].row /\ leg[l].state = "room"
      BY <1>2, <1>5, <2>5
    <3>2. Taken(q)'
      BY <2>4, <3>1 DEF Marked, Taken
    <3> QED BY <3>1, <3>2 DEF Taken, Twice
  <2>6. /\ \A s \in Rows : row'[s].taken => row'[s].sid # NoLeg
        /\ \A s \in Rows : row'[s].taken /\ row'[s].outcome # "none"
                              => s \in crossed' \/ Twice(s)' \/ callback'[row'[s].sid] = "done"
    BY <1>2, <1>7, <1>9 DEF Marked
  <2>7. operator'.pc = "redirect" => Taken(operator.row)'
    BY <1>2, <2>2, <2>4 DEF Marked, Taken
  <2>8. operator'.pc \in {"mark", "redirect"} => Held'
    BY <1>2, <1>7, <2>2 DEF Marked, Held
  <2>9. ASSUME NEW l \in Legs, saw'[l] PROVE leg'[l].state # "free" /\ row'[leg'[l].row].sid # NoLeg
    <3>1. saw[l] /\ leg' = leg
      BY <1>2, <2>9
    <3>2. leg[l].state # "free" /\ row[leg[l].row].sid # NoLeg /\ leg[l].row \in Rows
      BY <2>1, <3>1 DEF Marked
    <3>3. row'[leg[l].row].sid # NoLeg
      BY <1>7, <3>2
    <3> QED BY <3>1, <3>2, <3>3
  <2> QED BY <2>5, <2>6, <2>7, <2>8, <2>9 DEF Marked
<1> QED BY <1>9, <1>10, <1>11, <1>13, <1>14, <1>15, <1>16

\* What a step of one leg leaves alone: the dials, the other legs, their rows.
LegFrame(l) ==
    /\ RowsQuiet /\ LegsQuiet /\ UNCHANGED <<dial, unsaved, slow>>
    /\ UNCHANGED operator \/ operator'.pc = "done"
    /\ \A m \in Legs \ {l} : /\ leg'[m] = leg[m] /\ callback'[m] = callback[m] /\ session'[m] = session[m]
                             /\ (saw'[m] <=> saw[m])
    /\ \A s \in Rows \ {leg[l].row} : row'[s] = row[s] /\ endings'[s] = endings[s] /\ enders'[s] = enders[s]
    /\ early \subseteq early' /\ crossed \subseteq crossed' /\ lateStart \subseteq lateStart'
    /\ callback[l] = "done" => callback'[l] = "done"

ProgressNext(l, r) ==
    /\ callback'[l] # "none" => leg'[l].state = "ended"
    /\ leg'[l].state = "ended" => leg'[l].result # "none"
    /\ session'[l] \in {"starting", "live"} => leg'[l].state = "up"
    /\ session'[l] # "off" => leg'[l].state \in {"up", "room", "ended"}
    /\ callback'[l] = "write" => row'[r].sid = l \/ Twice(r)

\* What is left to show of a leg's step is about the leg and its row.
LEMMA LegKeeps ==
    ASSUME CallInv, Typed', Ownership', NEW l \in Legs, NEW r \in Rows, leg[l].row = r, LegFrame(l),
           ProgressNext(l, r),
           row[r].outcome # "none" => row'[r].outcome # "none",
           callback'[l] = "done" => row'[r].outcome # "none" \/ r \in early',
           r \notin Astray => ToldOf(r)',
           row'[r].outcome # "none" => enders'[r] # {},
           row'[r].outcome # "none" /\ row'[r].status = "IN_PROGRESS" => r \in lateStart' \union Astray,
           row'[r].taken => row[r].sid # NoLeg,
           row'[r].taken /\ row'[r].outcome # "none"
               => r \in crossed' \/ Twice(r) \/ callback'[row[r].sid] = "done",
           saw'[l] => row[r].sid # NoLeg,
           row[r].taken => row'[r].taken \/ r \in crossed' \/ Twice(r),
           leg'[l].state = "room" => row'[r].taken \/ r \in crossed' \/ Twice(r)
    PROVE  CallInv'
<1> USE DEF CallInv
<1>1. /\ \A m \in Legs : leg[m].state # "free" => leg[m].row \in Rows
      /\ r # NoRow /\ leg[l].state # "free" /\ leg'[l].state # "free" /\ leg'[l].row = r
  BY SentinelAssumption DEF Typed, LegT, Dialled, LegFrame, LegsQuiet
<1>2. /\ \A m \in Legs : leg'[m].row = leg[m].row /\ (leg'[m].state = "free" <=> leg[m].state = "free")
      /\ \A s \in Rows : row'[s].sid = row[s].sid
  BY DEF LegFrame, RowsQuiet, LegsQuiet
<1>3. SidOwned' /\ Astray' = Astray /\ \A q \in Rows : Twice(q)' <=> Twice(q)
  <2>1. unsaved \subseteq Legs /\ UNCHANGED <<dial, unsaved, slow>>
    BY DEF Typed, MarksT, LegFrame
  <2>2. Astray' = Astray /\ \A q \in Rows : Twice(q)' <=> Twice(q)
    BY <2>1, QuietAstray DEF LegFrame
  <2>3. \A s \in Rows : row[s].sid # NoLeg => row[s].sid \in Legs
    BY DEF Typed, RowT, RowRecord
  <2>4. \A e \in Dials : dial[e].pc = "save" => dial[e].leg \in Legs
    BY DEF Typed, DialT, Placed
  <2>5. SidOwned'
    BY <1>2, <2>1, <2>3, <2>4 DEF SidOwned
  <2> QED BY <2>2, <2>5
<1>4. Progress'
  <2> SUFFICES ASSUME NEW m \in Legs PROVE ProgressOf(m)'
    BY DEF Progress
  <2>1. CASE m = l
    <3>1. callback'[m] = "write" => (row[leg[m].row].sid = m \/ Twice(leg[m].row))'
      BY <1>1, <1>3, <2>1 DEF ProgressNext, Twice
    <3> QED BY <2>1, <3>1 DEF ProgressOf, ProgressNext
  <2>2. CASE m # l
    <3>1. ProgressOf(m) /\ leg'[m] = leg[m] /\ callback'[m] = callback[m] /\ session'[m] = session[m]
      BY <2>2 DEF Progress, LegFrame
    <3>2. callback'[m] = "write" => (row[leg[m].row].sid = m \/ Twice(leg[m].row))'
      <4> SUFFICES ASSUME callback'[m] = "write" PROVE (row[leg[m].row].sid = m \/ Twice(leg[m].row))'
        OBVIOUS
      <4>1. PICK q \in Rows : q = leg[m].row /\ q = leg'[m].row /\ (row[q].sid = m \/ Twice(q))
        BY <1>1, <3>1 DEF ProgressOf
      <4>2. row'[q].sid = m \/ Twice(q)'
        BY <1>2, <1>3, <4>1
      <4> QED BY <4>1, <4>2 DEF Twice
    <3> QED BY <3>1, <3>2 DEF ProgressOf
  <2> QED BY <2>1, <2>2
<1>5. CalledBack'
  <2> SUFFICES ASSUME NEW m \in Legs, callback'[m] = "done"
               PROVE  row'[leg'[m].row].outcome # "none" \/ leg'[m].row \in early'
    BY DEF CalledBack
  <2>1. CASE m = l
    BY <1>1, <2>1
  <2>2. CASE m # l
    <3>1. callback[m] = "done" /\ leg'[m].row = leg[m].row
      BY <2>2 DEF LegFrame
    <3>2. leg[m].row \in Rows /\ (row[leg[m].row].outcome # "none" \/ leg[m].row \in early)
      BY <1>1, <3>1 DEF CalledBack, Progress, ProgressOf
    <3>3. row[leg[m].row].outcome # "none" => row'[leg[m].row].outcome # "none"
      <4>1. CASE leg[m].row = r
        BY <4>1
      <4>2. CASE leg[m].row # r
        BY <3>2, <4>2 DEF LegFrame
      <4> QED BY <4>1, <4>2
    <3> QED BY <3>1, <3>2, <3>3 DEF LegFrame
  <2> QED BY <2>1, <2>2
<1>7. Told'
  <2> SUFFICES ASSUME NEW s \in Rows \ Astray, s # r PROVE ToldOf(s)'
    BY <1>3 DEF Told
  <2>1. LegsOf(s)' = LegsOf(s) /\ l \notin LegsOf(s)
    BY <1>2 DEF LegsOf
  <2>2. \A m \in LegsOf(s) : callback'[m] = callback[m] /\ session'[m] = session[m]
    BY <2>1 DEF LegFrame, LegsOf
  <2>3. row'[s] = row[s] /\ endings'[s] = endings[s] /\ enders'[s] = enders[s] /\ UNCHANGED dial
    BY DEF LegFrame
  <2>4. ToldOf(s)
    BY DEF Told
  <2> QED BY <2>1, <2>2, <2>3, <2>4 DEF ToldOf, Ender
<1>8. OutcomeTold'
  BY DEF OutcomeTold, LegFrame
<1>9. EndedIsNotLive'
  BY <1>3 DEF EndedIsNotLive, LegFrame
<1>10. Marked'
  <2>1. operator'.pc \in {"mark", "redirect"} => UNCHANGED operator /\ operator.row \in Rows
    BY DEF LegFrame, Typed, RoomT
  <2>2. ASSUME NEW s \in Rows, Taken(s) PROVE Taken(s)'
    <3>1. CASE s = r
      BY <1>3, <2>2, <3>1 DEF LegFrame, Taken
    <3>2. CASE s # r
      BY <1>3, <2>2, <3>2 DEF LegFrame, Taken
    <3> QED BY <3>1, <3>2
  <2>3. \A m \in Legs : callback[m] = "done" => callback'[m] = "done"
    BY DEF LegFrame
  <2>4. \A s \in Rows : row[s].sid # NoLeg => row[s].sid \in Legs
    BY DEF Typed, RowT, RowRecord
  <2>5. \A s \in Rows : row'[s].taken => row'[s].sid # NoLeg
    BY <1>2 DEF LegFrame, Marked
  <2>6. ASSUME NEW s \in Rows, row'[s].taken, row'[s].outcome # "none"
        PROVE  s \in crossed' \/ Twice(s)' \/ callback'[row'[s].sid] = "done"
    <3>1. CASE s = r
      BY <1>2, <1>3, <2>6, <3>1
    <3>2. CASE s # r
      <4>1. row'[s] = row[s]
        BY <3>2 DEF LegFrame
      <4>2. row[s].sid \in Legs /\ (s \in crossed \/ Twice(s) \/ callback[row[s].sid] = "done")
        BY <2>4, <2>6, <4>1 DEF Marked
      <4> QED BY <1>3, <2>3, <4>1, <4>2 DEF LegFrame
    <3> QED BY <3>1, <3>2
  <2>7. \A m \in Legs : saw'[m] => leg'[m].state # "free" /\ row'[leg'[m].row].sid # NoLeg
    BY <1>1, <1>2 DEF LegFrame, Marked
  <2>8. operator'.pc \in {"mark", "redirect"} => Held'
    BY <1>2, <2>1 DEF Marked, Held
  <2>9. operator'.pc = "redirect" => Taken(operator.row)'
    <3> SUFFICES ASSUME operator'.pc = "redirect" PROVE Taken(operator.row)'
      OBVIOUS
    <3>1. PICK q \in Rows : q = operator.row /\ q = operator'.row /\ Taken(q)
      BY <2>1 DEF Marked
    <3>2. Taken(q)'
      BY <2>2, <3>1
    <3> QED BY <3>1, <3>2 DEF Taken, Twice
  <2>10. ASSUME NEW m \in Legs, leg'[m].state = "room" PROVE Taken(leg[m].row)'
    <3>1. PICK q \in Rows : q = leg[m].row /\ q = leg'[m].row
      BY <1>1, <1>2, <2>10
    <3>2. Taken(q)'
      <4>1. CASE m = l
        BY <1>1, <1>3, <2>10, <3>1, <4>1 DEF Taken
      <4>2. CASE m # l
        BY <2>2, <2>10, <3>1, <4>2 DEF LegFrame, Marked
      <4> QED BY <4>1, <4>2
    <3> QED BY <3>1, <3>2 DEF Taken, Twice
  <2> QED BY <2>5, <2>6, <2>7, <2>8, <2>9, <2>10 DEF Marked
<1> QED BY <1>3, <1>4, <1>5, <1>7, <1>8, <1>9, <1>10

\* A row that is not published of now stays as told.
LEMMA ToldStays ==
    ASSUME CallInv, NEW l \in Legs, NEW r \in Rows \ Astray, leg[l].row = r, LegFrame(l),
           endings'[r] = endings[r], enders'[r] = enders[r],
           session[l] = "gone" => session'[l] = "gone"
    PROVE  ToldOf(r)'
<1> USE DEF CallInv
<1>1. LegsOf(r)' = LegsOf(r)
  BY DEF LegsOf, LegFrame, LegsQuiet
<1>2. \A m \in LegsOf(r) : /\ callback[m] = "done" => callback'[m] = "done"
                           /\ session[m] = "gone" => session'[m] = "gone"
  BY DEF LegFrame, LegsOf
<1>3. /\ row[r].status # "none" => row'[r].status # "none"
      /\ (row'[r].step <=> row[r].step) /\ UNCHANGED dial
  BY DEF LegFrame, RowsQuiet
<1>4. ToldOf(r)
  BY DEF Told
<1> QED BY <1>1, <1>2, <1>3, <1>4 DEF ToldOf, Ender

\* A row nobody lost a leg of and nobody worked at twice has one leg at most.
LEMMA OneLeg ==
    ASSUME CallInv, NEW l \in Legs, NEW r \in Rows \ Astray, leg[l].row = r
    PROVE  LegsOf(r) = {l} /\ "refusal" \notin enders[r]
<1> USE DEF CallInv
<1>1. LegsOf(r) = {l}
  <2> SUFFICES ASSUME NEW m \in Legs, leg[m].row = r, m # l PROVE FALSE
    BY DEF LegsOf
  <2>1. r # NoRow /\ RingsOnce
    BY SentinelAssumption, OwnershipImplies
  <2>2. l \in unsaved \/ m \in unsaved \/ Twice(r)
    BY <2>1 DEF RingsOnce, SameCall
  <2> QED BY <2>2 DEF Astray, RangUnsaved, TwiceRows
<1>2. "refusal" \notin enders[r]
  BY <1>1 DEF Told, ToldOf
<1> QED BY <1>1, <1>2

\* A step of a leg that leaves the rows and their endings as they are.
LEMMA LegKeepsRow ==
    ASSUME CallInv, Typed', Ownership', NEW l \in Legs, NEW r \in Rows, leg[l].row = r, LegFrame(l),
           UNCHANGED <<row, endings, enders>>,
           session[l] = "gone" => session'[l] = "gone",
           ProgressNext(l, r),
           callback'[l] = "done" => row[r].outcome # "none" \/ r \in early',
           saw'[l] => row[r].sid # NoLeg,
           leg'[l].state = "room" => row[r].taken \/ r \in crossed' \/ Twice(r)
    PROVE  CallInv'
<1>1. r \notin Astray => ToldOf(r)'
  BY ToldStays
<1>2. row[r].outcome # "none" => enders[r] # {}
  BY DEF CallInv, OutcomeTold
<1>3. row[r].outcome # "none" /\ row[r].status = "IN_PROGRESS" => r \in lateStart' \union Astray
  BY DEF CallInv, EndedIsNotLive, LegFrame
<1>4. row[r].taken => row[r].sid # NoLeg /\ row[r].sid \in Legs
  BY DEF CallInv, Marked, Typed, RowT, RowRecord
<1>5. row[r].taken /\ row[r].outcome # "none"
          => r \in crossed' \/ Twice(r) \/ callback'[row[r].sid] = "done"
  <2>1. \A m \in Legs : callback[m] = "done" => callback'[m] = "done"
    BY DEF LegFrame
  <2> QED BY <1>4, <2>1 DEF CallInv, Marked, LegFrame
<1>6. UNCHANGED row
  OBVIOUS
<1> QED BY <1>1, <1>2, <1>3, <1>4, <1>5, <1>6, LegKeeps

\* Such are most steps of the provider, the callback and the session.
LEMMA ProviderKeeps ==
    ASSUME CallInv, NEW l \in Legs, NEW r \in Rows, leg[l].row = r, Typed', Ownership',
           \/ Answer(l) \/ LegEnds(l) \/ CallbackReads(l) \/ CallbackLost(l)
    PROVE  CallInv'
<1> USE DEF CallInv
<1>1. leg[l].state # "free" /\ r \in Rows
  BY LegHasRow DEF Answer, LegEnds, CallbackReads, CallbackLost
<1>2. RowsQuiet /\ LegsQuiet /\ UNCHANGED <<dial, unsaved, slow>>
  BY LegsLeaveOwnership DEF LegStep
<1>3. ProgressOf(l) /\ leg[l] \in LegRecord
  BY DEF Progress, Typed, LegT, Dialled
<1>4. saw[l] => row[r].sid # NoLeg
  BY DEF Marked
<1>5. leg[l].state = "room" => row[r].taken \/ r \in crossed \/ Twice(r)
  BY DEF Marked, Taken
<1>6. callback[l] = "done" => row[r].outcome # "none" \/ r \in early
  BY DEF CalledBack
<1>7. CASE Answer(l)
  <2>1. /\ leg' = [leg EXCEPT ![l].state = "up"] /\ session' = [session EXCEPT ![l] = "starting"]
        /\ leg[l].state = "ringing"
        /\ UNCHANGED <<row, callback, saw, operator, endings, enders, early, crossed, lateStart>>
    BY <1>7 DEF Answer, histVars
  <2>2. /\ leg'[l].state = "up" /\ leg'[l].row = leg[l].row /\ session'[l] = "starting"
        /\ \A m \in Legs \ {l} : leg'[m] = leg[m] /\ session'[m] = session[m]
    BY <1>3, <2>1 DEF Typed, LegT, LegRecord
  <2>3. session[l] = "off" /\ callback[l] = "none"
    BY <1>3, <2>1 DEF ProgressOf
  <2>4. LegFrame(l)
    BY <1>2, <2>1, <2>2 DEF LegFrame
  <2>5. ProgressNext(l, r)
    BY <2>1, <2>2, <2>3 DEF ProgressOf, ProgressNext
  <2> QED BY <1>1, <1>4, <2>1, <2>2, <2>3, <2>4, <2>5, LegKeepsRow
<1>8. CASE LegEnds(l)
  <2>1. PICK result \in Outcomes :
            /\ leg' = [leg EXCEPT ![l].state = "ended", ![l].result = result]
            /\ session' = [session EXCEPT ![l] = Stopped(l)] /\ callback' = [callback EXCEPT ![l] = "due"]
            /\ UNCHANGED <<row, saw, operator, endings, enders, early, crossed, lateStart>>
            /\ leg[l].state # "ended"
    BY <1>8 DEF LegEnds, histVars
  <2>2. /\ leg'[l].state = "ended" /\ leg'[l].row = leg[l].row /\ leg'[l].result = result
        /\ session'[l] = Stopped(l) /\ callback'[l] = "due"
        /\ \A m \in Legs \ {l} : leg'[m] = leg[m] /\ session'[m] = session[m] /\ callback'[m] = callback[m]
    BY <1>3, <2>1 DEF Typed, LegT, LegRecord
  <2>3. callback[l] = "none" /\ result # "none"
    BY <1>3, <2>1 DEF ProgressOf, Outcomes, Typed, LegT
  <2>4. LegFrame(l)
    BY <1>2, <2>1, <2>2, <2>3 DEF LegFrame
  <2>5. Stopped(l) \notin {"starting", "live"} /\ (session[l] = "gone" => Stopped(l) = "gone")
    BY DEF Stopped
  <2>6. ProgressNext(l, r)
    BY <2>2, <2>3, <2>5 DEF ProgressOf, ProgressNext
  <2> QED BY <1>1, <1>4, <2>1, <2>2, <2>4, <2>5, <2>6, LegKeepsRow
<1>9. CASE CallbackReads(l)
  <2>1. /\ callback[l] = "due"
        /\ callback' = [callback EXCEPT ![l] = IF \E s \in RowOf(l) : AwaitsOutcome(s) THEN "write" ELSE "done"]
        /\ early' = IF RowOf(l) = {} THEN early \union {r} ELSE early
        /\ UNCHANGED <<row, leg, session, saw, operator, endings, enders, crossed, lateStart>>
    BY <1>9 DEF CallbackReads
  <2>2. /\ callback'[l] = (IF \E s \in RowOf(l) : AwaitsOutcome(s) THEN "write" ELSE "done")
        /\ \A m \in Legs \ {l} : callback'[m] = callback[m]
    BY <2>1 DEF Typed, LegT
  <2>3. \A s \in RowOf(l) : s = r /\ row[r].sid = l
    BY SentinelAssumption DEF RowOf, SidOwned
  <2>4. LegFrame(l)
    BY <1>2, <2>1, <2>2 DEF LegFrame
  <2>5. ProgressNext(l, r)
    <3>1. callback'[l] = "write" => row'[r].sid = l
      BY <2>1, <2>2, <2>3
    <3> QED BY <1>3, <2>1, <3>1 DEF ProgressOf, ProgressNext
  <2>6. callback'[l] = "done" => row[r].outcome # "none" \/ r \in early'
    <3>1. CASE RowOf(l) = {}
      BY <2>1, <3>1
    <3>2. CASE RowOf(l) # {}
      BY <2>2, <2>3, <3>2 DEF AwaitsOutcome
    <3> QED BY <3>1, <3>2
  <2> QED BY <1>1, <1>4, <1>5, <2>1, <2>4, <2>5, <2>6, LegKeepsRow
<1>10. CASE CallbackLost(l)
  <2>1. /\ callback[l] = "due" /\ callback' = [callback EXCEPT ![l] = "done"] /\ early' = early \union {r}
        /\ UNCHANGED <<row, leg, session, saw, operator, endings, enders, crossed, lateStart>>
    BY <1>10 DEF CallbackLost
  <2>2. callback'[l] = "done" /\ \A m \in Legs \ {l} : callback'[m] = callback[m]
    BY <2>1 DEF Typed, LegT
  <2>3. LegFrame(l)
    BY <1>2, <2>1, <2>2 DEF LegFrame
  <2>4. ProgressNext(l, r)
    BY <1>3, <2>1, <2>2 DEF ProgressOf, ProgressNext
  <2>5. r \in early'
    BY <2>1
  <2> QED BY <1>1, <1>4, <1>5, <2>1, <2>3, <2>4, <2>5, LegKeepsRow
<1> QED BY <1>7, <1>8, <1>9, <1>10

LEMMA SessionKeeps ==
    ASSUME CallInv, NEW l \in Legs, NEW r \in Rows, leg[l].row = r, Typed', Ownership',
           SessionLoads(l) \/ SessionEnds(l) \/ FinalizeReads(l)
    PROVE  CallInv'
<1> USE DEF CallInv
<1>1. leg[l].state # "free" /\ r \in Rows
  BY LegHasRow DEF SessionLoads, SessionEnds, FinalizeReads
<1>2. RowsQuiet /\ LegsQuiet /\ UNCHANGED <<dial, unsaved, slow>>
  BY LegsLeaveOwnership DEF LegStep
<1>3. ProgressOf(l)
  BY DEF Progress
<1>4. saw[l] => row[r].sid # NoLeg
  BY DEF Marked
<1>5. leg[l].state = "room" => row[r].taken \/ r \in crossed \/ Twice(r)
  BY DEF Marked, Taken
<1>6. callback[l] = "done" => row[r].outcome # "none" \/ r \in early
  BY DEF CalledBack
<1>7. row[r].taken => row[r].sid # NoLeg
  BY <1>1 DEF Marked
<1>8. UNCHANGED <<row, leg, callback, operator, endings, enders, early, crossed, lateStart>>
  BY DEF SessionLoads, SessionEnds, FinalizeReads, histVars
<1>9. /\ \A m \in Legs \ {l} : session'[m] = session[m] /\ (saw'[m] <=> saw[m])
      /\ session[l] # "gone" /\ session[l] # "off"
      /\ session'[l] \in {"live", "gone", "ending", "write"}
      /\ session'[l] = "live" => session[l] = "starting"
      /\ saw'[l] => saw[l] \/ row[r].taken
  <2>1. CASE SessionLoads(l)
    <3>1. /\ session[l] \in {"starting", "abandoned"} /\ UNCHANGED saw
          /\ session' = [session EXCEPT ![l] = IF session[l] = "starting" THEN "live" ELSE "gone"]
      BY <2>1 DEF SessionLoads
    <3> QED BY <3>1 DEF Typed, LegT
  <2>2. CASE SessionEnds(l)
    BY <2>2 DEF SessionEnds, Typed, LegT
  <2>3. CASE FinalizeReads(l)
    <3>1. /\ session[l] = "ending" /\ session' = [session EXCEPT ![l] = "write"]
          /\ saw' = [saw EXCEPT ![l] = row[r].taken]
      BY <2>3 DEF FinalizeReads
    <3> QED BY <3>1 DEF Typed, LegT
  <2> QED BY <2>1, <2>2, <2>3
<1>10. LegFrame(l)
  BY <1>2, <1>8, <1>9 DEF LegFrame
<1>11. ProgressNext(l, r)
  BY <1>3, <1>8, <1>9 DEF ProgressOf, ProgressNext
<1> QED BY <1>1, <1>4, <1>5, <1>6, <1>7, <1>8, <1>9, <1>10, <1>11, LegKeepsRow

\* A session that starts while its leg is up finds the row open.
LEMMA StartKeeps ==
    ASSUME CallInv, NEW l \in Legs, NEW r \in Rows, leg[l].row = r, Typed', Ownership', StartWrites(l)
    PROVE  CallInv'
<1> USE DEF CallInv
<1>1. leg[l].state # "free" /\ r \in Rows /\ row[r] \in RowRecord
  BY LegHasRow DEF StartWrites
<1>2. RowsQuiet /\ LegsQuiet /\ UNCHANGED <<dial, unsaved, slow>>
  BY LegsLeaveOwnership DEF LegStep
<1>3. /\ row' = [row EXCEPT ![r].status = "IN_PROGRESS"]
      /\ lateStart' = IF session[l] # "live" THEN lateStart \union {r} ELSE lateStart
      /\ UNCHANGED <<leg, callback, session, saw, operator, endings, enders, early, crossed>>
  BY DEF StartWrites
<1>4. ProgressOf(l) /\ (row[r].outcome # "none" => enders[r] # {})
  BY <1>1 DEF Progress, OutcomeTold
<1>5. row[r].taken => row[r].sid # NoLeg
  BY <1>1 DEF Marked
<1>6. row[r].taken /\ row[r].outcome # "none" => r \in crossed \/ Twice(r) \/ callback[row[r].sid] = "done"
  BY <1>1 DEF Marked
<1>7. saw[l] => row[r].sid # NoLeg
  BY DEF Marked
<1>8. leg[l].state = "room" => row[r].taken \/ r \in crossed \/ Twice(r)
  BY DEF Marked, Taken
<1>9. callback[l] = "done" => row[r].outcome # "none" \/ r \in early
  BY DEF CalledBack
<1>10. r \notin Astray /\ row[r].outcome # "none" => session[l] # "live"
  <2> SUFFICES ASSUME r \notin Astray, row[r].outcome # "none", session[l] = "live" PROVE FALSE
    OBVIOUS
  <2>1. leg[l].state = "up" /\ callback[l] # "done"
    BY <1>4 DEF ProgressOf
  <2>2. l \in LegsOf(r) /\ ToldOf(r) /\ enders[r] # {}
    BY <1>1, <1>4 DEF LegsOf, Told
  <2>3. "webhook" \notin enders[r] /\ "session" \notin enders[r] /\ "refusal" \notin enders[r]
    BY <2>1, <2>2 DEF ToldOf
  <2>4. enders[r] \subseteq {"webhook", "session", "refusal"}
    BY <1>1 DEF Typed, EndT
  <2> QED BY <2>2, <2>3, <2>4
<1>11. /\ row'[r].outcome = row[r].outcome /\ (row'[r].taken <=> row[r].taken) /\ row'[r].sid = row[r].sid
       /\ \A s \in Rows \ {r} : row'[s] = row[s]
  BY <1>1, <1>3 DEF Typed, RowT, RowRecord
<1>12. LegFrame(l)
  BY <1>2, <1>3, <1>11 DEF LegFrame
<1>13. ProgressNext(l, r)
  BY <1>3, <1>4, <1>11 DEF ProgressOf, ProgressNext
<1>14. r \notin Astray => ToldOf(r)'
  BY <1>1, <1>3, <1>12, ToldStays
<1>15. row'[r].outcome # "none" => r \in lateStart' \union Astray
  BY <1>3, <1>10, <1>11
<1> QED BY <1>1, <1>3, <1>4, <1>5, <1>6, <1>7, <1>8, <1>9, <1>11, <1>12, <1>13, <1>14, <1>15, LegKeeps

\* The callback publishes for a row once: its one leg is called back once.
LEMMA StampKeeps ==
    ASSUME CallInv, NEW l \in Legs, NEW r \in Rows, leg[l].row = r, Typed', Ownership', CallbackWrites(l)
    PROVE  CallInv'
<1> USE DEF CallInv
<1>1. leg[l].state # "free" /\ r \in Rows /\ row[r] \in RowRecord
  BY LegHasRow DEF CallbackWrites
<1>2. RowsQuiet /\ LegsQuiet /\ UNCHANGED <<dial, unsaved, slow>>
  BY LegsLeaveOwnership DEF LegStep
<1>3. /\ callback[l] = "write" /\ callback' = [callback EXCEPT ![l] = "done"]
      /\ row' = [row EXCEPT ![r].status = IF leg[l].result = "completed" THEN "COMPLETED" ELSE "FAILED",
                            ![r].outcome = leg[l].result]
      /\ Ends(r, "webhook")
      /\ UNCHANGED <<leg, session, saw, operator, early, crossed, lateStart>>
  BY DEF CallbackWrites, Stamp
<1>4. ProgressOf(l)
  BY DEF Progress
<1>5. leg[l].result # "none" /\ (row[r].sid = l \/ Twice(r)) /\ (row[r].taken => row[r].sid # NoLeg)
  BY <1>1, <1>3, <1>4 DEF ProgressOf, Marked
<1>6. saw[l] => row[r].sid # NoLeg
  BY DEF Marked
<1>7. leg[l].state = "room" => row[r].taken \/ r \in crossed \/ Twice(r)
  BY DEF Marked, Taken
<1>8. l # NoLeg
  BY SentinelAssumption
<1>9. /\ row'[r].outcome = leg[l].result /\ row'[r].status \in {"COMPLETED", "FAILED"}
      /\ (row'[r].taken <=> row[r].taken) /\ row'[r].sid = row[r].sid
      /\ \A s \in Rows \ {r} : row'[s] = row[s]
  BY <1>1, <1>3 DEF Typed, RowT, RowRecord
<1>10. /\ callback'[l] = "done" /\ \A m \in Legs \ {l} : callback'[m] = callback[m]
       /\ enders'[r] = enders[r] \union {"webhook"} /\ endings'[r] = endings[r] + 1
       /\ \A s \in Rows \ {r} : enders'[s] = enders[s] /\ endings'[s] = endings[s]
  BY <1>1, <1>3 DEF Ends, Typed, LegT, EndT
<1>11. LegFrame(l)
  BY <1>2, <1>3, <1>9, <1>10 DEF LegFrame
<1>12. ProgressNext(l, r)
  BY <1>3, <1>4, <1>10 DEF ProgressOf, ProgressNext
<1>13. ASSUME r \notin Astray PROVE ToldOf(r)'
  <2>1. LegsOf(r) = {l} /\ "refusal" \notin enders[r] /\ ToldOf(r) /\ LegsOf(r)' = LegsOf(r)
    BY <1>1, <1>3, <1>13, OneLeg DEF Told, LegsOf
  <2>2. "webhook" \notin enders[r]
    BY <1>3, <2>1 DEF ToldOf
  <2>3. endings[r] = (IF "session" \in enders[r] THEN 1 ELSE 0)
    BY <2>1, <2>2 DEF ToldOf, Ender
  <2>4. endings'[r] = 1 + (IF "session" \in enders'[r] THEN 1 ELSE 0)
    BY <1>10, <2>3
  <2>5. "webhook" \in enders'[r] /\ "refusal" \notin enders'[r] /\ ("session" \in enders'[r] => "session" \in enders[r])
    BY <1>10, <2>1
  <2>6. "session" \in enders[r] => session'[l] = "gone"
    BY <1>3, <2>1 DEF ToldOf
  <2> QED BY <1>10, <2>1, <2>4, <2>5, <2>6 DEF ToldOf, Ender
<1>14. enders'[r] # {} /\ row'[r].outcome # "none" /\ row'[r].status # "IN_PROGRESS"
  BY <1>5, <1>9, <1>10
<1>15. row'[r].taken => row[r].sid # NoLeg /\ (Twice(r) \/ callback'[row[r].sid] = "done")
  BY <1>5, <1>9, <1>10
<1>16. /\ saw'[l] => row[r].sid # NoLeg
       /\ row[r].taken => row'[r].taken
       /\ leg'[l].state = "room" => row'[r].taken \/ r \in crossed' \/ Twice(r)
  BY <1>3, <1>6, <1>7, <1>9
<1> QED BY <1>11, <1>12, <1>13, <1>14, <1>15, <1>16, LegKeeps

\* The session closes its row once, or leaves it to the operator who has the call.
LEMMA FinalizeKeeps ==
    ASSUME CallInv, NEW l \in Legs, NEW r \in Rows, leg[l].row = r, Typed', Ownership', FinalizeWrites(l)
    PROVE  CallInv'
<1> USE DEF CallInv
<1>1. leg[l].state # "free" /\ r \in Rows /\ row[r] \in RowRecord
  BY LegHasRow DEF FinalizeWrites
<1>2. RowsQuiet /\ LegsQuiet /\ UNCHANGED <<dial, unsaved, slow>>
  BY LegsLeaveOwnership DEF LegStep
<1>3. /\ session[l] = "write" /\ session' = [session EXCEPT ![l] = "gone"] /\ saw' = [saw EXCEPT ![l] = FALSE]
      /\ crossed' = IF row[r].taken # saw[l] THEN crossed \union {r} ELSE crossed
      /\ UNCHANGED <<leg, callback, operator, early, lateStart>>
  BY DEF FinalizeWrites
<1>4. ProgressOf(l) /\ saw[l] \in BOOLEAN /\ row[r].taken \in BOOLEAN
  BY <1>1 DEF Progress, Typed, LegT, RowRecord
<1>5. saw[l] => row[r].sid # NoLeg
  BY DEF Marked
<1>6. leg[l].state = "room" => row[r].taken \/ r \in crossed \/ Twice(r)
  BY DEF Marked, Taken
<1>7. row[r].taken /\ row[r].outcome # "none" => r \in crossed \/ Twice(r) \/ callback[row[r].sid] = "done"
  BY <1>1 DEF Marked
<1>8. callback[l] = "done" => row[r].outcome # "none" \/ r \in early
  BY DEF CalledBack
<1>9. row[r].outcome # "none" /\ row[r].status = "IN_PROGRESS" => r \in lateStart' \union Astray
  BY <1>1, <1>3 DEF EndedIsNotLive
<1>10. row[r].outcome # "none" => enders[r] # {}
  BY <1>1 DEF OutcomeTold
<1>11. /\ session'[l] = "gone" /\ ~saw'[l]
       /\ \A m \in Legs \ {l} : session'[m] = session[m] /\ (saw'[m] <=> saw[m])
  BY <1>3 DEF Typed, LegT
<1>12. row[r].taken => saw[l] \/ r \in crossed'
  BY <1>3, <1>4
<1>13. crossed \subseteq crossed' /\ (saw[l] => row[r].taken \/ r \in crossed')
  BY <1>3, <1>4
<1>14. CASE LeavesOpen(l)
  <2>1. row' = [row EXCEPT ![r].taken = TRUE] /\ UNCHANGED <<endings, enders>> /\ saw[l]
    BY <1>14 DEF FinalizeWrites, LeavesOpen
  <2>2. /\ row'[r].outcome = row[r].outcome /\ row'[r].taken /\ row'[r].sid = row[r].sid
        /\ row'[r].status = row[r].status
        /\ \A s \in Rows \ {r} : row'[s] = row[s]
    BY <1>1, <2>1 DEF Typed, RowT, RowRecord
  <2>3. LegFrame(l)
    BY <1>2, <1>3, <1>11, <1>13, <2>1, <2>2 DEF LegFrame
  <2>4. ProgressNext(l, r)
    BY <1>3, <1>4, <1>11, <2>2 DEF ProgressOf, ProgressNext
  <2>5. r \notin Astray => ToldOf(r)'
    BY <1>1, <1>11, <2>1, <2>3, ToldStays
  <2>6. row'[r].outcome # "none" => r \in crossed' \/ Twice(r) \/ callback'[row[r].sid] = "done"
    BY <1>3, <1>7, <1>13, <2>1, <2>2
  <2>7. callback'[l] = "done" => row'[r].outcome # "none" \/ r \in early'
    BY <1>3, <1>8, <2>2
  <2>8. row'[r].outcome # "none" => enders'[r] # {}
    BY <1>10, <2>1, <2>2
  <2>9. row'[r].outcome # "none" /\ row'[r].status = "IN_PROGRESS" => r \in lateStart' \union Astray
    BY <1>9, <2>2
  <2>10. row[r].sid # NoLeg /\ ~saw'[l] /\ row'[r].taken /\ (row[r].outcome # "none" => row'[r].outcome # "none")
    BY <1>5, <1>11, <2>1, <2>2
  <2> QED BY <2>3, <2>4, <2>5, <2>6, <2>7, <2>8, <2>9, <2>10, LegKeeps
<1>15. CASE ~LeavesOpen(l)
  <2>1. PICK outcome \in {"completed", "failed"} :
            row' = [row EXCEPT ![r].taken = saw[l], ![r].outcome = outcome,
                               ![r].status = IF outcome = "completed" THEN "COMPLETED" ELSE "FAILED"]
    BY <1>15 DEF FinalizeWrites
  <2>2. Ends(r, "session") /\ ~saw[l]
    BY <1>15 DEF FinalizeWrites, LeavesOpen
  <2>3. /\ row'[r].outcome = outcome /\ ~row'[r].taken /\ row'[r].sid = row[r].sid
        /\ row'[r].status \in {"COMPLETED", "FAILED"}
        /\ \A s \in Rows \ {r} : row'[s] = row[s]
    BY <1>1, <2>1, <2>2 DEF Typed, RowT, RowRecord
  <2>4. /\ enders'[r] = enders[r] \union {"session"} /\ endings'[r] = endings[r] + 1
        /\ \A s \in Rows \ {r} : enders'[s] = enders[s] /\ endings'[s] = endings[s]
    BY <1>1, <2>2 DEF Ends, Typed, EndT
  <2>5. LegFrame(l)
    BY <1>2, <1>3, <1>11, <1>13, <2>3, <2>4 DEF LegFrame
  <2>6. ProgressNext(l, r)
    BY <1>3, <1>4, <1>11, <2>3 DEF ProgressOf, ProgressNext
  <2>7. ASSUME r \notin Astray PROVE ToldOf(r)'
    <3>1. LegsOf(r) = {l} /\ "refusal" \notin enders[r] /\ ToldOf(r) /\ LegsOf(r)' = LegsOf(r)
      BY <1>1, <1>3, <2>7, OneLeg DEF Told, LegsOf
    <3>2. "session" \notin enders[r]
      BY <1>3, <3>1 DEF ToldOf
    <3>3. endings[r] = (IF "webhook" \in enders[r] THEN 1 ELSE 0)
      BY <3>1, <3>2 DEF ToldOf, Ender
    <3>4. endings'[r] = 1 + (IF "webhook" \in enders'[r] THEN 1 ELSE 0)
      BY <2>4, <3>3
    <3>5. "session" \in enders'[r] /\ "refusal" \notin enders'[r] /\ ("webhook" \in enders'[r] => "webhook" \in enders[r])
      BY <2>4, <3>1
    <3>6. "webhook" \in enders[r] => callback'[l] = "done"
      BY <1>3, <3>1 DEF ToldOf
    <3> QED BY <1>11, <3>1, <3>4, <3>5, <3>6 DEF ToldOf, Ender
  <2>8. enders'[r] # {} /\ outcome # "none"
    BY <2>4
  <2>9. (row[r].taken => r \in crossed') /\ (leg'[l].state = "room" => r \in crossed' \/ Twice(r))
    BY <1>3, <1>6, <1>12, <1>13, <2>2
  <2> QED BY <1>1, <1>11, <2>3, <2>5, <2>6, <2>7, <2>8, <2>9, LegKeeps
<1> QED BY <1>14, <1>15

\* What may happen to a row beside its legs is that an operator marks it.
LEMMA MarkKeeps ==
    ASSUME CallInv, Typed', Ownership',
           UNCHANGED <<dial, leg, callback, session, saw, endings, enders, early, unsaved, slow, lateStart>>,
           crossed \subseteq crossed',
           \A r \in Rows : /\ row'[r].outcome = row[r].outcome /\ row'[r].status = row[r].status
                           /\ row'[r].sid = row[r].sid /\ (row'[r].step <=> row[r].step)
                           /\ row[r].taken => row'[r].taken
                           /\ row'[r].taken => row[r].taken \/ (row[r].sid # NoLeg /\ (row[r].outcome # "none" => r \in crossed')),
           operator'.pc \in {"mark", "redirect"} =>
               /\ operator'.row \in Rows /\ operator'.leg \in Legs
               /\ row[operator'.row].sid # NoLeg
               /\ leg[operator'.leg].state # "free" /\ leg[operator'.leg].row = operator'.row,
           operator'.pc = "redirect" => Taken(operator.row)'
    PROVE  CallInv'
<1> USE DEF CallInv
<1>1. /\ \A m \in Legs : leg[m].state # "free" => leg[m].row \in Rows
      /\ RowsQuiet /\ LegsQuiet
  BY DEF Typed, LegT, Dialled, RowsQuiet, LegsQuiet
<1>2. Astray' = Astray /\ \A q \in Rows : Twice(q)' <=> Twice(q)
  BY <1>1, QuietAstray
<1>3. SidOwned' /\ OutcomeTold'
  BY DEF SidOwned, OutcomeTold
<1>4. Progress'
  <2>1. ASSUME NEW m \in Legs, callback'[m] = "write" PROVE (row[leg[m].row].sid = m \/ Twice(leg[m].row))'
    <3>1. PICK q \in Rows : q = leg[m].row /\ q = leg'[m].row /\ (row[q].sid = m \/ Twice(q))
      BY <1>1, <2>1 DEF Progress, ProgressOf
    <3>2. row'[q].sid = m \/ Twice(q)'
      BY <1>2, <3>1
    <3> QED BY <3>1, <3>2 DEF Twice
  <2> QED BY <2>1 DEF Progress, ProgressOf
<1>5. CalledBack'
  BY <1>1 DEF CalledBack, Progress, ProgressOf
<1>6. Told'
  <2> SUFFICES ASSUME NEW r \in Rows \ Astray PROVE ToldOf(r)'
    BY <1>2 DEF Told
  <2>1. ToldOf(r) /\ LegsOf(r)' = LegsOf(r)
    BY DEF Told, LegsOf
  <2>2. row'[r].status = row[r].status /\ (row'[r].step <=> row[r].step)
    OBVIOUS
  <2> QED BY <2>1, <2>2 DEF ToldOf, Ender
<1>7. EndedIsNotLive'
  BY <1>2 DEF EndedIsNotLive
<1>8. Marked'
  <2>1. \A r \in Rows : row'[r].taken => row'[r].sid # NoLeg
    BY DEF Marked
  <2>2. ASSUME NEW r \in Rows, row'[r].taken, row'[r].outcome # "none"
        PROVE  r \in crossed' \/ Twice(r)' \/ callback[row'[r].sid] = "done"
    BY <1>2, <2>2 DEF Marked
  <2>3. \A l \in Legs : saw[l] => leg[l].state # "free" /\ row'[leg[l].row].sid # NoLeg
    BY <1>1 DEF Marked
  <2>4. operator'.pc \in {"mark", "redirect"} => Held'
    BY DEF Held
  <2>5. ASSUME NEW m \in Legs, leg'[m].state = "room" PROVE Taken(leg[m].row)'
    <3>1. PICK q \in Rows : q = leg[m].row /\ q = leg'[m].row /\ Taken(q)
      BY <1>1, <2>5 DEF Marked
    <3>2. Taken(q)'
      BY <1>2, <3>1 DEF Taken
    <3> QED BY <3>1, <3>2 DEF Taken, Twice
  <2> QED BY <2>1, <2>2, <2>3, <2>4, <2>5 DEF Marked
<1> QED BY <1>3, <1>4, <1>5, <1>6, <1>7, <1>8

\* The operator checks and marks a row, and moves the leg that was its sid.
LEMMA JumpKeeps ==
    ASSUME CallInv, Typed', Ownership', (\E r \in Rows : JumpChecks(r)) \/ OperatorStep
    PROVE  CallInv'
<1> USE DEF CallInv
<1>1. CASE \E r \in Rows : JumpChecks(r)
  <2>1. PICK r \in Rows : JumpChecks(r)
    BY <1>1
  <2>2. /\ operator' = [pc |-> "mark", row |-> r, leg |-> row[r].sid] /\ row[r].sid # NoLeg
        /\ UNCHANGED <<row, dial, leg, callback, session, saw, endings, enders, early, unsaved, slow, lateStart, crossed>>
    BY <2>1 DEF JumpChecks, histVars
  <2>3. row[r].sid \in Legs /\ leg[row[r].sid].state # "free" /\ leg[row[r].sid].row = r
    BY <2>2 DEF SidOwned, Typed, RowT, RowRecord
  <2>4. /\ operator'.pc = "mark" /\ operator'.row = r /\ operator'.leg = row[r].sid
    BY <2>2
  <2> QED BY <2>2, <2>3, <2>4, MarkKeeps
<1>2. CASE JumpMarks
  <2>1. PICK r \in Rows : operator.row = r /\ operator.pc = "mark" /\ row[r] \in RowRecord
    BY <1>2 DEF JumpMarks, Typed, RoomT, RowT
  <2>2. /\ row' = [row EXCEPT ![r].taken = TRUE] /\ operator' = [operator EXCEPT !.pc = "redirect"]
        /\ crossed' = IF row[r].outcome # "none" THEN crossed \union {r} ELSE crossed
        /\ UNCHANGED <<dial, leg, callback, session, saw, endings, enders, early, unsaved, slow, lateStart>>
    BY <1>2, <2>1 DEF JumpMarks
  <2>3. /\ row[r].sid # NoLeg /\ operator.leg \in Legs
        /\ leg[operator.leg].state # "free" /\ leg[operator.leg].row = r
    BY <2>1 DEF Marked, Held
  <2>4. operator'.pc = "redirect" /\ operator'.row = r /\ operator'.leg = operator.leg
    BY <2>1, <2>2 DEF Typed, RoomT
  <2>5. /\ \A s \in Rows \ {r} : row'[s] = row[s]
        /\ row'[r].outcome = row[r].outcome /\ row'[r].status = row[r].status /\ row'[r].sid = row[r].sid
        /\ (row'[r].step <=> row[r].step) /\ row'[r].taken
    BY <2>1, <2>2 DEF Typed, RowT, RowRecord
  <2>6. ASSUME NEW s \in Rows
        PROVE  /\ row'[s].outcome = row[s].outcome /\ row'[s].status = row[s].status
               /\ row'[s].sid = row[s].sid /\ (row'[s].step <=> row[s].step)
               /\ row[s].taken => row'[s].taken
               /\ row'[s].taken => row[s].taken \/ (row[s].sid # NoLeg /\ (row[s].outcome # "none" => s \in crossed'))
    <3>1. CASE s = r
      BY <2>2, <2>3, <2>5, <3>1
    <3>2. CASE s # r
      BY <2>5, <3>2
    <3> QED BY <3>1, <3>2
  <2>7. crossed \subseteq crossed'
    BY <2>2
  <2>8. Taken(operator.row)'
    BY <2>4, <2>5 DEF Taken
  <2> QED BY <2>2, <2>3, <2>4, <2>6, <2>7, <2>8, MarkKeeps
<1>3. CASE JumpRedirects
  <2>1. PICK r \in Rows : operator.row = r /\ operator.pc = "redirect" /\ row[r].sid # NoLeg
    BY <1>3 DEF JumpRedirects, Typed, RoomT, Marked, Held
  <2>2. PICK k \in Legs : k = operator.leg /\ leg[k].row = r /\ leg[k].state # "free"
    BY <2>1 DEF Marked, Held
  <2>3. /\ operator' = [operator EXCEPT !.pc = "done"]
        /\ IF leg[k].state = "up"
           THEN leg' = [leg EXCEPT ![k].state = "room"] /\ session' = [session EXCEPT ![k] = Stopped(k)]
           ELSE UNCHANGED <<leg, session>>
        /\ UNCHANGED <<row, dial, callback, saw, endings, enders, early, unsaved, slow, lateStart, crossed>>
    BY <1>3, <2>1, <2>2 DEF JumpRedirects, histVars
  <2>4. operator'.pc = "done" /\ ProgressOf(k) /\ leg[k] \in LegRecord
    BY <2>3 DEF Typed, RoomT, Progress, LegT, Dialled
  <2>5. RowsQuiet /\ LegsQuiet
    BY <1>3, WorldLeavesOwnership DEF OperatorStep
  <2>6. /\ \A m \in Legs \ {k} : leg'[m] = leg[m] /\ session'[m] = session[m]
        /\ leg'[k].row = r /\ leg'[k].result = leg[k].result
        /\ \/ leg[k].state = "up" /\ leg'[k].state = "room" /\ session'[k] = Stopped(k)
           \/ leg[k].state # "up" /\ leg'[k] = leg[k] /\ session'[k] = session[k]
    BY <2>2, <2>3, <2>4 DEF Typed, LegT, LegRecord
  <2>7. LegFrame(k)
    BY <2>3, <2>4, <2>5, <2>6 DEF LegFrame
  <2>8. Stopped(k) \notin {"starting", "live"} /\ (session[k] = "gone" => Stopped(k) = "gone")
    BY DEF Stopped
  <2>9. ProgressNext(k, r)
    BY <2>2, <2>3, <2>4, <2>6, <2>8 DEF ProgressOf, ProgressNext
  <2>10. row[r].taken \/ r \in crossed \/ Twice(r)
    BY <2>1 DEF Marked, Taken
  <2>11. (callback[k] = "done" => row[r].outcome # "none" \/ r \in early) /\ row[r].sid # NoLeg
    BY <2>1, <2>2, SentinelAssumption DEF CalledBack
  <2> QED BY <2>2, <2>3, <2>6, <2>7, <2>8, <2>9, <2>10, <2>11, LegKeepsRow
<1> QED BY <1>1, <1>2, <1>3 DEF OperatorStep

\* Every step keeps what is said of the rows and their legs.
LEMMA CallStep == CallInv /\ [Next]_vars => CallInv'
<1> SUFFICES ASSUME CallInv, [Next]_vars PROVE CallInv'
  OBVIOUS
<1>1. Typed /\ Ownership /\ Typed' /\ Ownership'
  BY TypeStep, OwnershipStep DEF CallInv
<1>2. ASSUME NEW d \in Dials, Begin(d) \/ DialStep(d) \/ DialFails(d) PROVE CallInv'
  <2>1. CASE Moves(d) /\ ~FireRefused(d)
    BY <1>1, <2>1, CalmMoves, CalmKeeps
  <2>2. CASE Begin(d) \/ CreateQueued(d) \/ Create(d) \/ DialFails(d)
    BY <1>1, <2>2, CalmRows, CalmKeeps
  <2> QED BY <1>1, <1>2, <2>1, <2>2, PlaceKeeps, SaveKeeps, RefusalKeeps DEF DialStep, Moves
<1>3. ASSUME NEW d \in Dials, NEW e \in Dials, RetriedBeside(d, e) PROVE CallInv'
  BY <1>1, <1>3, CalmBeside, CalmKeeps
<1>4. ASSUME NEW l \in Legs, Answer(l) \/ LegEnds(l) \/ LegStep(l) \/ CallbackLost(l) \/ SessionEnds(l)
      PROVE  CallInv'
  <2>1. PICK r \in Rows : leg[l].row = r
    BY <1>1, <1>4, LegHasRow
       DEF Answer, LegEnds, CallbackReads, CallbackWrites, CallbackLost, LegStep,
           SessionLoads, SessionEnds, StartWrites, FinalizeReads, FinalizeWrites
  <2>2. CASE StartWrites(l) \/ CallbackWrites(l) \/ FinalizeWrites(l)
    BY <1>1, <2>1, <2>2, StartKeeps, StampKeeps, FinalizeKeeps
  <2>3. CASE Answer(l) \/ LegEnds(l) \/ CallbackReads(l) \/ CallbackLost(l)
    BY <1>1, <2>1, <2>3, ProviderKeeps
  <2>4. CASE SessionLoads(l) \/ SessionEnds(l) \/ FinalizeReads(l)
    BY <1>1, <2>1, <2>4, SessionKeeps
  <2> QED BY <1>4, <2>2, <2>3, <2>4 DEF LegStep
<1>5. CASE OptOut \/ UNCHANGED vars
  <2>1. UNCHANGED <<row, dial, leg, callback, session, saw, operator, endings, enders, early, unsaved, slow, lateStart,
                    crossed>>
    BY <1>5 DEF OptOut, vars, histVars
  <2>2. operator.pc \in {"mark", "redirect"} =>
            /\ operator.row \in Rows /\ operator.leg \in Legs /\ row[operator.row].sid # NoLeg
            /\ leg[operator.leg].state # "free" /\ leg[operator.leg].row = operator.row
    BY <1>1 DEF CallInv, Marked, Held, Typed, RoomT
  <2>3. operator'.pc = "redirect" => Taken(operator.row)'
    <3>1. operator.pc = "redirect" => Taken(operator.row)
      BY DEF CallInv, Marked
    <3>2. \A d \in slow : IsStep(d)' <=> IsStep(d)
      BY <2>1 DEF IsStep
    <3> QED BY <2>1, <3>1, <3>2 DEF Taken, Twice
  <2> QED BY <1>1, <2>1, <2>2, <2>3, MarkKeeps
<1> QED BY <1>1, <1>2, <1>3, <1>4, <1>5, JumpKeeps DEF Next

\* Nothing is said of anything at first.
LEMMA CallInit == Init => CallInv
<1> SUFFICES ASSUME Init PROVE CallInv
  OBVIOUS
<1>1. Typed /\ Ownership
  BY TypeInit, OwnershipInit
<1>2. SidOwned /\ Progress /\ CalledBack
  BY DEF Init, SidOwned, Progress, ProgressOf, CalledBack, FreeRow
<1>3. OutcomeTold /\ Marked /\ EndedIsNotLive
  BY DEF Init, OutcomeTold, Marked, EndedIsNotLive, FreeRow
<1>4. Told
  BY DEF Init, Told, ToldOf, Ender
<1> QED BY <1>1, <1>2, <1>3, <1>4 DEF CallInv

LEMMA CallInvHolds == Spec => []CallInv
BY CallInit, CallStep, PTL DEF Spec

\* A row with an outcome does not look live, unless its session started when the
\* leg was already gone, or the row has legs beside the one it knows: one that
\* never reached it, or that of a retry beside a slow attempt.
THEOREM EndedNotLive == Spec => []EndedIsNotLive
<1>1. CallInv => EndedIsNotLive
  BY DEF CallInv
<1> QED BY <1>1, CallInvHolds, PTL

\* One terminal event per call, but for a call that both the stream's end and the
\* status callback close, and for a row with legs beside the one it knows.
THEOREM EndingsTold == Spec => []EndingsExplained
<1>1. CallInv => EndingsExplained
  <2> SUFFICES ASSUME CallInv, NEW r \in Rows \ Astray, endings[r] > 1
               PROVE  {"webhook", "session"} \subseteq enders[r]
    BY DEF EndingsExplained
  <2>1. ToldOf(r)
    BY DEF CallInv, Told
  <2>2. CASE "refusal" \in enders[r]
    <3>1. "webhook" \notin enders[r] /\ "session" \notin enders[r]
      BY <2>1, <2>2 DEF ToldOf
    <3> QED BY <2>1, <3>1, <2>2 DEF ToldOf, Ender
  <2>3. CASE "refusal" \notin enders[r]
    BY <2>1, <2>3 DEF ToldOf, Ender
  <2> QED BY <2>2, <2>3
<1> QED BY <1>1, CallInvHolds, PTL

\* While the contact is in the room the row is not closed, unless the takeover
\* crossed a finalize that had read the row before it, or the call rang twice.
THEOREM TakenOpen == Spec => []TakenStaysOpen
<1>1. CallInv => TakenStaysOpen
  <2> SUFFICES ASSUME CallInv, NEW l \in Legs, leg[l].state = "room", NEW r \in Rows, row[r].sid = l,
                      row[r].outcome # "none"
               PROVE  r \in crossed \/ Twice(r)
    BY DEF TakenStaysOpen, RowOf, TwiceRows
  <2>1. leg[l].row = r /\ callback[l] # "done"
    BY SentinelAssumption DEF CallInv, SidOwned, Progress, ProgressOf
  <2> QED BY <2>1 DEF CallInv, Marked, Taken
<1> QED BY <1>1, CallInvHolds, PTL

\* A row whose leg ended and whose handlers are through has its outcome, unless
\* the callback came before the sid was saved, or not at all.
THEOREM CallsEnd == Spec => []EveryCallEnds
<1>1. CallInv => EveryCallEnds
  <2> SUFFICES ASSUME CallInv, NEW l \in Legs, callback[l] = "done", NEW r \in Rows, row[r].sid = l
               PROVE  row[r].outcome # "none" \/ r \in early
    BY DEF EveryCallEnds, Over, RowOf
  <2>1. leg[l].row = r
    BY SentinelAssumption DEF CallInv, SidOwned
  <2> QED BY <2>1 DEF CallInv, CalledBack
<1> QED BY <1>1, CallInvHolds, PTL
=============================================================================
