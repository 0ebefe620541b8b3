----------------------- MODULE ContactValidationProofs -----------------------
(* What holds of email validation for every set of contacts, batches, imports *)
(* and workers, every allowance and every bound.                              *)
EXTENDS ContactValidation, FiniteSetTheorems, TLAPS

-----------------------------------------------------------------------------
(* Type correctness. *)

Pcs == {"idle", "start", "filter", "pay", "persist", "hold", "count", "finalize"}
BatchRecord == [status: Statuses, reason: {"none", "allowance", "provider"}, lease: {"none", "live", "past"}]
Outcomes == {"absent", "pending", "answered", "skipped"}
CacheRecord == [verdict: Answers \union {"none"}, billed: Days \union {"no"}]
Findings == [Contacts -> Answers \union {"none", "skipped"}]
TurnRecord == [pc: Pcs, batch: Batches, was: Statuses, day: Days, work: SUBSET Contacts, found: Findings,
               hits: SUBSET Contacts, pay: SUBSET Contacts, held: {"none", "allowance", "provider"}]

BatchT  == batch \in [Batches -> BatchRecord]
ItemT   == item \in [Batches -> [Contacts -> Outcomes]]
RecordT == /\ verdict \in [Contacts -> Answers \union {Unverified}]
           /\ cache \in [Contacts -> CacheRecord]
           /\ suppressed \subseteq Contacts
JobT    == jobs \in [Batches -> 0..MaxJobs]
TurnT   == turn \in [Turns -> TurnRecord]
ComingT == /\ import \in [Imports -> Statuses \union {"todo", "done", "failed"}]
           /\ heal \in [Drains -> Contacts \union {NoContact}]
FaultT  == faults \in 0..MaxFaults
SpentT  == /\ paid \in [Contacts -> Nat] /\ spent \in Nat
           /\ exposed \subseteq Contacts /\ unmetered \in BOOLEAN
EndT    == ends \in [Batches -> [completed: Nat, reopened: Nat]] /\ late \subseteq Batches

Typed == BatchT /\ ItemT /\ RecordT /\ JobT /\ TurnT /\ ComingT /\ FaultT /\ SpentT /\ EndT

\* The parts make up the type invariant.
LEMMA TypedImplies == Typed => TypeOK
BY DEF Typed, BatchT, ItemT, RecordT, JobT, TurnT, ComingT, FaultT, SpentT, EndT, TypeOK,
   BatchRecord, Outcomes, CacheRecord, Findings, TurnRecord, Pcs

\* A turn at rest is well formed.
LEMMA IdleTyped == Idle \in TurnRecord
<1>1. (CHOOSE b \in Batches : TRUE) \in Batches
  BY ImportAssumption
<1>2. NoFinding \in Findings
  BY DEF NoFinding, Findings
<1> QED BY <1>1, <1>2 DEF Idle, TurnRecord, Pcs, Statuses, Days

\* Init is well formed.
LEMMA TypeInit == Init => Typed
<1> SUFFICES ASSUME Init PROVE Typed
  OBVIOUS
<1>1. BatchT /\ ItemT
  BY DEF Init, BatchT, ItemT, BatchRecord, Statuses, Outcomes
<1>2. RecordT /\ ComingT
  BY DEF Init, RecordT, CacheRecord, ComingT
<1>3. JobT /\ FaultT
  <2>1. 0 \in 0..MaxJobs /\ 0 \in 0..MaxFaults
    BY BoundAssumption
  <2> QED BY <2>1 DEF Init, JobT, FaultT
<1>4. TurnT
  BY IdleTyped DEF Init, TurnT
<1>5. SpentT /\ EndT
  BY DEF Init, SpentT, EndT
<1> QED BY <1>1, <1>2, <1>3, <1>4, <1>5 DEF Typed

\* What a queue job more, a fault more and a turn's move leave well formed.
LEMMA Helpers ==
    /\ \A n \in 0..MaxJobs : Add(n) \in 0..MaxJobs
    /\ FaultT /\ (Fault \/ UNCHANGED faults) => FaultT'
    /\ TurnT => \A t \in Turns : \A r \in TurnRecord : turn' = [turn EXCEPT ![t] = r] => TurnT'
    /\ JobT => \A b \in Batches : jobs' = [jobs EXCEPT ![b] = Add(@)] => JobT'
    /\ BatchT => \A b \in Batches : \A r \in BatchRecord : batch' = [batch EXCEPT ![b] = r] => BatchT'
<1>1. \A n \in 0..MaxJobs : Add(n) \in 0..MaxJobs
  BY BoundAssumption DEF Add
<1>2. FaultT /\ (Fault \/ UNCHANGED faults) => FaultT'
  BY BoundAssumption DEF FaultT, Fault
<1> QED BY <1>1, <1>2 DEF TurnT, JobT, BatchT

\* Counting a completion or a re-opening keeps the counts.
LEMMA Counts ==
    ASSUME EndT, NEW b \in Batches, late' \subseteq late \union {b},
           \/ UNCHANGED ends
           \/ ends' = [ends EXCEPT ![b].reopened = @ + 1]
           \/ ends' = [ends EXCEPT ![b].completed = @ + 1]
    PROVE  EndT'
<1>1. /\ [ends[b] EXCEPT !.reopened = @ + 1] \in [completed: Nat, reopened: Nat]
      /\ [ends[b] EXCEPT !.completed = @ + 1] \in [completed: Nat, reopened: Nat]
  BY DEF EndT
<1>2. late' \subseteq Batches
  BY DEF EndT
<1>3. CASE UNCHANGED ends
  BY <1>2, <1>3 DEF EndT
<1>4. CASE ends' = [ends EXCEPT ![b].reopened = @ + 1]
  BY <1>1, <1>2, <1>4 DEF EndT
<1>5. CASE ends' = [ends EXCEPT ![b].completed = @ + 1]
  BY <1>1, <1>2, <1>5 DEF EndT
<1> QED BY <1>3, <1>4, <1>5

\* The imports and the drains keep the types.
LEMMA ComingTyped ==
    ASSUME Typed,
           \/ \E i \in Imports : ImportRead(i) \/ ImportFails(i) \/ ImportWrite(i)
           \/ \E d \in Drains : \/ \E c \in Contacts : HealRead(d, c)
                                \/ \E b \in Spare : HealWrite(d, b)
    PROVE  Typed'
<1> USE DEF Typed
<1>1. \A i \in Imports : ImportOf[i].batch \in Batches
  BY ImportAssumption
<1>2. CASE \E i \in Imports : ImportRead(i) \/ ImportFails(i)
  <2>1. PICK i \in Imports : ImportRead(i) \/ ImportFails(i)
    BY <1>2
  <2>2. batch[ImportOf[i].batch].status \in Statuses
    BY <1>1 DEF BatchT, BatchRecord
  <2>3. ComingT'
    BY <2>1, <2>2 DEF ImportRead, ImportFails, ComingT
  <2> QED BY <2>1, <2>3 DEF ImportRead, ImportFails, BatchT, ItemT, RecordT, JobT, TurnT, FaultT, SpentT, EndT,
          queueVars, histVars
<1>3. CASE \E i \in Imports : ImportWrite(i)
  <2>1. PICK i \in Imports : ImportWrite(i)
    BY <1>3
  <2> DEFINE b == ImportOf[i].batch
  <2>2. b \in Batches /\ batch[b] \in BatchRecord
    BY <1>1 DEF BatchT
  <2>3. BatchT'
    <3>1. Opened(b, import[i]) \in BatchRecord
      BY <2>2 DEF Opened, BatchRecord, Statuses
    <3> QED BY <2>1, <2>2, <3>1, Helpers DEF ImportWrite
  <2>4. ItemT'
    BY <2>1, <2>2 DEF ImportWrite, ItemT, Outcomes
  <2>5. JobT' /\ FaultT'
    BY <2>1, <2>2, Helpers DEF ImportWrite, JobT
  <2>6. EndT'
    <3>1. late' \subseteq late \union {b}
      BY <2>1 DEF ImportWrite
    <3>2. CASE import[i] = "completed"
      <4>1. ends' = [ends EXCEPT ![b].reopened = @ + 1]
        BY <2>1, <3>2 DEF ImportWrite
      <4> QED BY <2>2, <3>1, <4>1, Counts
    <3>3. CASE import[i] # "completed"
      <4>1. UNCHANGED ends
        BY <2>1, <3>3 DEF ImportWrite, EndT
      <4> QED BY <2>2, <3>1, <4>1, Counts
    <3> QED BY <3>2, <3>3
  <2>7. ComingT'
    BY <2>1 DEF ImportWrite, ComingT
  <2> QED BY <2>1, <2>3, <2>4, <2>5, <2>6, <2>7 DEF ImportWrite, RecordT, TurnT, SpentT, histVars
<1>4. CASE \E d \in Drains, c \in Contacts : HealRead(d, c)
  <2>1. ComingT'
    BY <1>4 DEF HealRead, ComingT
  <2> QED BY <1>4, <2>1 DEF HealRead, BatchT, ItemT, RecordT, JobT, TurnT, FaultT, SpentT, EndT,
          queueVars, histVars
<1>5. CASE \E d \in Drains, b \in Spare : HealWrite(d, b)
  <2>1. PICK d \in Drains, b \in Spare : HealWrite(d, b)
    BY <1>5
  <2>2. b \in Batches /\ heal[d] \in Contacts
    BY <2>1, ImportAssumption DEF HealWrite, ComingT
  <2>3. BatchT'
    BY <2>1, <2>2 DEF HealWrite, BatchT, BatchRecord, Statuses
  <2>4. ItemT'
    BY <2>1, <2>2 DEF HealWrite, ItemT, Outcomes
  <2>5. JobT'
    BY <2>1, <2>2, Helpers DEF HealWrite
  <2>6. ComingT'
    BY <2>1 DEF HealWrite, ComingT
  <2> QED BY <2>1, <2>3, <2>4, <2>5, <2>6 DEF HealWrite, RecordT, TurnT, FaultT, SpentT, EndT, histVars
<1> QED BY <1>2, <1>3, <1>4, <1>5

\* A turn's batch goes back with its lease dropped, and the turn rests.
LEMMA RequeueTyped ==
    ASSUME Typed, NEW t \in Turns, NEW r \in BatchRecord, Requeue(t, r)
    PROVE  BatchT' /\ JobT' /\ TurnT'
<1> USE DEF Typed
<1>1. turn[t].batch \in Batches /\ [r EXCEPT !.lease = "none"] \in BatchRecord
  BY DEF TurnT, TurnRecord, BatchRecord
<1> QED BY <1>1, IdleTyped, Helpers DEF Requeue

\* The claim and the way to the chunk keep the types.
LEMMA OpeningTyped ==
    ASSUME Typed, NEW t \in Turns,
           (\E b \in Batches : Claim(t, b)) \/ SliceFull(t) \/ Start(t) \/ TurnDies(t)
    PROVE  Typed'
<1> USE DEF Typed
<1>1. turn[t] \in TurnRecord /\ turn[t].batch \in Batches /\ batch[turn[t].batch] \in BatchRecord
  BY DEF TurnT, TurnRecord, BatchT
<1>2. CASE \E b \in Batches : Claim(t, b)
  <2>1. PICK b \in Batches : Claim(t, b)
    BY <1>2
  <2>2. batch[b] \in BatchRecord /\ [batch[b] EXCEPT !.lease = "live"] \in BatchRecord
    BY DEF BatchT, BatchRecord
  <2>3. [Idle EXCEPT !.pc = "start", !.batch = b, !.was = batch[b].status] \in TurnRecord
    BY <2>2, IdleTyped DEF TurnRecord, Pcs, BatchRecord
  <2>4. BatchT' /\ TurnT'
    BY <2>1, <2>2, <2>3, Helpers DEF Claim
  <2>5. JobT'
    <3>1. jobs[b] - 1 \in 0..MaxJobs
      <4>1. jobs[b] \in 0..MaxJobs /\ jobs[b] > 0
        BY <2>1 DEF Claim, JobT
      <4> QED BY <4>1, BoundAssumption
    <3> QED BY <2>1, <3>1 DEF Claim, JobT
  <2> QED BY <2>1, <2>4, <2>5 DEF Claim, ItemT, RecordT, ComingT, FaultT, SpentT, EndT, histVars
<1>3. CASE SliceFull(t)
  <2>1. BatchT' /\ JobT' /\ TurnT'
    BY <1>1, <1>3, RequeueTyped DEF SliceFull
  <2> QED BY <1>3, <2>1 DEF SliceFull, ItemT, RecordT, ComingT, FaultT, SpentT, EndT, histVars
<1>4. CASE Start(t)
  <2> DEFINE b == turn[t].batch
  <2>1. PICK work \in SUBSET Pending(b) :
          /\ turn' = [turn EXCEPT ![t].work = work, ![t].was = "none",
                                  ![t].pc = IF work = {} THEN "finalize" ELSE "filter"]
          /\ batch' = IF work # {} /\ turn[t].was # "running"
                      THEN [batch EXCEPT ![b].status = "running", ![b].reason = "none"]
                      ELSE batch
          /\ ends' = IF work # {} /\ turn[t].was # "running" /\ batch[b].status = "completed"
                     THEN [ends EXCEPT ![b].reopened = @ + 1] ELSE ends
    BY <1>4 DEF Start
  <2>2. [turn[t] EXCEPT !.work = work, !.was = "none", !.pc = IF work = {} THEN "finalize" ELSE "filter"] \in TurnRecord
    BY <1>1 DEF TurnRecord, Pcs, Pending, Statuses
  <2>3. TurnT'
    BY <2>1, <2>2 DEF TurnT
  <2>4. BatchT'
    <3>1. [batch[b] EXCEPT !.status = "running", !.reason = "none"] \in BatchRecord
      BY <1>1 DEF BatchRecord, Statuses
    <3> QED BY <1>1, <2>1, <3>1 DEF BatchT
  <2>5. EndT'
    <3>1. UNCHANGED late
      BY <1>4 DEF Start, histVars
    <3>2. CASE UNCHANGED ends
      BY <3>1, <3>2 DEF EndT
    <3>3. CASE ends' = [ends EXCEPT ![b].reopened = @ + 1]
      BY <1>1, <3>1, <3>3, Counts
    <3> QED BY <2>1, <3>2, <3>3
  <2> QED BY <1>4, <2>3, <2>4, <2>5 DEF Start, ItemT, RecordT, JobT, ComingT, FaultT, SpentT, histVars
<1>5. CASE TurnDies(t)
  <2>1. TurnT' /\ FaultT'
    BY <1>5, IdleTyped, Helpers DEF TurnDies
  <2>2. JobT'
    <3>1. CASE jobs' = [jobs EXCEPT ![turn[t].batch] = Add(@)]
      BY <1>1, <3>1, Helpers
    <3>2. CASE UNCHANGED jobs
      BY <3>2 DEF JobT
    <3> QED BY <1>5, <3>1, <3>2 DEF TurnDies
  <2>3. SpentT'
    <3>1. turn[t].pay \subseteq Contacts
      BY <1>1 DEF TurnRecord
    <3> QED BY <1>5, <3>1 DEF TurnDies, SpentT
  <2> QED BY <1>5, <2>1, <2>2, <2>3 DEF TurnDies, BatchT, ItemT, RecordT, ComingT, EndT
<1> QED BY <1>2, <1>3, <1>4, <1>5

\* What the provider charges keeps the counts.
LEMMA ChargesTyped ==
    ASSUME SpentT, NEW got \in SUBSET Contacts, Charges(got)
    PROVE  paid' \in [Contacts -> Nat] /\ spent' \in Nat
<1>1. Cardinality(got) \in Nat
  BY BoundAssumption, FS_Subset, FS_CardinalityType
<1> QED BY <1>1 DEF Charges, SpentT

\* Filtering, buying and writing keep the types.
LEMMA ResolvingTyped ==
    ASSUME Typed, NEW t \in Turns, Filter(t) \/ Pay(t) \/ ProviderDown(t) \/ Persist(t)
    PROVE  Typed'
<1> USE DEF Typed
<1>1. turn[t] \in TurnRecord /\ turn[t].batch \in Batches
  BY DEF TurnT, TurnRecord
<1>2. CASE Filter(t)
  <2> DEFINE work == turn[t].work
             hits == {c \in work : cache[c].verdict # "none"}
             skip == (work \ hits) \intersect suppressed
             refused == (work \ (hits \union skip)) \intersect Undeliverable
             payable == work \ (hits \union skip \union refused)
             found == [c \in Contacts |-> CASE c \in hits -> cache[c].verdict
                                            [] c \in skip -> "skipped"
                                            [] c \in refused -> "invalid"
                                            [] OTHER -> "none"]
  <2>1. PICK buy \in SUBSET payable :
          /\ turn' = [turn EXCEPT ![t] = [@ EXCEPT !.found = found, !.hits = hits, !.pay = buy,
                        !.held = IF buy # payable THEN "allowance" ELSE "none",
                        !.pc = IF buy = {} THEN "persist" ELSE "pay"]]
          /\ exposed' = exposed \union (buy \intersect Buying(t))
          /\ unmetered' = (unmetered \/ (buy # {} /\ Buying(t) # {}))
    BY <1>2 DEF Filter
  <2>2. work \subseteq Contacts /\ hits \subseteq Contacts /\ buy \subseteq Contacts
    BY <1>1 DEF TurnRecord
  <2>3. found \in Findings
    <3> SUFFICES ASSUME NEW c \in Contacts PROVE found[c] \in Answers \union {"none", "skipped"}
      BY DEF Findings
    <3>1. cache[c].verdict \in Answers \union {"none"} /\ "invalid" \in Answers
      BY AnswerAssumption DEF RecordT, CacheRecord
    <3> QED BY <3>1
  <2> HIDE DEF found, hits, payable
  <2>4. [turn[t] EXCEPT !.found = found, !.hits = hits, !.pay = buy,
                        !.held = IF buy # payable THEN "allowance" ELSE "none",
                        !.pc = IF buy = {} THEN "persist" ELSE "pay"] \in TurnRecord
    BY <1>1, <2>2, <2>3 DEF TurnRecord, Pcs
  <2>5. TurnT'
    BY <2>1, <2>4 DEF TurnT
  <2>6. SpentT'
    BY <1>2, <2>1, <2>2 DEF Filter, SpentT
  <2> QED BY <1>2, <2>5, <2>6 DEF Filter, BatchT, ItemT, RecordT, JobT, ComingT, FaultT, EndT, queueVars
<1>3. CASE Pay(t)
  <2>9. PICK got \in SUBSET turn[t].pay : \E answer \in [got -> Answers] :
          /\ IF got = turn[t].pay THEN UNCHANGED faults ELSE Fault
          /\ turn' = [turn EXCEPT ![t].pc = "persist", ![t].pay = got,
                          ![t].found = [c \in Contacts |-> IF c \in got THEN answer[c] ELSE @[c]]]
          /\ Charges(got)
          /\ unmetered' = (unmetered \/ (turn[t].day = "yesterday" /\ got # {}))
    BY <1>3 DEF Pay
  <2>1. PICK answer \in [got -> Answers] :
          /\ IF got = turn[t].pay THEN UNCHANGED faults ELSE Fault
          /\ turn' = [turn EXCEPT ![t].pc = "persist", ![t].pay = got,
                          ![t].found = [c \in Contacts |-> IF c \in got THEN answer[c] ELSE @[c]]]
          /\ Charges(got)
          /\ unmetered' = (unmetered \/ (turn[t].day = "yesterday" /\ got # {}))
    BY <2>9
  <2>2. got \subseteq Contacts /\ turn[t].found \in Findings
    BY <1>1 DEF TurnRecord
  <2>3. [c \in Contacts |-> IF c \in got THEN answer[c] ELSE turn[t].found[c]] \in Findings
    BY <2>2 DEF Findings
  <2>4. [turn[t] EXCEPT !.pc = "persist", !.pay = got,
           !.found = [c \in Contacts |-> IF c \in got THEN answer[c] ELSE turn[t].found[c]]] \in TurnRecord
    BY <1>1, <2>2, <2>3 DEF TurnRecord, Pcs
  <2>5. TurnT'
    BY <2>1, <2>4 DEF TurnT
  <2>7. SpentT'
    BY <1>3, <2>1, <2>2, ChargesTyped DEF Pay, SpentT
  <2>8. FaultT'
    BY <2>1, Helpers
  <2> QED BY <1>3, <2>5, <2>7, <2>8 DEF Pay, BatchT, ItemT, RecordT, JobT, ComingT, EndT, queueVars
<1>4. CASE ProviderDown(t)
  <2>1. [turn[t] EXCEPT !.pc = "persist", !.pay = {}, !.held = "provider"] \in TurnRecord
    BY <1>1 DEF TurnRecord, Pcs
  <2>2. TurnT'
    BY <1>4, <2>1 DEF ProviderDown, TurnT
  <2>3. FaultT'
    BY <1>4, Helpers DEF ProviderDown
  <2>4. SpentT'
    <3>1. PICK got \in SUBSET turn[t].pay :
            /\ Charges(got)
            /\ exposed' = exposed \union got
            /\ unmetered' = (unmetered \/ got # {})
      BY <1>4 DEF ProviderDown
    <3>2. got \subseteq Contacts
      BY <1>1 DEF TurnRecord
    <3> QED BY <3>1, <3>2, ChargesTyped DEF SpentT
  <2> QED BY <1>4, <2>2, <2>3, <2>4 DEF ProviderDown, BatchT, ItemT, RecordT, JobT, ComingT, EndT, queueVars
<1>5. CASE Persist(t)
  <2>1. turn[t].found \in Findings /\ \A c \in Verdicted(t) : c \in Contacts /\ turn[t].found[c] \in Answers
    BY <1>1 DEF TurnRecord, Findings, Verdicted, Settled
  <2>2. ItemT'
    BY <1>1, <1>5 DEF Persist, ItemT, Outcomes
  <2>3. RecordT'
    <3>1. turn[t].day \in Days
      BY <1>1 DEF TurnRecord
    <3> QED BY <1>5, <2>1, <3>1 DEF Persist, RecordT, CacheRecord
  <2>4. [Idle EXCEPT !.pc = IF turn[t].held # "none" THEN "hold" ELSE "count", !.batch = turn[t].batch,
                     !.held = turn[t].held] \in TurnRecord
    BY <1>1, IdleTyped DEF TurnRecord, Pcs
  <2>5. TurnT'
    BY <1>5, <2>4 DEF Persist, TurnT
  <2> QED BY <1>5, <2>2, <2>3, <2>5 DEF Persist, BatchT, JobT, ComingT, FaultT, SpentT, EndT, histVars
<1> QED BY <1>2, <1>3, <1>4, <1>5

\* Leaving a turn keeps the types.
LEMMA LeavingTyped ==
    ASSUME Typed, NEW t \in Turns, Hold(t) \/ CountLeft(t) \/ CountNone(t) \/ Finalize(t)
    PROVE  Typed'
<1> USE DEF Typed
<1>1. turn[t] \in TurnRecord /\ turn[t].batch \in Batches /\ batch[turn[t].batch] \in BatchRecord
  BY DEF TurnT, TurnRecord, BatchT
<1>2. CASE Hold(t)
  <2>1. [batch[turn[t].batch] EXCEPT !.status = "held", !.reason = turn[t].held] \in BatchRecord
    BY <1>1 DEF BatchRecord, TurnRecord, Statuses
  <2>2. BatchT' /\ JobT' /\ TurnT'
    BY <1>2, <2>1, RequeueTyped DEF Hold
  <2>3. EndT'
    <3>1. UNCHANGED late
      BY <1>2 DEF Hold, histVars
    <3>2. CASE UNCHANGED ends
      BY <3>1, <3>2 DEF EndT
    <3>3. CASE ends' = [ends EXCEPT ![turn[t].batch].reopened = @ + 1]
      BY <1>1, <3>1, <3>3, Counts
    <3> QED BY <1>2, <3>2, <3>3 DEF Hold
  <2> QED BY <1>2, <2>2, <2>3 DEF Hold, ItemT, RecordT, ComingT, FaultT, SpentT, histVars
<1>3. CASE CountLeft(t)
  <2>1. BatchT' /\ JobT' /\ TurnT'
    BY <1>1, <1>3, RequeueTyped DEF CountLeft
  <2> QED BY <1>3, <2>1 DEF CountLeft, ItemT, RecordT, ComingT, FaultT, SpentT, EndT, histVars
<1>4. CASE CountNone(t)
  <2>1. [turn[t] EXCEPT !.pc = "finalize"] \in TurnRecord
    BY <1>1 DEF TurnRecord, Pcs
  <2>2. TurnT'
    BY <1>4, <2>1 DEF CountNone, TurnT
  <2> QED BY <1>4, <2>2 DEF CountNone, BatchT, ItemT, RecordT, JobT, ComingT, FaultT, SpentT, EndT,
          queueVars, histVars
<1>5. CASE Finalize(t)
  <2>1. TurnT'
    BY <1>5, IdleTyped, Helpers DEF Finalize
  <2>2. BatchT'
    <3>1. [status |-> "completed", reason |-> "none", lease |-> "none"] \in BatchRecord
      BY DEF BatchRecord, Statuses
    <3> QED BY <1>1, <1>5, <3>1 DEF Finalize, BatchT
  <2>3. EndT'
    <3>1. UNCHANGED late
      BY <1>5 DEF Finalize, histVars
    <3>2. CASE UNCHANGED ends
      BY <3>1, <3>2 DEF EndT
    <3>3. CASE ends' = [ends EXCEPT ![turn[t].batch].completed = @ + 1]
      BY <1>1, <3>1, <3>3, Counts
    <3> QED BY <1>5, <3>2, <3>3 DEF Finalize
  <2> QED BY <1>5, <2>1, <2>2, <2>3 DEF Finalize, ItemT, RecordT, JobT, ComingT, FaultT, SpentT, histVars
<1> QED BY <1>2, <1>3, <1>4, <1>5

\* The world around the turns keeps the types.
LEMMA WorldTyped ==
    ASSUME Typed,
           \/ \E b \in Batches : ClaimCompleted(b) \/ LeaseLapses(b) \/ LeaseOutrun(b) \/ Sweep(b)
           \/ \E c \in Contacts : Suppress(c)
           \/ NextDay
    PROVE  Typed'
<1> USE DEF Typed
<1>1. CASE \E b \in Batches : ClaimCompleted(b) \/ LeaseLapses(b) \/ LeaseOutrun(b) \/ Sweep(b)
  <2>1. PICK b \in Batches : ClaimCompleted(b) \/ LeaseLapses(b) \/ LeaseOutrun(b) \/ Sweep(b)
    BY <1>1
  <2>2. JobT'
    BY <2>1, BoundAssumption DEF ClaimCompleted, LeaseLapses, LeaseOutrun, Sweep, JobT
  <2>3. BatchT'
    BY <2>1 DEF ClaimCompleted, LeaseLapses, LeaseOutrun, Sweep, BatchT, BatchRecord
  <2>4. FaultT'
    BY <2>1, Helpers DEF ClaimCompleted, LeaseLapses, LeaseOutrun, Sweep
  <2> QED BY <2>1, <2>2, <2>3, <2>4 DEF ClaimCompleted, LeaseLapses, LeaseOutrun, Sweep, ItemT, RecordT, TurnT,
          ComingT, SpentT, EndT, histVars
<1>2. CASE \E c \in Contacts : Suppress(c)
  <2>1. FaultT'
    BY <1>2, Helpers DEF Suppress
  <2> QED BY <1>2, <2>1 DEF Suppress, BatchT, ItemT, RecordT, JobT, TurnT, ComingT, SpentT, EndT,
          queueVars, histVars
<1>3. CASE NextDay
  <2>1. RecordT'
    <3>1. \A c \in Contacts : cache'[c] \in CacheRecord
      BY <1>3 DEF NextDay, RecordT, CacheRecord, Days
    <3> QED BY <1>3, <3>1 DEF NextDay, RecordT
  <2>2. TurnT'
    <3>1. \A t \in Turns : [turn[t] EXCEPT !.day = "yesterday"] \in TurnRecord
      BY DEF TurnT, TurnRecord, Days
    <3> QED BY <1>3, <3>1 DEF NextDay, TurnT
  <2> QED BY <1>3, <2>1, <2>2 DEF NextDay, BatchT, ItemT, JobT, ComingT, FaultT, SpentT, EndT, queueVars
<1> QED BY <1>1, <1>2, <1>3

\* Every step keeps the types.
LEMMA TypeStep == Typed /\ [Next]_vars => Typed'
<1> SUFFICES ASSUME Typed, [Next]_vars PROVE Typed'
  OBVIOUS
<1>1. ASSUME NEW t \in Turns, (\E b \in Batches : Claim(t, b)) \/ TurnStep(t) \/ ProviderDown(t) \/ TurnDies(t)
      PROVE  Typed'
  BY <1>1, OpeningTyped, ResolvingTyped, LeavingTyped DEF TurnStep
<1>2. CASE UNCHANGED vars
  BY <1>2 DEF vars, Typed, BatchT, ItemT, RecordT, JobT, TurnT, ComingT, FaultT, SpentT, EndT
<1> QED BY <1>1, <1>2, ComingTyped, WorldTyped DEF Next

\* Every state of validation is well typed.
THEOREM Typing == Spec => []TypeOK
BY TypeInit, TypedImplies, TypeStep, PTL DEF Spec

-----------------------------------------------------------------------------
(* Validation implements the source of verdicts the enrollment gate takes its *)
(* verdicts from: only a persist changes a verdict, and it lands answers.     *)

Source == INSTANCE VerdictSource WITH Contacts <- Contacts, Answers <- Answers, verdict <- verdict

\* Nothing but a persist touches the verdicts.
LEMMA VerdictsStay ==
    ASSUME [Next]_vars
    PROVE  (\E t \in Turns : Persist(t)) \/ UNCHANGED verdict
<1>1. CASE \E i \in Imports : ImportRead(i) \/ ImportFails(i) \/ ImportWrite(i)
  BY <1>1 DEF ImportRead, ImportFails, ImportWrite
<1>2. CASE \E d \in Drains : (\E c \in Contacts : HealRead(d, c)) \/ (\E b \in Spare : HealWrite(d, b))
  BY <1>2 DEF HealRead, HealWrite
<1>3. ASSUME NEW t \in Turns, (\E b \in Batches : Claim(t, b)) \/ TurnStep(t) \/ ProviderDown(t) \/ TurnDies(t)
      PROVE  Persist(t) \/ UNCHANGED verdict
  BY <1>3 DEF Claim, TurnStep, ProviderDown, TurnDies, SliceFull, Start, Filter, Pay, Hold, CountLeft,
     CountNone, Finalize
<1>4. CASE \E b \in Batches : ClaimCompleted(b) \/ LeaseLapses(b) \/ LeaseOutrun(b) \/ Sweep(b)
  BY <1>4 DEF ClaimCompleted, LeaseLapses, LeaseOutrun, Sweep
<1>5. CASE (\E c \in Contacts : Suppress(c)) \/ NextDay \/ UNCHANGED vars
  BY <1>5 DEF Suppress, NextDay, vars
<1> QED BY <1>1, <1>2, <1>3, <1>4, <1>5 DEF Next

\* Every behaviour of validation is one of the verdict source.
LEMMA SourceImplemented == Spec => Source!Spec
<1>1. Init => Source!Init
  BY DEF Init, Source!Init, Source!Unverified, Unverified
<1>2. Typed /\ [Next]_vars => [Source!Land]_verdict
  <2> SUFFICES ASSUME Typed, [Next]_vars PROVE Source!Land \/ UNCHANGED verdict
    OBVIOUS
  <2>1. CASE UNCHANGED verdict
    BY <2>1
  <2>2. CASE \E t \in Turns : Persist(t)
    <3>1. PICK t \in Turns : Persist(t)
      BY <2>2
    <3>2. Verdicted(t) \subseteq Contacts /\ \A c \in Verdicted(t) : turn[t].found[c] \in Answers
      BY DEF Typed, TurnT, TurnRecord, Findings, Verdicted, Settled
    <3> DEFINE C == Verdicted(t)
               v == [c \in C |-> turn[t].found[c]]
    <3>3. C \in SUBSET Contacts /\ v \in [C -> Answers]
      BY <3>2
    <3>4. verdict' = [c \in Contacts |-> IF c \in C THEN v[c] ELSE verdict[c]]
      BY <3>1 DEF Persist
    <3> QED BY <3>3, <3>4 DEF Source!Land
  <2> QED BY <2>1, <2>2, VerdictsStay
<1>3. Spec => []Typed
  BY TypeInit, TypeStep, PTL DEF Spec
<1> QED BY <1>1, <1>2, <1>3, PTL DEF Spec, Source!Spec

-----------------------------------------------------------------------------
(* One event per completion: the counts of a batch differ by what its status  *)
(* says.                                                                      *)

Counted(b) == ends[b].completed <= ends[b].reopened + (IF batch[b].status = "completed" THEN 1 ELSE 0)
EndsInv == Typed /\ \A b \in Batches : Counted(b)

\* What a step may do to a batch's status and counts.
CountKept(b) == ends'[b] = ends[b] /\ (batch[b].status = "completed" => batch'[b].status = "completed")
Reopens(b) == ends'[b].completed = ends[b].completed /\ ends'[b].reopened = ends[b].reopened + 1
Completes(b) ==
    /\ batch[b].status # "completed" /\ batch'[b].status = "completed"
    /\ ends'[b].completed = ends[b].completed + 1 /\ ends'[b].reopened = ends[b].reopened

\* Each of the three keeps the counts.
LEMMA CountedKept ==
    ASSUME Typed, NEW b \in Batches, Counted(b), CountKept(b) \/ Reopens(b) \/ Completes(b)
    PROVE  Counted(b)'
<1>1. ends[b].completed \in Nat /\ ends[b].reopened \in Nat
  BY DEF Typed, EndT
<1>2. CASE CountKept(b)
  BY <1>1, <1>2 DEF Counted, CountKept
<1>3. CASE Reopens(b)
  BY <1>1, <1>3 DEF Counted, Reopens
<1>4. CASE Completes(b)
  BY <1>1, <1>4 DEF Counted, Completes
<1> QED BY <1>2, <1>3, <1>4

\* A batch's status leaves "completed" only with a re-opening counted.
LEMMA StatusCounted ==
    ASSUME Typed, [Next]_vars, NEW b \in Batches
    PROVE  CountKept(b) \/ Reopens(b) \/ Completes(b)
<1> USE DEF Typed
<1>1. batch[b] \in BatchRecord /\ ends[b] \in [completed: Nat, reopened: Nat]
  BY DEF BatchT, EndT
<1>2. ASSUME UNCHANGED ends, NEW x, NEW r, batch' = [batch EXCEPT ![x] = r],
             batch[x].status = "completed" => r.status = "completed"
      PROVE  CountKept(b)
  BY <1>2 DEF CountKept, BatchT
<1>3. CASE UNCHANGED <<batch, ends>>
  BY <1>3 DEF CountKept
<1>4. CASE \E i \in Imports : ImportWrite(i)
  <2>1. PICK i \in Imports : ImportWrite(i)
    BY <1>4
  <2>2. CASE ImportOf[i].batch # b
    BY <2>1, <2>2 DEF ImportWrite, CountKept, BatchT, EndT
  <2>3. CASE ImportOf[i].batch = b /\ import[i] = "completed"
    BY <1>1, <2>1, <2>3 DEF ImportWrite, Reopens, EndT
  <2>4. CASE ImportOf[i].batch = b /\ import[i] # "completed"
    BY <1>1, <2>1, <2>4 DEF ImportWrite, Opened, CountKept, EndT, BatchT
  <2> QED BY <2>2, <2>3, <2>4
<1>5. CASE \E d \in Drains, x \in Spare : HealWrite(d, x)
  <2>1. PICK d \in Drains, x \in Spare : HealWrite(d, x)
    BY <1>5
  <2>2. UNCHANGED ends /\ batch[x].status = "none" /\ batch' = [batch EXCEPT ![x].status = "queued"]
    BY <2>1 DEF HealWrite
  <2> QED BY <2>2 DEF CountKept, BatchT
<1>6. ASSUME NEW t \in Turns, (\E x \in Batches : Claim(t, x)) \/ TurnStep(t) \/ ProviderDown(t) \/ TurnDies(t)
      PROVE  CountKept(b) \/ Reopens(b) \/ Completes(b)
  <2>1. turn[t].batch \in Batches /\ batch[turn[t].batch] \in BatchRecord
    BY DEF TurnT, TurnRecord, BatchT
  <2>2. CASE \E x \in Batches : Claim(t, x)
    BY <2>2 DEF Claim, CountKept, BatchT, BatchRecord
  <2>3. CASE SliceFull(t) \/ CountLeft(t)
    BY <2>1, <2>3 DEF SliceFull, CountLeft, Requeue, CountKept, BatchT, BatchRecord
  <2>4. CASE Start(t)
    <3>1. PICK work \in SUBSET Pending(turn[t].batch) :
            /\ batch' = IF work # {} /\ turn[t].was # "running"
                        THEN [batch EXCEPT ![turn[t].batch].status = "running", ![turn[t].batch].reason = "none"]
                        ELSE batch
            /\ ends' = IF work # {} /\ turn[t].was # "running" /\ batch[turn[t].batch].status = "completed"
                       THEN [ends EXCEPT ![turn[t].batch].reopened = @ + 1] ELSE ends
      BY <2>4 DEF Start
    <3>2. CASE work # {} /\ turn[t].was # "running" /\ turn[t].batch = b
      <4>1. CASE batch[b].status = "completed"
        BY <1>1, <3>1, <3>2, <4>1 DEF Reopens, EndT
      <4>2. CASE batch[b].status # "completed"
        BY <3>1, <3>2, <4>2 DEF CountKept
      <4> QED BY <4>1, <4>2
    <3>3. CASE turn[t].batch # b
      BY <3>1, <3>3 DEF CountKept, BatchT, EndT
    <3>4. CASE ~(work # {} /\ turn[t].was # "running")
      BY <3>1, <3>4 DEF CountKept
    <3> QED BY <3>2, <3>3, <3>4
  <2>5. CASE Hold(t)
    <3>1. CASE turn[t].batch # b
      BY <2>5, <3>1 DEF Hold, Requeue, CountKept, BatchT, EndT
    <3>2. CASE turn[t].batch = b /\ batch[b].status = "completed"
      BY <1>1, <2>5, <3>2 DEF Hold, Reopens, EndT
    <3>3. CASE turn[t].batch = b /\ batch[b].status # "completed"
      BY <2>5, <3>3 DEF Hold, CountKept
    <3> QED BY <3>1, <3>2, <3>3
  <2>6. CASE Finalize(t)
    <3>1. CASE ~Flips(turn[t].batch)
      BY <1>3, <2>6, <3>1 DEF Finalize
    <3>2. CASE Flips(turn[t].batch) /\ turn[t].batch = b
      BY <1>1, <2>6, <3>2 DEF Finalize, Flips, Completes, BatchT, EndT
    <3>3. CASE Flips(turn[t].batch) /\ turn[t].batch # b
      BY <2>6, <3>3 DEF Finalize, CountKept, BatchT, EndT
    <3> QED BY <3>1, <3>2, <3>3
  <2>7. CASE Filter(t) \/ Pay(t) \/ ProviderDown(t) \/ Persist(t) \/ CountNone(t) \/ TurnDies(t)
    <3>1. UNCHANGED <<batch, ends>>
      BY <2>7 DEF Filter, Pay, ProviderDown, Persist, CountNone, TurnDies, queueVars
    <3> QED BY <1>3, <3>1
  <2> QED BY <1>6, <2>2, <2>3, <2>4, <2>5, <2>6, <2>7 DEF TurnStep
<1>7. CASE \E x \in Batches : LeaseLapses(x) \/ LeaseOutrun(x)
  BY <1>7 DEF LeaseLapses, LeaseOutrun, CountKept, BatchT, BatchRecord
<1>8. CASE \/ \E i \in Imports : ImportRead(i) \/ ImportFails(i)
           \/ \E d \in Drains, c \in Contacts : HealRead(d, c)
           \/ \E x \in Batches : ClaimCompleted(x) \/ Sweep(x)
           \/ (\E c \in Contacts : Suppress(c)) \/ NextDay \/ UNCHANGED vars
  <2>1. UNCHANGED <<batch, ends>>
    BY <1>8 DEF ImportRead, ImportFails, HealRead, ClaimCompleted, Sweep, Suppress, NextDay, vars, queueVars
  <2> QED BY <1>3, <2>1
<1> QED BY <1>4, <1>5, <1>6, <1>7, <1>8 DEF Next

\* However many turns reach a batch's completion, it is announced once for the
\* first and once for every re-opening.
THEOREM OneEvent == Spec => []OneEventPerCompletion
<1>1. Init => EndsInv
  <2>1. Init => \A b \in Batches : Counted(b)
    BY DEF Init, Counted
  <2> QED BY <2>1, TypeInit DEF EndsInv
<1>2. EndsInv /\ [Next]_vars => EndsInv'
  BY TypeStep, StatusCounted, CountedKept DEF EndsInv
<1>3. EndsInv => OneEventPerCompletion
  <2> SUFFICES ASSUME EndsInv, NEW b \in Batches PROVE ends[b].completed <= ends[b].reopened + 1
    BY DEF OneEventPerCompletion
  <2>1. ends[b].completed \in Nat /\ ends[b].reopened \in Nat
    BY DEF EndsInv, Typed, EndT
  <2> QED BY <2>1 DEF EndsInv, Counted
<1> QED BY <1>1, <1>2, <1>3, PTL DEF Spec
-----------------------------------------------------------------------------
(* Purchases.  A turn's purchase is what it has in .pay from the filter to    *)
(* its commit: nothing cached or refused by the free filters, each with an    *)
(* answer once it is paid.  What else a turn found to write for an address    *)
(* nobody had cached is a free refusal, so no commit takes a paid row off the *)
(* day's meter.                                                               *)

Clear(r) ==
    /\ r.pay \subseteq r.work \ (r.hits \union Undeliverable)
    /\ r.pay # {} => r.pc \in {"pay", "persist"}
    /\ r.pc = "persist" => \A c \in r.pay : r.found[c] \in Answers
    /\ r.pc = "pay" => \A c \in r.work \ r.hits : r.found[c] \in Answers => c \in Undeliverable
    /\ r.pc = "persist" =>
           \A c \in r.work \ (r.hits \union r.pay) : r.found[c] \in Answers => c \in Undeliverable

RowsBought == \A c \in Contacts : cache[c].billed # "no" => cache[c].verdict # "none" /\ c \notin Undeliverable
Purchases == Typed /\ RowsBought /\ \A t \in Turns : Clear(turn[t])

(* A contact not bought in parallel, no answer lost: who buys it is alone and has  *)
(* not been charged before, and what was charged is cached or about to be.    *)
BoughtOnce(c) ==
    /\ paid[c] <= 1
    /\ \A t, u \in Turns : c \in turn[t].pay /\ c \in turn[u].pay => t = u
    /\ \A t \in Turns : turn[t].pc = "pay" /\ c \in turn[t].pay => paid[c] = 0
    /\ \/ paid[c] = 0 \/ cache[c].verdict # "none"
       \/ \E t \in Turns : turn[t].pc = "persist" /\ c \in turn[t].pay

BillInv == Purchases /\ \A c \in Contacts \ exposed : BoughtOnce(c)

(* A day with every purchase on the meter in time: whoever buys by today's    *)
(* clock buys alone, what was charged is on the meter or about to be, and     *)
(* what is bought keeps the meter within the allowance.  A turn with          *)
(* yesterday's clock may hold answers charged before midnight.                *)
Today == {c \in Contacts : cache[c].billed = "today"}
Bought == UNION {turn[t].pay : t \in {t \in Turns : turn[t].day = "today"}}
Charged == UNION {turn[t].pay : t \in {t \in Turns : turn[t].day = "today" /\ turn[t].pc = "persist"}}
InRails ==
    /\ \A t, u \in Turns : turn[t].day = "today" /\ turn[t].pay # {} /\ turn[u].pay # {} => t = u
    /\ \A t \in Turns : turn[t].pay \intersect Today = {}
    /\ Cardinality(Today \union Bought) <= Allowance
    /\ spent <= Cardinality(Today \union Charged)

SpendInv == Purchases /\ (~unmetered => InRails)

\* The lesser of two numbers.
LEMMA LesserOf ==
    ASSUME NEW a \in Nat, NEW b \in Nat
    PROVE  Min({a, b}) \in Nat /\ Min({a, b}) <= a /\ Min({a, b}) <= b
<1>1. \E x \in {a, b} : \A y \in {a, b} : x <= y
  OBVIOUS
<1>2. Min({a, b}) \in {a, b} /\ \A y \in {a, b} : Min({a, b}) <= y
  BY <1>1 DEF Min
<1> QED BY <1>2

\* Sets of contacts are finite.
LEMMA FiniteContacts ==
    ASSUME NEW S \in SUBSET Contacts
    PROVE  IsFiniteSet(S) /\ Cardinality(S) \in Nat
<1>1. IsFiniteSet(S)
  BY BoundAssumption, FS_Subset
<1> QED BY <1>1, FS_CardinalityType

\* What the other steps of a turn do to its purchase: they drop it, and what was
\* charged for answers that are dropped is marked.
Drops(t) ==
    /\ \A u \in Turns \ {t} : turn'[u] = turn[u]
    /\ turn'[t].pay = {} /\ turn'[t].pc # "pay"
    /\ turn'[t].pc = "persist" => /\ turn[t].pc = "pay" /\ turn'[t].work = turn[t].work
                                  /\ turn'[t].hits = turn[t].hits /\ turn'[t].found = turn[t].found
    /\ UNCHANGED cache
    /\ (\A c \in Contacts \ exposed' : paid'[c] = paid[c]) /\ (~unmetered' => spent' = spent)
    /\ exposed \subseteq exposed' /\ (unmetered => unmetered')
    /\ turn[t].pc = "persist" => /\ turn[t].pay \subseteq exposed'
                                 /\ turn[t].pay = {} \/ unmetered'

\* A turn dropped from any other place had bought nothing.
LEMMA DropsTurn ==
    ASSUME Purchases, NEW t \in Turns, NEW r, turn' = [turn EXCEPT ![t] = r],
           r.pay = {}, r.pc \notin {"pay", "persist"},
           UNCHANGED <<cache, paid, spent, exposed, unmetered>>, turn[t].pc # "persist"
    PROVE  Drops(t)
<1>1. turn'[t] = r /\ \A u \in Turns \ {t} : turn'[u] = turn[u]
  BY DEF Purchases, Typed, TurnT
<1> QED BY <1>1 DEF Drops

LEMMA StepKinds ==
    ASSUME Purchases, [Next]_vars
    PROVE  \/ \E t \in Turns : Filter(t) \/ Pay(t) \/ Persist(t) \/ Drops(t)
           \/ NextDay
           \/ UNCHANGED <<turn, cache, paid, spent, exposed, unmetered>>
<1> DEFINE still == UNCHANGED <<turn, cache, paid, spent, exposed, unmetered>>
<1>1. Typed /\ turn \in [Turns -> TurnRecord] /\ Idle.pay = {} /\ Idle.pc = "idle"
  BY DEF Purchases, Typed, TurnT, Idle
<1>2. CASE \E i \in Imports : ImportRead(i) \/ ImportFails(i) \/ ImportWrite(i)
  BY <1>2 DEF ImportRead, ImportFails, ImportWrite, histVars
<1>3. CASE \E d \in Drains : (\E c \in Contacts : HealRead(d, c)) \/ (\E b \in Spare : HealWrite(d, b))
  BY <1>3 DEF HealRead, HealWrite, histVars
<1>4. CASE \E b \in Batches : ClaimCompleted(b) \/ LeaseLapses(b) \/ LeaseOutrun(b) \/ Sweep(b)
  BY <1>4 DEF ClaimCompleted, LeaseLapses, LeaseOutrun, Sweep, histVars
<1>5. CASE (\E c \in Contacts : Suppress(c)) \/ UNCHANGED vars
  BY <1>5 DEF Suppress, histVars, vars
<1>6. ASSUME NEW t \in Turns, (\E b \in Batches : Claim(t, b)) \/ TurnStep(t) \/ ProviderDown(t) \/ TurnDies(t)
      PROVE  Filter(t) \/ Pay(t) \/ Persist(t) \/ Drops(t)
  <2>1. turn[t] \in TurnRecord /\ Clear(turn[t])
    BY <1>1 DEF Purchases
  <2>2. CASE \E b \in Batches : Claim(t, b)
    <3>1. PICK b \in Batches : Claim(t, b)
      BY <2>2
    <3> DEFINE r == [Idle EXCEPT !.pc = "start", !.batch = b, !.was = batch[b].status]
    <3>2. r.pay = {} /\ r.pc = "start"
      BY DEF Idle
    <3>3. turn' = [turn EXCEPT ![t] = r] /\ turn[t].pc = "idle"
          /\ UNCHANGED <<cache, paid, spent, exposed, unmetered>>
      BY <3>1 DEF Claim, histVars
    <3> HIDE DEF r
    <3> QED BY <3>2, <3>3, DropsTurn
  <2>3. CASE SliceFull(t) \/ Hold(t) \/ CountLeft(t) \/ Finalize(t)
    <3>1. turn' = [turn EXCEPT ![t] = Idle] /\ turn[t].pc # "persist"
          /\ UNCHANGED <<cache, paid, spent, exposed, unmetered>>
      BY <2>3 DEF SliceFull, Hold, CountLeft, Finalize, Requeue, histVars
    <3> QED BY <1>1, <3>1, DropsTurn
  <2>4. CASE Start(t)
    <3>1. PICK work : turn' = [turn EXCEPT ![t].work = work, ![t].was = "none",
                                  ![t].pc = IF work = {} THEN "finalize" ELSE "filter"]
      BY <2>4 DEF Start
    <3> DEFINE r == [turn[t] EXCEPT !.work = work, !.was = "none", !.pc = IF work = {} THEN "finalize" ELSE "filter"]
    <3>2. turn' = [turn EXCEPT ![t] = r]
      BY <3>1
    <3>3. r.pc \in {"finalize", "filter"} /\ r.pay = turn[t].pay
      BY <2>1 DEF TurnRecord
    <3>4. turn[t].pc = "start" /\ UNCHANGED <<cache, paid, spent, exposed, unmetered>>
      BY <2>4 DEF Start, histVars
    <3>5. turn[t].pay = {}
      BY <2>1, <3>4 DEF Clear
    <3> HIDE DEF r
    <3> QED BY <3>2, <3>3, <3>4, <3>5, DropsTurn
  <2>5. CASE CountNone(t)
    <3> DEFINE r == [turn[t] EXCEPT !.pc = "finalize"]
    <3>1. r.pc = "finalize" /\ r.pay = turn[t].pay
      BY <2>1 DEF TurnRecord
    <3>2. turn' = [turn EXCEPT ![t] = r] /\ turn[t].pc = "count"
          /\ UNCHANGED <<cache, paid, spent, exposed, unmetered>>
      BY <2>5 DEF CountNone, histVars
    <3>3. turn[t].pay = {}
      BY <2>1, <3>2 DEF Clear
    <3> HIDE DEF r
    <3> QED BY <3>1, <3>2, <3>3, DropsTurn
  <2>6. CASE ProviderDown(t)
    <3> DEFINE r == [turn[t] EXCEPT !.pc = "persist", !.pay = {}, !.held = "provider"]
    <3>1. /\ r.pc = "persist" /\ r.pay = {} /\ r.work = turn[t].work
          /\ r.hits = turn[t].hits /\ r.found = turn[t].found
      BY <2>1 DEF TurnRecord
    <3>2. turn' = [turn EXCEPT ![t] = r] /\ turn[t].pc = "pay"
          /\ UNCHANGED cache
      BY <2>6 DEF ProviderDown
    <3> HIDE DEF r
    <3>3. turn'[t] = r /\ \A u \in Turns \ {t} : turn'[u] = turn[u]
      BY <1>1, <3>2
    <3>4. /\ (\A c \in Contacts \ exposed' : paid'[c] = paid[c]) /\ (~unmetered' => spent' = spent)
          /\ exposed \subseteq exposed' /\ (unmetered => unmetered')
      <4>1. PICK got \in SUBSET turn[t].pay :
              /\ Charges(got) /\ exposed' = exposed \union got
              /\ unmetered' = (unmetered \/ got # {})
        BY <2>6 DEF ProviderDown
      <4>2. got = {} => spent' = spent
        BY <1>1, <4>1, FS_EmptySet DEF Charges, Typed, SpentT
      <4> QED BY <4>1, <4>2 DEF Charges
    <3> QED BY <3>1, <3>2, <3>3, <3>4 DEF Drops
  <2>7. CASE TurnDies(t)
    <3>1. turn'[t] = Idle /\ \A u \in Turns \ {t} : turn'[u] = turn[u]
      BY <1>1, <2>7 DEF TurnDies
    <3>2. UNCHANGED <<cache, paid, spent>> /\ exposed \subseteq exposed' /\ (unmetered => unmetered')
      BY <2>7 DEF TurnDies
    <3>3. turn[t].pc = "persist" => turn[t].pay \subseteq exposed' /\ (turn[t].pay = {} \/ unmetered')
      BY <2>7 DEF TurnDies
    <3> QED BY <1>1, <3>1, <3>2, <3>3 DEF Drops
  <2> QED BY <1>6, <2>2, <2>3, <2>4, <2>5, <2>6, <2>7 DEF TurnStep
<1> QED BY <1>2, <1>3, <1>4, <1>5, <1>6 DEF Next

\* The filter: what it sets out to buy is uncached and no free refusal, fits the
\* headroom, and is marked where another turn is buying too.
LEMMA FilterBuys ==
    ASSUME Purchases, NEW t \in Turns, Filter(t)
    PROVE  /\ \A u \in Turns \ {t} : turn'[u] = turn[u]
           /\ turn[t].pay = {} /\ turn'[t].pc = IF turn'[t].pay = {} THEN "persist" ELSE "pay"
           /\ turn'[t].pay \subseteq Contacts
           /\ \A c \in turn'[t].pay : cache[c].verdict = "none"
           /\ Clear(turn'[t])
           /\ Cardinality(turn'[t].pay) <= Headroom(t)
           /\ turn'[t].day = turn[t].day
           /\ UNCHANGED <<cache, paid, spent>>
           /\ exposed \subseteq exposed' /\ (unmetered => unmetered')
           /\ \A u \in Turns \ {t} : turn'[t].pay \intersect turn[u].pay \subseteq exposed'
           /\ turn'[t].pay # {} /\ (\E u \in Turns \ {t} : turn[u].pay # {}) => unmetered'
<1>1. Typed /\ turn[t] \in TurnRecord /\ Clear(turn[t]) /\ turn \in [Turns -> TurnRecord]
  BY DEF Purchases, Typed, TurnT
<1> DEFINE work == turn[t].work
           hits == {c \in work : cache[c].verdict # "none"}
           skip == (work \ hits) \intersect suppressed
           refused == (work \ (hits \union skip)) \intersect Undeliverable
           payable == work \ (hits \union skip \union refused)
           found == [c \in Contacts |-> CASE c \in hits -> cache[c].verdict
                                          [] c \in skip -> "skipped"
                                          [] c \in refused -> "invalid"
                                          [] OTHER -> "none"]
<1>2. PICK buy \in SUBSET payable :
        /\ Cardinality(buy) = Min({Headroom(t), Cardinality(payable)})
        /\ turn' = [turn EXCEPT ![t] = [@ EXCEPT !.found = found, !.hits = hits, !.pay = buy,
                      !.held = IF buy # payable THEN "allowance" ELSE "none",
                      !.pc = IF buy = {} THEN "persist" ELSE "pay"]]
        /\ exposed' = exposed \union (buy \intersect Buying(t))
        /\ unmetered' = (unmetered \/ (buy # {} /\ Buying(t) # {}))
  BY DEF Filter
<1>3. work \subseteq Contacts /\ payable \subseteq work /\ buy \subseteq payable
  BY <1>1 DEF TurnRecord
<1>4. ASSUME NEW c \in work \ hits
      PROVE  /\ found[c] = "skipped" \/ found[c] = "invalid" \/ found[c] = "none"
             /\ found[c] = "invalid" => c \in Undeliverable
  <2>1. found[c] = CASE c \in hits -> cache[c].verdict
                     [] c \in skip -> "skipped"
                     [] c \in refused -> "invalid"
                     [] OTHER -> "none"
    BY <1>3
  <2>2. c \notin hits
    BY <1>4
  <2> HIDE DEF hits, skip, found
  <2> QED BY <2>1, <2>2
<1>5. /\ \A c \in buy : c \in work \ hits /\ c \notin Undeliverable
      /\ \A c \in buy : cache[c].verdict = "none"
  BY <1>3
<1> HIDE DEF hits, found, payable
<1>6. /\ turn'[t].pay = buy /\ turn'[t].found = found /\ turn'[t].hits = hits
      /\ turn'[t].day = turn[t].day
      /\ turn'[t].work = work /\ turn'[t].pc = (IF buy = {} THEN "persist" ELSE "pay")
      /\ \A u \in Turns \ {t} : turn'[u] = turn[u]
  BY <1>1, <1>2 DEF TurnRecord
<1>7. Clear(turn'[t])
  <2>1. \A c \in work \ hits : found[c] \in Answers => c \in Undeliverable
    BY <1>4, AnswerAssumption
  <2> QED BY <1>5, <1>6, <2>1 DEF Clear
<1>8. Cardinality(buy) <= Headroom(t)
  <2>1. Headroom(t) \in Nat
    <3>1. {c \in Contacts : cache[c].billed \in Since(t)} \in SUBSET Contacts
      OBVIOUS
    <3>2. Metered(t) \in Nat
      BY <3>1, FiniteContacts DEF Metered
    <3> QED BY <3>2, BoundAssumption DEF Headroom
  <2>2. payable \in SUBSET Contacts
    BY <1>3
  <2>3. Cardinality(payable) \in Nat
    BY <2>2, FiniteContacts
  <2> QED BY <1>2, <2>1, <2>3, LesserOf
<1>9. \A u \in Turns \ {t} : turn[u].pay \subseteq Buying(t)
  <2>1. \A u \in Turns \ {t} : turn[u].pay # {} => turn[u].pc \in {"pay", "persist"}
    BY DEF Purchases, Clear
  <2> QED BY <2>1 DEF Buying
<1>10. turn[t].pay = {} /\ UNCHANGED <<cache, paid, spent>>
  BY <1>1 DEF Filter, Clear
<1>11. /\ \A u \in Turns \ {t} : buy \intersect turn[u].pay \subseteq exposed'
       /\ exposed \subseteq exposed'
  BY <1>2, <1>9
<1>12. (unmetered => unmetered') /\ (buy # {} /\ (\E u \in Turns \ {t} : turn[u].pay # {}) => unmetered')
  BY <1>2, <1>9
<1>13. buy \subseteq Contacts
  BY <1>3
<1> QED BY <1>5, <1>6, <1>7, <1>8, <1>10, <1>11, <1>12, <1>13

\* The provider's answers: what it charged is what the turn keeps as bought.
LEMMA PayCharges ==
    ASSUME Purchases, NEW t \in Turns, Pay(t)
    PROVE  /\ \A u \in Turns \ {t} : turn'[u] = turn[u]
           /\ turn[t].pc = "pay" /\ turn'[t].pc = "persist"
           /\ turn'[t].pay \subseteq turn[t].pay /\ turn'[t].pay \subseteq Contacts
           /\ Clear(turn'[t])
           /\ \A c \in Contacts : paid'[c] = IF c \in turn'[t].pay THEN paid[c] + 1 ELSE paid[c]
           /\ spent' = spent + Cardinality(turn'[t].pay)
           /\ UNCHANGED <<cache, exposed>>
           /\ turn'[t].day = turn[t].day
           /\ (unmetered => unmetered') /\ (turn[t].day = "yesterday" /\ turn'[t].pay # {} => unmetered')
<1>1. Typed /\ turn[t] \in TurnRecord /\ Clear(turn[t]) /\ turn \in [Turns -> TurnRecord]
  BY DEF Purchases, Typed, TurnT
<1>2. PICK got \in SUBSET turn[t].pay : \E answer \in [got -> Answers] :
        /\ turn' = [turn EXCEPT ![t].pc = "persist", ![t].pay = got,
                        ![t].found = [c \in Contacts |-> IF c \in got THEN answer[c] ELSE @[c]]]
        /\ Charges(got)
        /\ unmetered' = (unmetered \/ (turn[t].day = "yesterday" /\ got # {}))
  BY DEF Pay
<1>3. PICK answer \in [got -> Answers] :
        /\ turn' = [turn EXCEPT ![t].pc = "persist", ![t].pay = got,
                        ![t].found = [c \in Contacts |-> IF c \in got THEN answer[c] ELSE @[c]]]
        /\ Charges(got)
        /\ unmetered' = (unmetered \/ (turn[t].day = "yesterday" /\ got # {}))
  BY <1>2
<1> DEFINE found == [c \in Contacts |-> IF c \in got THEN answer[c] ELSE turn[t].found[c]]
<1>4. /\ turn'[t].pay = got /\ turn'[t].pc = "persist" /\ turn'[t].found = found
      /\ turn'[t].work = turn[t].work /\ turn'[t].hits = turn[t].hits /\ turn'[t].day = turn[t].day
      /\ \A u \in Turns \ {t} : turn'[u] = turn[u]
  BY <1>1, <1>3 DEF TurnRecord
<1>5. got \subseteq Contacts /\ turn[t].work \subseteq Contacts
  BY <1>1 DEF TurnRecord
<1>6. \A c \in Contacts : found[c] = IF c \in got THEN answer[c] ELSE turn[t].found[c]
  OBVIOUS
<1> HIDE DEF found
<1>7. turn[t].pc = "pay" /\ UNCHANGED <<cache, exposed>>
  BY DEF Pay
<1>8. Clear(turn'[t])
  BY <1>1, <1>4, <1>5, <1>6, <1>7 DEF Clear
<1> QED BY <1>3, <1>4, <1>5, <1>7, <1>8 DEF Charges

\* The commit: what the turn bought is cached and on the meter of the turn's day,
\* and no other row moves on the meters.
LEMMA PersistCaches ==
    ASSUME Purchases, NEW t \in Turns, Persist(t)
    PROVE  /\ \A u \in Turns \ {t} : turn'[u] = turn[u]
           /\ turn[t].pc = "persist" /\ turn'[t].pc \in {"hold", "count"} /\ turn'[t].pay = {}
           /\ \A c \in Contacts : cache[c].verdict # "none" => cache'[c].verdict # "none"
           /\ \A c \in turn[t].pay : cache'[c].verdict # "none"
           /\ \A c \in turn[t].pay : cache'[c].billed = turn[t].day
           /\ \A c \in Contacts \ turn[t].pay : cache'[c].billed = cache[c].billed
           /\ RowsBought'
           /\ UNCHANGED <<paid, spent, exposed, unmetered>>
<1>1. Typed /\ turn[t] \in TurnRecord /\ Clear(turn[t]) /\ turn \in [Turns -> TurnRecord] /\ RowsBought
  BY DEF Purchases, Typed, TurnT
<1>2. turn[t].pc = "persist" /\ turn' = [turn EXCEPT ![t] = [Idle EXCEPT
          !.pc = IF turn[t].held # "none" THEN "hold" ELSE "count", !.batch = turn[t].batch, !.held = turn[t].held]]
      /\ UNCHANGED <<paid, spent, exposed, unmetered>>
  BY DEF Persist, histVars
<1>3. /\ turn'[t].pc \in {"hold", "count"} /\ turn'[t].pay = {}
      /\ \A u \in Turns \ {t} : turn'[u] = turn[u]
  BY <1>1, <1>2 DEF Idle
<1> DEFINE W == Verdicted(t) \ turn[t].hits
<1>4. /\ turn[t].pay \subseteq W /\ W \subseteq Contacts
      /\ \A c \in W : turn[t].found[c] \in Answers
      /\ \A c \in W \ turn[t].pay : c \in Undeliverable
  <2>1. turn[t].work \subseteq Contacts /\ turn[t].found \in Findings /\ "none" \notin Answers /\ "skipped" \notin Answers
    BY <1>1, AnswerAssumption DEF TurnRecord
  <2>2. ASSUME NEW c \in turn[t].work PROVE (c \in Verdicted(t)) <=> (turn[t].found[c] \in Answers)
    BY <2>1 DEF Verdicted, Settled, Findings
  <2>3. W \subseteq turn[t].work
    BY DEF Verdicted, Settled
  <2> QED BY <1>1, <1>2, <2>1, <2>2, <2>3 DEF Clear
<1> HIDE DEF W
<1> DEFINE row(c) == [verdict |-> turn[t].found[c],
                      billed |-> IF c \in turn[t].pay THEN turn[t].day ELSE "no"]
<1>5. \A c \in Contacts : cache'[c] = IF c \in W THEN row(c) ELSE cache[c]
  BY DEF Persist, W
<1>6. \A c \in Contacts : cache[c] \in CacheRecord
  BY <1>1 DEF Typed, RecordT
<1>7. ASSUME NEW c \in W
      PROVE /\ cache'[c].verdict # "none"
            /\ cache'[c].billed = IF c \in turn[t].pay THEN turn[t].day ELSE "no"
  <2>1. cache'[c] = row(c)
    BY <1>4, <1>5
  <2>2. cache'[c].verdict = turn[t].found[c]
    BY <2>1
  <2> QED BY <1>4, <2>1, <2>2, AnswerAssumption
<1>8. \A c \in Contacts \ W : cache'[c] = cache[c] /\ c \notin turn[t].pay
  BY <1>4, <1>5
<1> HIDE DEF row
<1>9. \A c \in W \ turn[t].pay : cache[c].billed = "no"
  BY <1>1, <1>4 DEF RowsBought
<1>10. \A c \in turn[t].pay : c \notin Undeliverable
  BY <1>1 DEF Clear
<1>11. RowsBought'
  BY <1>1, <1>7, <1>8, <1>10 DEF RowsBought
<1> QED BY <1>2, <1>3, <1>4, <1>7, <1>8, <1>9, <1>11

\* What midnight does to a turn and to a row of the cache.
DayTurned(t) ==
    /\ turn'[t].pay = turn[t].pay /\ turn'[t].pc = turn[t].pc /\ turn'[t].work = turn[t].work
    /\ turn'[t].hits = turn[t].hits /\ turn'[t].found = turn[t].found
    /\ turn'[t].pay # {} => turn'[t].day = "yesterday"
RowAged(c) ==
    /\ cache'[c].verdict = cache[c].verdict /\ cache'[c].billed # "today"
    /\ cache'[c].billed # "no" => cache[c].billed # "no"

\* Midnight: the rows of the day leave its meter, and every turn with a purchase
\* in hand keeps it, by yesterday's clock.
LEMMA DayTurns ==
    ASSUME Purchases, NextDay
    PROVE  /\ \A t \in Turns : DayTurned(t)
           /\ \A c \in Contacts : RowAged(c)
           /\ UNCHANGED <<paid, exposed>>
<1>1. Typed /\ \A t \in Turns : turn[t] \in TurnRecord /\ Clear(turn[t])
  BY DEF Purchases, Typed, TurnT
<1>2. ASSUME NEW t \in Turns PROVE DayTurned(t)
  <2>1. turn'[t] = IF Timed(t) THEN [turn[t] EXCEPT !.day = "yesterday"] ELSE turn[t]
    BY DEF NextDay
  <2>2. turn[t].pay # {} => Timed(t)
    BY <1>1 DEF Clear, Timed
  <2> QED BY <1>1, <2>1, <2>2 DEF DayTurned, TurnRecord
<1>3. ASSUME NEW c \in Contacts PROVE RowAged(c)
  <2>1. cache[c] \in CacheRecord
    BY <1>1 DEF Typed, RecordT
  <2> QED BY <2>1 DEF NextDay, RowAged, CacheRecord
<1> QED BY <1>2, <1>3 DEF NextDay

\* Purchases stay in order.
LEMMA PurchasesStep == Purchases /\ [Next]_vars => Purchases'
<1> SUFFICES ASSUME Purchases, [Next]_vars PROVE Purchases'
  OBVIOUS
<1>1. Typed' /\ Typed /\ RowsBought /\ \A t \in Turns : Clear(turn[t])
  BY TypeStep DEF Purchases
<1>2. UNCHANGED cache => RowsBought'
  BY <1>1 DEF RowsBought
<1>3. ASSUME NEW t \in Turns, Filter(t) PROVE RowsBought' /\ \A u \in Turns : Clear(turn'[u])
  BY <1>1, <1>2, <1>3, FilterBuys
<1>4. ASSUME NEW t \in Turns, Pay(t) PROVE RowsBought' /\ \A u \in Turns : Clear(turn'[u])
  BY <1>1, <1>2, <1>4, PayCharges
<1>5. ASSUME NEW t \in Turns, Persist(t) PROVE RowsBought' /\ \A u \in Turns : Clear(turn'[u])
  <2>1. Clear(turn'[t])
    BY <1>5, PersistCaches DEF Clear
  <2> QED BY <1>1, <1>5, <2>1, PersistCaches
<1>6. ASSUME NEW t \in Turns, Drops(t) PROVE RowsBought' /\ \A u \in Turns : Clear(turn'[u])
  <2>1. Clear(turn'[t])
    BY <1>1, <1>6 DEF Drops, Clear
  <2> QED BY <1>1, <1>2, <1>6, <2>1 DEF Drops
<1>7. CASE NextDay
  <2>1. RowsBought'
    BY <1>1, <1>7, DayTurns DEF RowsBought, RowAged
  <2>2. \A u \in Turns : Clear(turn'[u])
    BY <1>1, <1>7, DayTurns DEF Clear, DayTurned
  <2> QED BY <2>1, <2>2, <1>1 DEF Purchases
<1>8. CASE UNCHANGED <<turn, cache, paid, spent, exposed, unmetered>>
  BY <1>1, <1>2, <1>8 DEF Purchases
<1> QED BY <1>1, <1>3, <1>4, <1>5, <1>6, <1>7, <1>8, StepKinds DEF Purchases

LEMMA PurchasesInit == Init => Purchases
<1> SUFFICES ASSUME Init PROVE Purchases
  OBVIOUS
<1>1. Typed
  BY TypeInit
<1>2. RowsBought
  BY DEF Init, RowsBought
<1>3. Idle.pay = {} /\ Idle.pc = "idle" /\ \A t \in Turns : turn[t] = Idle
  BY DEF Init, Idle
<1>4. \A t \in Turns : Clear(turn[t])
  BY <1>3 DEF Clear
<1> QED BY <1>1, <1>2, <1>4 DEF Purchases

-----------------------------------------------------------------------------
(* Nothing is bought twice but side by side or for a lost answer.             *)

LEMMA BillStep ==
    ASSUME BillInv, [Next]_vars, NEW c \in Contacts, c \notin exposed'
    PROVE  BoughtOnce(c)'
<1>1. /\ Purchases /\ paid[c] \in Nat /\ (c \notin exposed => BoughtOnce(c))
      /\ \A t \in Turns : turn[t].pay \subseteq Contacts
  BY DEF BillInv, Purchases, Typed, SpentT, TurnT, TurnRecord
<1>2. CASE \E t \in Turns : Filter(t)
  <2>1. PICK t \in Turns : Filter(t)
    BY <1>2
  <2>2. /\ \A u \in Turns \ {t} : turn'[u] = turn[u]
        /\ turn[t].pay = {} /\ turn'[t].pc = IF turn'[t].pay = {} THEN "persist" ELSE "pay"
        /\ c \in turn'[t].pay => cache[c].verdict = "none"
        /\ UNCHANGED <<cache, paid>> /\ exposed \subseteq exposed'
        /\ \A u \in Turns \ {t} : turn'[t].pay \intersect turn[u].pay \subseteq exposed'
    BY <1>1, <2>1, FilterBuys
  <2>3. BoughtOnce(c)
    BY <1>1, <2>2
  <2>4. \A u \in Turns : c \in turn'[u].pay => (u = t \/ (c \in turn[u].pay /\ c \notin turn'[t].pay))
    BY <2>2
  <2>5. c \in turn'[t].pay => paid[c] = 0
    <3>1. SUFFICES ASSUME c \in turn'[t].pay, paid[c] # 0 PROVE FALSE
      OBVIOUS
    <3>2. PICK u \in Turns : turn[u].pc = "persist" /\ c \in turn[u].pay
      BY <2>2, <2>3, <3>1 DEF BoughtOnce
    <3> QED BY <2>2, <3>1, <3>2
  <2>6. \A u, x \in Turns : c \in turn'[u].pay /\ c \in turn'[x].pay => u = x
    BY <2>2, <2>3, <2>4 DEF BoughtOnce
  <2>7. \A u \in Turns : turn'[u].pc = "pay" /\ c \in turn'[u].pay => paid'[c] = 0
    BY <2>2, <2>3, <2>5 DEF BoughtOnce
  <2>8. (\E u \in Turns : turn[u].pc = "persist" /\ c \in turn[u].pay)
          => \E u \in Turns : turn'[u].pc = "persist" /\ c \in turn'[u].pay
    BY <2>2
  <2> QED BY <2>2, <2>3, <2>6, <2>7, <2>8 DEF BoughtOnce
<1>3. CASE \E t \in Turns : Pay(t)
  <2>1. PICK t \in Turns : Pay(t)
    BY <1>3
  <2>2. /\ \A u \in Turns \ {t} : turn'[u] = turn[u]
        /\ turn[t].pc = "pay" /\ turn'[t].pc = "persist" /\ turn'[t].pay \subseteq turn[t].pay
        /\ paid'[c] = IF c \in turn'[t].pay THEN paid[c] + 1 ELSE paid[c]
        /\ UNCHANGED <<cache, exposed>>
    BY <1>1, <2>1, PayCharges
  <2>3. BoughtOnce(c)
    BY <1>1, <2>2
  <2>4. \A u \in Turns : c \in turn'[u].pay => c \in turn[u].pay
    BY <2>2
  <2>5. CASE c \in turn'[t].pay
    <3>1. paid[c] = 0 /\ paid'[c] = 1
      BY <1>1, <2>2, <2>3, <2>5 DEF BoughtOnce
    <3>2. \A u \in Turns : c \in turn'[u].pay => u = t
      BY <2>2, <2>3, <2>4, <2>5 DEF BoughtOnce
    <3> QED BY <2>2, <2>5, <3>1, <3>2 DEF BoughtOnce
  <2>6. CASE c \notin turn'[t].pay
    <3>1. paid'[c] = paid[c]
      BY <2>2, <2>6
    <3>2. \A u \in Turns : turn'[u].pc = "pay" => turn[u].pc = "pay"
      BY <2>2
    <3>3. (\E u \in Turns : turn[u].pc = "persist" /\ c \in turn[u].pay)
            => \E u \in Turns : turn'[u].pc = "persist" /\ c \in turn'[u].pay
      BY <2>2
    <3> QED BY <2>2, <2>3, <2>4, <3>1, <3>2, <3>3 DEF BoughtOnce
  <2> QED BY <2>5, <2>6
<1>4. CASE \E t \in Turns : Persist(t)
  <2>1. PICK t \in Turns : Persist(t)
    BY <1>4
  <2>2. /\ \A u \in Turns \ {t} : turn'[u] = turn[u]
        /\ turn'[t].pc \in {"hold", "count"} /\ turn'[t].pay = {}
        /\ cache[c].verdict # "none" => cache'[c].verdict # "none"
        /\ c \in turn[t].pay => cache'[c].verdict # "none"
        /\ UNCHANGED <<paid, exposed>>
    BY <1>1, <2>1, PersistCaches
  <2>3. BoughtOnce(c)
    BY <1>1, <2>2
  <2>4. \A u \in Turns : c \in turn'[u].pay => c \in turn[u].pay /\ turn'[u] = turn[u]
    BY <2>2
  <2>5. (\E u \in Turns : turn[u].pc = "persist" /\ c \in turn[u].pay)
          => \/ cache'[c].verdict # "none"
             \/ \E u \in Turns : turn'[u].pc = "persist" /\ c \in turn'[u].pay
    BY <2>2
  <2> QED BY <2>2, <2>3, <2>4, <2>5 DEF BoughtOnce
<1>5. CASE \E t \in Turns : Drops(t)
  <2>1. PICK t \in Turns : Drops(t)
    BY <1>5
  <2>2. /\ \A u \in Turns \ {t} : turn'[u] = turn[u]
        /\ turn'[t].pay = {} /\ UNCHANGED cache /\ paid'[c] = paid[c] /\ c \notin exposed
        /\ turn[t].pc = "persist" => c \notin turn[t].pay
    BY <2>1 DEF Drops
  <2>3. BoughtOnce(c)
    BY <1>1, <2>2
  <2>4. \A u \in Turns : c \in turn'[u].pay => c \in turn[u].pay /\ turn'[u] = turn[u]
    BY <2>2
  <2>5. \A u \in Turns : turn[u].pc = "persist" /\ c \in turn[u].pay
          => turn'[u].pc = "persist" /\ c \in turn'[u].pay
    BY <2>2
  <2> QED BY <2>2, <2>3, <2>4, <2>5 DEF BoughtOnce
<1>6. CASE NextDay
  <2>1. /\ UNCHANGED <<paid, exposed>> /\ cache'[c].verdict = cache[c].verdict
        /\ \A t \in Turns : turn'[t].pay = turn[t].pay /\ turn'[t].pc = turn[t].pc
    BY <1>1, <1>6, DayTurns DEF DayTurned, RowAged
  <2> QED BY <1>1, <2>1 DEF BoughtOnce
<1>7. CASE UNCHANGED <<turn, cache, paid, spent, exposed, unmetered>>
  BY <1>1, <1>7 DEF BoughtOnce
<1> QED BY <1>1, <1>2, <1>3, <1>4, <1>5, <1>6, <1>7, StepKinds

\* No address is charged twice unless two turns bought it at once or the answer
\* charged first was lost: with its turn, or in a provider call that failed.
THEOREM BilledOnce == Spec => []DoubleBillExplained
<1>1. Init => BillInv
  <2> SUFFICES ASSUME Init PROVE BillInv
    OBVIOUS
  <2>1. Idle.pay = {} /\ (\A t \in Turns : turn[t] = Idle) /\ \A c \in Contacts : paid[c] = 0
    BY DEF Init, Idle
  <2>2. \A c \in Contacts : BoughtOnce(c)
    BY <2>1 DEF BoughtOnce
  <2> QED BY <2>2, PurchasesInit DEF BillInv
<1>2. BillInv /\ [Next]_vars => BillInv'
  BY PurchasesStep, BillStep DEF BillInv
<1>3. BillInv => DoubleBillExplained
  BY DEF BillInv, BoughtOnce, DoubleBillExplained, Purchases, Typed, SpentT
<1> QED BY <1>1, <1>2, <1>3, PTL DEF Spec

-----------------------------------------------------------------------------
(* The day's spend stays within the allowance while the meter sees every       *)
(* purchase in time.                                                          *)

LEMMA RailSets ==
    ASSUME Purchases
    PROVE  /\ Today \subseteq Contacts /\ Bought \subseteq Contacts /\ Charged \subseteq Bought
           /\ \A S \in SUBSET Contacts : IsFiniteSet(S) /\ Cardinality(S) \in Nat
           /\ spent \in Nat /\ Allowance \in Nat
<1>1. \A t \in Turns : turn[t].pay \subseteq Contacts
  BY DEF Purchases, Typed, TurnT, TurnRecord
<1>2. spent \in Nat /\ Allowance \in Nat
  BY BoundAssumption DEF Purchases, Typed, SpentT
<1> QED BY <1>1, <1>2, FiniteContacts DEF Today, Bought, Charged

\* A step after which no more is bought and as much is on its way to the meter.
LEMMA RailsKept ==
    ASSUME Purchases, Purchases', InRails, NEW t \in Turns,
           \A u \in Turns \ {t} : turn'[u] = turn[u], turn'[t].pay = {}, UNCHANGED spent,
           Today' = Today \/ (turn[t].day = "today" /\ Today' = Today \union turn[t].pay),
           turn[t].pc = "persist" /\ turn[t].day = "today" => turn[t].pay \subseteq Today'
    PROVE  InRails'
<1>1. \A u \in Turns : turn'[u].pay # {} => u # t /\ turn'[u] = turn[u]
  OBVIOUS
<1>2. \A u, x \in Turns : turn'[u].day = "today" /\ turn'[u].pay # {} /\ turn'[x].pay # {} => u = x
  BY <1>1 DEF InRails
<1>3. ASSUME NEW u \in Turns PROVE turn'[u].pay \intersect Today' = {}
  <2>1. CASE turn'[u].pay = {}
    BY <2>1
  <2>2. CASE turn'[u].pay # {}
    <3>1. u # t /\ turn'[u] = turn[u] /\ turn[u].pay \intersect Today = {}
      BY <1>1, <2>2 DEF InRails
    <3>2. turn[t].day = "today" => turn[t].pay = {}
      BY <2>2, <3>1 DEF InRails
    <3>3. Today' = Today
      BY <3>2
    <3> QED BY <3>1, <3>3
  <2> QED BY <2>1, <2>2
<1>4. (Today \union Bought)' \subseteq Today \union Bought
  <2>1. \A u \in Turns : turn'[u].day = "today" /\ turn'[u].pay # {} => turn[u].day = "today" /\ turn'[u].pay = turn[u].pay
    BY <1>1
  <2>2. Bought' \subseteq Bought
    BY <2>1 DEF Bought
  <2>3. Today' \subseteq Today \union Bought
    BY DEF Bought
  <2> QED BY <2>2, <2>3
<1>5. Today \union Charged \subseteq (Today \union Charged)'
  <2>1. \A u \in Turns \ {t} : turn[u].pc = "persist" /\ turn[u].day = "today"
            => turn'[u].pc = "persist" /\ turn'[u].day = "today" /\ turn'[u].pay = turn[u].pay
    OBVIOUS
  <2>2. Charged \subseteq Charged' \union Today'
    BY <2>1 DEF Charged
  <2> QED BY <2>2
<1>6. /\ IsFiniteSet(Today \union Bought) /\ IsFiniteSet((Today \union Charged)')
      /\ Cardinality(Today \union Bought) \in Nat /\ Cardinality(Today \union Charged) \in Nat
      /\ Cardinality((Today \union Bought)') \in Nat /\ Cardinality((Today \union Charged)') \in Nat
      /\ spent \in Nat /\ Allowance \in Nat
  <2>1. Today \union Bought \in SUBSET Contacts /\ Today \union Charged \in SUBSET Contacts
    BY RailSets
  <2>2. (Today \union Bought)' \in SUBSET Contacts /\ (Today \union Charged)' \in SUBSET Contacts
    <3>1. \A u \in Turns : turn'[u].pay \subseteq Contacts
      BY DEF Purchases, Typed, TurnT, TurnRecord
    <3> QED BY <3>1 DEF Today, Bought, Charged
  <2> QED BY <2>1, <2>2, RailSets, FiniteContacts
<1>7. Cardinality((Today \union Bought)') <= Cardinality(Today \union Bought)
  BY <1>4, <1>6, FS_Subset
<1>8. Cardinality(Today \union Charged) <= Cardinality((Today \union Charged)')
  BY <1>5, <1>6, FS_Subset
<1>9. Cardinality(Today' \union Bought') <= Allowance
  BY <1>6, <1>7 DEF InRails
<1>10. spent' <= Cardinality(Today' \union Charged')
  BY <1>6, <1>8 DEF InRails
<1> QED BY <1>2, <1>3, <1>9, <1>10 DEF InRails

\* Who buys alone keeps within the headroom, and by yesterday's clock it takes
\* nothing of today's.
LEMMA RailsFilter ==
    ASSUME Purchases, InRails, NEW t \in Turns, Filter(t), ~unmetered', turn'[t].pay # {}
    PROVE  InRails'
<1>1. /\ \A u \in Turns \ {t} : turn'[u] = turn[u] /\ turn[u].pay = {}
      /\ turn[t].pay = {} /\ turn'[t].pc = "pay" /\ turn'[t].pay \subseteq Contacts
      /\ \A c \in turn'[t].pay : cache[c].verdict = "none"
      /\ Cardinality(turn'[t].pay) <= Headroom(t) /\ UNCHANGED <<cache, spent>>
      /\ turn'[t].day = turn[t].day
  BY FilterBuys
<1>2. /\ Today' = Today /\ Bought = {} /\ Charged = {} /\ Charged' = {}
      /\ turn[t].day = "today" => Bought' = turn'[t].pay
      /\ turn[t].day # "today" => Bought' = {}
      /\ turn'[t].pay \intersect Today = {}
  <2>1. Today' = Today
    BY <1>1 DEF Today
  <2>2. Bought = {} /\ Charged = {}
    BY <1>1 DEF Bought, Charged
  <2>3. (turn[t].day = "today" => Bought' = turn'[t].pay) /\ (turn[t].day # "today" => Bought' = {})
    <3>1. \A u \in Turns \ {t} : turn'[u].pay = {}
      BY <1>1
    <3> QED BY <1>1, <3>1 DEF Bought
  <2>4. \A u \in Turns : turn'[u].pc = "persist" => turn'[u].pay = {}
    BY <1>1
  <2>5. Charged' = {}
    BY <2>4 DEF Charged
  <2>6. turn'[t].pay \intersect Today = {}
    BY <1>1 DEF Today, Purchases, RowsBought
  <2> QED BY <2>1, <2>2, <2>3, <2>5, <2>6
<1>3. /\ IsFiniteSet(Today) /\ Cardinality(Today) \in Nat /\ IsFiniteSet(turn'[t].pay)
      /\ Cardinality(turn'[t].pay) \in Nat /\ spent \in Nat /\ Allowance \in Nat
  <2>1. Today \in SUBSET Contacts /\ turn'[t].pay \in SUBSET Contacts
    BY <1>1, RailSets
  <2> QED BY <2>1, RailSets, FiniteContacts
<1>4. Cardinality(Today) <= Allowance /\ spent <= Cardinality(Today)
  BY <1>2 DEF InRails
<1>5. ASSUME turn[t].day = "today" PROVE Cardinality(Today \union turn'[t].pay) <= Allowance
  <2>1. Headroom(t) \in Nat /\ Cardinality(Today) + Headroom(t) <= Allowance
    <3>1. Metered(t) = Cardinality(Today)
      <4>1. {c \in Contacts : cache[c].billed \in Since(t)} = Today
        BY <1>5 DEF Since, Today
      <4> QED BY <4>1 DEF Metered
    <3> QED BY <1>3, <1>4, <3>1 DEF Headroom
  <2>2. /\ Cardinality(Today \union turn'[t].pay) \in Nat
        /\ Cardinality(Today \union turn'[t].pay) <= Cardinality(Today) + Cardinality(turn'[t].pay)
    <3>1. /\ IsFiniteSet(Today \union turn'[t].pay)
          /\ Cardinality(Today \union turn'[t].pay)
               = Cardinality(Today) + Cardinality(turn'[t].pay) - Cardinality(Today \intersect turn'[t].pay)
      BY <1>3, FS_Union
    <3>2. Cardinality(Today \intersect turn'[t].pay) = 0
      BY <1>2, FS_EmptySet
    <3> QED BY <1>3, <3>1, <3>2
  <2> QED BY <1>1, <1>3, <2>1, <2>2
<1>7. Cardinality(Today' \union Bought') <= Allowance
  <2>1. CASE turn[t].day = "today"
    BY <1>1, <1>2, <1>3, <1>5, <2>1
  <2>2. CASE turn[t].day # "today"
    BY <1>2, <1>4, <2>2
  <2> QED BY <2>1, <2>2
<1>8. spent' <= Cardinality(Today' \union Charged')
  BY <1>1, <1>2, <1>4
<1>9. \A u, x \in Turns : turn'[u].pay # {} /\ turn'[x].pay # {} => u = x
  BY <1>1
<1>10. \A u \in Turns : turn'[u].pay \intersect Today' = {}
  BY <1>1, <1>2
<1> QED BY <1>7, <1>8, <1>9, <1>10 DEF InRails

\* What the provider charges a turn of the day is on its way to the meter.
LEMMA RailsPay ==
    ASSUME Purchases, InRails, NEW t \in Turns, Pay(t), turn[t].day = "today"
    PROVE  InRails'
<1> DEFINE got == turn'[t].pay
<1>1. /\ \A u \in Turns \ {t} : turn'[u] = turn[u]
      /\ turn[t].pc = "pay" /\ turn'[t].pc = "persist"
      /\ got \subseteq turn[t].pay /\ got \subseteq Contacts /\ turn'[t].day = "today"
      /\ UNCHANGED cache
  BY PayCharges
<1>0. spent' = spent + Cardinality(got)
  BY PayCharges
<1>2. Today' = Today /\ Bought' \subseteq Bought /\ Charged' = Charged \union got
  <2>1. Today' = Today
    BY <1>1 DEF Today
  <2>2. Bought' \subseteq Bought
    BY <1>1 DEF Bought
  <2>3. Charged' = Charged \union got
    BY <1>1 DEF Charged
  <2> QED BY <2>1, <2>2, <2>3
<1>3. got \intersect (Today \union Charged) = {}
  <2>1. got \intersect Today = {}
    BY <1>1 DEF InRails
  <2>2. ASSUME NEW u \in Turns, turn[u].pc = "persist" PROVE turn[u].pay \intersect got = {}
    BY <1>1, <2>2 DEF InRails
  <2> QED BY <2>1, <2>2 DEF Charged
<1> HIDE DEF got
<1>4. /\ IsFiniteSet(Today \union Charged) /\ Cardinality(Today \union Charged) \in Nat
      /\ IsFiniteSet(Today \union Bought) /\ Cardinality(Today \union Bought) \in Nat
      /\ IsFiniteSet(got) /\ Cardinality(got) \in Nat /\ spent \in Nat /\ Allowance \in Nat
      /\ Cardinality(Today \union Bought') \in Nat
  <2>1. Today \union Charged \in SUBSET Contacts /\ Today \union Bought \in SUBSET Contacts
    BY RailSets
  <2>2. Today \union Bought' \in SUBSET Contacts
    BY <1>2, <2>1
  <2> QED BY <1>1, <2>1, <2>2, RailSets, FiniteContacts
<1>5. Cardinality(Today \union Bought') <= Cardinality(Today \union Bought)
  BY <1>2, <1>4, FS_Subset
<1>6. Cardinality((Today \union Charged) \union got) = Cardinality(Today \union Charged) + Cardinality(got)
  <2>1. Cardinality((Today \union Charged) \intersect got) = 0
    BY <1>3, FS_EmptySet
  <2>2. Cardinality((Today \union Charged) \union got)
          = Cardinality(Today \union Charged) + Cardinality(got) - Cardinality((Today \union Charged) \intersect got)
    BY <1>4, FS_Union
  <2> QED BY <1>4, <2>1, <2>2
<1>7. Today' \union Charged' = (Today \union Charged) \union got
  BY <1>2
<1>8. spent' <= Cardinality(Today' \union Charged')
  <2>1. spent <= Cardinality(Today \union Charged)
    BY DEF InRails
  <2> QED BY <1>0, <1>4, <1>6, <1>7, <2>1
<1>9. Cardinality(Today' \union Bought') <= Allowance
  BY <1>2, <1>4, <1>5 DEF InRails
<1>10. \A u, x \in Turns : turn'[u].day = "today" /\ turn'[u].pay # {} /\ turn'[x].pay # {} => u = x
  <2>1. \A u \in Turns : (turn'[u].pay # {} => turn[u].pay # {}) /\ turn'[u].day = turn[u].day
    BY <1>1 DEF got
  <2> QED BY <2>1 DEF InRails
<1>11. \A u \in Turns : turn'[u].pay \intersect Today' = {}
  <2>1. \A u \in Turns : turn'[u].pay \subseteq turn[u].pay
    BY <1>1 DEF got
  <2> QED BY <1>2, <2>1 DEF InRails
<1> QED BY <1>8, <1>9, <1>10, <1>11 DEF InRails

\* Every step keeps the day in its rails, or crowds it.
LEMMA RailsStep ==
    ASSUME SpendInv, [Next]_vars, ~unmetered'
    PROVE  InRails'
<1>1. Purchases /\ Purchases' /\ (~unmetered => InRails)
  BY PurchasesStep DEF SpendInv
<1>2. CASE \E t \in Turns : Filter(t)
  <2>1. PICK t \in Turns : Filter(t)
    BY <1>2
  <2>2. /\ \A u \in Turns \ {t} : turn'[u] = turn[u]
        /\ UNCHANGED <<cache, spent>> /\ turn[t].pay = {} /\ InRails
    BY <1>1, <2>1, FilterBuys
  <2>3. CASE turn'[t].pay = {}
    <3>1. Today' = Today
      BY <2>2 DEF Today
    <3> QED BY <1>1, <2>2, <2>3, <3>1, RailsKept
  <2> QED BY <1>1, <2>1, <2>2, <2>3, RailsFilter
<1>3. CASE \E t \in Turns : Pay(t)
  <2>1. PICK t \in Turns : Pay(t)
    BY <1>3
  <2>2. /\ \A u \in Turns \ {t} : turn'[u] = turn[u]
        /\ turn[t].pc = "pay" /\ UNCHANGED cache /\ spent' = spent + Cardinality(turn'[t].pay)
        /\ turn[t].day = "yesterday" => turn'[t].pay = {}
        /\ InRails
    BY <1>1, <2>1, PayCharges
  <2>3. CASE turn[t].day = "yesterday"
    <3>1. Today' = Today
      BY <2>2 DEF Today
    <3>2. turn'[t].pay = {} /\ spent' = spent
      BY <1>1, <2>2, <2>3, RailSets, FS_EmptySet
    <3> QED BY <1>1, <2>2, <3>1, <3>2, RailsKept
  <2>4. turn[t].day \in {"yesterday", "today"}
    BY <1>1 DEF Purchases, Typed, TurnT, TurnRecord, Days
  <2> QED BY <1>1, <2>1, <2>2, <2>3, <2>4, RailsPay
<1>4. CASE \E t \in Turns : Persist(t)
  <2>1. PICK t \in Turns : Persist(t)
    BY <1>4
  <2>2. /\ \A u \in Turns \ {t} : turn'[u] = turn[u]
        /\ turn'[t].pay = {} /\ UNCHANGED spent /\ InRails
        /\ \A c \in turn[t].pay : cache'[c].billed = turn[t].day
        /\ \A c \in Contacts \ turn[t].pay : cache'[c].billed = cache[c].billed
    BY <1>1, <2>1, PersistCaches
  <2>3. turn[t].pay \subseteq Contacts /\ turn[t].pay \intersect Today = {}
    BY <1>1, <2>2 DEF Purchases, Typed, TurnT, TurnRecord, InRails
  <2>4. CASE turn[t].day = "today"
    <3>1. Today' = Today \union turn[t].pay
      BY <2>2, <2>3, <2>4 DEF Today
    <3> QED BY <1>1, <2>2, <2>4, <3>1, RailsKept
  <2>5. CASE turn[t].day # "today"
    <3>1. Today' = Today
      BY <2>2, <2>3, <2>5 DEF Today
    <3> QED BY <1>1, <2>2, <2>5, <3>1, RailsKept
  <2> QED BY <2>4, <2>5
<1>5. CASE \E t \in Turns : Drops(t)
  <2>1. PICK t \in Turns : Drops(t)
    BY <1>5
  <2>2. /\ \A u \in Turns \ {t} : turn'[u] = turn[u]
        /\ turn'[t].pay = {} /\ UNCHANGED <<cache, spent>> /\ InRails
        /\ turn[t].pc = "persist" => turn[t].pay = {}
    BY <1>1, <2>1 DEF Drops
  <2>3. Today' = Today
    BY <2>2 DEF Today
  <2> QED BY <1>1, <2>2, <2>3, RailsKept
<1>6. CASE NextDay
  <2>1. \A t \in Turns : turn'[t].day = "today" => turn'[t].pay = {}
    BY <1>1, <1>6, DayTurns DEF DayTurned
  <2>2. Today' = {} /\ spent' = 0
    BY <1>1, <1>6, DayTurns DEF RowAged, Today, NextDay
  <2>3. Bought' = {} /\ Charged' = {}
    BY <2>1 DEF Bought, Charged
  <2>4. Cardinality(Today' \union Bought') = 0 /\ Cardinality(Today' \union Charged') = 0
    BY <2>2, <2>3, FS_EmptySet
  <2> QED BY <2>1, <2>2, <2>4, BoundAssumption DEF InRails
<1>7. CASE UNCHANGED <<turn, cache, paid, spent, exposed, unmetered>>
  BY <1>1, <1>7 DEF InRails, Today, Bought, Charged
<1> QED BY <1>1, <1>2, <1>3, <1>4, <1>5, <1>6, <1>7, StepKinds

\* What the provider charges in a day stays within the allowance, for every
\* allowance, unless turns bought side by side, what was charged was lost, or a
\* turn that began the day before bought after midnight.
THEOREM SpendBounded == Spec => []SpendWithinAllowance
<1>1. Init => SpendInv
  <2> SUFFICES ASSUME Init PROVE SpendInv
    OBVIOUS
  <2>1. Idle.pay = {} /\ (\A t \in Turns : turn[t] = Idle) /\ spent = 0
    BY DEF Init, Idle
  <2>2. Today = {} /\ Bought = {} /\ Charged = {}
    BY <2>1 DEF Init, Today, Bought, Charged
  <2>3. Cardinality(Today \union Bought) = 0 /\ Cardinality(Today \union Charged) = 0
    BY <2>2, FS_EmptySet
  <2> QED BY <2>1, <2>2, <2>3, PurchasesInit, BoundAssumption DEF SpendInv, InRails
<1>2. SpendInv /\ [Next]_vars => SpendInv'
  BY PurchasesStep, RailsStep DEF SpendInv
<1>3. SpendInv => SpendWithinAllowance
  <2> SUFFICES ASSUME SpendInv, ~unmetered PROVE spent <= Allowance
    BY BoundAssumption DEF SpendWithinAllowance, SpendInv, Purchases, Typed, SpentT
  <2>1. Today \union Bought \in SUBSET Contacts /\ Today \union Charged \subseteq Today \union Bought
    BY RailSets DEF SpendInv
  <2>2. Cardinality(Today \union Charged) <= Cardinality(Today \union Bought)
    BY <2>1, FiniteContacts, FS_Subset
  <2>3. Cardinality(Today \union Charged) \in Nat /\ Cardinality(Today \union Bought) \in Nat
    BY <2>1, FiniteContacts
  <2>4. spent \in Nat /\ Allowance \in Nat
    BY RailSets DEF SpendInv
  <2> QED BY <2>2, <2>3, <2>4 DEF SpendInv, InRails
<1> QED BY <1>1, <1>2, <1>3, PTL DEF Spec

=============================================================================
