-------------------------- MODULE ContactValidation --------------------------
(***************************************************************************)
(* Email validation of one workspace (packages/validation): imports attach *)
(* contacts to a batch, queue turns claim a batch under a lease, resolve a *)
(* chunk of its pending items through the free filters and the paid        *)
(* provider, and write verdicts; the hold drain of packages/workflows      *)
(* queues a batch of its own for a held contact nothing is checking.       *)
(* Emails are unique in a workspace, so a contact stands for its address.  *)
(***************************************************************************)
EXTENDS Integers, FiniteSets, FiniteSetsExt

CONSTANTS
    Contacts,       \* the imported contacts, each with an address
    Answers,        \* the verdicts the provider may return
    Undeliverable,  \* addresses the free filters (syntax, MX) refuse
    Batches,        \* ids of validation batches
    Spare,          \* those of them left to the drain's one-contact batches
    Imports,        \* the chunks of the CSV imports
    ImportOf,       \* each one's batch (its client key) and contacts
    Turns,          \* queue workers
    Drains,         \* hold drains running side by side
    NoContact,
    ChunkSize,      \* items a turn takes
    Concurrency,    \* running batches a workspace may have
    Allowance,      \* paid checks left to the day: the smaller of both rails
    Suppressible,   \* bound: the contacts a suppression may reach
    MaxJobs,        \* bound: queue jobs of one batch
    MaxFaults       \* bound: crashes, outruns, outages, lost enqueues, suppressions

ASSUME ContactAssumption == Undeliverable \union Suppressible \subseteq Contacts /\ NoContact \notin Contacts
ASSUME AnswerAssumption == "invalid" \in Answers /\ Answers \subseteq {"valid", "risky", "invalid"}
ASSUME ImportAssumption ==
    /\ Spare \subseteq Batches /\ Batches # {}
    /\ ImportOf \in [Imports -> [batch: Batches \ Spare, contacts: SUBSET Contacts]]
ASSUME BoundAssumption ==
    /\ ChunkSize \in Nat \ {0} /\ Concurrency \in Nat \ {0}
    /\ Allowance \in Nat /\ MaxJobs \in Nat \ {0} /\ MaxFaults \in Nat
    /\ IsFiniteSet(Contacts)

VARIABLES
    batch,          \* ValidationBatch: [status, reason, lease]
    item,           \* ValidationBatchItem.outcome per batch and contact
    verdict,        \* Contact.emailVerdict
    cache,          \* EmailValidationVerdict: its verdict ("none" is no row) and the day of its billedAt
    suppressed,     \* contacts whose address is in the suppression ledger
    jobs,           \* queue jobs per batch
    turn,           \* each worker's turn; its day is that of the clock it read when it began
    import,         \* each import chunk's upsert: "todo", what it read, "done", "failed"
    heal,           \* the contact each drain is about to queue a batch for
    faults,
    paid,           \* history: checks the provider charged, per contact
    spent,          \* history: checks it charged today
    exposed,        \* history: contacts bought by two turns at once, or whose paid answer was lost
    unmetered,      \* history: a purchase of today the meter did not see in time: made beside
                    \* another, lost, or made by a turn with yesterday's clock
    late,           \* history: batches an import's chunk reached between a count and its completion
    ends            \* history: completed events and re-openings per batch

queueVars == <<batch, item, jobs>>
histVars == <<paid, spent, exposed, unmetered>>
vars == <<batch, item, verdict, cache, suppressed, jobs, turn, import, heal, faults,
          paid, spent, exposed, unmetered, late, ends>>

Unverified == "unverified"
Statuses == {"none", "queued", "running", "held", "completed"}
Days == {"yesterday", "today"}
NoFinding == [c \in Contacts |-> "none"]
Idle == [pc |-> "idle", batch |-> CHOOSE b \in Batches : TRUE, was |-> "none",
         day |-> "today", work |-> {}, found |-> NoFinding, hits |-> {}, pay |-> {}, held |-> "none"]

TypeOK ==
    /\ batch \in [Batches -> [status: Statuses, reason: {"none", "allowance", "provider"},
                              lease: {"none", "live", "past"}]]
    /\ item \in [Batches -> [Contacts -> {"absent", "pending", "answered", "skipped"}]]
    /\ verdict \in [Contacts -> Answers \union {Unverified}]
    /\ cache \in [Contacts -> [verdict: Answers \union {"none"}, billed: Days \union {"no"}]]
    /\ suppressed \subseteq Contacts
    /\ jobs \in [Batches -> 0..MaxJobs]
    /\ turn \in [Turns -> [pc: {"idle", "start", "filter", "pay", "persist", "hold", "count", "finalize"},
                           batch: Batches, was: Statuses, day: Days, work: SUBSET Contacts,
                           found: [Contacts -> Answers \union {"none", "skipped"}],
                           hits: SUBSET Contacts, pay: SUBSET Contacts,
                           held: {"none", "allowance", "provider"}]]
    /\ import \in [Imports -> Statuses \union {"todo", "done", "failed"}]
    /\ heal \in [Drains -> Contacts \union {NoContact}]
    /\ faults \in 0..MaxFaults
    /\ paid \in [Contacts -> Nat] /\ spent \in Nat
    /\ exposed \subseteq Contacts /\ unmetered \in BOOLEAN
    /\ late \subseteq Batches
    /\ ends \in [Batches -> [completed: Nat, reopened: Nat]]

Init ==
    /\ batch = [b \in Batches |-> [status |-> "none", reason |-> "none", lease |-> "none"]]
    /\ item = [b \in Batches |-> [c \in Contacts |-> "absent"]]
    /\ verdict = [c \in Contacts |-> Unverified]
    /\ cache = [c \in Contacts |-> [verdict |-> "none", billed |-> "no"]]
    /\ suppressed = {}
    /\ jobs = [b \in Batches |-> 0]
    /\ turn = [t \in Turns |-> Idle]
    /\ import = [i \in Imports |-> "todo"]
    /\ heal = [d \in Drains |-> NoContact]
    /\ faults = 0
    /\ paid = [c \in Contacts |-> 0] /\ spent = 0
    /\ exposed = {} /\ unmetered = FALSE
    /\ late = {}
    /\ ends = [b \in Batches |-> [completed |-> 0, reopened |-> 0]]

Pending(b) == {c \in Contacts : item[b][c] = "pending"}
(* The meter a turn reads: cache rows billed since its own day began (billedSince). *)
Since(t) == IF turn[t].day = "today" THEN {"today"} ELSE Days
Metered(t) == Cardinality({c \in Contacts : cache[c].billed \in Since(t)})
Holding(b) == \E t \in Turns : turn[t].pc # "idle" /\ turn[t].batch = b

Fault == faults < MaxFaults /\ faults' = faults + 1
Add(n) == IF n < MaxJobs THEN n + 1 ELSE n

-----------------------------------------------------------------------------
(* upsertValidationBatch: the row is read and written in one READ COMMITTED   *)
(* transaction, so a turn may complete the batch between the two statements.  *)

ImportRead(i) ==
    /\ import[i] = "todo"
    /\ import' = [import EXCEPT ![i] = batch[ImportOf[i].batch].status]
    /\ UNCHANGED <<queueVars, verdict, cache, suppressed, turn, heal, faults, histVars, late, ends>>

(* Two first chunks race for the client key: the second one's create throws. *)
ImportFails(i) ==
    /\ import[i] = "none" /\ batch[ImportOf[i].batch].status # "none"
    /\ import' = [import EXCEPT ![i] = "failed"]
    /\ UNCHANGED <<queueVars, verdict, cache, suppressed, turn, heal, faults, histVars, late, ends>>

Opened(b, read) ==
    IF read \in {"none", "completed"} THEN [batch[b] EXCEPT !.status = "queued"] ELSE batch[b]

(* A turn found nothing pending and is on its way to complete the batch. *)
Completing(b) == \E t \in Turns : turn[t].pc = "finalize" /\ turn[t].batch = b

(* The job is added after the commit; without Redis the sweep finds the row. *)
ImportWrite(i) ==
    LET b == ImportOf[i].batch IN
    /\ import[i] \in Statuses
    /\ import[i] = "none" => batch[b].status = "none"
    /\ batch' = [batch EXCEPT ![b] = Opened(b, import[i])]
    /\ item' = [item EXCEPT ![b] =
           [c \in Contacts |-> IF c \in ImportOf[i].contacts /\ @[c] = "absent"
                               THEN "pending" ELSE @[c]]]
    /\ ends' = [ends EXCEPT ![b].reopened = IF import[i] = "completed" THEN @ + 1 ELSE @]
    /\ late' = IF Completing(b) \/ (batch[b].status = "completed" /\ import[i] # "completed")
               THEN late \union {b} ELSE late
    /\ import' = [import EXCEPT ![i] = "done"]
    /\ \/ jobs' = [jobs EXCEPT ![b] = Add(@)] /\ UNCHANGED faults
       \/ Fault /\ UNCHANGED jobs
    /\ UNCHANGED <<verdict, cache, suppressed, turn, heal, histVars>>

-----------------------------------------------------------------------------
(* drainEnrollmentHolds for a contact still unverified: it looks for a        *)
(* pending item of any batch, then queues a batch of one contact.             *)

Held(c) == \E i \in Imports : c \in ImportOf[i].contacts /\ import[i] \in {"done", "failed"}

HealRead(d, c) ==
    /\ heal[d] = NoContact
    /\ Held(c) /\ verdict[c] = Unverified /\ c \notin suppressed
    /\ \A b \in Batches : item[b][c] # "pending"
    /\ heal' = [heal EXCEPT ![d] = c]
    /\ UNCHANGED <<queueVars, verdict, cache, suppressed, turn, import, faults, histVars, late, ends>>

HealWrite(d, b) ==
    /\ heal[d] # NoContact
    /\ b \in Spare /\ batch[b].status = "none"
    /\ batch' = [batch EXCEPT ![b].status = "queued"]
    /\ item' = [item EXCEPT ![b][heal[d]] = "pending"]
    /\ jobs' = [jobs EXCEPT ![b] = Add(@)]
    /\ heal' = [heal EXCEPT ![d] = NoContact]
    /\ UNCHANGED <<verdict, cache, suppressed, turn, import, faults, histVars, late, ends>>

-----------------------------------------------------------------------------
(* processValidationBatchChunk.  A claim refused by a live lease puts its job *)
(* back and changes nothing.                                                  *)

Claim(t, b) ==
    /\ turn[t].pc = "idle" /\ jobs[b] > 0
    /\ batch[b].status # "completed" /\ batch[b].lease # "live"
    /\ jobs' = [jobs EXCEPT ![b] = @ - 1]
    /\ batch' = [batch EXCEPT ![b].lease = "live"]
    /\ turn' = [turn EXCEPT ![t] = [Idle EXCEPT !.pc = "start", !.batch = b, !.was = batch[b].status]]
    /\ UNCHANGED <<item, verdict, cache, suppressed, import, heal, faults, histVars, late, ends>>

ClaimCompleted(b) ==
    /\ jobs[b] > 0 /\ batch[b].status = "completed"
    /\ jobs' = [jobs EXCEPT ![b] = @ - 1]
    /\ UNCHANGED <<batch, item, verdict, cache, suppressed, turn, import, heal, faults, histVars, late, ends>>

Running == {b \in Batches : batch[b].status = "running"}
(* Leaving the turn with its lease dropped and its job queued again. *)
Requeue(t, row) ==
    LET b == turn[t].batch IN
    /\ batch' = [batch EXCEPT ![b] = [row EXCEPT !.lease = "none"]]
    /\ jobs' = [jobs EXCEPT ![b] = Add(@)]
    /\ turn' = [turn EXCEPT ![t] = Idle]

(* The fair-use slice, then the chunk: an empty one goes on to finalize. *)
SliceFull(t) ==
    LET b == turn[t].batch IN
    /\ turn[t].pc = "start" /\ turn[t].was = "queued"
    /\ Cardinality(Running \ {b}) >= Concurrency
    /\ Requeue(t, batch[b])
    /\ UNCHANGED <<item, verdict, cache, suppressed, import, heal, faults, histVars, late, ends>>

Start(t) ==
    LET b == turn[t].batch IN
    /\ turn[t].pc = "start"
    /\ turn[t].was = "queued" => Cardinality(Running \ {b}) < Concurrency
    /\ \E work \in SUBSET Pending(b) :
          /\ Cardinality(work) = Min({ChunkSize, Cardinality(Pending(b))})
          /\ turn' = [turn EXCEPT ![t].work = work, ![t].was = "none",
                                  ![t].pc = IF work = {} THEN "finalize" ELSE "filter"]
          /\ batch' = IF work # {} /\ turn[t].was # "running"
                      THEN [batch EXCEPT ![b].status = "running", ![b].reason = "none"]
                      ELSE batch
          /\ ends' = IF work # {} /\ turn[t].was # "running" /\ batch[b].status = "completed"
                     THEN [ends EXCEPT ![b].reopened = @ + 1] ELSE ends
    /\ UNCHANGED <<item, jobs, verdict, cache, suppressed, import, heal, faults, histVars, late>>

(* Who else is buying: turns whose purchase is not on the meter yet. *)
Buying(t) == UNION {turn[u].pay : u \in {u \in Turns \ {t} : turn[u].pc \in {"pay", "persist"}}}
\* Mutant: what was billed earlier in the day is not subtracted.
HeadroomWhole(t) == Allowance
Headroom(t) == IF Metered(t) < Allowance THEN Allowance - Metered(t) ELSE 0

(* Cache hit, suppressed skip, syntax and MX, in that order; what is left is  *)
(* bought up to the headroom both rails leave of the turn's day.              *)
Filter(t) ==
    LET work == turn[t].work
        hits == {c \in work : cache[c].verdict # "none"}
        skip == (work \ hits) \intersect suppressed
        refused == (work \ (hits \union skip)) \intersect Undeliverable
        payable == work \ (hits \union skip \union refused)
    IN
    /\ turn[t].pc = "filter"
    /\ \E buy \in SUBSET payable :
          /\ Cardinality(buy) = Min({Headroom(t), Cardinality(payable)})
          /\ turn' = [turn EXCEPT ![t] = [@ EXCEPT
                 !.found = [c \in Contacts |-> CASE c \in hits -> cache[c].verdict
                                                 [] c \in skip -> "skipped"
                                                 [] c \in refused -> "invalid"
                                                 [] OTHER -> "none"],
                 !.hits = hits,
                 !.pay = buy,
                 !.held = IF buy # payable THEN "allowance" ELSE "none",
                 !.pc = IF buy = {} THEN "persist" ELSE "pay"]]
          /\ exposed' = exposed \union (buy \intersect Buying(t))
          /\ unmetered' = (unmetered \/ (buy # {} /\ Buying(t) # {}))
    /\ UNCHANGED <<queueVars, verdict, cache, suppressed, import, heal, faults, paid, spent, late, ends>>

(* What the provider charges, whatever becomes of the answers. *)
Charges(got) ==
    /\ paid' = [c \in Contacts |-> IF c \in got THEN paid[c] + 1 ELSE paid[c]]
    /\ spent' = spent + Cardinality(got)

(* The provider answers; an address it skipped stays pending, unpaid. *)
Pay(t) ==
    /\ turn[t].pc = "pay"
    /\ \E got \in SUBSET turn[t].pay : \E answer \in [got -> Answers] :
          /\ IF got = turn[t].pay THEN UNCHANGED faults ELSE Fault
          /\ turn' = [turn EXCEPT ![t].pc = "persist", ![t].pay = got,
                          ![t].found = [c \in Contacts |-> IF c \in got THEN answer[c] ELSE @[c]]]
          /\ Charges(got)
          /\ unmetered' = (unmetered \/ (turn[t].day = "yesterday" /\ got # {}))
    /\ UNCHANGED <<queueVars, verdict, cache, suppressed, import, heal, exposed, late, ends>>

(* A refusal, a lost or unreadable response, or a later slice that fails: the *)
(* answers of the whole call are dropped, what was charged stays charged.     *)
ProviderDown(t) ==
    /\ turn[t].pc = "pay" /\ Fault
    /\ turn' = [turn EXCEPT ![t].pc = "persist", ![t].pay = {}, ![t].held = "provider"]
    /\ \E got \in SUBSET turn[t].pay :
          /\ Charges(got)
          /\ exposed' = exposed \union got
          /\ unmetered' = (unmetered \/ got # {})
    /\ UNCHANGED <<queueVars, verdict, cache, suppressed, import, heal, late, ends>>

(* The items that leave pending, and those of them with a verdict: a          *)
(* suppressed one is skipped, "never claimed valid".                          *)
Settled(t) == {c \in turn[t].work : turn[t].found[c] # "none"}

\* Mutants: a turn that must hold its batch throws its answers away; a skipped
\* contact gets a verdict too.
VerdictedUnlessHeld(t) == {c \in Settled(t) : turn[t].held = "none" /\ turn[t].found[c] # "skipped"}
VerdictedAll(t) == Settled(t)
Verdicted(t) == {c \in Settled(t) : turn[t].found[c] # "skipped"}

(* persistResolutions: items, verdicts of record and cache rows, one commit;  *)
(* billedAt is the turn's clock, not the commit's.                            *)
Persist(t) ==
    LET b == turn[t].batch
        found == turn[t].found
    IN
    /\ turn[t].pc = "persist"
    /\ item' = [item EXCEPT ![b] = [c \in Contacts |->
           CASE c \in Verdicted(t) -> "answered"
             [] c \in Settled(t) /\ found[c] = "skipped" -> "skipped"
             [] OTHER -> @[c]]]
    /\ verdict' = [c \in Contacts |-> IF c \in Verdicted(t) THEN found[c] ELSE verdict[c]]
    /\ cache' = [c \in Contacts |->
           IF c \in Verdicted(t) \ turn[t].hits
           THEN [verdict |-> found[c], billed |-> IF c \in turn[t].pay THEN turn[t].day ELSE "no"]
           ELSE cache[c]]
    /\ turn' = [turn EXCEPT ![t] = [Idle EXCEPT
           !.pc = IF turn[t].held # "none" THEN "hold" ELSE "count", !.batch = b, !.held = turn[t].held]]
    /\ UNCHANGED <<batch, jobs, suppressed, import, heal, faults, histVars, late, ends>>

(* The batch waits: for the next day, or for the queue's retry of an outage.  *)
Hold(t) ==
    /\ turn[t].pc = "hold"
    /\ Requeue(t, [batch[turn[t].batch] EXCEPT !.status = "held", !.reason = turn[t].held])
    /\ ends' = IF batch[turn[t].batch].status = "completed"
               THEN [ends EXCEPT ![turn[t].batch].reopened = @ + 1] ELSE ends
    /\ UNCHANGED <<item, verdict, cache, suppressed, import, heal, faults, histVars, late>>

Left(b) == Pending(b)

CountLeft(t) ==
    /\ turn[t].pc = "count" /\ Left(turn[t].batch) # {}
    /\ Requeue(t, batch[turn[t].batch])
    /\ UNCHANGED <<item, verdict, cache, suppressed, import, heal, faults, histVars, late, ends>>

CountNone(t) ==
    /\ turn[t].pc = "count" /\ Left(turn[t].batch) = {}
    /\ turn' = [turn EXCEPT ![t].pc = "finalize"]
    /\ UNCHANGED <<queueVars, verdict, cache, suppressed, import, heal, faults, histVars, late, ends>>

\* Mutant: the update does not look at the status.
FlipsAlways(b) == TRUE
(* The rows a completion flips: any status but completed. *)
Flips(b) == batch[b].status # "completed"

(* finalizeIfDrained, a transaction of its own after the count. *)
Finalize(t) ==
    LET b == turn[t].batch IN
    /\ turn[t].pc = "finalize"
    /\ turn' = [turn EXCEPT ![t] = Idle]
    /\ IF Flips(b)
       THEN /\ batch' = [batch EXCEPT ![b] = [status |-> "completed", reason |-> "none", lease |-> "none"]]
            /\ ends' = [ends EXCEPT ![b].completed = @ + 1]
       ELSE UNCHANGED <<batch, ends>>
    /\ UNCHANGED <<item, jobs, verdict, cache, suppressed, import, heal, faults, histVars, late>>

-----------------------------------------------------------------------------
(* The world around the turns.                                                *)

(* A turn crashes or throws, the lease stays; the queue retries the job, or   *)
(* has given up on it.                                                        *)
TurnDies(t) ==
    /\ turn[t].pc # "idle" /\ Fault
    /\ turn' = [turn EXCEPT ![t] = Idle]
    /\ \E kept \in BOOLEAN :
          jobs' = IF kept THEN [jobs EXCEPT ![turn[t].batch] = Add(@)] ELSE jobs
    /\ LET lost == IF turn[t].pc = "persist" THEN turn[t].pay ELSE {} IN
          exposed' = exposed \union lost /\ unmetered' = (unmetered \/ lost # {})
    /\ UNCHANGED <<batch, item, verdict, cache, suppressed, import, heal, paid, spent, late, ends>>

LeaseLapses(b) ==
    /\ batch[b].lease = "live" /\ ~Holding(b)
    /\ batch' = [batch EXCEPT ![b].lease = "past"]
    /\ UNCHANGED <<item, jobs, verdict, cache, suppressed, turn, import, heal, faults, histVars, late, ends>>

LeaseOutrun(b) ==
    /\ batch[b].lease = "live" /\ Holding(b) /\ Fault
    /\ batch' = [batch EXCEPT ![b].lease = "past"]
    /\ UNCHANGED <<item, jobs, verdict, cache, suppressed, turn, import, heal, histVars, late, ends>>

\* Mutant: a running batch whose worker or job is gone is not looked for.
OrphanedNever(b) == batch[b].status \in {"queued", "held"}
(* Queued, held, or running untouched for ten minutes (longer than a lease). *)
Orphaned(b) ==
    \/ batch[b].status \in {"queued", "held"}
    \/ batch[b].status = "running" /\ batch[b].lease # "live"

(* sweepValidationBatches does not look for a live job. *)
Sweep(b) ==
    /\ Orphaned(b) /\ jobs[b] < MaxJobs
    /\ jobs' = [jobs EXCEPT ![b] = @ + 1]
    /\ UNCHANGED <<batch, item, verdict, cache, suppressed, turn, import, heal, faults, histVars, late, ends>>

Suppress(c) ==
    /\ c \in Suppressible \ suppressed /\ Fault
    /\ suppressed' = suppressed \union {c}
    /\ UNCHANGED <<queueVars, verdict, cache, turn, import, heal, histVars, late, ends>>

(* A turn reads its clock when it begins and no more after its commit. *)
Timed(t) == turn[t].pc \in {"start", "filter", "pay", "persist"}

(* Midnight UTC.  Bound: a turn sees one midnight at most, so the rows of the  *)
(* day that ends matter to the turns under way alone.                         *)
NextDay ==
    /\ \A t \in Turns : Timed(t) => turn[t].day = "today"
    /\ cache' = [c \in Contacts |-> [cache[c] EXCEPT
           !.billed = IF @ = "today" /\ (\E t \in Turns : Timed(t)) THEN "yesterday" ELSE "no"]]
    /\ turn' = [t \in Turns |-> IF Timed(t) THEN [turn[t] EXCEPT !.day = "yesterday"] ELSE turn[t]]
    /\ spent' = 0 /\ unmetered' = FALSE
    /\ UNCHANGED <<queueVars, verdict, suppressed, import, heal, faults, paid, exposed, late, ends>>

TurnStep(t) ==
    \/ SliceFull(t) \/ Start(t) \/ Filter(t) \/ Pay(t) \/ Persist(t)
    \/ Hold(t) \/ CountLeft(t) \/ CountNone(t) \/ Finalize(t)

Next ==
    \/ \E i \in Imports : ImportRead(i) \/ ImportFails(i) \/ ImportWrite(i)
    \/ \E d \in Drains : \/ \E c \in Contacts : HealRead(d, c)
                         \/ \E b \in Spare : HealWrite(d, b)
    \/ \E t \in Turns : \/ \E b \in Batches : Claim(t, b)
                        \/ TurnStep(t) \/ ProviderDown(t) \/ TurnDies(t)
    \/ \E b \in Batches : ClaimCompleted(b) \/ LeaseLapses(b) \/ LeaseOutrun(b) \/ Sweep(b)
    \/ \E c \in Contacts : Suppress(c)
    \/ NextDay

(* A worker that runs keeps running, the queue serves every batch in turn,    *)
(* leases lapse, the sweep's timer fires and days pass.                       *)
Fairness ==
    /\ \A t \in Turns : WF_vars(TurnStep(t))
    /\ \A b \in Batches : /\ SF_vars(\E t \in Turns : Claim(t, b))
                          /\ WF_vars(LeaseLapses(b)) /\ WF_vars(Sweep(b))
    /\ SF_vars(NextDay)

Spec == Init /\ [][Next]_vars /\ Fairness

-----------------------------------------------------------------------------
(* Properties *)

(* The lease is there so that "a duplicate turn" skips "instead of            *)
(* double-billing" (service.ts): a contact is bought twice only if two turns  *)
(* held it at once, or the answer bought first was lost: its turn died before *)
(* the commit, or the provider call failed after it was charged.              *)
DoubleBillExplained == \A c \in Contacts : paid[c] > 1 => c \in exposed

(* The spend rails count committed cache rows before buying: what the         *)
(* provider charges in a day stays within the allowance unless turns bought   *)
(* side by side, one lost what it had bought, or one that began the day       *)
(* before bought by that day's meter (service.ts, now and headroom).          *)
SpendWithinAllowance == spent > Allowance => unmetered

(* finalizeIfDrained announces a completion exactly once: one event for the   *)
(* first completion and one for every re-opening (by a late chunk, or by the  *)
(* unguarded status writes of a turn that outran its lease), however many     *)
(* turns reach it.                                                            *)
OneEventPerCompletion ==
    \A b \in Batches : ends[b].completed <= ends[b].reopened + 1

(* Whatever crashes, outages and throttles happen, a pending item is settled  *)
(* in the end, unless its batch was completed under it.                       *)
EveryItemSettles ==
    \A b \in Batches : \A c \in Contacts :
        item[b][c] = "pending" ~> (item[b][c] # "pending" \/ b \in late)
=============================================================================
