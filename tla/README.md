# Verification of the campaign engine

Clientforce runs outbound campaigns for agencies: a lead is enrolled in a
campaign, a durable workflow walks the campaign's graph and sends the steps, and
replies, rules, people and bills act on the lead while it is under way. Around
it sit the gate that lets leads in, the validation of their addresses, the calls
of the voice agent and the rails that keep everybody who opted out alone. This
directory holds TLA+ modules for the parts of that machinery whose correctness
depends on the order of things, the TLC configurations that check them on small
instances, and TLAPS proofs of what matters most for every instance.

Paths below are relative to the repository (`src/` in PROJECT.json); `line`
numbers are those of the modelled commit.

## 1. Inventory

| Component | Code | State it keeps | Operations | Modelled |
|---|---|---|---|---|
| Campaign run | `packages/workflows/src/workflows.ts`, `activities.ts`, `client.ts`, `shared.ts` | one Temporal execution per run: position, signalled intents; `Enrollment` (status, currentNode, workflowId) | start, walk a node, send with retries, sleep, wait for a reply, cancel, move, signal | CampaignRun |
| Email send boundary | `packages/channels/src/send.ts` | `Message`, `EnrollmentReplyHold`, `Approval`, `Suppression` (read) | hold, approval, rails, suppression, transport, persist | CampaignRun |
| Campaign graph | `packages/core/src/graph/*` | the graph JSON | validate, next node, resolve a reply branch | CampaignGraph |
| Reply and unsubscribe handling | `packages/channels/src/classify.ts`, `apps/worker/src/main.ts` | suppression, opt-out, status | unsubscribe reply, signal of a classified intent | CampaignRun |
| Rule engine | `packages/automations/src/evaluate.ts`, `executors.ts`, `consumer.ts` | `CampaignRuleRun`, `AutomationRun`, an in-process memo per event | evaluate, execute, record, gate the graph | RuleEngine; its actions on the run in CampaignRun |
| Event bus | `packages/events/src/bus.ts`, `consumers.ts` | `Event` rows, a BullMQ queue | publish, dispatch, redeliver | dispatch and redelivery, in RuleEngine and CampaignRun |
| Inbox, approvals, contact list | `apps/api/src/agents/inbox-actions.controller.ts`, `approvals`, `contacts` | reply holds, approval decisions, opt-outs | hold, resume, decide, bulk unsubscribe | CampaignRun |
| Credit ledger | `packages/db/src/charge.ts`, `apps/api/src/backoffice` | `Workspace.creditBalance`, `CreditLedger`, `CreditPrice` | charge, refund, adjust, reprice | CreditCharge, CreditLedger |
| Enrollment gate | `packages/workflows/src/enroll.ts`, `apps/api/src/enrollments`, `forms`, `zapier` | `EnrollmentHold`, `Enrollment`, the daily cap | enroll, hold, drain, release, refuse | EnrollmentGate |
| Contact validation | `packages/validation/src/service.ts`, `queue.ts` | `ValidationBatch` and its items, leases, `EmailValidationVerdict`, spend meters | import, claim, filter, buy, persist, hold, complete, sweep | ContactValidation, VerdictSource |
| Voice calls | `packages/channels/src/dial-voice.ts`, `call-dial-queue.ts`, `apps/api/src/voice`, `apps/voice`, `activities.ts` | `Call` rows, dial queue, sessions | dial, queue for the best time, fire, retry, start, finalize, jump in, status callback | VoiceCall |
| Opt-out and suppression | `packages/channels/src/sms-inbound.ts`, `send-sms.ts`, `send.ts`, `webhooks.ts`, `classify.ts`, `suppression-hygiene.ts`, `executors.ts`, `apps/api/src/channels` | `Suppression` rows, `Contact.optOut` | STOP, unsubscribe, provider event, bulk, rule, edit of the list, sweep, check at the send | ContactConsent |
| Send caps | `packages/channels/src/send.ts`, `send-sms.ts` | counts of `Message` rows | count, compare | no (see 7) |
| Lead reveal | `apps/api/src/leads` | reveals | reveal and charge | no (see 7) |
| Graph editor | `packages/core/src/graph/mutate.ts` | the graph JSON | insert, move, delete a node | planned |
| Sender health, warmup | `packages/channels/src/health.ts`, `warmup.ts` | none (pure) | score, ramp | no (pure; see 7) |
| Planner, composer, classifier, knowledge, context, AI gateway | `packages/planner`, `knowledge`, `context`, `ai` | prompts, embeddings | calls of a language model | no: text, no shared state |
| Integrations, CRM, webhooks | `packages/integrations` | OAuth tokens, a delivery ledger | third-party calls | no (the ledger's dedupe is a candidate) |
| Tenancy, auth | `packages/tenancy` | sessions, row-level security | access control | no |
| Web, widget, Zapier, telemetry, recall, theme | `apps/web`, `packages/*` | read models | presentation, analytics | no |

### How they interact

```
 reply / unsubscribe ──> Event row ──> queue ──> worker: Promise.all of
                                                    temporal-signal ── gate ──┐ awaits
                                                    automations  (rule engine)<┘
                                                    dispatcher
 rule engine ── end/pause/suppress: status, then cancel ──> Enrollment, run
             ── move: cancel old run, start new run, then Enrollment row
 signal consumer ── signal(intent) ──> run (waits at a reply branch)
 run ── sendEnrollmentStep ──> send boundary ──> provider, then Message row
 send, call, reveal, validation ── charge / refund ──> credit ledger
 import, hold drain ──> validation batch ──> verdict ──> enrollment gate ──> run
 voice step, dial endpoint, best-time queue ──> Call row ──> provider
                     session, status callback, operator ──┘ each writes the row
 STOP, reply, event, bulk, rule ──> Suppression row + optOut JSON ──> both boundaries
                     hygiene sweep ── rows repair flags ──┘
 people ── hold / Resume / approve / autonomy level ──> read by run and boundary
```

No two of these share a transaction. The workflow and the rule engine talk to
the database, Temporal and the queue one call at a time, each call can fail or
be the last one of a worker, and Temporal and BullMQ deliver again.

### What is hard

* **Interleaving.** A send attempt has eight database calls and a transport in
  it; a person, a rule or an unsubscribe may act between any two.
* **Failure.** The provider may have taken a message whose row was never
  written; a status may be written whose cancel never happens.
* **Redelivery and overlap.** An attempt that timed out goes on beside its
  retry; a stalled queue job runs beside its own redelivery.
* **Identity of a run.** A moved lead runs under another workflow id than the
  one it was enrolled under, and not every caller knows.
* **Absolute writes.** The ledger writes a balance computed from an earlier read;
  every opt-out writes the whole `optOut` JSON, `finalizeCall` the whole `meta`.
* **Leases and timers.** A validation turn may outrun the lease it holds its batch
  under; sweeps and drains are the only way back for what a crash left behind.
* **Count, then write.** Caps and spend rails count committed rows in one
  transaction and add one in another.

### What makes each part correct

* *Run*: a step reaches a lead at most once; a stop that stands is never passed;
  nobody is ACTIVE and forgotten; every run ends or waits for a person; an
  unsubscribe leaves nothing running; never two runs of a lead that both go on.
* *Rule engine*: one rule decides over the lead however often the event comes;
  the row says which; a crash loses no rule; the strategy reply does not follow
  a rule that decided.
* *Ledger*: a produced row is charged and refunded at most once, a refund mirrors
  its charge, no charge overdraws, the balance is what the ledger says.
* *Gate*: a released hold had its run started; the cap holds; an invalid address
  stays out; nobody goes through a campaign twice unasked; every hold that can be
  decided is decided.
* *Validation*: an address is bought twice only side by side or for an answer that
  was lost; the day's allowance holds for what the meter can see; a batch's
  completion is announced once, every item is settled.
* *Calls*: a row rings once, but for a lost sid or a slow attempt beside its
  retry; attempt cap and opt-out hold; an ended call has its
  outcome and does not look live, a call an operator took over stays open; no
  queued row is left without a dial.
* *Opt-out*: who opted out is not sent to; row and flag agree in the end; a demand
  is announced.

PROJECT.json lists every hazard at its line with the properties that cover it,
or why none does.

## 2. Modules

| Module | Models | Lines |
|---|---|---|
| `CampaignGraph` | the graph a run walks: `NextAfter`, `ResolveReplyBranch`, and what `validateGraph` guarantees as an assumption | constant |
| `CampaignRun` | one enrollment, its executions, send attempts, people, and what reaches it from outside | core |
| `MCCampaignRun` | three graphs and the ids of the runs | TLC |
| `CampaignRunProofs` | type correctness and every safety property | TLAPS |
| `RuleEngine` | the deliveries of one event over its matched rules | core |
| `MCRuleEngine` | eighteen pairs of rules | TLC |
| `RuleEngineProofs` | type correctness and every safety property | TLAPS |
| `CreditLedger` | what the ledger promises, without transactions | abstract |
| `CreditCharge` | charge, refund and adjustment, statement by statement | core |
| `MCCreditCharge` | five requests over two sources | TLC |
| `CreditChargeProofs` | all safety properties and the refinement | TLAPS |
| `VerdictSource` | what the system may assume of validation | abstract |
| `ContactValidation`, `MCContactValidation` | batches, turns, leases, drains; one import in two chunks and a drain's batch | core, TLC |
| `EnrollmentGate`, `MCEnrollmentGate` | requests and drains on one campaign; two contacts | core, TLC |
| `VoiceCall`, `MCVoiceCall` | the Call rows of one contact; a best-time request beside the voice step | core, TLC |
| `ContactConsent`, `MCContactConsent` | the two opt-out rails of one contact; every pair of demands | core, TLC |
| `ContactValidationProofs`, `EnrollmentGateProofs`, `VoiceCallProofs`, `ContactConsentProofs` | their type invariants and every safety property | TLAPS |

`CampaignRun` EXTENDS `CampaignGraph`; `CreditCharge` implements `CreditLedger`
(`Ledger == INSTANCE CreditLedger`, same variable names, `Row` and
`InitialBalance` shared). `EnrollmentGate` and `ContactValidation` meet at
`VerdictSource`: the gate takes verdicts by its `Land` (`Source == INSTANCE
VerdictSource`), and validation implements it: nothing but a commit of a turn
touches a verdict, and it lands answers (lemma `SourceImplemented` of
ContactValidationProofs, a small statement that no run repeats). So what is shown
of the gate holds beside the validation the code has. `RuleEngine` and
`CampaignRun` meet at the rule actions: `RuleEngine` has several rules and deliveries and a run that is only
live or not; `CampaignRun` has one rule's delivery and the run in full.

### CampaignGraph and CampaignRun

The state is the enrollment row (`enr`), per execution its control point
(`run`), per attempt in flight the control point of `sendEnrollmentStep`
(`att`), the rows people write (`hold`, `approval`, `level`, `suppressed`), the
mail (`delivered` is history: what the provider took; `messages` are rows), and
per outside event the control point of its handler (`op`).

* A run's `pc` is the activity it calls next. Every activity that is one
  transaction is one action: `PollHold` (isEnrollmentHeld), `PollApproval`
  (ensureStepApproval), `UpdateProgress`, `RecordBlocked`, `RecordRoute`,
  `RecordAction`, `Complete`. Timers and waits are `Wake`, `TakeReply`,
  `GoOnWithoutReply`. A result only leads on in a run that is still open; a write
  under way when the run is cancelled may still land (`Writing`, `Abandon`).
* A cancel is a request. `CancelRun` makes a live run `closing`; it stays live under
  its id, takes signals, and the activity it scheduled still begins, until `Close`
  delivers the cancel. A start under the id of a live run is refused, one that is
  only closing included, and the caller takes that for its own earlier start
  (`StartUnder`).
* A send is an attempt of its own: `Lookup`, `CheckHold`, `CheckApproval`,
  `CheckRails`, `CheckSuppression`, `Deliver`, `Persist`, in `sendStep`'s order,
  with what it read early (the autonomy level) kept in the attempt. `Crash`,
  `Timeout` and `GiveUp` are the ways it ends otherwise; `Retried` is the retry
  policy.
* An operation from outside advances call by call as well: a rule's `Evaluate`,
  `ApplyStop`, `ReadWorkflowId`, `CancelRun`, `StartMoved`, `Adopt`,
  `RecordRuleRun`; an unsubscribe's `ApplyUnsubscribe`; `Signal`; `Reenroll`;
  `BulkUnsubscribe`. `CancelFails` and `Redeliver` are its faults.

What was abstracted: message content, sender and cap checks (one rail that may
refuse, `CheckRails`), the durations of timers, the reply's text (an intent).
`isEnrollmentHeld` and `ensureStepApproval` are single steps. Suppressions are
never lifted. `recordIntendedAction` writes an audit row only. The voice step is
a deferred step here.

### RuleEngine

A delivery (`pass[d]`) is one evaluation: `Load` reads the status once, `FindRow`
looks the next rule up, `PassOver`, `WriteStatus`, `Cancel`, `StartMoved` and
`WriteLedger` are its actions, `WriteRow` its record, `Gate` the signal
consumer that awaited the same promise. `fired` is `ctx.terminalState.fired`
and `closed` is `summary.terminalFired`; they are two variables because they
part when the row of a nested automation fails. The run is live or not, and one
that was asked to stop counts as not; `StartMoved` is the start and the row in one
step, the finer grain is in CampaignRun. `CancelFails`, `ActionFails`,
`EvaluationThrows`, `Crash` and `Stall` are what goes wrong; the rules
themselves (`book`) are chosen at the start among `Books`, so that one run
covers all of them. Campaign rules and account rules differ only in the table
their row goes to and are one sequence, in the order the code evaluates them.
Rules edited between two deliveries, the causation depth and the events a rule
publishes are left out.

### CreditCharge and CreditLedger

A request is one Postgres transaction at READ COMMITTED, its statements in the
code's order: the workspace row, the price, the insert, the balance. The
partial unique index is `SameKey`; `ON CONFLICT DO NOTHING` waits for an
uncommitted row of the same key (`InsertRow`); an update waits for the row lock
(`MoveBalance`); `Commit` makes row and balance visible together; `Rollback`
leaves nothing. `CreditLedger` has one action, `Post`: a row its kind allows,
in one step, carrying the balance.

### EnrollmentGate and VerdictSource

A request or a drain is a process (`proc`) in the middle of `enrollContact`, one
transaction at a time: `Resolve` (the lookups, the suppression check, the verdict
ladder), `WriteHold` or `Refuse`, `Count` (the daily cap), `Create`, `Start`,
`Release`. A drain takes a snapshot of the pending holds and works it off,
passing over a campaign that hit its cap (`DrainStart`, `DrainNext`, `DrainEnd`).
`Throws` is a throw or a crash between any two of them, and `CreateTwice` the
unique key of the row. Around them: verdicts (`VerdictLands`, by `VerdictSource`),
a suppression, the risky policy, the day, a run that closes, and `FormRow`, the
row a public form or a Zap writes itself. `raced`, `ungated` and `excused` are
history: they name the steps that excuse an exception, and the properties say
that nothing else does. One of them is that a start or a release happens while
another request or drain has the contact in hand too (`Shared`): a drain's
snapshot outlives the holds it was taken from, and drains do overlap, since the
sweep's timer and a landed verdict each start one (`apps/worker/src/main.ts:673`
and `:697`).

### ContactValidation

The rows are `batch` (status, reason, lease), `item`, `verdict` and `cache`. A
worker's `turn` is `processValidationBatchChunk`: `Claim` under a lease (or
`ClaimCompleted`), `Requeue` or `Start` behind the concurrency check, `Filter`
(suppressed, cached, undeliverable, and how many may be bought), `Pay`,
`Persist`, then `Hold`, or `CountLeft`/`CountNone` and `Finalize`. `TurnDies`,
`LeaseLapses`, `LeaseOutrun`, `ProviderDown` are what goes wrong, `Sweep` finds
batches without a job, `HealRead`/`HealWrite` is the drain that queues a batch of
its own, `ImportRead`/`ImportWrite` an import chunk. The filters are one answer
per address; both meters are one allowance, the smaller of the two.

A turn reads the clock once, when it begins (`service.ts:189`): its `day` decides
which rows its meter counts (`Metered`) and which day its purchases are billed to
(`Persist`), and midnight (`NextDay`) turns "today" into "yesterday" for the turns
under way. A failed provider call may have charged any part of what it was asked
(`ProviderDown`, `Charges`): the client throws for a lost or unreadable response
and for a later slice alike, and the turn drops every answer of the call. `paid`
and `spent` are what the provider charged, `exposed` and `unmetered` say which of
it was bought side by side, lost, or bought by the day before's clock. Merged into
one step each: the claim and its read of the status (`Claim`), the count, the find
and the write of running (`Start`), the flip and its event (`Finalize`).

### VoiceCall

`row` is the Call row, `leg` the provider's view of a call, `session` the stream
of the voice service, `callback` the status webhook, `operator` the jump-in. A
dial is a request (`direct`, `best`), the first attempt of the campaign's step
(`step`) or a `retry` of a slow attempt, with the rails first (`RailsClear`), then
its row, then the ring (`Place`) and the sid (`Save`): between the last two nobody
but the dial knows which row rang. A queued
call runs its rails again when it fires (`Fire`, `FireRails`, `FireCleared`,
`FirePutOff`, `FireRefused`). The session's start and finalize, the callback and
the operator each read the row in one transaction and write it in another, and
may cross. The calling window is no variable: the hour may pass an edge of it
between any two reads, so `Refused`, `Promise` and the actions that fire a call
take each answer of it.

An attempt that failed is run again (`DialFails`); one that is only slow is not:
when the two minutes of the step or the lock of the job run out, its retry starts
and it goes on (`RetriedBeside`). `slow` holds such attempts, `Twice` the rows of
their calls: both may find the row without a sid, ring, and save their own. Merged
into one step each: the reads of the rails (`RailsClear`), the refusal of a fired
call and its event (`FireRefused`).

### ContactConsent

`rows` are the Suppression rows of one contact, by the address they name, `flags`
the channels set in `Contact.optOut`. The address is modelled by which form the
contact's own value has (`form`): what the provider writes, without its plus,
with punctuation, or in mixed case; `RowKey`, `LookupKey`, `SweepKey` say which
row each writer writes and each reader looks for. A demand (`handler`) is one
READ COMMITTED transaction (`Read`, `Commit` or `RolledBack`) and an event behind
it (`Publish`). `Read` and `Commit` stand for five writers, one per kind:
`applySmsStop` (`sms-inbound.ts:144-164`), `applyUnsubscribeReply`
(`classify.ts:213-241`), `applyEmailEvent` (`webhooks.ts:75-99`, its unsubscribe
and spam report; a bounce suppresses too and announces nothing), the bulk
unsubscribe (`contacts-view.controller.ts:373-438`) and the rule
(`executors.ts:134-166`). What it writes of `optOut` is what it read plus its channel. A row
it found that people remove before it commits is not created again: they have
lifted the demand (`Lifted`). The
sweep (`SweepStart` to `SweepEnd`) does the same contact by contact without a
transaction around read and write. A send (`Begin`, `CheckRails`, `Transport`)
reads the flag early and the row late. People add and remove rows.

## 3. Runs

| Run | Instance | Shows |
|---|---|---|
| CampaignWalk | one run, every node kind; reply, unsubscribe, end; a hold, a level change; a split and a branch with no default | `NoForgottenLead`, `RunsSettle`, `StandingStopsHold` |
| CampaignFaults | send, delay, branch, send; a reply and a re-enrollment; 2 attempts, 2 faults, 2 slots | `TypeOK`, `DuplicatesNeedFaults`, `RunsSettle` |
| CampaignMove | one send; a move and a suppression; one fault; three executions | `OneRunGoesOn` |
| RuleEngine | 18 rule pairs, 2 deliveries, 3 faults | `TypeOK`, `FirstTerminalWins`, `RowsTellTheTruth`, `LateSignalsExplained`, `EveryRuleRecorded` |
| CreditCharge | 5 requests on 2 sources, prices unpriced, 0 and 1 | `OneRowPerSource`, `RefundNetsToZero`, `ImplementsLedger`, `EveryRequestSettles` |
| ContactValidation | 2 contacts in 2 chunks of one import, 1 spare batch, 2 workers, 1 drain, 1 paid check a day, 1 fault | `TypeOK`, `DoubleBillExplained`, `SpendWithinAllowance`, `OneEventPerCompletion`, `EveryItemSettles` |
| EnrollmentGate | 2 contacts, 2 requests, 1 drain, cap 1, 1 fault, 1 change | `TypeOK`, `ReleasedWasStarted`, `CapHolds`, `InvalidStaysOut`, `SecondRunExplained`, `HoldsDrain` |
| VoiceCall | 2 of 3 dials (best-time, step, retry), 2 rows, 2 legs, 1 attempt, an opt-out or 1 fault | `EndedIsNotLive`, `RingsOnce`, `AttemptsHold`, `OptOutStopsDials`, `EndingsExplained`, `TakenStaysOpen`, `EveryCallEnds`, `NoPhantomCall` |
| ContactConsent | 2 demands of every pair of kinds, 4 forms of an address where they tell, a text, the sweep, 1 fault, 1 edit | `TypeOK`, `NoSendAfterOptOut`, `RailsAgree`, `DemandsLand` |
| CreditLedgerRace | as CreditCharge | `LedgerReconciles` is violated |
| MoveDoubleSend | a move, no faults | `DeliveredAtMostOnce` is violated |
| MovedUnsubscribe | a move and an unsubscribe, no faults | `UnsubscribeEndsRuns` is violated |

`ImplementsLedger` carries the balance with each row, so it contains the two
ledger properties that are proved and not run, `NewestRowExplainsBalance` and
`ChargeNeverOverdraws`. `SerialReconciles` and the type invariants of CreditCharge
and VoiceCall are proved and need no run of their own either.

### Bounds and why they are enough

* `MaxAttempts` (5 in the code) is 2 where retries matter: the first attempt, one
  retry, and giving up all happen. `MaxFaults` bounds crashes, timeouts and
  failed calls; 2 lets a fault hit a retry, 3 in RuleEngine lets a crash, a stall
  or failed call and another failure meet.
* `Slots` bounds attempts in flight: as many as the runs and retries of the
  instance can have at once, so that no send waits for a slot for ever.
* `MaxHolds`, `MaxLevels` are 1: a hold may be placed once and lifted, the level
  turned once; the theorem `StopsHold` has no such bound and so covers a stop that
  is lifted and comes back.
* `Runs` holds as many executions as the operations of the instance can start.
* `MaxDeliveries` is 2, which is BullMQ's own limit (a job may stall once).
* The ledger's five requests are the smallest set with a race for one source, its
  refund, a second source and a move that may overdraw. The opening balance of 2
  pays for one of the two charges after the adjustment.
* The graphs have no cycle, so that every run settles; the graph assumption does
  not need that and the proofs do not use it.
* ContactValidation: two workers are what it takes for a turn to outrun its lease;
  two chunks, one late; an allowance of one is met by the first purchase. The
  provider answers "invalid" only: no control depends on which answer it is, and
  the proofs are over all of them. Of a provider call that fails every part may be
  charged. A turn sees one midnight at most, a bound of `NextDay`: one is what it
  takes to meter a purchase to the wrong day.
* EnrollmentGate: two contacts compete for a cap of one; a request each beside a
  drain gives two processes on one contact. Two drains that overlap were checked
  apart, on one contact, and `SecondRunHasReason` and `CapKept` cover any number.
  `Routed` names the contact a form may bring, `MaxChanges` bounds second verdicts,
  suppressions, policy flips and such rows together.
* VoiceCall: at most two dials begin (`MaxDials`): the two origins that meet, the
  queue and the step, or one of them and a retry beside it. A direct dial is the
  part of the first without the queue and enters the proofs, as does any number of
  dials and retries; one of the legs may be answered, which is enough for a
  session beside the other. The opt-out takes the run's one fault: the theorems
  cover an opt-out beside any number of faults.
* ContactConsent: two handlers, because a lost update or a conflict has two sides.
  Of the four forms each pair runs with those that make a difference to it. The
  send is a text: an email is looked up under the one key every writer uses, and
  `OptOutIsFinal` covers both channels.

Deadlock is not checked where the system may settle: a run that completed and
operations that are done leave nothing to do (`CHECK_DEADLOCK FALSE` in the
campaign, rule, validation, gate, call and consent configurations). In the ledger the price may always change, so
deadlock is checked there and liveness says that no request is stuck.

### Fairness

* `WF` of each run's steps, each attempt's steps: Temporal dispatches the
  activities and timers of every live execution and a worker polls them. `WF` of
  `Close`: Temporal delivers a cancel it has accepted.
* `WF` of an operation that has *begun*: a queue job is worked off. Whether a
  reply, a move or a re-enrollment comes at all is nobody's duty.
* `WF` of a delivery's steps (RuleEngine) and a transaction's statements
  (CreditCharge): a process that runs goes on.
* ContactValidation: `WF` of a turn's steps, of lapsing leases and of the sweep (a
  timer); `SF` of the claim of each batch (the queue keeps offering the job, though
  the concurrency limit may turn it away) and of the day's change (midnight
  comes; the guard only keeps a turn from seeing two of them).
* EnrollmentGate: `WF` of the drain's steps (a timer) and of every process inside
  `enrollContact`; `SF` of the day's change, whose guard keeps it out of the middle
  of one.
* ContactConsent: `WF` of a handler that began and of the sweep. It is not assumed
  that a demand arrives.
* VoiceCall: none. Its properties about an end (`EveryCallEnds`, `NoPhantomCall`)
  are invariants: when everybody who could act is through, the row is closed.
* People, prices, verdicts, crashes, timeouts and failures are not fair.
  `WaitsOnPeople` names the three places where a run may therefore wait for ever.

## 4. What disagrees with the code's own words

Each is a `violation` run; PROJECT.json gives the quoted line.

1. **CreditLedgerRace.** Two transactions read the same balance and each writes
   the absolute value it computed: the later one erases the earlier one's move,
   while both rows stay in the ledger. `NewestRowExplainsBalance` still holds
   (and is proved), which is why a check of the newest row does not notice.
2. **MoveDoubleSend.** A send attempt of the old run that is past its lookup and
   the new run's attempt both send the step. Cancelling is cooperative.
3. **MovedUnsubscribe.** An unsubscribe reply cancels the enroll-time id; a moved
   run has another and stays alive. The suppression still blocks its sends.
Known from the models without a run of their own:

*Campaign*

* A redelivered move takes the id it has itself stored for the previous one and
  cancels the run it had started (`client.ts:121`). When the cancel has been
  delivered it starts the run again; while it has not, the start meets the closing
  run, is taken for a duplicate (`client.ts:44`), and the lead is written ACTIVE
  with a run that is about to close.
* After every move the old run lives beside the new one until its cancel is
  delivered, and takes signals under its own id. `OneRunGoesOn` says no more than
  that it was asked to stop.
* A hold placed after the workflow polled for one is refused at the boundary, and
  a refusal pauses the enrollment and ends the run: there is nothing left for
  Resume to resume (`activities.ts:594`).
* A worker dies between a pause and its cancel: the redelivery finds the lead
  paused, returns the empty summary, the gate reads "nothing terminal", and the
  live run gets the reply the rule had handled. `LateSignalsExplained` allows it.
* A worker that dies between the transport and the `Message` row sends again
  (`send.ts:306`, against `activities.ts:343`); `DuplicatesNeedFaults` bounds it
  by the number of faults.
* Enrolling a moved lead again starts a second live run, because the enroll-time
  id is free (`client.ts:35`). `OneRunGoesOn` is therefore checked and proved
  without re-enrollment, `DuplicatesNeedFaults` without a move.
* A move whose status check came before an unsubscribe writes ACTIVE over it
  (`client.ts:196`). A moved run that completes before the move's last
  transaction leaves the lead ACTIVE with no run (`client.ts:200`); a run that
  found no case at a branch, or used up its attempts, leaves it ACTIVE too.
  `NoForgottenLead` names the latter two and is checked and proved where no move
  runs.
* `completeEnrollment` writes DONE whatever the status has become.

*Validation and gate*

* A chunk of an import that lands between a turn's count and its completion of the
  batch stays pending in a completed batch, which no turn claims and no sweep
  finds (`service.ts:409`, against `service.ts:135`, "a new chunk arriving on a
  completed batch re-opens it"). `late` marks such a batch; `EveryItemSettles`
  excepts it and nothing else.
* A turn that outran its lease writes `held` over a completed batch: it is worked
  off and completed again, with a second completion event (`service.ts:379`).
* A provider call that fails after it charged (a response that is lost or cannot be
  read, a later slice that is refused; `zerobounce.ts:90-143`) leaves its items
  pending and off the meter (`service.ts:351`): they are bought again, also on the
  same day, with one turn at work and nobody dead.
* A turn's clock is fixed at `service.ts:189` and used at `:320` and `:485`: what a
  turn buys after midnight is compared with and billed to the day before, so the
  new day's meter does not see it.
* The sweep's comment speaks of batches without a live job; it does not look for
  one, so a batch may have two jobs. The lease keeps them apart.
* A row that a public form or a Zap writes passes the verdict ladder and the cap,
  and names a workflow id no run has (`forms-public.controller.ts:156`,
  `zapier-writes.service.ts:121`).
* A decision made on an old verdict re-opens the hold of a lead that was enrolled
  meanwhile; the next drain enrolls it again.
* Two drains that overlap may both have a lead in their snapshots: when its run has
  closed before the second comes to it, the second starts it again. `excused` marks
  the contact (`Shared`).

*Calls*

* A best-time dial that fails after its row was written leaves a QUEUED row, which
  the next request takes for pending (`voice.controller.ts:206`, against its own
  "phantom queued row nobody will ever dial").
* A dial attempt of the step that takes longer than its two minutes is retried and
  goes on (`workflows.ts:39`): both find the row without a sid
  (`activities.ts:253`), both ring, both save a sid at `activities.ts:331`, and the
  row keeps the later one. The first call's callback then finds no row. The same
  holds for a job of the dial queue that lost its lock. `RingsOnce`, `AttemptsHold`
  and the properties of the row except such calls and no others.
* A status callback that comes before the sid is saved matches no row, and nothing
  reconciles it later (`voice.controller.ts:546`).
* The operator's marker is lost when `finalizeCall` writes the `meta` it read
  before (`runtime.ts:192`), and the call is closed under the operator.
* The status callback and the end of the stream may both announce the end of a
  call (`runtime.ts:265`, "one terminal event per call").

*Opt-out*

* A contact's phone is stored as it was typed or imported. A STOP from a number
  that is stored with punctuation finds neither thread nor contact
  (`sms-inbound.ts:56`, `:91`), although the fallback exists so that "consent
  fails safe".
* Where the phone is stored without its plus, the STOP's row names the sender's
  number and the boundary looks the stored one up: the flag is the only rail, a
  write of an older `optOut` takes it back, and the sweep, which compares the row
  with the stored phone, does not repair it. `NoSendAfterOptOut` allows exactly
  this case.
* `applySmsStop` comes after the inbound `Message`: when the process dies between
  the two the text comes again, meets the unique provider id and is never applied
  (the handler is `dropped`). `twilioInbound` cancels no run, though
  `sms-inbound.ts:134` says the caller does; the boundary holds the texts back.
* A text that says "please stop" in other words is classified as an unsubscribe
  *reply*, and `applyUnsubscribeReply` suppresses the email address whatever the
  channel was (`classify.ts:213`).
* A rule's suppression that meets a concurrent STOP is rolled back as a whole, the
  email with it, and is not tried again. A rule that dies behind its transaction
  never publishes its event. A bulk unsubscribe writes Event rows that no consumer
  is told of.

## 5. Proofs

The seven proof modules prove theorems of the form `Spec => []Inv`, `Spec =>
[][A]_vars` or `Spec => AbstractSpec` for **every** value of the constants that
satisfies the named assumptions of the module (`GraphAssumption`,
`OpsAssumption`, `AskAssumption` ..., which TLC evaluates on every run). No
finiteness of requests, runs or workers is assumed; contacts, rows and attempt
slots are assumed finite where an invariant counts them. Three theorems of
`CampaignRunProofs` have a hypothesis beside that, since without it the property
is false of the code (section 4): it says which operations the enrollment meets.

Every safety property of every passing run is stated by a theorem.

### CreditChargeProofs

| Theorem | States | Argument |
|---|---|---|
| `Typing` | `TypeOK` | inductive as it stands |
| `NewestRow` | `NewestRowExplainsBalance` | only `Commit` writes either side |
| `ChargedOnce` | `OneRowPerSource` | not inductive: a request past its insert *holds its key*. `HeldKeys` says that no row has the key of such a request and no two of them share one |
| `NeverOverdrawn` | `ChargeNeverOverdraws` | `ByKind` (a request is only ever at a statement of its kind) and `Covered` (a charge past its check has a snapshot that covers its cost) |
| `RefundsNet` | `RefundNetsToZero` | `Mirrored`: a refund under way carries the opposite of a charge that is in the ledger, and rows never go |
| `Reconciled` | `SerialReconciles` | `Serial`: until two overlapped at most one transaction is open, and its snapshot is the balance |
| `Implements` | `ImplementsLedger` | initial state to initial state; `CommitPosts`: each commit is a `Post`, by the invariants above; every other action is a stutter |

### CampaignRunProofs

| Theorem | States | Argument |
|---|---|---|
| `Typing` | `TypeOK` | `tries \in 0..MaxAttempts` needs that a run about to send has an attempt left: `Typed` adds it |
| `StopsHold` | `StandingStopsHold` | an attempt past a check has passed it with what it read at the start (`Stops`): past the hold check, the hold that stood at its start is not the one that stands now; past the approval check the step is approved or the level was not "ask"; past the suppression check it did not begin under one |
| `LeadsRemembered` | `NoForgottenLead`, if `Unmoved` (no rule moves the enrollment) | `Remembered`: an ACTIVE enrollment has a run that is open (live and not asked to stop), stopped or failed, and whoever is about to cancel one has taken the status away from ACTIVE before |
| `OneGoesOn` | `OneRunGoesOn`, if `OneMove` (one event moves it at most, nobody re-enrolls it) | `OneInv`: while a run of the enrolling is open the stored id is still its id, so a cancel has it in hand; a move past its cancel (`Moving`) has asked it to stop, and nothing opens it again (`HomeFirst`), whenever the cancel is delivered |
| `DuplicatesPaidFor` | `DuplicatesNeedFaults`, if `NeverBeside` (no move, and not both re-enrolled and cancelled) | a count over slots, `Paid`: while no Message row of a node is in, deliveries and attempts in flight cost a fault each, but for the one the live run waits for (`Excused`); past that, deliveries and attempts past the lookup stay within one more than the faults |

These rest on what a step does to the runs, stated once: `WalkMoves` (a run's own
step), `AttemptMoves` (a send attempt's), `StartUnderMoves` (a start),
`CancelMoves` and `CloseMoves`.

### RuleEngineProofs

| Theorem | States | Argument |
|---|---|---|
| `Typing` | `TypeOK` | `Typed`: a delivery at an action has a rule and an action of it, and whoever carries a terminal one out was free to (`Placed`) |
| `OneRuleDecides` | `FirstTerminalWins` | `OneDecides`: the rule that decides is the first that says anything terminal (`Decides`), and without an error every delivery knows whether it is past it (`Inherits`): by its own flag or by the row a redelivery reads |
| `RowsTell` | `RowsTellTheTruth` | `Recorded`, from the same invariant |
| `LateExplained` | `LateSignalsExplained` | `GateKnows`: without an inert redelivery, a throw or an error, who comes to the gate undecided had no rule to decide |

The argument needs that the row of a nested automation follows its terminal
action (`BooksAssumption`): that is how `executor.ts` runs one, and an automation
without its row would decide without the rule's own flag.

### ContactValidationProofs, EnrollmentGateProofs

| Theorem | States | Argument |
|---|---|---|
| `ContactValidationProofs!Typing` | `TypeOK` | `Typed`, its conjuncts by group of actions |
| `OneEvent` | `OneEventPerCompletion` | a batch's events are at most its re-openings, plus one while it is completed (`Counted`): a completion flips the status, and whoever takes it back is counted |
| `BilledOnce` | `DoubleBillExplained` | `BillInv`: of an address that is not exposed (never in two hands, no paid answer lost) one turn at most buys it, none once it is charged, and what is charged is cached or in the turn that is about to commit it (`BoughtOnce`) |
| `SpendBounded` | `SpendWithinAllowance` | `SpendInv`: while no purchase of the day is off the meter, one turn buys at a time, what a turn of today buys fits the rest of today's meter, and what is charged is on it or about to be (`InRails`) |
| `EnrollmentGateProofs!Typing` | `TypeOK` | `Typed`, one lemma for the processes and one for the world around them |
| `ReleasedStarted` | `ReleasedWasStarted` | `StartedFirst`: a process about to release has started the run, and no run goes back to "none" |
| `InvalidKeptOut` | `InvalidStaysOut` | `InvalidOnTheWay`: between ladder and row an invalid contact is already marked as one whose verdict moved |
| `SecondRunHasReason` | `SecondRunExplained` | `SecondInv`: of a contact without a reason, nobody comes to a start once there has been a run, but beside the one who started it and is about to release the hold (`StartedOnce`) |
| `CapKept` | `CapHolds` | `CapInv`: until counts overlap, whoever is between count and row is alone there and has room (`Room`) |

### VoiceCallProofs

| Theorem | States | Argument |
|---|---|---|
| `Typing` | `TypeOK` | `Typed`, which adds that a dial past its row has one, and a leg in use too |
| `RingsOnceHolds` | `RingsOnce` | `Ownership`: of a call that no retry joined, a row has one dial, a dial about to ring has a row without a sid, and each leg is known to its row, about to be saved by the row's dial, or lost |
| `OptOutHolds` | `OptOutStopsDials` | after the opt-out nobody comes past the rails (`PastRailsGrows`), so all who are were overtaken |
| `NoPhantomHolds` | `NoPhantomCall` | `Tended` over `Ownership`: a dial leaves its row only with a sid saved, refused, or stranded |
| `AttemptsKept` | `AttemptsHold` | `AttemptInv`: while no dial was overtaken, no sid lost and no attempt slow, one dial at a time is past its rails and the legs that rang leave it room; legs inject into rows with a sid (`RungCounted`), which is what the rail counts |
| `EndedNotLive` | `EndedIsNotLive` | `CallInv`, below |
| `EndingsTold` | `EndingsExplained` | `Told`: a row's announcements are one per writer (callback, stream, refusal), each is past its part of the row's only leg, and a refusal is of a row that has none; rows with a lost sid or a second dial at work (`Astray`) are left out |
| `TakenOpen` | `TakenStaysOpen` | `Marked`: while the contact is in the room the row carries the operator's marker or is `crossed` (or its call rang twice), and a marked row is only closed by its leg's callback |
| `CallsEnd` | `EveryCallEnds` | `CalledBack`: a callback that is through has left an outcome on the row or come before the sid (`early`), and no write takes an outcome back |

`CallInv` is one invariant for the last four, because each needs the others: who
may write a row is settled by `Ownership` and `SidOwned`, where its session and
callback stand by `Progress`. `PlaceKeeps`, `SaveKeeps`, `StartKeeps`, `StampKeeps`,
`FinalizeKeeps`, `MarkKeeps` and `JumpKeeps` carry it over the writers of a row,
`LegKeeps` over a leg's own steps.

### ContactConsentProofs

| Theorem | States | Argument |
|---|---|---|
| `Typing` | `TypeOK` | inductive as it stands |
| `OptOutIsFinal` | `NoSendAfterOptOut` | `Rails`: an opted-out channel keeps the row the boundary looks up, or, for a phone in another form, its flag until a stale write; a late send has read that flag or is still to meet the row |

Each invariant was checked by TLC on the instances before it was proved.

Out of the prover's reach, and checked by TLC only: liveness under fairness
(`RunsSettle`, `EveryRuleRecorded`, `EveryRequestSettles`, `EveryItemSettles`,
`HoldsDrain`, `RailsAgree`, `DemandsLand`), anything about `ENABLED`, and
induction over data. No module declares a RECURSIVE operator.

## 6. Plan

Done, in this order: CampaignGraph and CampaignRun (the product's core),
CreditCharge under CreditLedger (money), RuleEngine (what acts on the core),
ContactValidation under VerdictSource and EnrollmentGate on it (what lets leads
in), VoiceCall (the second channel), ContactConsent (who must be left alone).

Next, by how much can go wrong:

1. `OneRunGoesOn` and `NoForgottenLead` beside moves: theorems that bound, by the
   moves and re-enrollments under way, what the hypotheses of `OneGoesOn` and
   `LeadsRemembered` rule out.
2. `StepApproval` (`approvals.controller.ts`): two deciders read an approval and
   update it without a condition.
3. `GraphEdit` (`mutate.ts`): the editor's operations keep `ValidGraph`.
4. `RuleEngine` over `CampaignRun`, with a refinement mapping from `CampaignRun`'s
   rule operations to `RuleEngine` with one rule.
5. Send caps beside the rails of one contact, once the state space allows it.

## 7. Not modelled

* *Send caps* (`send.ts:410`, `send-sms.ts`): two workers may count the same last
  slot, as two enrollments may (`CapHolds` shows the shape). The counters beside
  the rails of ContactConsent took the state space past what TLC finishes.
* *Lead reveal*: one transaction that finds or creates the contact and charges; the
  ledger's properties cover the charge.
* *In the modelled parts*: rendering, windows, allowlists and sender health of the
  boundaries; the 90 days a cached verdict lives, the light check of a single
  created contact and the pause event of validation; the error answers of the
  gate and the restamp of a graph version; caps, consent, allowlist, recording and
  whisper of calls; the merge of suppression rows that differ in case (every
  writer writes lower case); rules edited between deliveries and the events of a
  rule other than `lead.unsubscribed`; assignment, tags and threads of the inbox.
* *Event bus*: a stored event whose enqueue fails is seen by no consumer
  (`bus.ts:45`). What the consumers do with an event they get, twice included,
  is in RuleEngine and CampaignRun.
* *Sender health, warmup*: pure scoring. *Planner, composer, classifier, knowledge,
  AI gateway*: calls of a language model. *Integrations, tenancy, authentication*:
  third parties and access control. *Web, widget, Zapier app, telemetry, recall,
  theme*: presentation and read models; by lines they are most of the repository
  and keep no state whose order matters.
