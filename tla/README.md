# Formal models of the payout rail

TLA+ models of the disbursement backend (`src/src`), the TLC runs that check
them and the TLAPS proofs about them. The backend turns USDCx into naira in a
recipient's bank account: it burns USDCx on Stacks, waits for the attestation
and the external settlement of the burn, and then pays out through a provider.
Everything hangs on one column, `disbursements.status`, on which several loops
and requests work at once.

## 1. The system

| component | state it keeps | operations | interacts with |
|---|---|---|---|
| Transition table (`types.js`, `stateMachine.js` 40-236) | none | lookup, candidates of a state | used by the engine and the service |
| Transition engine (`stateMachine.js` 255-417, `transitionGuards.js`, `transitionActions.js`) | the row: `status`, `retry_count`, `last_heartbeat_at`, `preflight_result`, `external_tx_id`, `release_status`; `external_refs`; `manual_review_queue`; `disbursement_audit` | guard, claim, action, roll back, persist, audit | called by every other part; calls the adapters |
| Disbursement service (`disbursementService.js`) | none of its own | initiate, advance, retry, recover, resolve, approve, two webhooks, queries | called by routes and loops; calls the engine |
| Pipeline worker (`pipelineWorker.js`) | `_running`, statistics | select rows, advance each | service |
| Stuck-state reaper (`stuckStateReaper.js`) | `_running`, statistics | select rows by state and age, recover each | service |
| Reconciliation worker (`reconciliationWorker.js`) | statistics | scan rows in five modes, route a payout on what the provider says, escalate | engine, service, adapters |
| Stacks, xReserve, Yellow Card adapters | nonce, HTTP only | broadcast and status; attestation and release observation; keyed send and lookup | external systems |
| Payout routing and Flutterwave and Breet adapters (`bridgeAdapterFactory.js`, `flutterwaveAdapter.js`, `breetAdapter.js`) | none | pick the provider of a payout | engine, guards |
| Circuit breaker (`circuitBreaker.js`) | the `circuit_breaker_state` row | wrap a call, trip, probe, close | adapters |
| Payout gates (`payoutGates.js`) and preflight (`preflight.js`) | `payout_gates` rows | caps, tolerance, campaign funds, payload, whitelist; the preflight runs breaker, gates and approval in this order | guards and actions |
| Two-person approval (`twoPersonApproval.js`) | `two_person_approvals` rows | require, record, check | payout guard, approve route |
| Webhook verification and routes (`webhookVerifier.js`, `routes/webhooks.js`) | none | verify, dispatch | service |
| Disbursement routes (`routes/disbursementsV1.js`, `routes/disbursements.js`) | none | one route per service operation | service |
| Evidence, receipts, timeline (`evidenceCollector.js`, `settlementReceipt.js`, `auditTimeline.js`) | append-only records | record, assemble | written by the engine, read by queries |
| Monitoring (`monitoring/`) | `bos_alerts`, the `running` flag | run the checks, look up and record alerts, send them | reads rows, shares the pool |
| Wiring (`index.js`, `database.js`, `config/`) | connections, intervals | start, stop, `emitEvent` | all |

### What is hard about it

* **Interleaving.** The pipeline tick, the reaper, an operator's request and a
  webhook may all be inside `executeTransition` for the same row. Every `await`
  is a point at which another of them runs. One statement protects them all:
  the claim, `UPDATE ... WHERE id = $3 AND status = $2`.
* **Ordering.** The claim publishes the new status *before* its action has run.
  The columns the action returns, the refs and the audit row come later, by
  updates that carry no condition on the status.
* **Partial failure.** An action may have done its work outside (a broadcast
  burn) and then throw on a database write; the claim is then rolled back.
* **Crash.** A process that dies between the claim and the later writes leaves
  a row whose status is ahead of its columns, and nobody holds the claim.
* **Retries.** A retry is three statements, none conditional on the others,
  and reads the audit log, which is written after the status and may be missing.
* **Webhooks** are duplicated, late or never come.
* **Deployments.** A process starts again with another `PAYOUT_PROVIDER` while a
  payout sent under the old one is still open.
* **Read, then write.** The breaker's counter, the deduplicator and the intake's
  look-up each read in one statement and write in another.
* **Pools.** A check of the monitor holds one connection while it waits for a
  second one of the same pool.
* **Time.** The reaper goes by a heartbeat that each attempt renews.

### What makes each part correct

* Engine: overlapping callers never run the same action twice; the row never
  says more than the chain, the attestation, the settlement and the provider
  have done; money is sent only when the release is confirmed outside.
* Service: a row is settled for a reason; a retry resumes and does not repeat
  the burn; terminal states are final; manual review is left by operators only.
* Worker and reaper: every row ends up terminal or with an operator.
* Reconciliation: it never fails or settles a row without cause, though it acts
  on rows it read long ago.
* Intake: repeats of a request make one row, every row made is started, and no
  row has two preflights under way.
* Routing: a row is paid by one provider, and confirmed by the one that paid it.
* Breaker: it trips on as many failures as it was told, admits few probes, and
  an open one is re-opened for good reason and in the end.
* Gates and approval: the daily cap holds across concurrent payouts; a campaign
  pays one row; two different people approved a payout over the threshold.
* Monitoring: what stays wrong is told to people, once per window, and a run
  ends although its checks compete for connections.

`PROJECT.json` lists under "hazards" each place where these may go wrong.

## 2. Modules

| module | models |
|---|---|
| `Lifecycle` | the fifteen states, every key of the table, the candidate `advance` picks, SLA states, release statuses |
| `LifecycleSpec` | the abstract promise of the status column: claim, undo, reset |
| `ExternalWorld` | the Stacks chain, the release surface and the payout provider as the adapters use them, and their own moves |
| `TransitionEngine` | `executeTransition`, its guards and its actions, one step per await, for any number of callers |
| `DisbursementService` | advance, retry, recover, resolve, the Yellow Card webhook, built on the engine |
| `BackgroundWorkers` | the selections of the pipeline worker and the reaper, and the ageing of the heartbeat |
| `Reconciliation` | the reconciliation worker's scan, routing and escalation, on the same row |
| `PayoutRail` | their composition, the specification with its fairness, the properties, the refinement mapping |
| `PayoutRailClaims` | what comments and documents say and the code does not do |
| `MCPayoutRail` | instances for TLC: callers, symmetry, view |
| `PayoutGates` | the daily cap and the two-person approval in the guard of the payout, over several disbursements at once |
| `MCPayoutGates` | its instance for TLC, used by one of the claims |
| `MCConcurrent` | one instance of `PayoutGates` and of two concurrent monitors, of which a behaviour runs one |
| `CampaignGates` | the gates that compare a row with the other rows of its campaign, query by query, before the burn and again before the payout |
| `KeyedCreate` | the abstract promise of a create under an idempotency key |
| `Intake` | `initiateDisbursement` by concurrent requests beside the pipeline workers of several processes, with preflights that throw; implements `KeyedCreate` |
| `PayoutRouting` | the payout leg of one row by processes that are restarted under other providers |
| `MCPayoutRouting` | its instance for one of the claims |
| `CircuitBreaker` | the breaker's row under concurrent calls |
| `AlertMonitor` | the monitor's runs, its pool of connections, the dedup window and the notifier |
| `MCServices` | one instance of the last five components, of which a behaviour runs one |
| `PayoutRailProofs`, `PayoutRailBurnProofs`, `PayoutRailWorldProofs`, `PayoutRailRowProofs` | theorems about the rail, the refinement in the first |
| `SumLemmas` | what a sum over a finite set is: the lemmas of the gates' proofs |
| `PayoutGatesProofs`, `IntakeAndRoutingProofs`, `BreakerAndMonitorProofs` | theorems about the other components |

### State and code

| variable | code |
|---|---|
| `status`, `retries`, `verdict`, `tx`, `release`, `age` | the row's `status`, `retry_count`, `preflight_result`, `external_tx_id`, `release_status`, age of `last_heartbeat_at` |
| `attRef`, `payoutRef` | rows of `external_refs` (`attestation_id`, `payout_id`) |
| `openReview` | an unresolved row of `manual_review_queue` |
| `lastFailed` | `old_status` of the latest audit row whose `new_status` is failed, all a retry reads of the log |
| `pc`, `seen`, `target`, `got` | where a call is in the code, the row it read, `toState`, what its action returned |
| `chain`, `burns`, `surface`, `send` | what the adapters would be told |
| `faults`, `reopened` | a bound on faults; a history of the times a burn could legally start again |

A call goes through the steps of `pc`: `listed` (selected by a loop, not yet
read), `guard`, `claim`, `act`, `write` (refs after a broadcast or a send),
`persist`, `audit`, and on failure `rollback`; a retry has `lookup` and
`reset`, a resolve `unqueue`, a reconciliation `scanned` (it has the row and
waits for the provider). Each is one awaited statement of the code.
`executeTransition` calling itself for an escalation is `GuardEscalates`, which
goes back to `guard` with the row it already has.

`PayoutGates` is about several rows: `status` is their status as far as the
cap's query tells states apart, `aged` its 24 hours, `approvals` and `lapsed`
the rows of `two_person_approvals`, `sent` what the provider was asked to pay,
`pc` and `job` the calls inside the guard. `cleared` is a history: the rows the
cap gate accepted that have been in its sum ever since. A call that dies inside
the guard is one that never takes its next step.

The five components beside the rail share no state with one another in the code,
and each has a module with variables of its own:

* `PayoutRouting`: `leg` is the row's status from `destination_release_confirmed`
  on, `env` the `PAYOUT_PROVIDER` each process was started with, `sends` what
  each provider has under the key `payout:<id>`, `ref` the `payout_id` rows of
  `external_refs` by `external_system`, with the provider that gave the id. The
  name a process stores under and the adapter it calls are two functions of the
  setting (`NameFor`, `AdapterFor`), as in the code. `Boot` is a start, a crash
  or a deployment.
* `CircuitBreaker`: `breaker` is the row, `breakerRead` what a call keeps of the
  row it read, `probes` the probe rows of `payout_gates`. Times are numbers of
  trips: `cooled` is the latest trip whose cool-down has passed.
* `CampaignGates`: `made` are the rows of one `source_reference` by `created_at`,
  `funded` the sum of their `amount_usdcx`, `phase` their status, `gateAt` the
  gate a call on the row is at. The preflight and the payout's guard run the same
  four gates; what lies between them is one step.
* `Intake`: `step` is where a request is in `initiateDisbursement`, `row` and
  `maker` the row of a key and the request that made it, `reply` the answer,
  `workerAt` where each worker's call on each row is. A preflight that throws puts
  its row back (`UndoFirst`, `WorkerUndoes`), and a worker starts it again. What
  becomes of a row another claim takes on is `Left` (from `disbursement_initiated`)
  or `Later` (from `preflight_check`), until a roll back (`MoveBack`) or a retry
  (`RetryRow`, remembered in `again`) returns it to one of the first two states.
* `AlertMonitor`: `checkAt` is where a check is (`connect`, `query`, then
  `select` and `insert` per alert), `recent` the rows of `bos_alerts` inside the
  window, `outbox` and `told` what is still to be sent and what was. A check that
  throws ends as `failed`; `Collect` waits until all have settled (`AllSettled`) and
  sends one alert more for each that failed, which is not recorded.

In `Reconciliation` the evidence a duck test compares is not kept; a row may look
inconsistent exactly when some evidence may be missing or left over
(`MayLookInconsistent`), which contains every escalation the code can take.

Abstractions of the other modules: one disbursement (no statement of these paths joins rows of two
disbursements); evidence rows, statistics, amounts and texts are left out, for
nothing modelled reads them; a poll in a guard takes one value of the world at
that moment or fails; the gates and the approval make the payout's guard reject
at will. The faults are a thrown action, a swallowed audit row, a swallowed
queue update and a crash of a call; `MaxFaults` bounds them together. A burn,
its transaction id and its attestation are the same number.

## 3. What the runs check

`tlc -config X.cfg M` in this directory runs each; `PROJECT.json` lists them.
Every property of a passing run has a mutant there: a plausible slip in the
code, written as an operator beside the one it replaces ("Slip: ..."), under
which TLC finds the property violated.

### One disbursement

| run | shows |
|---|---|
| `rail_safety` | two overlapping callers doing any of advance, retry, recover and resolve, one fault, up to two burns |
| `rail_background` | one pipeline worker, one reaper, one caller that is webhook and reconciliation, one fault: the row is eventually parked for good, the callers implement `LifecycleSpec`, and nothing fails a row without cause |

The safety properties, in the order of what they protect:

* `BurnsPaidFor`: each broadcast beyond the first has a cause that is not mere
  concurrency: an action that had broadcast and was rolled back, or a retry to
  before the burn.
* `BurnsCostFailures`: each of those causes is one that shows: something failed,
  or `retry_count` is higher. Without a failure and without a retry no
  interleaving of any callers burns twice.
* `FinalButForRetries`: a settled or cancelled row is left by the UPDATE of a
  retry only, and only after something failed or `retry_count` was raised. Neither a claim nor
  the roll back of a call that read the row long ago takes it out;
  `claim_terminal_final` is the retry that does.
* `StateIsBacked`, `PayoutBacked`, `SettledBacked`: the row never says more than
  the chain, the attestation, the release surface and the provider have done,
  money is sent only on a confirmed release of an attested burn, and settled is
  reached for a reason.
* `ReleaseTruthful`: a late write of an old observation may lose a newer one,
  but a final value on record is never one the surface did not show.
* `FailedBacked`: a row becomes failed only from manual review or when the
  provider failed its payout, though reconciliation acts on a row it scanned and
  on an answer it got some time ago.
* `QuietRowIsComplete`, `ReviewItemOpen`: when nothing failed and no call is
  under way, the row holds the columns and refs its next step needs, and the
  operators' queue has its item.

**Bounds.** Two callers are enough for every race on one claim: the claim, the
roll back and the persist each involve one caller and the row another has moved.
`rail_safety` has clients only, because they do everything the others do: a
worker's or webhook's advance is a client's (`AdvanceListed` and `ApiAdvance`
share `AdvanceCurrentRow`), a reaper's recover is a client's, and a failed
webhook always loses its claim. With no loop in it the heartbeat matters to
nobody, hence `Oldest = 0`. `MaxFaults = 1` gives each kind of failure on every
interleaving; combinations of two failures are beyond the run, and within the
proofs. `MaxBurns = 2` and `MaxRetries = 1` let a burn be repeated once and a
retry race another (`RetryCap` bounds the unconditional increments).
`SYMMETRY` permutes clients, in runs without liveness only. `VIEW` drops of a
call's copy of the row what the rest of the call never reads (the definitions in
`MCPayoutRail` say which); states that differ only in it have the same steps to
states that differ only in it again, and no property of the runs, the temporal
ones included, mentions what is dropped.

`rail_background` has the callers nobody asks for. `Oldest = 2` gives the
heartbeat its three ages. The webhook and reconciliation are one caller: it may
do either at any time, and what the two would do to one another at once is two
callers on one claim, which `rail_safety` has. It has no clients, so its
refinement check sees no reset; `ImplementsTheLifecycle` covers them.

**Deadlock** is not checked: a settled or cancelled row with idle callers has no
step left, and that is how the system ends.

**Fairness** (`PayoutRail!Fairness`). Weak fairness of each caller's own steps:
the event loop resumes an awaited call. Weak fairness of the selections of the
pipeline worker and the reaper: both loops are `setInterval`s
(`pipelineWorker.js` 46, `stuckStateReaper.js`). Weak fairness of `Tick`: time
passes. Nothing is assumed of operators, of webhooks, of reconciliation (it may
be switched off), of the chain, of the external settlement or of the provider:
they may never do anything. Heartbeat
ages have three values: fresh, past the pipeline's five seconds (1), past twice
the SLA (2). `EventuallyParked` needs one premise, `PayoutRejected = FALSE`: the
provider does not refuse the send for ever (`claim_stuck_escalates` is what
happens when it does). Faults are finitely many by `MaxFaults`.

### Several disbursements

`concurrent`, the gates: three rows of amounts 2, 2 and 3 under a cap of 6, the
last one over the approval threshold, two approvers, two executors that may both
be between the gates and the claim. Three rows are needed: the cap adds the row
being judged to a sum it is already in, so two accepted rows never exceed it.
`CapHonoured` says that judging and claiming in separate statements is harmless
because a row counts from its creation, which is not obvious from the gate:
with a sum over paid rows only (its mutant) two concurrent payouts pass together.
`LargeNeedsTwo` is the approval across its two queries and the later claim: two
different people, whoever interleaves. An approval that lapses between the two
queries still counts, in the code and in the model.
`MaxAged = 1`, and of the rows only the one over the threshold grows older than a
day: a bound of the run only, the proofs let any number of any rows age. In
`claim_daily_cap` the threshold is above every amount: approvals play no part. A
retry may go to any state a failure could have come from; the audit log that
decides it is in `DisbursementService`. A settled or cancelled set of rows stops,
so deadlock is not checked here either.

`concurrent`, the monitors: two processes, each with a pool of two, three checks
of which one has an alert to record, one mishap. Both may look the alert up
before either records it. `NoAlertStorm`: no more alerts per key and window than
processes. `part` picks gates or monitors in the initial state, and as no state
has steps of both, the two share model values and with them the symmetry. The
run has 1 856 126 distinct states.

### The components beside the rail

`services` runs five components in one state space of 105 436 states: the
variable `part` picks one in the initial state and only its steps are taken.

* **Routing** (two processes; settings `yellowcard`, `breet`, ` Breet` for a
  spelling that only one of the two functions normalises, `flutterwave`; three
  starts; one failing call). `PaidOnceButForLosses`: processes under different
  providers pay the row twice only after a send whose call was rolled back.
  `ConfirmedByIssuer`, `RefNamesItsIssuer`: a confirmed payout was completed by
  a provider, its id is on record under that provider's name; their premise
  `used \subseteq Canonical` leaves out the odd spelling, under which the id of
  one provider is kept under the name of another. `PaidIsConfirmed`: without a
  switch a completed payout is confirmed. Three starts are both processes and
  one restart; a fourth would repeat a setting or a fault seen already.
* **Breaker** (two calls, threshold 2, one probe, two trips, two failures, two
  probes). `TripsOnRealFailures`: lost and late updates of the counter never trip
  it early. `ProbesBounded`: at most one probe more than the limit for each
  further concurrent call; its premise `~overtaken` leaves out a row whose trip
  was undone while a call re-opened it. `BreakerReopens`: an open breaker is
  left, so it always knows when it was tripped.
* **Campaign** (four rows worth 0, 100, 101 and 140 under a cap of 120: one
  invalid, two within two percent of each other, one far off and over the cap).
  `OnePaidPerCampaign`: the sum a row must match holds the amounts of all the
  others, so a second row with an amount of its own cannot pass.
  `BlockedOnlyByGrowth`: a row that burned is turned away from its payout only
  when its campaign grew in between.
* **Intake** (four requests: two race for one key, one with the same key and one
  with another lack their bank details; two workers). `OnePreflightAtATime`: a
  preflight that throws is put back and started again, by its creator's call or by
  either worker, any number of times; still no row has two of them under way, nor a
  new one while the old one has the row to put back. A retry that puts the row back
  in between may start a second one, so the rows in `again` are left out.
  `ImplementsKeyedCreate`: racing repeats make one row, answered only once it is
  there. `NewRowsStart`: no row stays unstarted, though its creator may stop before
  its event or its first transition and its preflight may throw.
* **Monitor** (one process, three checks, two alerts, a pool of two, one mishap).
  `RunsMoveOn`: checks that hold a connection while they wait for another never come
  to a stand together while fewer of them have alerts to record than the pool has
  connections: one of them goes on without any wait timing out. With as many, each
  may hold what the other needs; then a wait has to give up. `RunsEnd`: a run ends
  also then. It is checked for the pool of the pg driver, which gives up
  (`ConnectTimeout`, `database.js` 41); the serverless pool (`database.js` 28) does
  not, and there only `RunsMoveOn` holds. `DueIsTold`: what stays due while a monitor
  runs is told, whatever failed in between, as long as fewer checks raise alerts at
  once than the pool has connections; with as many, every run can end in timeouts.

**Fairness** of `services`: `RoutingFairness` (the loops of a running process go
on; starts, crashes and the providers may do nothing), `BreakerFairness` (time
passes, a call that began ends, preflights keep coming), `IntakeFairness` (a
request received goes on until it ends or crashes; each worker scans every row and
ends the call it began),
`MonitorFairness` (an interval that is set goes on, queries end, waits time out,
the window moves with the clock). Each part's own stops are legitimate (a paid
row, a done request), so deadlock is not checked.

### What the code does not do as documented

Each run ends in a counterexample; "findings" in `PROJECT.json` quotes the line.

* `claim_burn_once`. `submitBurn` broadcasts, the write of the external ref
  fails, the action throws, the claim is rolled back to `preflight_check`, and
  the next tick burns again: the adapter ignores the idempotency key.
* `claim_retry_resumes`. A retry reads the audit log between the claim of
  `failed` and its audit row, finds nothing, and resets a burned row to
  `disbursement_initiated`.
* `claim_terminal_final`. Two retries overlap; the first carries the row on, an
  operator settles or cancels it, and the second's UPDATE, conditional on the id
  alone, takes it out again.
* `claim_operator_managed`. A tick lists a row, the reaper moves it to
  `manual_review`, the tick re-reads it and advances it to the first candidate
  of that state, `failed`.
* `claim_failed_webhook`. The failed branch passes the joined ref row to
  `executeTransition`; its `id` is the ref's, and the claim matches nothing.
* `claim_stuck_escalates`. A payout refused every time: each attempt renews the
  heartbeat at its claim, the roll back does not restore it, and the reaper
  never sees the row as old.
* `claim_provider_switch`. "A provider switch does not orphan in-flight payouts"
  (`transitionActions.js` 400): a process is restarted from `breet` to
  `yellowcard`, and the id kept under `breet` is never looked up again. In the
  other direction the guard passes with the historical id, the action asks its
  own provider for it, throws, and is rolled back every time.
* `claim_daily_cap`. A row that was paid and then escalated leaves the cap's sum
  and makes room for another payout of the same day.

## 4. What is proved

The eight proof modules are checked by `tlapm`, for any finite set of callers,
any division of them into workers, reapers, clients, webhooks and
reconciliations, any number of processes, requests, calls, monitors and rows, and
any bounds. The assumptions are those the modules declare: `MaxBurnsAssumption`
(at least one burn), `CallersAssumption` (finitely many callers),
`EngineAssumption`, `GatesAssumption`, `RoutingAssumption`, `BreakerAssumption`,
`IntakeAssumption`, `MonitorAssumption` (finite sets, bounds that are numbers,
thresholds above zero; no two checks raise the same alert key, which is how the
checks name them).

| theorem | states |
|---|---|
| `TypeCorrect` | `Spec => []TypeOK` |
| `EveryBurnIsPaidFor` | `Spec => []BurnsPaidFor` |
| `StateIsAlwaysBacked`, `PayoutIsAlwaysBacked`, `ReleaseIsNeverFabricated` | `Spec => []` of `StateIsBacked`, `PayoutBacked`, `ReleaseTruthful` |
| `SettledForCause`, `FailedForCause` | `Spec => SettledBacked`, `Spec => FailedBacked` |
| `QuietRowsAreComplete`, `ReviewItemsAreOpen` | `Spec => []` of `QuietRowIsComplete`, `ReviewItemOpen` |
| `ImplementsTheLifecycle` | `Spec => Abstract!Spec`, the refinement |
| `FurtherBurnsCost`, `SettledIsFinalButForRetries` | `Spec => []BurnsCostFailures`, `Spec => FinalButForRetries` |
| `GatesTypeCorrect`, `TwoApproveLargePayouts`, `DailyCapIsHonoured` | `[]` of `TypeOK`, `LargeNeedsTwo` and `CapHonoured` of the gates |
| `CampaignTypeCorrect`, `CampaignPaysOneRow`, `OnlyGrowthBlocks` | `[]` of the three invariants of the campaign |
| `IntakeTypeCorrect`, `OnePreflightPerRow`, `IntakeImplementsKeyedCreate` | `[]` of `IntakeTypeOK` and `OnePreflightAtATime`; the refinement of `KeyedCreate` |
| `RoutingTypeCorrect`, `OnePayoutButForLosses`, `RefsNameTheirIssuer`, `ConfirmationIsBacked` | `[]` of the four invariants of the routing |
| `BreakerTypeCorrect`, `ProbesStayBounded`, `TripsAreEarned` | `[]` of the three invariants of the breaker |
| `MonitorTypeCorrect`, `AlertsDoNotStorm`, `RunsNeverStand` | `[]` of the three invariants of the monitor |

**`TypeInv`** adds to the types what the local variables of a call mean: a call
inside `executeTransition` works on an edge of the table from the state it read,
and one about to reset a row carries a state of the table. Without it a roll
back or a retry might write anything. It rests on lemmas about the table
(`EdgeEnds`, `NextOfIsAnEdge`, ...).

**`BurnInv`**. `burns <= 1 + reopened` is not inductive. The account that is
adds to the burns made the burns still owed: one per caller that claimed
`burn_submitted` and has not broadcast (`Unpaid`), and one while the row is
before the burn. A claim moves the one from the row to the caller, a broadcast
from the caller to the burns, a roll back before the broadcast returns it, and
only a roll back after the broadcast or a retry creates a new one, which
`reopened` counts.

**`CauseInv`** says what each new burn costs. `reopened` is charged together with
the calls whose roll back will reopen the burn (`CostAccount`), for the failure is
counted when the action throws and the reopening when the roll back is written.
A roll back costs a failure, a reset one in `retry_count`. `CausesKnown` is what
`FinalButForRetries` needs of the calls still to write: a roll back either aims
at a pipeline state or failed on the way to `failed`, so it matches no terminal
row; and once the row a retry found failed is failed no longer, a failure or an
earlier retry carried it on.

**`WorldInv`**. The row's state alone is not inductive either: a claim writes a
target some time after its guard looked, a roll back writes a state read earlier
still, and a retry writes the state of an old audit row. The invariant says
`Earned` of every state that a call or the audit log still carries, and a lemma
(`EarnedStays`) shows that what a guard saw never un-happens. `SettledBacked`
and `FailedBacked` follow from it step by step.

**`RowInv`**. A claim makes the state visible before its action has run, so most
of the time the row alone is incomplete. What it lacks, the call that claimed the
state is still to write (`Given`: recorded, or some call `Supplies` it); every step
of a call keeps what is recorded and writes what it owed (`Furthers`, one lemma per
group of actions). A retry could still put a row back into a state whose writes
never happened: `FailuresKnown` says that the audit log, with the calls on their way
to it, tells only of failures from manual review or from a payout on record.

**`ReviewInv`** adds the calls that attend to a row in review: a recovery that won
its claim and is about to open the item, and a resolution that has closed it and,
because the guards of its edge never reject, is about to take the row out
(`AttendingGoesOn`). A call that closes an item at its end does so for a row that
stays terminal until a retry (`TerminalStays`).

**Refinement**. `Held` and `Noticed` are the mapping's two variables; each
action is shown to be a claim, a release, an undo, a notice, a reset, a forget
or a stutter of the caller that takes it (`EngineImplements`,
`ServiceImplements`).

**`GatesInv`** adds to the types that every call inside the guard works on a row,
and that one past the approval gate has found two approvals, which it still has
when it claims: an approval never goes away, it only stops to count.

**`CapInv`**: the rows the cap gate cleared and that have been in its sum since
never exceed the cap together. `CapHonoured` looks at paid rows; what makes it
inductive is that the gate's own sum includes all the cleared rows, each of
which counts from its creation, so a row is cleared only if all of them with it
stay below the cap. The sums are over any number of rows. `SumLemmas` has what
the proof needs of them (`SumOverType`, `SumOverAdd`, `SumOverMonotone`,
`SumOverSplit`). The library's induction theorems take the formula to prove as an
operator, which the provers here cannot instantiate; the lemmas go by a smallest
counterexample among the subsets of a finite set instead (`SmallestBad`,
`GrowsToAll`).

**`CampaignInv`**. Two rows that have both passed the funds gate would both be
paid, so the invariant bounds those (`OnePastFunds`), from the gate of the
preflight on. The later of the two was compared with the sum of all the amounts,
which holds both, and the earlier one's is not zero. It rests on the
stored sum being the sum of the amounts of the rows made, which `TypeParts`
keeps through each creation.

**`GrowthInv`**: a row whose campaign has not grown would pass again every gate it
has passed (`StillPass`), gate by gate from the preflight on, for the gates read
nothing but the rows made, and each creation marks the rows it comes after as
grown.

**`IntakeInv`** adds that no request is answered before its end, and that while a
preflight of a row is under way, or has the row still to put back, the row is in
`preflight_check` or further on (`NotInitiatedMeanwhile`): so no claim finds it in
`disbursement_initiated`, and the roll back that returns it there is the end of the
call. A claim enters the preflight of one row, a roll back leaves it, and no other
step adds to those who are in one. For the refinement each step is shown to be a
make, an answer or a stutter (`CreateStepwise`): an insert makes, a finish with a
row answers.

**`RoutingInv`**. That sends are accounted for is inductive only with
`OneSubmits` (one call at a time is between its claim and the end of its
submission, and none while the row waits for one) and with its stronger form
before a send, when every send made is a lost one. `ConfirmersSawIt` carries what
a poll saw to the claim and the action after it.

**`BreakerInv`** adds that trips are in the order of their dates (`TripsInOrder`),
that a call which re-opens or counts read a trip that happened (`TripKnown`), that
the probes since the latest trip and those about to be inserted are bounded
together (`ProbesCounted`), and that no count, on the row or read from it, exceeds
the failures recorded (`CountsAreFailures`).

**`MonitorInv`** adds that a check which looks up or records has a key of its own
(`ChecksHaveKeys`), and counts for each key the alerts in the window and the
checks about to insert one together (`AlertsAndRecorders`).

`RunsMoveOn` needs beside it that every check of a run that goes on is under way
or has settled (`RunsHaveChecks`). Checks that wait for a second connection have
alerts to record; with fewer of those than connections, and none in a query, a
connection is free.

Every invariant, every refinement and every action property that a passing run
checks is proved. Only model-checked are the liveness properties
(`EventuallyParked`, `PaidIsConfirmed`, `BreakerReopens`, `NewRowsStart`, `RunsEnd`,
`DueIsTold`): fairness and ENABLED are out of the prover's reach. No module uses
RECURSIVE.

## 5. What is not modelled

* Evidence, receipts and the audit timeline: append-only records that no
  transition reads back (the audit log's one reader, the retry, is modelled).
* The Flutterwave adapter and its webhook: the start-up gate refuses the provider,
  and the webhook's look-up by `flutterwave` finds no row. The Breet adapter is
  modelled as far as the routing uses it.
* HTTP, signatures, nonces, migrations, the arithmetic of amounts and rates, the
  whitelist's contents, the format of addresses: I/O or data that no property here
  tells apart.
* Of the monitor: what each check looks for, acknowledging, the dashboard's
  queries. Of reconciliation: its statistics
  and the records of its polls.

In the one-row modules the payout's guard rejects at will in place of the gates;
in `PayoutGates` the gates that look at one row only do, and in `CampaignGates`
those of `PayoutGates` and the breaker.

The services call `ctx.getDb()` and use the result as a connection, which it is
in the repository's tests (`test/helpers/ctx.js`); the wiring of `index.js` 66
passes the asynchronous `getDb` itself, whose result is a promise. The models
follow the services as the tests run them. Nothing outside the breaker calls its
`recordSuccess`, so that a half-open breaker closes by hand only; the model has
the operation as it is exported, and `BreakerReopens` does not rest on it.

## 6. Plan

1. **Proofs**: how far overlapping retries take `retry_count` past `max_retries`
   (by the number of requests at most, once the claims of a row in manual review
   from itself, which raise it too, are counted apart), and the composition of
   item 2 once it is there.
2. **Preflight with its gates**: `CampaignGates`, `PayoutGates` and
   `CircuitBreaker` composed over the same rows, in place of the choices that
   stand for one in the other.
3. **Receipts**: the settlement receipt as an operator over a row and its records.
4. **Webhooks**: the verifier's order of checks, the replay of a delivery.
