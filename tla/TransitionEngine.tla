--------------------------- MODULE TransitionEngine ---------------------------
(***************************************************************************)
(* executeTransition (stateMachine.js) with its guards and actions, run by *)
(* any number of callers at once on one disbursement.  Every statement the *)
(* code awaits on its own is a step of its own, so calls interleave at     *)
(* each await: the guard, the claim, the side effect, the write of what it *)
(* returned, the audit row, the roll back.                                 *)
(*                                                                         *)
(* A caller works on the row it read before (seen[a]); the row may have    *)
(* moved on since.                                                         *)
(***************************************************************************)
EXTENDS ExternalWorld, FiniteSets

CONSTANTS Workers,        \* pipeline workers
          Reapers,        \* stuck-state reapers
          Clients,        \* HTTP requests of operators and API users
          Hooks,          \* deliveries of the payout provider's webhook
          Reconcilers,    \* ticks of the reconciliation worker
          MaxRetries,     \* disbursements.max_retries
          RetryCap,       \* bound: retry_count is explored up to here
          MaxFaults,      \* bound: faults explored
          Oldest,         \* bound: heartbeat ages explored, 2 for all of them
          PayoutRejected  \* TRUE: the provider refuses every submitSend

Callers == Workers \cup Reapers \cup Clients \cup Hooks \cup Reconcilers

ASSUME CallersAssumption == IsFiniteSet(Callers)

ASSUME EngineAssumption ==
  /\ MaxRetries \in Nat /\ RetryCap \in Nat /\ MaxFaults \in Nat
  /\ MaxRetries <= RetryCap
  /\ Oldest \in 0 .. 2
  /\ PayoutRejected \in BOOLEAN

VARIABLES
  status, retries,  \* disbursements.status, retry_count
  verdict,          \* preflight_result: "none" (null), "pass" or "fail"
  tx,               \* external_tx_id: which burn, NoTx for null
  release,          \* release_status
  age,              \* of last_heartbeat_at: 0 fresh, 1 over 5 s, 2 over 2 x SLA
  lastFailed,       \* old_status of the latest audit row with new_status failed
  openReview,       \* an unresolved manual_review_queue item exists
  attRef,           \* the attestation_id ref: the burn it attests, or NoTx
  payoutRef,        \* the payout_id ref exists
  pc,               \* where each caller is
  seen,             \* the row each caller read
  target,           \* toState of its transition
  got,              \* what its action returned, to be persisted
  faults,           \* faults so far
  reopened          \* history: times a burn could legally start again

rowVars  == <<status, retries, verdict, tx, release, age>>
sideVars == <<lastFailed, openReview, attRef, payoutRef>>
callVars == <<pc, seen, target, got>>
bookVars == <<faults, reopened>>
engineVars == <<rowVars, sideVars, callVars, bookVars>>

Verdicts == {"none", "pass", "fail"}
Txs      == 0 .. MaxBurns
None     == "none"

Steps == {"idle", "listed", "guard", "claim", "act", "write", "persist",
          "audit", "rollback", "lookup", "reset", "unqueue", "scanned"}

Rows == [id : {"row", "ref"}, status : States, verdict : Verdicts, tx : Txs,
         release : ReleaseStatuses \cup {NoRelease}, retries : 0 .. RetryCap]

NoRow == [id |-> "row", status |-> Initiated, verdict |-> "none", tx |-> NoTx,
          release |-> NoRelease, retries |-> 0]

Details == [verdict : Verdicts, tx : Txs,
            release : ReleaseStatuses \cup {NoRelease}]

NoDetails == [verdict |-> "none", tx |-> NoTx, release |-> NoRelease]

EngineTypeOK ==
  /\ WorldTypeOK
  /\ status \in States
  /\ retries \in 0 .. RetryCap
  /\ verdict \in Verdicts
  /\ tx \in Txs
  /\ release \in ReleaseStatuses \cup {NoRelease}
  /\ age \in 0 .. 2
  /\ lastFailed \in NonTerminal \cup {None}
  /\ openReview \in BOOLEAN
  /\ attRef \in Txs
  /\ payoutRef \in BOOLEAN
  /\ pc \in [Callers -> Steps]
  /\ seen \in [Callers -> Rows]
  /\ target \in [Callers -> States]
  /\ got \in [Callers -> Details]
  /\ faults \in 0 .. MaxFaults
  /\ reopened \in Nat

EngineInit ==
  /\ WorldInit
  /\ status = Initiated
  /\ retries = 0
  /\ verdict = "none"
  /\ tx = NoTx
  /\ release = NoRelease
  /\ age = 0
  /\ lastFailed = None
  /\ openReview = FALSE
  /\ attRef = NoTx
  /\ payoutRef = FALSE
  /\ pc = [a \in Callers |-> "idle"]
  /\ seen = [a \in Callers |-> NoRow]
  /\ target = [a \in Callers |-> Initiated]
  /\ got = [a \in Callers |-> NoDetails]
  /\ faults = 0
  /\ reopened = 0

----------------------------------------------------------------------------
(* Moving a caller.                                                        *)

CurrentRow == [id |-> "row", status |-> status, verdict |-> verdict, tx |-> tx,
               release |-> release, retries |-> retries]

Goto(a, step) == /\ pc' = [pc EXCEPT ![a] = step]
                 /\ UNCHANGED <<seen, target, got>>

(* The call ends and its local variables are gone.                         *)
Return(a) == /\ pc' = [pc EXCEPT ![a] = "idle"]
             /\ seen' = [seen EXCEPT ![a] = NoRow]
             /\ target' = [target EXCEPT ![a] = Initiated]
             /\ got' = [got EXCEPT ![a] = NoDetails]

(* Call executeTransition(row, to).                                        *)
Attempt(a, row, to) == /\ pc' = [pc EXCEPT ![a] = "guard"]
                       /\ seen' = [seen EXCEPT ![a] = row]
                       /\ target' = [target EXCEPT ![a] = to]
                       /\ UNCHANGED got

----------------------------------------------------------------------------
(* Guards.                                                                 *)

(* Slip: a burn still in the mempool counts as confirmed.                  *)
IsBurnKnown(k) == k # NoTx /\ chain[k] \in {"pending", "success"}

(* tx_status is success, polled at the moment of the guard.                *)
IsBurnConfirmed(k) == k # NoTx /\ chain[k] = "success"

(* xReserve confirms an attestation when the burn it names is mined.       *)
IsAttestationConfirmed == attRef # NoTx /\ Mined(attRef)

(* Slip: evidence of a release counts as its confirmation.                 *)
SaysAnything(observation) == observation \in {Pending, Confirmed}

(* Applied to release_status on record and to a fresh observation alike.   *)
SaysConfirmed(observation) == observation = Confirmed

(* Slip: a payout that was sent counts as completed.                       *)
IsPayoutSent == payoutRef

IsPayoutConfirmed == payoutRef /\ send = "completed"

(* A webhook's row has no retry_count: undefined is never past the budget. *)
WithinRetryBudget(row) == row.id = "ref" \/ row.retries < MaxRetries

(* What the guard of the edge requires of the row as read, of the tables   *)
(* and of the systems outside, the polls answering.  Every other edge has  *)
(* disbursementExists or preflightRequested.                               *)
GuardHolds(row, to) ==
  /\ to = BurnSubmitted => row.verdict = "pass"
  /\ to \in {BurnConfirmed, AttestationRequested} => IsBurnConfirmed(row.tx)
  /\ to \in {AttestationConfirmed, ReleaseUnobserved} => IsAttestationConfirmed
  /\ to = ReleaseObserved => surface # Unobserved
  /\ to = ReleaseConfirmed => SaysConfirmed(surface)
  /\ to = PayoutSubmitted => SaysConfirmed(row.release) /\ SaysConfirmed(surface)
  /\ to = PayoutConfirmed => IsPayoutConfirmed
  /\ to = Failed /\ row.status \in BudgetGuarded => WithinRetryBudget(row)
  /\ to = Failed /\ row.status \in Observing => surface = Rejected

(* Guards that may reject although the above holds: those that poll, when  *)
(* the poll fails (the error is caught), and the payout's, which also runs *)
(* the payout gates and the two-person approval.                           *)
Polls(row, to) ==
  \/ to \in PipelineStates \ {Preflight, BurnSubmitted}
  \/ to = Failed /\ row.status \in Observing

(* The guard that asks for escalation when it rejects (preflightPassed).   *)
EscalatesRejection(to) == to = BurnSubmitted

GuardAccepts(a) ==
  /\ pc[a] = "guard"
  /\ GuardHolds(seen[a], target[a])
  /\ Goto(a, "claim")
  /\ UNCHANGED <<worldVars, rowVars, sideVars, bookVars>>

GuardRejects(a) ==
  /\ pc[a] = "guard"
  /\ ~GuardHolds(seen[a], target[a]) \/ Polls(seen[a], target[a])
  /\ ~EscalatesRejection(target[a])
  /\ Return(a)
  /\ UNCHANGED <<worldVars, rowVars, sideVars, bookVars>>

(* executeTransition calls itself with the row it already has.             *)
GuardEscalates(a) ==
  /\ pc[a] = "guard"
  /\ ~GuardHolds(seen[a], target[a])
  /\ EscalatesRejection(target[a])
  /\ Attempt(a, seen[a], ManualReview)
  /\ UNCHANGED <<worldVars, rowVars, sideVars, bookVars>>

----------------------------------------------------------------------------
(* The claim: UPDATE ... WHERE id = seen.id AND status = seen.status.      *)

(* Slip: the claim without AND status = $2.                                *)
ClaimMatchesAnyStatus(a) == seen[a].id = "row"

ClaimMatches(a) == seen[a].id = "row" /\ status = seen[a].status

ClaimWon(a) ==
  /\ pc[a] = "claim"
  /\ ClaimMatches(a)
  /\ status' = target[a]
  /\ age' = 0
  /\ retries' = IF target[a] = seen[a].status THEN retries + 1 ELSE retries
  /\ retries' <= RetryCap
  /\ Goto(a, "act")
  /\ UNCHANGED <<worldVars, verdict, tx, release, sideVars, bookVars>>

ClaimLost(a) ==
  /\ pc[a] = "claim"
  /\ ~ClaimMatches(a)
  /\ Return(a)
  /\ UNCHANGED <<worldVars, rowVars, sideVars, bookVars>>

----------------------------------------------------------------------------
(* Actions.  After an action comes the write of what it returned, if that  *)
(* is a column of PERSISTED_ACTION_FIELDS modelled here, then the audit    *)
(* row.  Only the audit rows of moves to failed are ever read back, so the *)
(* others are not a step.                                                  *)

Finish(a) == IF target[a] = Failed THEN Goto(a, "audit") ELSE Return(a)

Acting(a, targets) == pc[a] = "act" /\ target[a] \in targets

RunPreflightCheck(a) ==
  /\ Acting(a, {Preflight})
  /\ \E outcome \in {"pass", "fail"} :
       got' = [got EXCEPT ![a].verdict = outcome]
  /\ pc' = [pc EXCEPT ![a] = "persist"]
  /\ UNCHANGED <<seen, target, worldVars, rowVars, sideVars, bookVars>>

SubmitBurn(a) ==
  /\ Acting(a, {BurnSubmitted})
  /\ Broadcast
  /\ got' = [got EXCEPT ![a].tx = burns']
  /\ pc' = [pc EXCEPT ![a] = "write"]
  /\ UNCHANGED <<seen, target, rowVars, sideVars, bookVars>>

(* The attestation id is the id of the burn transaction.                   *)
RequestAttestation(a) ==
  /\ Acting(a, {AttestationRequested})
  /\ attRef' = seen[a].tx
  /\ Return(a)
  /\ UNCHANGED <<worldVars, rowVars, lastFailed, openReview, payoutRef, bookVars>>

(* recordBurnConfirmation, confirmAttestation, confirmYellowCardPayout:    *)
(* they poll again and record evidence; nothing reads it back here.        *)
RecordConfirmation(a) ==
  /\ Acting(a, {BurnConfirmed, AttestationConfirmed, PayoutConfirmed})
  /\ Return(a)
  /\ UNCHANGED <<worldVars, rowVars, sideVars, bookVars>>

BeginReleaseObservation(a) ==
  /\ Acting(a, {ReleaseUnobserved})
  /\ got' = [got EXCEPT ![a].release = Unobserved]
  /\ pc' = [pc EXCEPT ![a] = "persist"]
  /\ UNCHANGED <<seen, target, worldVars, rowVars, sideVars, bookVars>>

ObservesRelease(a) ==
  \/ target[a] \in {ReleaseObserved, ReleaseConfirmed}
  \/ target[a] = Failed /\ seen[a].status \in Observing

(* Slip: the release is recorded as confirmed without asking again.        *)
AssumeRelease(a) ==
  /\ pc[a] = "act"
  /\ ObservesRelease(a)
  /\ got' = [got EXCEPT ![a].release = Confirmed]
  /\ pc' = [pc EXCEPT ![a] = "persist"]
  /\ UNCHANGED <<seen, target, worldVars, rowVars, sideVars, bookVars>>

(* recordReleaseObservation, confirmDestinationRelease and                 *)
(* recordReleaseObservedFailed: a second, fresh observation is stored.     *)
ObserveRelease(a) ==
  /\ pc[a] = "act"
  /\ ObservesRelease(a)
  /\ got' = [got EXCEPT ![a].release = surface]
  /\ pc' = [pc EXCEPT ![a] = "persist"]
  /\ UNCHANGED <<seen, target, worldVars, rowVars, sideVars, bookVars>>

SubmitPayout(a) ==
  /\ Acting(a, {PayoutSubmitted})
  /\ ~PayoutRejected
  /\ SubmitSend
  /\ Goto(a, "write")
  /\ UNCHANGED <<rowVars, sideVars, bookVars>>

(* The database writes that follow a broadcast or a send.                  *)
WriteRefs(a) ==
  /\ pc[a] = "write"
  /\ payoutRef' = (payoutRef \/ target[a] = PayoutSubmitted)
  /\ IF target[a] = BurnSubmitted THEN Goto(a, "persist") ELSE Return(a)
  /\ UNCHANGED <<worldVars, rowVars, lastFailed, openReview, attRef, bookVars>>

(* An error of the queue update is logged and swallowed.                   *)
QueueWrite(open) ==
  \/ openReview' = open /\ UNCHANGED faults
  \/ faults < MaxFaults /\ faults' = faults + 1 /\ UNCHANGED openReview

(* markSettled, markFailed, markCancelled close the open review item.      *)
MarkTerminal(a) ==
  /\ Acting(a, Terminal)
  /\ ~ObservesRelease(a)
  /\ QueueWrite(FALSE)
  /\ Finish(a)
  /\ UNCHANGED <<worldVars, rowVars, lastFailed, attRef, payoutRef, reopened>>

MoveToManualReview(a) ==
  /\ Acting(a, {ManualReview})
  /\ QueueWrite(TRUE)
  /\ Return(a)
  /\ UNCHANGED <<worldVars, rowVars, lastFailed, attRef, payoutRef, reopened>>

----------------------------------------------------------------------------
(* Persisting: UPDATE ... WHERE id = $n, with no condition on the status.  *)

(* Slip: external_tx_id is missing from PERSISTED_ACTION_FIELDS.           *)
PersistWithoutTx(a) ==
  /\ pc[a] = "persist"
  /\ verdict' = IF got[a].verdict # "none" THEN got[a].verdict ELSE verdict
  /\ release' = IF got[a].release # NoRelease THEN got[a].release ELSE release
  /\ Finish(a)
  /\ UNCHANGED <<worldVars, status, retries, tx, age, sideVars, bookVars>>

Persist(a) ==
  /\ pc[a] = "persist"
  /\ verdict' = IF got[a].verdict # "none" THEN got[a].verdict ELSE verdict
  /\ tx' = IF got[a].tx # NoTx THEN got[a].tx ELSE tx
  /\ release' = IF got[a].release # NoRelease THEN got[a].release ELSE release
  /\ Finish(a)
  /\ UNCHANGED <<worldVars, status, retries, age, sideVars, bookVars>>

(* Slip: the audit row has old_status and new_status swapped.              *)
AuditSwapped(a) ==
  /\ pc[a] = "audit"
  /\ lastFailed' = target[a]
  /\ Return(a)
  /\ UNCHANGED <<worldVars, rowVars, openReview, attRef, payoutRef, bookVars>>

(* emitEvent swallows its own errors: the row may be missing.              *)
Audit(a) ==
  /\ pc[a] = "audit"
  /\ \/ lastFailed' = seen[a].status /\ UNCHANGED faults
     \/ faults < MaxFaults /\ faults' = faults + 1 /\ UNCHANGED lastFailed
  /\ Return(a)
  /\ UNCHANGED <<worldVars, rowVars, openReview, attRef, payoutRef, reopened>>

----------------------------------------------------------------------------
(* Failures.                                                               *)

(* The actions that make an external call or an unprotected write.         *)
CanThrow(a) ==
  \/ pc[a] = "act" /\ target[a] \in PipelineStates \ {ReleaseUnobserved}
  \/ pc[a] = "act" /\ ObservesRelease(a)
  \/ pc[a] = "write"

(* The ref may or may not have been written when the action throws.        *)
ThrowsWithRefs(a) ==
  /\ attRef' \in IF pc[a] = "act" /\ target[a] = AttestationRequested
                   THEN {attRef, seen[a].tx} ELSE {attRef}
  /\ payoutRef' \in IF pc[a] = "write" /\ target[a] = PayoutSubmitted
                      THEN {payoutRef, TRUE} ELSE {payoutRef}

ActionThrows(a) ==
  /\ CanThrow(a)
  /\ IF PayoutRejected /\ Acting(a, {PayoutSubmitted})
       THEN UNCHANGED faults
       ELSE faults < MaxFaults /\ faults' = faults + 1
  /\ ThrowsWithRefs(a)
  /\ Goto(a, "rollback")
  /\ UNCHANGED <<worldVars, rowVars, lastFailed, openReview, reopened>>

(* Slip: the roll back without AND status = $5.                            *)
RollbackAnyStatus(a) ==
  /\ pc[a] = "rollback"
  /\ status' = seen[a].status
  /\ reopened' = IF got[a].tx # NoTx THEN reopened + 1 ELSE reopened
  /\ Return(a)
  /\ UNCHANGED <<worldVars, retries, verdict, tx, release, age, sideVars, faults>>

(* UPDATE ... SET status = from WHERE status = to: the heartbeat stays.    *)
Rollback(a) ==
  /\ pc[a] = "rollback"
  /\ status' = IF status = target[a] THEN seen[a].status ELSE status
  /\ reopened' = IF status = target[a] /\ got[a].tx # NoTx
                   THEN reopened + 1 ELSE reopened
  /\ Return(a)
  /\ UNCHANGED <<worldVars, retries, verdict, tx, release, age, sideVars, faults>>

(* The process dies, or a database error leaves executeTransition.         *)
Crash(a) ==
  /\ pc[a] # "idle"
  /\ faults < MaxFaults
  /\ faults' = faults + 1
  /\ Return(a)
  /\ UNCHANGED <<worldVars, rowVars, sideVars, reopened>>

(* What a caller does of itself, faults left out: the steps that must      *)
(* happen once a call is under way.                                        *)
EngineStep(a) ==
  \/ GuardAccepts(a) \/ GuardRejects(a) \/ GuardEscalates(a)
  \/ ClaimWon(a) \/ ClaimLost(a)
  \/ RunPreflightCheck(a) \/ SubmitBurn(a) \/ RequestAttestation(a)
  \/ RecordConfirmation(a) \/ BeginReleaseObservation(a) \/ ObserveRelease(a)
  \/ SubmitPayout(a) \/ WriteRefs(a) \/ MarkTerminal(a) \/ MoveToManualReview(a)
  \/ Persist(a) \/ Audit(a) \/ ActionThrows(a) \/ Rollback(a)
=============================================================================
