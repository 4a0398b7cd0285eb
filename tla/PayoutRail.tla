------------------------------ MODULE PayoutRail ------------------------------
(***************************************************************************)
(* One disbursement of the payout rail with everything that works on it:   *)
(* the pipeline workers, the reapers, the reconciliation, the requests,    *)
(* the webhooks and the systems outside, and what must be true of it.      *)
(***************************************************************************)
EXTENDS Reconciliation

vars == <<worldVars, engineVars>>

Init == EngineInit

CallerMoves(a) == EngineStep(a) \/ ServiceStep(a) \/ ReconcileStep(a)

Next ==
  \/ \E a \in Callers : CallerMoves(a) \/ ServiceCall(a) \/ Crash(a)
                          \/ PipelineSelect(a) \/ ReaperSelect(a) \/ ReconcileScan(a)
  \/ Tick
  \/ WorldMoves /\ UNCHANGED engineVars

Spec == Init /\ [][Next]_vars

(* A call that has begun is carried on by the event loop, both loops run   *)
(* from setInterval, and time passes.  Nothing is assumed of requests, of  *)
(* webhooks, of the systems outside, or of reconciliation: it may be off.  *)
Fairness ==
  /\ \A a \in Callers : WF_vars(CallerMoves(a))
  /\ \A a \in Workers : WF_vars(PipelineSelect(a))
  /\ \A a \in Reapers : WF_vars(ReaperSelect(a))
  /\ WF_vars(Tick)

FairSpec == Spec /\ Fairness

----------------------------------------------------------------------------
(* Safety.                                                                 *)

(* Every variable has its type.                                            *)
TypeOK == EngineTypeOK

(* Each broadcast of the burn beyond the first is accounted for: either an *)
(* action that had already broadcast was rolled back, or a retry put a row *)
(* that had left preflight back before the burn.  Overlapping callers      *)
(* alone never burn twice (the claim of executeTransition).                *)
BurnsPaidFor == burns <= 1 + reopened

(* Every cause of a further broadcast is one the operators can see: an     *)
(* action that threw, a lost write, a crash, or one more in retry_count.   *)
(* Without any of them the burn is broadcast once (executeTransition,      *)
(* retryDisbursement).                                                     *)
BurnsCostFailures == burns <= 1 + faults + retries

AfterBurn == {BurnConfirmed, AttestationRequested}
AfterAttestation == {AttestationConfirmed} \cup Observing
AfterRelease == {ReleaseConfirmed, PayoutSubmitted, PayoutConfirmed}

(* What the world must show for a row to be in state s.                    *)
Backed(s) ==
  /\ s \in AfterBurn \cup AfterAttestation \cup AfterRelease =>
       \E k \in Burns : Mined(k)
  /\ s \in AfterAttestation => Mined(attRef)
  /\ s \in AfterRelease => surface = Confirmed
  /\ s = PayoutConfirmed => send = "completed"

(* However the row came to its state - advanced, rolled back or reset by a *)
(* retry - the chain, the attestation, the release and the payout really   *)
(* are as far as the state says.                                           *)
StateIsBacked == Backed(status)

(* Money is sent to the recipient only once the external settlement has    *)
(* confirmed the release, and an attestation of a mined burn is on record. *)
PayoutBacked == send # "none" => surface = Confirmed /\ Mined(attRef)

(* release_status is never fabricated: a final value on record is what the *)
(* external process shows, even when an old write lands late.              *)
ReleaseTruthful ==
  /\ release \in {Confirmed, Rejected} => surface = release
  /\ release = Pending => surface # Unobserved

(* A row becomes settled only when the provider completed the payout, or   *)
(* when a request resolves a row that is in manual review at that moment.  *)
SettlesForCause ==
  status # Settled /\ status' = Settled =>
    \/ status = PayoutConfirmed /\ send = "completed"
    \/ /\ status = ManualReview
       /\ \E c \in Clients : pc[c] = "claim" /\ target[c] = Settled /\ pc'[c] = "act"
SettledBacked == [][SettlesForCause]_vars

(* Only the reset of a retry takes a row out of settled or cancelled, and  *)
(* only when something had failed or retry_count had been raised before:   *)
(* that retry found the row failed, and an earlier retry or the roll back  *)
(* of the failure carried the row on (retryDisbursement).                  *)
LeavesForCause ==
  status \in {Settled, Cancelled} /\ status' # status =>
    /\ retries + faults > 0
    /\ \E c \in Clients : pc[c] = "reset" /\ pc'[c] = "listed"
FinalButForRetries == [][LeavesForCause]_vars

(* A row becomes failed only when the provider failed its payout, or from  *)
(* manual review: a tick of reconciliation acts on a row it scanned and on *)
(* an answer it got some time ago, and still never fails a row on its own. *)
FailsForCause ==
  status # Failed /\ status' = Failed =>
    status = ManualReview \/ (status = PayoutSubmitted /\ send = "failed")
FailedBacked == [][FailsForCause]_vars

Quiet == \A a \in Callers : Idle(a)

(* When no call is under way and nothing has failed, the row holds what    *)
(* the next step from its state needs, so that it can move on.             *)
QuietRowIsComplete ==
  Quiet /\ faults = 0 =>
    /\ status = Preflight => verdict # "none"
    /\ status \in {BurnSubmitted} \cup AfterBurn => tx # NoTx
    /\ status = AttestationRequested => attRef # NoTx
    /\ status = PayoutSubmitted => payoutRef

(* When no call is under way and nothing has failed, a row in manual       *)
(* review that no retry has touched has its item in the operators' queue.  *)
(* A retry can put a row back in manual review without one.                *)
ReviewItemOpen ==
  Quiet /\ faults = 0 /\ retries = 0 /\ status = ManualReview => openReview

----------------------------------------------------------------------------
(* The status column does what the state machine promises: the callers'    *)
(* claims, roll backs and resets implement LifecycleSpec.                  *)

Holds(a) == pc[a] \in {"act", "write", "rollback"}

Abstract == INSTANCE LifecycleSpec WITH
  held    <- [a \in Callers |-> IF Holds(a) THEN <<seen[a].status, target[a]>>
                                            ELSE <<>>],
  noticed <- {a \in Callers : pc[a] \in {"lookup", "reset"}}

ImplementsLifecycle == Abstract!Spec

----------------------------------------------------------------------------
(* Liveness.                                                               *)

(* Every disbursement ends up settled, failed, cancelled or in manual      *)
(* review for good, whatever the chain, the bridge and the provider do:    *)
(* the pipeline moves it on or the reaper takes it out.                    *)
EventuallyParked == <>[](status \in Terminal \cup {ManualReview})
=============================================================================
