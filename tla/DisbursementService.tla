------------------------- MODULE DisbursementService -------------------------
(***************************************************************************)
(* The operations of disbursementService.js on an existing disbursement:   *)
(* advance, retry, recover, resolve and the payout provider's webhook.     *)
(* Each reads the row, decides, and calls the transition engine.           *)
(***************************************************************************)
EXTENDS TransitionEngine

Idle(a) == pc[a] = "idle"

----------------------------------------------------------------------------
(* advanceDisbursement: read the row, attempt its first candidate.         *)

AdvanceCurrentRow(a) ==
  /\ status \in NonTerminal
  /\ Attempt(a, CurrentRow, NextOf[status])
  /\ UNCHANGED <<worldVars, rowVars, sideVars, bookVars>>

ApiAdvance(a) == a \in Clients /\ Idle(a) /\ AdvanceCurrentRow(a)

(* A caller that meant to work on the row finds it terminal when it reads. *)
NothingToDo(a) ==
  /\ pc[a] = "listed"
  /\ status \in Terminal
  /\ Return(a)
  /\ UNCHANGED <<worldVars, rowVars, sideVars, bookVars>>

(* The advance of a pipeline tick, of a webhook and at the end of a retry. *)
AdvanceListed(a) == a \notin Reapers /\ pc[a] = "listed" /\ AdvanceCurrentRow(a)

----------------------------------------------------------------------------
(* recoverStuckDisbursement, by a request or by the reaper.                *)

RecoverCurrentRow(a) ==
  /\ status \in NonTerminal
  /\ Attempt(a, CurrentRow, ManualReview)
  /\ UNCHANGED <<worldVars, rowVars, sideVars, bookVars>>

ApiRecover(a) == a \in Clients /\ Idle(a) /\ RecoverCurrentRow(a)

RecoverListed(a) == a \in Reapers /\ pc[a] = "listed" /\ RecoverCurrentRow(a)

----------------------------------------------------------------------------
(* retryDisbursement: three statements, none conditional on the others.    *)

BeginRetry(a) ==
  /\ a \in Clients /\ Idle(a)
  /\ status = Failed
  /\ retries < MaxRetries
  /\ Goto(a, "lookup")
  /\ UNCHANGED <<worldVars, rowVars, sideVars, bookVars>>

LookupLastState(a) ==
  /\ pc[a] = "lookup"
  /\ target' = [target EXCEPT ![a] = IF lastFailed = None THEN Initiated
                                                          ELSE lastFailed]
  /\ pc' = [pc EXCEPT ![a] = "reset"]
  /\ UNCHANGED <<seen, got, worldVars, rowVars, sideVars, bookVars>>

(* Slip: retry_count is not raised.                                        *)
ResetUncounted(a) ==
  /\ pc[a] = "reset"
  /\ status' = target[a]
  /\ age' = 0
  /\ reopened' = IF target[a] \in BeforeBurn /\ status \notin BeforeBurn
                   THEN reopened + 1 ELSE reopened
  /\ pc' = [pc EXCEPT ![a] = "listed"]
  /\ target' = [target EXCEPT ![a] = Initiated]
  /\ UNCHANGED <<seen, got, worldVars, retries, verdict, tx, release, sideVars,
                 faults>>

(* UPDATE ... WHERE id = $2: whatever the status is by now.                *)
ResetForRetry(a) ==
  /\ pc[a] = "reset"
  /\ retries < RetryCap
  /\ status' = target[a]
  /\ retries' = retries + 1
  /\ age' = 0
  /\ reopened' = IF target[a] \in BeforeBurn /\ status \notin BeforeBurn
                   THEN reopened + 1 ELSE reopened
  /\ pc' = [pc EXCEPT ![a] = "listed"]
  /\ target' = [target EXCEPT ![a] = Initiated]
  /\ UNCHANGED <<seen, got, worldVars, verdict, tx, release, sideVars, faults>>

----------------------------------------------------------------------------
(* handleYellowCardWebhook.  A delivery may come at any time, any number   *)
(* of times (the test route injects them too); the payout is found by its  *)
(* external ref.                                                           *)

WebhookCompleted(a) ==
  /\ a \in Hooks /\ Idle(a)
  /\ payoutRef
  /\ status = PayoutSubmitted
  /\ Goto(a, "listed")
  /\ UNCHANGED <<worldVars, rowVars, sideVars, bookVars>>

(* The row handed to executeTransition is the external_refs row with the   *)
(* status joined in: its id is not the disbursement's, and it has no       *)
(* retry_count, which withinRetryBudget lets pass.                         *)
WebhookFailed(a) ==
  /\ a \in Hooks /\ Idle(a)
  /\ payoutRef
  /\ status \in NonTerminal
  /\ Attempt(a, [NoRow EXCEPT !.id = "ref", !.status = status], Failed)
  /\ UNCHANGED <<worldVars, rowVars, sideVars, bookVars>>

----------------------------------------------------------------------------
(* resolveDisbursement: close the queue item, then leave manual review.    *)

(* Slip: the wrong_state check is missing.                                 *)
BeginResolveAnyState(a, resolution) ==
  /\ a \in Clients /\ Idle(a)
  /\ pc' = [pc EXCEPT ![a] = "unqueue"]
  /\ seen' = [seen EXCEPT ![a] = CurrentRow]
  /\ target' = [target EXCEPT ![a] = resolution]
  /\ UNCHANGED <<got, worldVars, rowVars, sideVars, bookVars>>

BeginResolve(a, resolution) ==
  /\ a \in Clients /\ Idle(a)
  /\ status = ManualReview
  /\ pc' = [pc EXCEPT ![a] = "unqueue"]
  /\ seen' = [seen EXCEPT ![a] = CurrentRow]
  /\ target' = [target EXCEPT ![a] = resolution]
  /\ UNCHANGED <<got, worldVars, rowVars, sideVars, bookVars>>

Unqueue(a) ==
  /\ pc[a] = "unqueue"
  /\ QueueWrite(FALSE)
  /\ Goto(a, "guard")
  /\ UNCHANGED <<worldVars, rowVars, lastFailed, attRef, payoutRef, reopened>>

----------------------------------------------------------------------------

(* Requests and deliveries: whether they come is up to the outside.        *)
ServiceCall(a) ==
  \/ ApiAdvance(a) \/ ApiRecover(a) \/ BeginRetry(a)
  \/ \E resolution \in Terminal : BeginResolve(a, resolution)
  \/ WebhookCompleted(a) \/ WebhookFailed(a)

(* What a call that has begun goes on to do.                               *)
ServiceStep(a) ==
  \/ NothingToDo(a) \/ AdvanceListed(a) \/ RecoverListed(a)
  \/ LookupLastState(a) \/ ResetForRetry(a) \/ Unqueue(a)
=============================================================================
