---------------------------- MODULE Reconciliation ----------------------------
(***************************************************************************)
(* The reconciliation worker (reconciliationWorker.js): every five minutes *)
(* it scans the active rows and either follows what the payout provider    *)
(* says or hands the row to the operators.                                 *)
(*                                                                         *)
(* Unlike the pipeline and the reaper it calls the transition engine with  *)
(* the row as scanned, which may be several polls old by then.  It takes   *)
(* no notice of calls under way: a row in the middle of a transition is    *)
(* scanned like any other.                                                 *)
(***************************************************************************)
EXTENDS BackgroundWorkers

(* missingWebhook and orphanedPayout: a payout without a payout_id.        *)
PayoutIdMissing == status = PayoutSubmitted /\ ~payoutRef

(* timeoutEscalation, and a payout still pending: older than the SLA of    *)
(* its state, which lies between the ages 1 and 2.                         *)
OverSla == status \in SlaStates /\ age >= 1

(* duckTest: the evidence of the move to this state is written only when   *)
(* its action is done, a fault may have lost it, and an earlier round      *)
(* leaves evidence of states the row has gone back from.  Which evidence   *)
(* there is, is not kept: the row may look inconsistent when one of these  *)
(* is the case.                                                            *)
MayLookInconsistent ==
  \/ \E b \in Callers : pc[b] \in {"act", "write", "persist"} /\ target[b] = status
  \/ faults > 0 \/ retries > 0

(* Deliveries on record before anything acted on them: one that says       *)
(* completed (duckTest), or two that disagree (duplicateEvent).            *)
MayHaveDeliveries == payoutRef

(* orphanedPayout: the provider that is asked does not know the payout, or *)
(* knows another one under its id.                                         *)
MayLookOrphaned == status = PayoutSubmitted /\ payoutRef

(* escalate: manual review, whatever the row is doing.                     *)
ReconcileEscalates(a) ==
  /\ a \in Reconcilers /\ Idle(a)
  /\ status # ManualReview
  /\ \/ PayoutIdMissing \/ OverSla \/ MayLookInconsistent
     \/ MayHaveDeliveries \/ MayLookOrphaned
  /\ RecoverCurrentRow(a)

(* missingWebhook: a submitted payout is scanned, then the provider asked. *)
ScanPayout(a) ==
  /\ a \in Reconcilers /\ Idle(a)
  /\ status = PayoutSubmitted /\ payoutRef
  /\ pc' = [pc EXCEPT ![a] = "scanned"]
  /\ seen' = [seen EXCEPT ![a] = CurrentRow]
  /\ target' = [target EXCEPT ![a] = PayoutConfirmed]
  /\ UNCHANGED <<got, worldVars, rowVars, sideVars, bookVars>>

RouteConfirmed(a) ==
  /\ pc[a] = "scanned"
  /\ send = "completed"
  /\ Goto(a, "guard")
  /\ UNCHANGED <<worldVars, rowVars, sideVars, bookVars>>

(* Slip: whatever is not completed has failed.                             *)
RouteUnfinished(a) ==
  /\ pc[a] = "scanned"
  /\ send # "completed"
  /\ Attempt(a, seen[a], Failed)
  /\ UNCHANGED <<worldVars, rowVars, sideVars, bookVars>>

RouteFailed(a) ==
  /\ pc[a] = "scanned"
  /\ send = "failed"
  /\ Attempt(a, seen[a], Failed)
  /\ UNCHANGED <<worldVars, rowVars, sideVars, bookVars>>

(* The provider still says pending, or cannot be reached.                  *)
LeaveScanned(a) ==
  /\ pc[a] = "scanned"
  /\ Return(a)
  /\ UNCHANGED <<worldVars, rowVars, sideVars, bookVars>>

ReconcileScan(a) == ReconcileEscalates(a) \/ ScanPayout(a)

ReconcileStep(a) == RouteConfirmed(a) \/ RouteFailed(a) \/ LeaveScanned(a)
=============================================================================
