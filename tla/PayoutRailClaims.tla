--------------------------- MODULE PayoutRailClaims ---------------------------
(***************************************************************************)
(* What the repository says of the payout rail in comments and documents   *)
(* and the model of its code does not meet.  Each is checked by a run of   *)
(* its own that ends in a counterexample; README.md tells each story.      *)
(***************************************************************************)
EXTENDS PayoutRail

(* "All actions are idempotent - safe to re-run under duplicate worker     *)
(* execution": the burn of a disbursement is broadcast once.  submitBurn   *)
(* may throw after the broadcast; the roll back then lets the next tick    *)
(* burn again.                                                             *)
BurnOnce == burns <= 1

(* "reset to the last non-terminal state and re-attempt": a retry never    *)
(* puts a row whose burn is on record back before the burn.  The last      *)
(* state is read from the audit log, written after the status.             *)
RetryResumes ==
  [][\A c \in Clients :
       pc[c] = "reset" /\ pc'[c] = "listed" /\ status = Failed /\ tx # NoTx
         => status' \notin BeforeBurn]_vars

(* "Terminal states - no further transitions possible": not even for the   *)
(* two from which retry is refused.  The reset of a retry is unconditional.*)
TerminalStatesFinal ==
  [][(status \in {Settled, Cancelled}) => status' = status]_vars

(* "manual_review is operator-managed": only a request takes a row out of  *)
(* it.  The first candidate of manual_review in the table is failed, and   *)
(* the pipeline advances whatever row it reads.                            *)
OperatorManaged ==
  [][status = ManualReview /\ status' # ManualReview =>
       \E c \in Clients : pc[c] \in {"claim", "reset"} /\ pc'[c] # pc[c]]_vars

(* "Called by Yellow Card when a payout completes or fails": the delivery  *)
(* of a real failure, its row not moved meanwhile, fails the row.          *)
FailedWebhookApplied ==
  [][\A h \in Hooks :
       pc[h] = "claim" /\ pc'[h] # "claim" /\ target[h] = Failed
                      /\ send = "failed" /\ status = seen[h].status
         => status' = Failed]_vars

(* "Detects disbursements stuck in non-terminal states beyond their SLA    *)
(* threshold, moves them to manual_review": a row whose payout is refused  *)
(* again and again leaves the payout leg.  Each attempt renews the         *)
(* heartbeat the reaper goes by.                                           *)
StuckRowsEscalate ==
  (status = ReleaseConfirmed) ~>
    status \notin {ReleaseConfirmed, PayoutSubmitted}
=============================================================================
