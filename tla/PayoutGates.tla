----------------------------- MODULE PayoutGates -----------------------------
(***************************************************************************)
(* The financial gates of the payout that look beyond its row: the daily   *)
(* cap (payoutGates.js) and the two-person approval (twoPersonApproval.js),*)
(* run by the guard of submitPayout over several disbursements at once.    *)
(*                                                                         *)
(* Each query of a gate is a step.  The rest of a row's life is here only  *)
(* as far as it moves the row in or out of the cap's sum: one step leads   *)
(* from the insert to destination_release_confirmed, a settled payout      *)
(* stands for a confirmed one too, and a transition that runs no gate is   *)
(* one step (TransitionEngine has its parts).                              *)
(***************************************************************************)
EXTENDS Lifecycle, Naturals, FiniteSetsExt

CONSTANTS Disbursements,
          Executors,    \* calls that may run gates at the same time
          Approvers,
          Amount,       \* amount_usd of each disbursement
          Cap,          \* BOS_DAILY_PAYOUT_CAP_USD, set
          Threshold,    \* amountThresholdUsd of the approval
          MaxAged       \* bound: rows that grow older than a day

NoJob == "none"

ASSUME GatesAssumption ==
  /\ IsFiniteSet(Disbursements) /\ NoJob \notin Disbursements
  /\ Amount \in [Disbursements -> Nat \ {0}]
  /\ Cap \in Nat \ {0} /\ Threshold \in Nat /\ MaxAged \in Nat

VARIABLES
  status,     \* disbursements.status, Absent before the row is inserted
  aged,       \* rows created more than 24 hours ago
  approvals,  \* two_person_approvals: who approved each row
  lapsed,     \* rows whose earliest approval is older than 24 hours
  sent,       \* rows whose payout was sent
  pc, job,    \* where each executor is, and on which row
  cleared     \* history: rows the cap gate accepted and in its sum since

rows == <<status, aged, sent>>
approvalVars == <<approvals, lapsed>>
calls == <<pc, job>>
vars == <<rows, approvalVars, calls, cleared>>

Absent == "absent"
LifeStates == {Initiated, ReleaseConfirmed, PayoutSubmitted, Settled,
               Failed, Cancelled, ManualReview}

Init ==
  /\ status = [d \in Disbursements |-> Absent]
  /\ aged = {}
  /\ approvals = [d \in Disbursements |-> {}]
  /\ lapsed = {}
  /\ sent = {}
  /\ pc = [a \in Executors |-> "idle"]
  /\ job = [a \in Executors |-> NoJob]
  /\ cleared = {}

----------------------------------------------------------------------------
(* The sum of the daily cap.                                               *)

Uncounted == {Failed, Cancelled, ManualReview}

InSum(s, old) == s \notin Uncounted \cup {Absent} /\ ~old

(* Slip: only payouts already on their way are summed.                     *)
CountedWhenPaying(s, old) == s \in {PayoutSubmitted, Settled} /\ ~old

Counted(s, old) == InSum(s, old)

SumOf(S) == MapThenSumSet(LAMBDA d : Amount[d], S)

DailyTotal == SumOf({d \in Disbursements : Counted(status[d], d \in aged)})

(* A row that leaves the sum is no longer one the gate vouches for.        *)
KeepCleared == cleared' = {d \in cleared : InSum(status'[d], d \in aged')}

(* Set a row's status, all else of the rows as it was.                     *)
Move(d, s) == /\ status' = [status EXCEPT ![d] = s]
              /\ UNCHANGED <<aged, sent>>
              /\ KeepCleared

Goto(a, step) ==
  /\ pc' = [pc EXCEPT ![a] = step]
  /\ job' = [job EXCEPT ![a] = IF step = "idle" THEN NoJob ELSE @]

----------------------------------------------------------------------------
(* A row's life outside the gates.                                         *)

Create(d) ==
  /\ status[d] = Absent
  /\ Move(d, Initiated)
  /\ UNCHANGED <<approvalVars, calls>>

ReleaseFunds(d) ==
  /\ status[d] = Initiated
  /\ Move(d, ReleaseConfirmed)
  /\ UNCHANGED <<approvalVars, calls>>

SettlePayout(d) ==
  /\ status[d] = PayoutSubmitted
  /\ d \in sent
  /\ Move(d, Settled)
  /\ UNCHANGED <<approvalVars, calls>>

Escalate(d) ==
  /\ status[d] \in LifeStates \ (Terminal \cup {ManualReview})
  /\ Move(d, ManualReview)
  /\ UNCHANGED <<approvalVars, calls>>

(* By a resolve, or by the reconciliation worker on a failed payout.       *)
Fail(d) ==
  /\ status[d] = ManualReview \/ (status[d] = PayoutSubmitted /\ d \in sent)
  /\ Move(d, Failed)
  /\ UNCHANGED <<approvalVars, calls>>

Resolve(d) ==
  /\ status[d] = ManualReview
  /\ \E resolution \in {Settled, Cancelled} : Move(d, resolution)
  /\ UNCHANGED <<approvalVars, calls>>

(* To the state of the latest failure on the audit log, which may have     *)
(* missed some or all of them (DisbursementService has the log).           *)
FailedFrom(d) == {Initiated, ManualReview}
                   \cup IF d \in sent THEN {PayoutSubmitted} ELSE {}

Retry(d) ==
  /\ status[d] = Failed
  /\ \E last \in FailedFrom(d) : Move(d, last)
  /\ UNCHANGED <<approvalVars, calls>>

(* Twenty-four hours have passed since the row was created.                *)
AgeRow(d) ==
  /\ status[d] # Absent /\ d \notin aged /\ Cardinality(aged) < MaxAged
  /\ aged' = aged \cup {d}
  /\ UNCHANGED <<status, sent, approvalVars, calls>>
  /\ KeepCleared

----------------------------------------------------------------------------
(* Approvals: ON CONFLICT DO NOTHING, so a second approval by the same     *)
(* person neither counts nor renews the first.  Approvals of a row under   *)
(* the threshold are never read, and left out.                             *)

Required(d) == Amount[d] >= Threshold

Approve(d, p) ==
  /\ Required(d) /\ status[d] # Absent
  /\ p \notin approvals[d]
  /\ approvals' = [approvals EXCEPT ![d] = @ \cup {p}]
  /\ UNCHANGED <<lapsed, rows, calls, cleared>>

(* Slip: no approval at all is taken for one that is too old.              *)
LapseWithoutApproval(d) ==
  /\ d \notin lapsed
  /\ lapsed' = lapsed \cup {d}
  /\ UNCHANGED <<approvals, rows, calls, cleared>>

LapseApproval(d) ==
  /\ approvals[d] # {} /\ d \notin lapsed
  /\ lapsed' = lapsed \cup {d}
  /\ UNCHANGED <<approvals, rows, calls, cleared>>

----------------------------------------------------------------------------
(* The gates in the guard of the payout, then the claim and the send.      *)

BeginPayout(a, d) ==
  /\ pc[a] = "idle"
  /\ status[d] = ReleaseConfirmed
  /\ pc' = [pc EXCEPT ![a] = "cap"]
  /\ job' = [job EXCEPT ![a] = d]
  /\ UNCHANGED <<rows, approvalVars, cleared>>

(* dailyPayoutCap: the row being judged is in the sum already and is added *)
(* once more.                                                              *)
CapAccepts(d) == DailyTotal + Amount[d] <= Cap

CapGate(a) ==
  /\ pc[a] = "cap"
  /\ CapAccepts(job[a])
  /\ Goto(a, IF Required(job[a]) THEN "window" ELSE "claim")
  /\ cleared' = cleared \cup
       {d \in {job[a]} : InSum(status[d], d \in aged)}
  /\ UNCHANGED <<rows, approvalVars>>

(* The cap, the query of the cap or any of the gates on the row alone.     *)
GateRejects(a) ==
  /\ pc[a] = "cap"
  /\ Goto(a, "idle")
  /\ UNCHANGED <<rows, approvalVars, cleared>>

(* TwoPersonApproval.check, first query: MIN(approved_at).                 *)
ApprovalWindow(a) ==
  /\ pc[a] = "window"
  /\ Goto(a, IF job[a] \in lapsed THEN "idle" ELSE "count")
  /\ UNCHANGED <<rows, approvalVars, cleared>>

(* Slip: one approval is enough.                                           *)
ApprovedByOne(d) == approvals[d] # {}

Approved(d) == Cardinality(approvals[d]) >= 2

(* TwoPersonApproval.check, second query: COUNT of the approvals.          *)
ApprovalCount(a) ==
  /\ pc[a] = "count"
  /\ Goto(a, IF Approved(job[a]) THEN "claim" ELSE "idle")
  /\ UNCHANGED <<rows, approvalVars, cleared>>

ClaimPayout(a) ==
  /\ pc[a] = "claim"
  /\ IF status[job[a]] = ReleaseConfirmed
       THEN Move(job[a], PayoutSubmitted) /\ Goto(a, "send")
       ELSE Goto(a, "idle") /\ UNCHANGED <<rows, cleared>>
  /\ UNCHANGED approvalVars

SendPayout(a) ==
  /\ pc[a] = "send"
  /\ sent' = sent \cup {job[a]}
  /\ Goto(a, "idle")
  /\ UNCHANGED <<status, aged, approvalVars, cleared>>

(* The send is refused, or the write of its reference fails after it: the  *)
(* claim is rolled back, if it still stands.                               *)
SendThrows(a) ==
  /\ pc[a] = "send"
  /\ status' = [status EXCEPT ![job[a]] =
                  IF @ = PayoutSubmitted THEN ReleaseConfirmed ELSE @]
  /\ sent' \in {sent, sent \cup {job[a]}}
  /\ Goto(a, "idle")
  /\ UNCHANGED <<aged, approvalVars>>
  /\ KeepCleared

----------------------------------------------------------------------------

Next ==
  \/ \E d \in Disbursements :
       \/ Create(d) \/ ReleaseFunds(d) \/ SettlePayout(d)
       \/ Escalate(d) \/ Fail(d) \/ Resolve(d) \/ Retry(d) \/ AgeRow(d)
       \/ LapseApproval(d)
       \/ \E p \in Approvers : Approve(d, p)
       \/ \E a \in Executors : BeginPayout(a, d)
  \/ \E a \in Executors :
       \/ CapGate(a) \/ GateRejects(a) \/ ApprovalWindow(a) \/ ApprovalCount(a)
       \/ ClaimPayout(a) \/ SendPayout(a) \/ SendThrows(a)

Spec == Init /\ [][Next]_vars

----------------------------------------------------------------------------
(* A row is paid, grows old and is accepted by the cap gate only once it   *)
(* exists, and only a row in the sum counts as accepted.                   *)
TypeOK ==
  /\ status \in [Disbursements -> LifeStates \cup {Absent}]
  /\ approvals \in [Disbursements -> SUBSET Approvers]
  /\ lapsed \subseteq {d \in Disbursements : approvals[d] # {}}
  /\ pc \in [Executors -> {"idle", "cap", "window", "count", "claim", "send"}]
  /\ job \in [Executors -> Disbursements \cup {NoJob}]
  /\ \A a \in Executors : pc[a] # "idle" => job[a] # NoJob
  /\ aged \cup sent \subseteq {d \in Disbursements : status[d] # Absent}
  /\ cleared \subseteq {d \in Disbursements : InSum(status[d], d \in aged)}

(* Payouts judged at the same time never exceed the daily cap together,    *)
(* although the gate and the claim are separate statements: a row is in    *)
(* the sum from its creation, long before it is paid.  What can exceed the *)
(* cap are rows that left the sum after the gate accepted them, by an      *)
(* escalation, a failure or their age (dailyPayoutCap).                    *)
CapHonoured == SumOf(sent \cap cleared) <= Cap

(* No payout over the threshold is sent unless two people approved it,     *)
(* whatever lapses or arrives between the queries of the check             *)
(* (TwoPersonApproval.check, destinationReleasedForPayout).                *)
LargeNeedsTwo ==
  \A d \in sent : Required(d) => Cardinality(approvals[d]) >= 2

(* "Aggregates all non-failed/cancelled payouts in the last 24h and        *)
(* rejects if adding the current disbursement would exceed the daily cap": *)
(* the payouts sent for rows of the last day that are neither failed nor   *)
(* cancelled stay within the cap.  The sum also leaves out manual review.  *)
DailyCapHolds ==
  SumOf({d \in sent \ aged : status[d] \notin {Failed, Cancelled}}) <= Cap
=============================================================================
