-------------------------- MODULE PayoutGatesProofs --------------------------
(***************************************************************************)
(* The gates of a payout, proved for any number of disbursements, calls    *)
(* and approvers, and any amounts: the approval of two people and the      *)
(* daily cap (PayoutGates), then the gates that compare a disbursement     *)
(* with the other rows of its campaign (CampaignGates).                    *)
(***************************************************************************)
EXTENDS PayoutGates, CampaignGates, SumLemmas, SequenceTheorems

(* A call works on a row that exists; approvals are finitely many.         *)
WorksOnRow ==
  /\ \A a \in Executors : pc[a] # "idle" => status[job[a]] # Absent
  /\ \A d \in Disbursements : IsFiniteSet(approvals[d])

ApprovedByTwo(d) == Required(d) => Cardinality(approvals[d]) >= 2

(* Past the queries of the check the approvals are there, and stay there.  *)
PassedIsApproved ==
  /\ \A a \in Executors : pc[a] \in {"claim", "send"} => ApprovedByTwo(job[a])
  /\ \A d \in sent : ApprovedByTwo(d)

GatesInv == TypeOK /\ WorksOnRow /\ PassedIsApproved

----------------------------------------------------------------------------

LEMMA StatusFacts ==
  /\ Absent \notin LifeStates
  /\ {Initiated, ReleaseConfirmed, PayoutSubmitted, Settled, Failed, Cancelled,
      ManualReview} \subseteq LifeStates
  BY DEF Absent, LifeStates, Initiated, ReleaseConfirmed, PayoutSubmitted, Settled,
         Failed, Cancelled, ManualReview

LEMMA ApprovedByTwoIsBoolean ==
  \A d : ApprovedByTwo(d) \in BOOLEAN /\ ApprovedByTwo(d)' \in BOOLEAN
  BY DEF ApprovedByTwo

LEMMA GatesInitInv == Init => GatesInv
  BY GatesAssumption, FS_EmptySet
  DEF Init, GatesInv, TypeOK, WorksOnRow, PassedIsApproved

(* A row that moves on to another status, none of the calls with it.       *)
LEMMA MoveKeepsInv ==
  ASSUME GatesInv, NEW d \in Disbursements, NEW s \in LifeStates, Move(d, s),
         status[d] # Absent \/ d \notin aged \cup sent,
         UNCHANGED <<approvalVars, calls>>
  PROVE  GatesInv'
  <1>1. status' \in [Disbursements -> LifeStates \cup {Absent}]
        /\ \A e \in Disbursements : status[e] # Absent => status'[e] # Absent
    BY StatusFacts DEF Move, GatesInv, TypeOK
  <1>2. aged' = aged /\ sent' = sent /\ approvals' = approvals /\ lapsed' = lapsed
        /\ pc' = pc /\ job' = job
    BY DEF Move, approvalVars, calls
  <1>3. cleared' \subseteq {e \in Disbursements : InSum(status'[e], e \in aged')}
    BY DEF Move, KeepCleared, GatesInv, TypeOK
  <1>4. TypeOK'
    BY <1>1, <1>2, <1>3 DEF GatesInv, TypeOK
  <1>5. WorksOnRow'
    BY <1>1, <1>2 DEF GatesInv, TypeOK, WorksOnRow
  <1>6. PassedIsApproved'
    BY <1>2 DEF GatesInv, PassedIsApproved, ApprovedByTwo
  <1> QED BY <1>4, <1>5, <1>6 DEF GatesInv

LEMMA LifeKeepsInv ==
  ASSUME GatesInv, NEW d \in Disbursements,
         \/ Create(d) \/ ReleaseFunds(d) \/ SettlePayout(d)
         \/ Escalate(d) \/ Fail(d) \/ Resolve(d) \/ Retry(d)
  PROVE  GatesInv'
  <1>1. CASE Create(d)
    BY <1>1, MoveKeepsInv, StatusFacts DEF Create, GatesInv, TypeOK
  <1>2. CASE \/ ReleaseFunds(d) \/ SettlePayout(d)
             \/ Escalate(d) \/ Fail(d) \/ Resolve(d) \/ Retry(d)
    <2>1. status[d] # Absent /\ UNCHANGED <<approvalVars, calls>>
          /\ \E s \in LifeStates : Move(d, s)
      BY <1>2, StatusFacts
      DEF ReleaseFunds, SettlePayout, Escalate, Fail, Resolve, Retry, FailedFrom
    <2> QED BY <2>1, MoveKeepsInv
  <1> QED BY <1>1, <1>2

LEMMA AgeKeepsInv ==
  ASSUME GatesInv, NEW d \in Disbursements, AgeRow(d)
  PROVE  GatesInv'
  <1>1. TypeOK'
    BY DEF GatesInv, TypeOK, AgeRow, KeepCleared, approvalVars, calls
  <1> QED BY <1>1 DEF GatesInv, WorksOnRow, PassedIsApproved, ApprovedByTwo, AgeRow,
                      approvalVars, calls

(* Approvals are added and never taken back.                               *)
LEMMA ApproveKeepsInv ==
  ASSUME GatesInv, NEW d \in Disbursements, NEW p \in Approvers, Approve(d, p)
  PROVE  GatesInv'
  <1>1. UNCHANGED <<rows, calls, lapsed, cleared>>
    BY DEF Approve
  <1>2. \A e \in Disbursements :
          /\ IsFiniteSet(approvals'[e])
          /\ ApprovedByTwo(e) => ApprovedByTwo(e)'
    <2> SUFFICES ASSUME NEW e \in Disbursements
                 PROVE  /\ IsFiniteSet(approvals'[e])
                        /\ ApprovedByTwo(e) => ApprovedByTwo(e)'
      OBVIOUS
    <2>1. IsFiniteSet(approvals[e])
      BY DEF GatesInv, WorksOnRow
    <2>2. approvals'[e] = approvals[e] \/ approvals'[e] = approvals[e] \cup {p}
      BY DEF Approve, GatesInv, TypeOK
    <2>3. IsFiniteSet(approvals'[e]) /\ approvals[e] \subseteq approvals'[e]
      BY <2>1, <2>2, FS_AddElement
    <2>4. /\ Cardinality(approvals[e]) <= Cardinality(approvals'[e])
          /\ Cardinality(approvals[e]) \in Nat /\ Cardinality(approvals'[e]) \in Nat
      BY <2>1, <2>3, FS_Subset, FS_CardinalityType
    <2> QED BY <2>3, <2>4 DEF ApprovedByTwo, Required
  <1>3. TypeOK'
    BY <1>1 DEF GatesInv, TypeOK, Approve, rows, calls
  <1>4. WorksOnRow' /\ PassedIsApproved'
    BY <1>1, <1>2, <1>3 DEF GatesInv, TypeOK, WorksOnRow, PassedIsApproved, rows, calls
  <1> QED BY <1>3, <1>4 DEF GatesInv

LEMMA LapseKeepsInv ==
  ASSUME GatesInv, NEW d \in Disbursements, LapseApproval(d)
  PROVE  GatesInv'
  BY DEF GatesInv, TypeOK, WorksOnRow, PassedIsApproved, ApprovedByTwo, LapseApproval,
         rows, calls

(* A call that goes on to its next step, the rows as they were.            *)
LEMMA GotoKeepsInv ==
  ASSUME GatesInv, NEW a \in Executors, pc[a] # "idle",
         NEW next \in {"idle", "window", "count", "claim"}, Goto(a, next),
         next = "claim" => ApprovedByTwo(job[a]),
         UNCHANGED <<rows, approvalVars>>,
         cleared' \subseteq cleared \cup {d \in {job[a]} : InSum(status[d], d \in aged)}
  PROVE  GatesInv'
  <1>1. job[a] \in Disbursements
    BY DEF GatesInv, TypeOK
  <1>2. TypeOK'
    BY <1>1 DEF GatesInv, TypeOK, Goto, rows, approvalVars, InSum
  <1>3. WorksOnRow'
    BY DEF GatesInv, TypeOK, WorksOnRow, Goto, rows, approvalVars
  <1>4. PassedIsApproved'
    BY DEF GatesInv, TypeOK, PassedIsApproved, ApprovedByTwo, Goto, rows, approvalVars
  <1> QED BY <1>2, <1>3, <1>4 DEF GatesInv

LEMMA BeginKeepsInv ==
  ASSUME GatesInv, NEW a \in Executors, NEW d \in Disbursements, BeginPayout(a, d)
  PROVE  GatesInv'
  <1>1. status[d] # Absent /\ d # NoJob
    BY StatusFacts, GatesAssumption DEF BeginPayout
  <1> QED BY <1>1 DEF GatesInv, TypeOK, WorksOnRow, PassedIsApproved, ApprovedByTwo,
                      BeginPayout, rows, approvalVars

LEMMA GateStepKeepsInv ==
  ASSUME GatesInv, NEW a \in Executors,
         CapGate(a) \/ GateRejects(a) \/ ApprovalWindow(a) \/ ApprovalCount(a)
  PROVE  GatesInv'
  <1>1. CASE CapGate(a)
    <2>1. ~Required(job[a]) => ApprovedByTwo(job[a])
      BY DEF ApprovedByTwo
    <2>2. CASE Required(job[a])
      BY <1>1, <2>2, GotoKeepsInv DEF CapGate
    <2>3. CASE ~Required(job[a])
      BY <1>1, <2>1, <2>3, GotoKeepsInv DEF CapGate
    <2> QED BY <2>2, <2>3
  <1>2. CASE GateRejects(a)
    BY <1>2, GotoKeepsInv DEF GateRejects
  <1>3. CASE ApprovalWindow(a)
    BY <1>3, GotoKeepsInv DEF ApprovalWindow
  <1>4. CASE ApprovalCount(a)
    BY <1>4, GotoKeepsInv DEF ApprovalCount, ApprovedByTwo, Approved
  <1> QED BY <1>1, <1>2, <1>3, <1>4

LEMMA ClaimPayoutKeepsInv ==
  ASSUME GatesInv, NEW a \in Executors, ClaimPayout(a)
  PROVE  GatesInv'
  <1>1. job[a] \in Disbursements /\ ApprovedByTwo(job[a])
    BY DEF GatesInv, TypeOK, PassedIsApproved, ClaimPayout
  <1>2. CASE status[job[a]] = ReleaseConfirmed
    <2>1. Move(job[a], PayoutSubmitted) /\ Goto(a, "send") /\ UNCHANGED approvalVars
      BY <1>2 DEF ClaimPayout
    <2>2. status' \in [Disbursements -> LifeStates \cup {Absent}]
          /\ \A e \in Disbursements : status[e] # Absent => status'[e] # Absent
      BY <2>1, StatusFacts DEF Move, GatesInv, TypeOK
    <2>3. /\ pc' = [pc EXCEPT ![a] = "send"] /\ job' = job
          /\ UNCHANGED <<aged, sent, approvals, lapsed>>
          /\ cleared' \subseteq {e \in Disbursements : InSum(status'[e], e \in aged')}
      BY <2>1 DEF Move, Goto, KeepCleared, approvalVars, GatesInv, TypeOK
    <2>4. TypeOK'
      BY <2>2, <2>3 DEF GatesInv, TypeOK, ClaimPayout
    <2>5. WorksOnRow'
      BY <1>1, <2>2, <2>3 DEF GatesInv, TypeOK, WorksOnRow, ClaimPayout
    <2>6. PassedIsApproved'
      BY <1>1, <2>3 DEF GatesInv, TypeOK, PassedIsApproved, ApprovedByTwo
    <2> QED BY <2>4, <2>5, <2>6 DEF GatesInv
  <1>3. CASE status[job[a]] # ReleaseConfirmed
    BY <1>3, GotoKeepsInv DEF ClaimPayout
  <1> QED BY <1>2, <1>3

LEMMA SendKeepsInv ==
  ASSUME GatesInv, NEW a \in Executors, SendPayout(a) \/ SendThrows(a)
  PROVE  GatesInv'
  <1>1. job[a] \in Disbursements /\ ApprovedByTwo(job[a]) /\ status[job[a]] # Absent
    BY DEF GatesInv, TypeOK, WorksOnRow, PassedIsApproved, SendPayout, SendThrows
  <1>2. /\ sent' \in {sent, sent \cup {job[a]}} /\ Goto(a, "idle")
        /\ UNCHANGED <<aged, approvals, lapsed>>
    BY DEF SendPayout, SendThrows, approvalVars
  <1>3. /\ status' \in [Disbursements -> LifeStates \cup {Absent}]
        /\ \A e \in Disbursements : status[e] # Absent => status'[e] # Absent
        /\ cleared' \subseteq {e \in Disbursements : InSum(status'[e], e \in aged')}
    <2>1. CASE SendPayout(a)
      BY <2>1 DEF SendPayout, GatesInv, TypeOK
    <2>2. CASE SendThrows(a)
      BY <2>2, <1>1, StatusFacts DEF SendThrows, KeepCleared, GatesInv, TypeOK
    <2> QED BY <2>1, <2>2
  <1>4. TypeOK'
    BY <1>1, <1>2, <1>3 DEF GatesInv, TypeOK, Goto
  <1>5. WorksOnRow' /\ PassedIsApproved'
    BY <1>1, <1>2, <1>3
    DEF GatesInv, TypeOK, WorksOnRow, PassedIsApproved, ApprovedByTwo, Goto
  <1> QED BY <1>4, <1>5 DEF GatesInv

LEMMA GatesStepKeepsInv == GatesInv /\ [Next]_vars => GatesInv'
  <1> SUFFICES ASSUME GatesInv, [Next]_vars PROVE GatesInv'
    OBVIOUS
  <1>1. ASSUME NEW d \in Disbursements,
               \/ Create(d) \/ ReleaseFunds(d) \/ SettlePayout(d)
               \/ Escalate(d) \/ Fail(d) \/ Resolve(d) \/ Retry(d) \/ AgeRow(d)
               \/ LapseApproval(d)
               \/ \E p \in Approvers : Approve(d, p)
               \/ \E a \in Executors : BeginPayout(a, d)
        PROVE  GatesInv'
    BY <1>1, LifeKeepsInv, AgeKeepsInv, LapseKeepsInv, ApproveKeepsInv, BeginKeepsInv
  <1>2. ASSUME NEW a \in Executors,
               \/ CapGate(a) \/ GateRejects(a) \/ ApprovalWindow(a)
               \/ ApprovalCount(a)
               \/ ClaimPayout(a) \/ SendPayout(a) \/ SendThrows(a)
        PROVE  GatesInv'
    BY <1>2, GateStepKeepsInv, ClaimPayoutKeepsInv, SendKeepsInv
  <1>3. CASE UNCHANGED vars
    BY <1>3 DEF GatesInv, TypeOK, WorksOnRow, PassedIsApproved, ApprovedByTwo, vars,
                rows, approvalVars, calls
  <1> QED BY <1>1, <1>2, <1>3 DEF Next

LEMMA GatesInvariant == Spec => []GatesInv
  BY GatesInitInv, GatesStepKeepsInv, PTL DEF Spec

(* Only a row that exists is paid or accepted by the cap gate.             *)
THEOREM GatesTypeCorrect == Spec => []TypeOK
  BY GatesInvariant, PTL DEF GatesInv

(* No payout over the threshold leaves without the approval of two people  *)
(* (TwoPersonApproval.check, destinationReleasedForPayout).                *)
THEOREM TwoApproveLargePayouts == Spec => []LargeNeedsTwo
  <1>1. GatesInv => LargeNeedsTwo
    BY DEF GatesInv, PassedIsApproved, ApprovedByTwo, LargeNeedsTwo
  <1> QED BY <1>1, GatesInvariant, PTL

----------------------------------------------------------------------------
(* The daily cap.                                                          *)

(* The rows the gate accepted and that have been in its sum since.         *)
CapInv == SumOf(cleared) <= Cap

LEMMA SumOfIsSumOver ==
  \A S : SumOf(S) = SumOver(Amount, S)
  BY DEF SumOf, SumOver, MapThenSumSet, MapThenFoldSet

LEMMA CapInvPrimed == CapInv' <=> SumOf(cleared') <= Cap
  BY DEF CapInv, SumOf, MapThenSumSet, MapThenFoldSet

LEMMA AmountsAreNumbers ==
  ASSUME NEW S \in SUBSET Disbursements
  PROVE  IsFiniteSet(S) /\ SumOf(S) \in Nat
  <1>1. IsFiniteSet(S) /\ Amount \in [Disbursements -> Nat]
    BY GatesAssumption, FS_Subset
  <1> QED BY <1>1, SumOfIsSumOver, SumOverType

(* A smaller set of rows adds up to no more.                               *)
LEMMA FewerRowsSumToLess ==
  ASSUME NEW S \in SUBSET Disbursements, NEW T \in SUBSET S
  PROVE  SumOf(T) <= SumOf(S)
  <1>1. IsFiniteSet(S) /\ Amount \in [Disbursements -> Nat]
    BY GatesAssumption, FS_Subset
  <1> QED BY <1>1, SumOfIsSumOver, SumOverMonotone

(* No step but the gate's own adds a row it vouches for.                   *)
LEMMA OnlyTheGateClears ==
  ASSUME [Next]_vars, \A a \in Executors : ~CapGate(a)
  PROVE  cleared' \subseteq cleared
  <1>1. ASSUME NEW d \in Disbursements, NEW s, Move(d, s)
        PROVE  cleared' \subseteq cleared
    BY <1>1 DEF Move, KeepCleared
  <1>2. ASSUME NEW d \in Disbursements,
               \/ Create(d) \/ ReleaseFunds(d) \/ SettlePayout(d)
               \/ Escalate(d) \/ Fail(d) \/ Resolve(d) \/ Retry(d)
        PROVE  cleared' \subseteq cleared
    BY <1>1, <1>2 DEF Create, ReleaseFunds, SettlePayout, Escalate, Fail, Resolve, Retry
  <1>3. ASSUME NEW d \in Disbursements, AgeRow(d) \/ LapseApproval(d)
        PROVE  cleared' \subseteq cleared
    BY <1>3 DEF AgeRow, LapseApproval, KeepCleared
  <1>4. ASSUME NEW d \in Disbursements, NEW p \in Approvers, Approve(d, p)
        PROVE  cleared' \subseteq cleared
    BY <1>4 DEF Approve
  <1>5. ASSUME NEW d \in Disbursements, NEW a \in Executors, BeginPayout(a, d)
        PROVE  cleared' \subseteq cleared
    BY <1>5 DEF BeginPayout
  <1>6. ASSUME NEW a \in Executors,
               \/ GateRejects(a) \/ ApprovalWindow(a) \/ ApprovalCount(a)
               \/ SendPayout(a) \/ SendThrows(a)
        PROVE  cleared' \subseteq cleared
    BY <1>6 DEF GateRejects, ApprovalWindow, ApprovalCount, SendPayout, SendThrows, KeepCleared
  <1>7. ASSUME NEW a \in Executors, ClaimPayout(a)
        PROVE  cleared' \subseteq cleared
    BY <1>7 DEF ClaimPayout, Move, KeepCleared
  <1>8. CASE UNCHANGED vars
    BY <1>8 DEF vars
  <1> QED BY <1>2, <1>3, <1>4, <1>5, <1>6, <1>7, <1>8 DEF Next

(* A row is in the sum the gate compares with the cap from its creation    *)
(* on, so the rows accepted before are in it too.                          *)
LEMMA CapGateKeepsCap ==
  ASSUME TypeOK, CapInv, NEW a \in Executors, CapGate(a)
  PROVE  CapInv'
  <1> DEFINE counted == {d \in Disbursements : Counted(status[d], d \in aged)}
  <1>1. job[a] \in Disbursements
    BY DEF TypeOK, CapGate
  <1>2. SumOf(counted) + Amount[job[a]] <= Cap
    BY DEF CapGate, CapAccepts, DailyTotal
  <1>3. counted \in SUBSET Disbursements /\ cleared \in SUBSET counted
    BY DEF TypeOK, Counted
  <1>4. CASE InSum(status[job[a]], job[a] \in aged)
    <2>1. cleared' \in SUBSET counted
      BY <1>1, <1>3, <1>4 DEF CapGate, Counted
    <2> HIDE DEF counted
    <2>2. SumOf(cleared') <= SumOf(counted)
      BY <1>3, <2>1, FewerRowsSumToLess
    <2>3. cleared' \in SUBSET Disbursements
      BY <1>3, <2>1
    <2>4. SumOf(cleared') \in Nat /\ SumOf(counted) \in Nat
      BY <1>3, <2>3, AmountsAreNumbers
    <2>5. Amount[job[a]] \in Nat /\ Cap \in Nat
      BY <1>1, GatesAssumption
    <2>6. SumOf(cleared') <= Cap
      BY <1>2, <2>2, <2>4, <2>5
    <2> QED BY <2>6, CapInvPrimed
  <1>5. CASE ~InSum(status[job[a]], job[a] \in aged)
    <2>1. cleared' = cleared
      BY <1>5 DEF CapGate
    <2> QED BY <2>1, CapInvPrimed DEF CapInv
  <1> QED BY <1>4, <1>5

LEMMA CapStepKeepsCap == TypeOK /\ CapInv /\ [Next]_vars => CapInv'
  <1> SUFFICES ASSUME TypeOK, CapInv, [Next]_vars PROVE CapInv'
    OBVIOUS
  <1>1. CASE \E a \in Executors : CapGate(a)
    BY <1>1, CapGateKeepsCap
  <1>2. CASE \A a \in Executors : ~CapGate(a)
    <2>1. cleared \in SUBSET Disbursements /\ cleared' \in SUBSET cleared
      BY <1>2, OnlyTheGateClears DEF TypeOK
    <2>2. SumOf(cleared') <= SumOf(cleared)
      BY <2>1, FewerRowsSumToLess
    <2>3. SumOf(cleared') \in Nat /\ SumOf(cleared) \in Nat
      BY <2>1, AmountsAreNumbers
    <2>4. SumOf(cleared') <= Cap
      BY <2>2, <2>3, GatesAssumption DEF CapInv
    <2> QED BY <2>4, CapInvPrimed
  <1> QED BY <1>1, <1>2

(* Payouts judged at the same time stay within the daily cap together,     *)
(* although the gate and the claim are separate statements                 *)
(* (dailyPayoutCap).                                                       *)
THEOREM DailyCapIsHonoured == Spec => []CapHonoured
  <1>1. Init => CapInv
    <2>1. Init => cleared = {} /\ SumOf({}) = 0
      BY SumOfIsSumOver, SumOverEmpty DEF Init
    <2> QED BY <2>1, GatesAssumption DEF CapInv
  <1>2. TypeOK /\ CapInv => CapHonoured
    <2> SUFFICES ASSUME TypeOK, CapInv PROVE CapHonoured
      OBVIOUS
    <2>1. cleared \in SUBSET Disbursements /\ sent \cap cleared \in SUBSET cleared
      BY DEF TypeOK
    <2>2. SumOf(sent \cap cleared) <= SumOf(cleared)
      BY <2>1, FewerRowsSumToLess
    <2>3. SumOf(sent \cap cleared) \in Nat /\ SumOf(cleared) \in Nat
      BY <2>1, AmountsAreNumbers
    <2> QED BY <2>2, <2>3, GatesAssumption DEF CapInv, CapHonoured
  <1> QED BY <1>1, <1>2, CapStepKeepsCap, GatesTypeCorrect, PTL DEF Spec

----------------------------------------------------------------------------
(* The campaign: its sum is that of its rows, and one row at most is paid. *)

MadeRows == {d \in CampaignRows : phase[d] # NoRow}

(* A call is at a gate only while its row is in preflight or may be paid.  *)
CallsHaveRows ==
  \A d \in CampaignRows : gateAt[d] # NoGate => phase[d] \in {Preflight, ReleaseConfirmed}

(* Rows for which the campaign's sum has been compared with their amount:  *)
(* those past attributableFunds in this call, or in their preflight.       *)
PastFunds(d) == gateAt[d] = "rest" \/ phase[d] \in {ReleaseConfirmed, PayoutSubmitted}

(* OnePaidPerCampaign speaks of rows that are paid, and two rows that had  *)
(* both passed the funds gate would both be paid next.  There are never    *)
(* two: the one that passed it later was compared with a sum that holds    *)
(* the amounts of both, and the earlier amount is not zero                 *)
(* (beneficiaryPayload).                                                   *)
OnePastFunds ==
  /\ \A d \in CampaignRows : PastFunds(d) => Usdcx[d] > 0
  /\ \A d, e \in CampaignRows : PastFunds(d) /\ PastFunds(e) => d = e

CampaignInv == CampaignTypeOK /\ CallsHaveRows /\ OnePastFunds

Phases == {NoRow, Initiated, Preflight, ReleaseConfirmed, PayoutSubmitted, ManualReview}
GatePlaces == {NoGate, "tolerance", "escrow", "funds", "rest"}

LEMMA PhasesDiffer ==
  /\ NoRow \notin {Initiated, Preflight, ReleaseConfirmed, PayoutSubmitted, ManualReview}
  /\ Initiated \notin {Preflight, ReleaseConfirmed, PayoutSubmitted, ManualReview}
  /\ Preflight \notin {ReleaseConfirmed, PayoutSubmitted, ManualReview}
  /\ ReleaseConfirmed \notin {PayoutSubmitted, ManualReview}
  /\ PayoutSubmitted # ManualReview
  /\ NoGate \notin {"tolerance", "escrow", "funds", "rest"}
  BY DEF NoRow, Initiated, Preflight, ReleaseConfirmed, PayoutSubmitted, ManualReview, NoGate

(* The type invariant in the terms of SumLemmas.                           *)
LEMMA FundedIsSumOver ==
  \A S : MapThenSumSet(LAMBDA d : Usdcx[d], S) = SumOver(Usdcx, S)
  BY DEF SumOver, MapThenSumSet, MapThenFoldSet

TypeParts ==
  /\ made \in Seq(CampaignRows)
  /\ Range(made) = MadeRows
  /\ Len(made) = Cardinality(MadeRows)
  /\ funded = SumOver(Usdcx, MadeRows)
  /\ phase \in [CampaignRows -> Phases]
  /\ gateAt \in [CampaignRows -> GatePlaces]
  /\ grown \subseteq CampaignRows /\ blocked \subseteq CampaignRows

LEMMA TypeOKIsTypeParts == CampaignTypeOK <=> TypeParts
  BY FundedIsSumOver DEF CampaignTypeOK, TypeParts, MadeRows, Phases, GatePlaces

LEMMA TypeOKIsTypePartsPrimed == CampaignTypeOK' <=> TypeParts'
  BY TypeOKIsTypeParts, PTL

LEMMA CampaignInitInv == CampaignInit => CampaignInv
  <1> SUFFICES ASSUME CampaignInit PROVE CampaignInv
    OBVIOUS
  <1>1. MadeRows = {} /\ Range(made) = {} /\ Len(made) = 0
    BY DEF CampaignInit, MadeRows, Range
  <1>2. SumOver(Usdcx, {}) = 0 /\ Cardinality({}) = 0
    BY SumOverEmpty, FS_EmptySet
  <1>3. made \in Seq(CampaignRows) /\ funded = 0
    BY DEF CampaignInit
  <1>4. TypeParts
    BY <1>1, <1>2, <1>3 DEF CampaignInit, TypeParts, Phases, GatePlaces
  <1>5. CallsHaveRows /\ OnePastFunds
    BY PhasesDiffer DEF CampaignInit, CallsHaveRows, OnePastFunds, PastFunds
  <1> QED BY <1>4, <1>5, TypeOKIsTypeParts DEF CampaignInv

(* Creating a row adds it to those made, and its amount to the sum.        *)
LEMMA RangeOfAppend ==
  ASSUME NEW S, NEW s \in Seq(S), NEW d \in S
  PROVE  Range(Append(s, d)) = Range(s) \cup {d}
  <1> DEFINE t == Append(s, d)
  <1>1. /\ Len(t) = Len(s) + 1 /\ DOMAIN t = 1 .. Len(t) /\ DOMAIN s = 1 .. Len(s)
        /\ Len(s) \in Nat
        /\ t[Len(s) + 1] = d /\ \A i \in 1 .. Len(s) : t[i] = s[i]
    BY AppendProperties
  <1> HIDE DEF t
  <1>2. DOMAIN t = DOMAIN s \cup {Len(s) + 1}
    BY <1>1
  <1>3. Range(t) = Range(s) \cup {t[Len(s) + 1]}
    BY <1>1, <1>2 DEF Range
  <1> QED BY <1>1, <1>3 DEF t

LEMMA MadeRowsAreFinite ==
  IsFiniteSet(MadeRows) /\ MadeRows \in SUBSET CampaignRows
  BY CampaignAssumption, FS_Subset DEF MadeRows

(* The campaign's sum holds the amounts of any two of its rows.            *)
LEMMA FundsHoldBoth ==
  ASSUME CampaignTypeOK, NEW d \in MadeRows, NEW e \in MadeRows, d # e
  PROVE  funded >= Usdcx[d] + Usdcx[e]
  <1>1. funded = SumOver(Usdcx, MadeRows)
    BY TypeOKIsTypeParts DEF TypeParts
  <1>2. Usdcx \in [CampaignRows -> Nat]
    BY CampaignAssumption
  <1> DEFINE r == MadeRows \ {d}
             q == r \ {e}
  <1>3. r \in SUBSET CampaignRows /\ q \in SUBSET CampaignRows /\ e \in r
        /\ IsFiniteSet(r) /\ IsFiniteSet(q)
    BY MadeRowsAreFinite, FS_Subset
  <1>4. SumOver(Usdcx, MadeRows) = Usdcx[d] + SumOver(Usdcx, r)
    BY <1>2, MadeRowsAreFinite, SumOverSplit
  <1> HIDE DEF r
  <1>5. SumOver(Usdcx, r) = Usdcx[e] + SumOver(Usdcx, q)
    BY <1>2, <1>3, SumOverSplit
  <1> HIDE DEF q
  <1>6. SumOver(Usdcx, q) \in Nat
    BY <1>2, <1>3, SumOverType
  <1>7. Usdcx[d] \in Nat /\ Usdcx[e] \in Nat
    BY <1>2, MadeRowsAreFinite
  <1> QED BY <1>1, <1>4, <1>5, <1>6, <1>7

LEMMA CreateKeepsCampaign ==
  ASSUME CampaignInv, NEW d \in CampaignRows, CreateRow(d)
  PROVE  CampaignInv'
  <1>1. TypeParts
    BY TypeOKIsTypeParts DEF CampaignInv
  <1>2. phase' = [phase EXCEPT ![d] = Initiated] /\ phase[d] = NoRow /\ gateAt' = gateAt
    BY DEF CreateRow, Become
  <1>3. MadeRows' = MadeRows \cup {d} /\ d \in CampaignRows \ MadeRows
    BY <1>1, <1>2, PhasesDiffer DEF MadeRows, TypeParts
  <1>4. Range(made)' = MadeRows'
    BY <1>1, <1>3, RangeOfAppend DEF CreateRow, TypeParts
  <1>5. Len(made)' = Cardinality(MadeRows)'
    <2>1. Cardinality(MadeRows \cup {d}) = Cardinality(MadeRows) + 1
      BY <1>3, MadeRowsAreFinite, FS_AddElement
    <2>2. Len(Append(made, d)) = Len(made) + 1
      BY <1>1, AppendProperties DEF TypeParts
    <2> QED BY <1>1, <1>3, <2>1, <2>2 DEF CreateRow, TypeParts
  <1>6. funded' = SumOver(Usdcx, MadeRows)'
    <2>1. SumOver(Usdcx, MadeRows \cup {d}) = SumOver(Usdcx, MadeRows) + Usdcx[d]
      BY <1>3, MadeRowsAreFinite, SumOverAdd, CampaignAssumption
    <2> QED BY <1>1, <1>3, <2>1 DEF CreateRow, TypeParts
  <1>7. made' \in Seq(CampaignRows)
    BY <1>1, AppendProperties DEF CreateRow, TypeParts
  <1>8. /\ phase' \in [CampaignRows -> Phases] /\ gateAt' \in [CampaignRows -> GatePlaces]
        /\ grown' \subseteq CampaignRows /\ blocked' \subseteq CampaignRows
    BY <1>1, <1>2 DEF CreateRow, TypeParts, Phases
  <1>9. CampaignTypeOK'
    BY <1>4, <1>5, <1>6, <1>7, <1>8, TypeOKIsTypePartsPrimed DEF TypeParts
  <1>10. gateAt[d] = NoGate
    BY <1>2, PhasesDiffer DEF CampaignInv, CallsHaveRows
  <1>11. CallsHaveRows'
    BY <1>1, <1>2, <1>10 DEF CampaignInv, CallsHaveRows, TypeParts
  <1>12. \A e \in CampaignRows : PastFunds(e)' => PastFunds(e)
    BY <1>1, <1>2, <1>10, PhasesDiffer DEF PastFunds, TypeParts
  <1>13. OnePastFunds'
    BY <1>12 DEF CampaignInv, OnePastFunds
  <1> QED BY <1>9, <1>11, <1>13 DEF CampaignInv

(* A step of the call that works on one row.                               *)
LEMMA RowStepKeepsCampaign ==
  ASSUME CampaignInv, NEW d \in CampaignRows,
         NEW s \in Phases \ {NoRow}, NEW g \in GatePlaces,
         phase[d] # NoRow, UNCHANGED <<made, funded>>,
         phase' = [phase EXCEPT ![d] = s], gateAt' = [gateAt EXCEPT ![d] = g],
         grown' \subseteq CampaignRows, blocked' \subseteq CampaignRows,
         g # NoGate => s \in {Preflight, ReleaseConfirmed},
         g = "rest" \/ s \in {ReleaseConfirmed, PayoutSubmitted}
           => PastFunds(d) \/ (FundsMatch(d) /\ PayloadComplete(d))
  PROVE  CampaignInv'
  <1>1. TypeParts
    BY TypeOKIsTypeParts DEF CampaignInv
  <1>2. MadeRows' = MadeRows /\ d \in MadeRows
    BY <1>1 DEF MadeRows, TypeParts
  <1>3. CampaignTypeOK'
    <2>1. Range(made)' = MadeRows' /\ Len(made)' = Cardinality(MadeRows)'
          /\ funded' = SumOver(Usdcx, MadeRows)'
      BY <1>1, <1>2 DEF TypeParts
    <2>2. /\ phase' \in [CampaignRows -> Phases] /\ gateAt' \in [CampaignRows -> GatePlaces]
          /\ made' \in Seq(CampaignRows)
      BY <1>1 DEF TypeParts
    <2> QED BY <2>1, <2>2, TypeOKIsTypePartsPrimed DEF TypeParts
  <1>4. CallsHaveRows'
    BY <1>1 DEF CampaignInv, CallsHaveRows, TypeParts
  <1>5. \A e \in CampaignRows \ {d} : PastFunds(e)' <=> PastFunds(e)
    BY <1>1 DEF PastFunds, TypeParts
  <1>6. PastFunds(d)' => PastFunds(d) \/ (FundsMatch(d) /\ PayloadComplete(d))
    BY <1>1 DEF PastFunds, TypeParts
  <1>7. ASSUME FundsMatch(d), PayloadComplete(d)
        PROVE  Usdcx[d] > 0 /\ \A e \in CampaignRows \ {d} : ~PastFunds(e)
    <2>1. Usdcx[d] > 0 /\ funded = Usdcx[d] /\ Usdcx[d] \in Nat
      <3>1. Usdcx[d] \in Nat /\ funded \in Nat
        BY <1>1, CampaignAssumption, MadeRowsAreFinite, SumOverType DEF TypeParts
      <3> QED BY <1>7, <3>1 DEF FundsMatch, PayloadComplete
    <2>2. ASSUME NEW e \in CampaignRows \ {d}, PastFunds(e) PROVE FALSE
      <3>1. Usdcx[e] > 0 /\ Usdcx[e] \in Nat
        BY <2>2, CampaignAssumption DEF CampaignInv, OnePastFunds
      <3>2. e \in MadeRows
        BY <2>2, PhasesDiffer DEF PastFunds, MadeRows, CampaignInv, CallsHaveRows
      <3>3. funded >= Usdcx[d] + Usdcx[e]
        BY <1>2, <3>2, FundsHoldBoth DEF CampaignInv
      <3> QED BY <2>1, <3>1, <3>3
    <2> QED BY <2>1, <2>2
  <1>8. OnePastFunds'
    <2>1. CASE PastFunds(d)' => PastFunds(d)
      <3>1. \A e \in CampaignRows : PastFunds(e)' => PastFunds(e)
        BY <1>5, <2>1
      <3> QED BY <3>1 DEF CampaignInv, OnePastFunds
    <2>2. CASE FundsMatch(d) /\ PayloadComplete(d)
      <3>1. Usdcx[d] > 0 /\ \A e \in CampaignRows : PastFunds(e)' => e = d
        BY <1>5, <1>7, <2>2
      <3> QED BY <3>1 DEF OnePastFunds
    <2> QED BY <1>6, <2>1, <2>2
  <1> QED BY <1>3, <1>4, <1>8 DEF CampaignInv

LEMMA BeginKeepsCampaign ==
  ASSUME CampaignInv, NEW d \in CampaignRows, BeginPreflight(d) \/ BeginGuard(d)
  PROVE  CampaignInv'
  <1>1. TypeParts
    BY TypeOKIsTypeParts DEF CampaignInv
  <1>2. CASE BeginPreflight(d)
    <2>1. phase[d] = Initiated /\ gateAt[d] = NoGate
      BY <1>2, PhasesDiffer DEF BeginPreflight, CampaignInv, CallsHaveRows
    <2>2. CASE Become(d, Preflight) /\ GateTo(d, "tolerance")
      BY <1>1, <1>2, <2>1, <2>2, PhasesDiffer, RowStepKeepsCampaign
      DEF BeginPreflight, Become, GateTo, TypeParts, Phases, GatePlaces
    <2>3. CASE Become(d, ManualReview) /\ UNCHANGED gateAt
      <3>1. gateAt' = [gateAt EXCEPT ![d] = NoGate]
        BY <1>1, <2>1, <2>3 DEF TypeParts
      <3> QED BY <1>1, <1>2, <2>1, <2>3, <3>1, PhasesDiffer, RowStepKeepsCampaign
              DEF BeginPreflight, Become, TypeParts, Phases, GatePlaces
    <2> QED BY <1>2, <2>2, <2>3 DEF BeginPreflight
  <1>3. CASE BeginGuard(d)
    <2>1. phase[d] = ReleaseConfirmed /\ phase' = [phase EXCEPT ![d] = ReleaseConfirmed]
      BY <1>1, <1>3 DEF BeginGuard, Paying, TypeParts
    <2> QED BY <1>1, <1>3, <2>1, PhasesDiffer, RowStepKeepsCampaign
            DEF BeginGuard, GateTo, TypeParts, Phases, GatePlaces, PastFunds
  <1> QED BY <1>2, <1>3

LEMMA TurnAwayKeepsCampaign ==
  ASSUME CampaignInv, NEW d \in CampaignRows, gateAt[d] # NoGate, TurnAway(d),
         UNCHANGED <<made, funded, grown>>, blocked' \subseteq CampaignRows
  PROVE  CampaignInv'
  <1>1. TypeParts /\ phase[d] \in {Preflight, ReleaseConfirmed}
    BY TypeOKIsTypeParts DEF CampaignInv, CallsHaveRows
  <1>2. CASE Paying(d)
    <2>1. phase[d] = ReleaseConfirmed /\ phase' = [phase EXCEPT ![d] = ReleaseConfirmed]
      BY <1>1, <1>2 DEF TurnAway, Paying, TypeParts
    <2> QED BY <1>1, <2>1, PhasesDiffer, RowStepKeepsCampaign
            DEF TurnAway, GateTo, TypeParts, Phases, GatePlaces, PastFunds
  <1>3. CASE ~Paying(d)
    BY <1>1, <1>3, PhasesDiffer, RowStepKeepsCampaign
    DEF TurnAway, Become, GateTo, TypeParts, Phases, GatePlaces
  <1> QED BY <1>2, <1>3

LEMMA GateKeepsCampaign ==
  ASSUME CampaignInv, NEW d \in CampaignRows,
         AmountGate(d) \/ EscrowGate(d) \/ FundsGate(d)
  PROVE  CampaignInv'
  <1>1. TypeParts /\ gateAt[d] # NoGate
    BY TypeOKIsTypeParts, PhasesDiffer
    DEF CampaignInv, AmountGate, EscrowGate, FundsGate, Gate
  <1>2. phase[d] \in {Preflight, ReleaseConfirmed}
    BY <1>1 DEF CampaignInv, CallsHaveRows
  <1>3. ASSUME NEW gate, NEW passes, NEW next \in {"escrow", "funds", "rest"},
               Gate(d, gate, passes, next),
               passes /\ next = "rest" => FundsMatch(d) /\ PayloadComplete(d)
        PROVE  CampaignInv'
    <2>1. CASE passes
      <3>1. phase' = [phase EXCEPT ![d] = phase[d]] /\ phase[d] \in Phases \ {NoRow}
        BY <1>1, <1>2, <1>3, <2>1, PhasesDiffer DEF Gate, TypeParts, Phases
      <3> QED BY <1>1, <1>2, <1>3, <2>1, <3>1, PhasesDiffer, RowStepKeepsCampaign
              DEF Gate, GateTo, TypeParts, GatePlaces, PastFunds
    <2>2. CASE ~passes
      <3>1. blocked' \subseteq CampaignRows
        BY <1>1, <1>3, <2>2 DEF Gate, TypeParts
      <3> QED BY <1>1, <1>3, <2>2, <3>1, TurnAwayKeepsCampaign DEF Gate
    <2> QED BY <2>1, <2>2
  <1> QED BY <1>3 DEF AmountGate, EscrowGate, FundsGate

LEMMA LeaveGatesKeepsCampaign ==
  ASSUME CampaignInv, NEW d \in CampaignRows,
         PassGates(d) \/ RestRefuses(d) \/ PreflightThrows(d)
  PROVE  CampaignInv'
  <1>1. TypeParts
    BY TypeOKIsTypeParts DEF CampaignInv
  <1>2. phase[d] # NoRow
    BY PhasesDiffer
    DEF CampaignInv, CallsHaveRows, PassGates, RestRefuses, PreflightThrows
  <1>3. CASE PassGates(d)
    BY <1>1, <1>2, <1>3, PhasesDiffer, RowStepKeepsCampaign
    DEF PassGates, Become, GateTo, TypeParts, Phases, GatePlaces, PastFunds
  <1>4. CASE RestRefuses(d)
    BY <1>1, <1>4, TurnAwayKeepsCampaign DEF RestRefuses, TypeParts
  <1>5. CASE PreflightThrows(d)
    BY <1>1, <1>2, <1>5, PhasesDiffer, RowStepKeepsCampaign
    DEF PreflightThrows, Become, GateTo, TypeParts, Phases, GatePlaces
  <1> QED BY <1>3, <1>4, <1>5

LEMMA CampaignStepKeepsInv ==
  CampaignInv /\ [CampaignNext]_campaignVars => CampaignInv'
  <1> SUFFICES ASSUME CampaignInv, [CampaignNext]_campaignVars PROVE CampaignInv'
    OBVIOUS
  <1>1. CASE UNCHANGED campaignVars
    <2>1. TypeParts' <=> TypeParts
      BY <1>1 DEF TypeParts, MadeRows, campaignVars
    <2>2. CampaignTypeOK'
      BY <2>1, TypeOKIsTypeParts, TypeOKIsTypePartsPrimed DEF CampaignInv
    <2>3. CallsHaveRows' /\ OnePastFunds'
      BY <1>1 DEF CampaignInv, CallsHaveRows, OnePastFunds, PastFunds, campaignVars
    <2> QED BY <2>2, <2>3 DEF CampaignInv
  <1>2. CASE CampaignNext
    BY <1>2, CreateKeepsCampaign, BeginKeepsCampaign, GateKeepsCampaign, LeaveGatesKeepsCampaign
    DEF CampaignNext
  <1> QED BY <1>1, <1>2

LEMMA CampaignInvariant == CampaignSpec => []CampaignInv
  BY CampaignInitInv, CampaignStepKeepsInv, PTL DEF CampaignSpec

(* amount_usdcx summed over the campaign is the sum of its rows, each of   *)
(* them once, however creations and calls interleave (initiateDisbursement,*)
(* attributableFunds).                                                     *)
THEOREM CampaignTypeCorrect == CampaignSpec => []CampaignTypeOK
  BY CampaignInvariant, PTL DEF CampaignInv

(* Rows created and judged in any order, the preflight of one between the  *)
(* gates of another: the funds gate lets one row of a campaign be paid at  *)
(* most (attributableFunds, beneficiaryPayload).                           *)
THEOREM CampaignPaysOneRow == CampaignSpec => []OnePaidPerCampaign
  <1>1. CampaignInv => OnePaidPerCampaign
    BY DEF CampaignInv, OnePastFunds, PastFunds, OnePaidPerCampaign
  <1> QED BY <1>1, CampaignInvariant, PTL

----------------------------------------------------------------------------
(* The gates before the burn and those before the payout.                  *)

(* What the gates have found of a row in status s that is at gate g, and   *)
(* find again as long as its campaign is what it was.                      *)
Passed(d, s, g) ==
  /\ s = ReleaseConfirmed \/ g \in {"escrow", "funds", "rest"} => WithinTolerance(d)
  /\ s = ReleaseConfirmed \/ g \in {"funds", "rest"} => InEscrow(d)
  /\ s = ReleaseConfirmed \/ g = "rest" => FundsMatch(d) /\ PayloadComplete(d)

(* That a row blocked from its payout has grown is not inductive: why a row*)
(* that has not grown passes every gate again must be known of it from its *)
(* preflight on, gate by gate.                                             *)
StillPass == \A d \in CampaignRows \ grown : Passed(d, phase[d], gateAt[d])

BlockedHaveBurned ==
  \A d \in blocked : d \in grown /\ phase[d] \in {ReleaseConfirmed, PayoutSubmitted}

GrowthInv == StillPass /\ BlockedHaveBurned

(* Others as a function of the rows made: equal rows made have equal others*)
(* now and after a step.                                                   *)
OthersIn(s, d) == SelectSeq(s, LAMBDA e : e # d)
OthersAreIn == \A d \in CampaignRows : Others(d) = OthersIn(made, d)

LEMMA OthersAreInAlways == OthersAreIn /\ OthersAreIn'
  <1>1. OthersAreIn
    BY DEF OthersAreIn, Others, OthersIn
  <1> QED BY <1>1, PTL

(* What the gates say changes only with the campaign.                      *)
LEMMA GatesAgree ==
  ASSUME UNCHANGED <<made, funded>>, NEW d \in CampaignRows
  PROVE  /\ WithinTolerance(d)' <=> WithinTolerance(d)
         /\ InEscrow(d)' <=> InEscrow(d)
         /\ FundsMatch(d)' <=> FundsMatch(d)
         /\ PayloadComplete(d)' <=> PayloadComplete(d)
  <1>1. Others(d)' = Others(d)
    BY OthersAreInAlways DEF OthersAreIn
  <1> QED BY <1>1 DEF WithinTolerance, InEscrow, FundsMatch, PayloadComplete

LEMMA StillPassPrimed ==
  ASSUME UNCHANGED <<made, funded>>,
         \A d \in CampaignRows \ grown' : Passed(d, phase'[d], gateAt'[d])
  PROVE  StillPass'
  <1> SUFFICES ASSUME NEW d \in CampaignRows \ grown'
               PROVE  Passed(d, phase[d], gateAt[d])'
    BY DEF StillPass
  <1>1. Passed(d, phase'[d], gateAt'[d])
    OBVIOUS
  <1> QED BY <1>1, GatesAgree DEF Passed

(* A step of the call on row d, the campaign as it was.                    *)
LEMMA RowStepKeepsGrowth ==
  ASSUME CampaignInv, GrowthInv, NEW d \in CampaignRows, NEW s, NEW g,
         UNCHANGED <<made, funded>>,
         phase' = [phase EXCEPT ![d] = s], gateAt' = [gateAt EXCEPT ![d] = g],
         \/ grown' = grown /\ (d \in blocked' => s \in {ReleaseConfirmed, PayoutSubmitted})
         \/ grown' = grown \ {d} /\ d \notin blocked,
         d \notin grown' => Passed(d, s, g),
         blocked' \subseteq blocked \cup (grown' \cap {d})
  PROVE  GrowthInv'
  <1>1. TypeParts
    BY TypeOKIsTypeParts DEF CampaignInv
  <1>2. /\ phase'[d] = s /\ gateAt'[d] = g
        /\ \A e \in CampaignRows \ {d} : phase'[e] = phase[e] /\ gateAt'[e] = gateAt[e]
    BY <1>1 DEF TypeParts
  <1>3. ASSUME NEW e \in CampaignRows \ grown'
        PROVE  Passed(e, phase'[e], gateAt'[e])
    BY <1>2, <1>3 DEF GrowthInv, StillPass
  <1>4. StillPass'
    BY <1>3, StillPassPrimed
  <1>5. BlockedHaveBurned'
    BY <1>1, <1>2 DEF GrowthInv, BlockedHaveBurned, TypeParts
  <1> QED BY <1>4, <1>5 DEF GrowthInv

(* A row whose preflight has begun when another is created has grown; one  *)
(* whose preflight has not is at no gate yet.                              *)
LEMMA CreateKeepsGrowth ==
  ASSUME CampaignInv, GrowthInv, NEW d \in CampaignRows, CreateRow(d)
  PROVE  GrowthInv'
  <1>1. TypeParts
    BY TypeOKIsTypeParts DEF CampaignInv
  <1>2. /\ phase' = [phase EXCEPT ![d] = Initiated] /\ phase[d] = NoRow
        /\ gateAt' = gateAt /\ blocked' = blocked
        /\ grown' = {e \in CampaignRows : phase[e] \notin {NoRow, Initiated}} \cup grown
    BY DEF CreateRow, Become
  <1>3. ASSUME NEW e \in CampaignRows \ grown'
        PROVE  Passed(e, phase[e], gateAt[e])'
    <2>1. phase[e] \in {NoRow, Initiated}
      BY <1>2
    <2>2. gateAt'[e] = NoGate
      BY <1>2, <2>1, PhasesDiffer DEF CampaignInv, CallsHaveRows
    <2>3. phase'[e] # ReleaseConfirmed
      BY <1>1, <1>2, <2>1, PhasesDiffer DEF TypeParts
    <2> QED BY <2>2, <2>3, PhasesDiffer DEF Passed
  <1>4. StillPass'
    BY <1>3 DEF StillPass
  <1>5. BlockedHaveBurned'
    BY <1>1, <1>2, PhasesDiffer DEF GrowthInv, BlockedHaveBurned, TypeParts
  <1> QED BY <1>4, <1>5 DEF GrowthInv

LEMMA BeginKeepsGrowth ==
  ASSUME CampaignInv, GrowthInv, NEW d \in CampaignRows, BeginPreflight(d) \/ BeginGuard(d)
  PROVE  GrowthInv'
  <1>1. TypeParts
    BY TypeOKIsTypeParts DEF CampaignInv
  <1>2. CASE BeginPreflight(d)
    <2>1. phase[d] = Initiated /\ gateAt[d] = NoGate /\ d \notin blocked
      BY <1>2, PhasesDiffer
      DEF BeginPreflight, CampaignInv, CallsHaveRows, GrowthInv, BlockedHaveBurned
    <2>2. gateAt' = [gateAt EXCEPT ![d] = "tolerance"] \/ gateAt' = [gateAt EXCEPT ![d] = NoGate]
      BY <1>1, <1>2, <2>1 DEF BeginPreflight, GateTo, TypeParts
    <2>3. \/ phase' = [phase EXCEPT ![d] = Preflight]
          \/ phase' = [phase EXCEPT ![d] = ManualReview]
      BY <1>2 DEF BeginPreflight, Become
    <2>4. \A s \in {Preflight, ManualReview}, g \in {NoGate, "tolerance"} : Passed(d, s, g)
      BY PhasesDiffer DEF Passed
    <2>5. UNCHANGED <<made, funded, blocked>> /\ grown' = grown \ {d}
      BY <1>2 DEF BeginPreflight
    <2> QED BY <2>1, <2>2, <2>3, <2>4, <2>5, RowStepKeepsGrowth
  <1>3. CASE BeginGuard(d)
    <2>1. phase[d] = ReleaseConfirmed /\ phase' = [phase EXCEPT ![d] = ReleaseConfirmed]
          /\ gateAt' = [gateAt EXCEPT ![d] = "tolerance"]
      BY <1>1, <1>3 DEF BeginGuard, GateTo, Paying, TypeParts
    <2>2. d \notin grown => Passed(d, ReleaseConfirmed, "tolerance")
      BY <2>1 DEF Passed, GrowthInv, StillPass
    <2>3. UNCHANGED <<made, funded, grown, blocked>>
      BY <1>3 DEF BeginGuard
    <2> QED BY <2>1, <2>2, <2>3, RowStepKeepsGrowth
  <1> QED BY <1>2, <1>3

LEMMA TurnAwayKeepsGrowth ==
  ASSUME CampaignInv, GrowthInv, NEW d \in CampaignRows, gateAt[d] # NoGate, TurnAway(d),
         UNCHANGED <<made, funded, grown>>,
         blocked' = blocked \/ (Paying(d) /\ d \in grown /\ blocked' = blocked \cup {d})
  PROVE  GrowthInv'
  <1>1. TypeParts /\ phase[d] \in {Preflight, ReleaseConfirmed}
    BY TypeOKIsTypeParts DEF CampaignInv, CallsHaveRows
  <1>2. gateAt' = [gateAt EXCEPT ![d] = NoGate]
    BY DEF TurnAway, GateTo
  <1>3. CASE Paying(d)
    <2>1. phase[d] = ReleaseConfirmed /\ phase' = [phase EXCEPT ![d] = ReleaseConfirmed]
      BY <1>1, <1>3 DEF TurnAway, Paying, TypeParts
    <2>2. d \notin grown => Passed(d, ReleaseConfirmed, NoGate)
      BY <2>1, PhasesDiffer DEF Passed, GrowthInv, StillPass
    <2> QED BY <1>2, <2>1, <2>2, RowStepKeepsGrowth
  <1>4. CASE ~Paying(d)
    <2>1. phase' = [phase EXCEPT ![d] = ManualReview] /\ blocked' = blocked
      BY <1>4 DEF TurnAway, Become
    <2>2. d \notin blocked
      BY <1>1, <1>4, PhasesDiffer DEF Paying, GrowthInv, BlockedHaveBurned
    <2>3. Passed(d, ManualReview, NoGate)
      BY PhasesDiffer DEF Passed
    <2> QED BY <1>2, <2>1, <2>2, <2>3, RowStepKeepsGrowth
  <1> QED BY <1>3, <1>4

LEMMA GateKeepsGrowth ==
  ASSUME CampaignInv, GrowthInv, NEW d \in CampaignRows,
         AmountGate(d) \/ EscrowGate(d) \/ FundsGate(d)
  PROVE  GrowthInv'
  <1>1. TypeParts /\ gateAt[d] # NoGate
    BY TypeOKIsTypeParts, PhasesDiffer
    DEF CampaignInv, AmountGate, EscrowGate, FundsGate, Gate
  <1>2. phase[d] \in {Preflight, ReleaseConfirmed}
    BY <1>1 DEF CampaignInv, CallsHaveRows
  <1>3. d \notin grown => Passed(d, phase[d], gateAt[d])
    BY DEF GrowthInv, StillPass
  <1>4. ASSUME NEW gate, NEW passes \in BOOLEAN, NEW next, Gate(d, gate, passes, next),
               passes /\ d \notin grown => Passed(d, phase[d], next),
               Paying(d) /\ d \notin grown => passes
        PROVE  GrowthInv'
    <2>1. UNCHANGED <<made, funded, grown>>
      BY <1>4 DEF Gate
    <2>2. CASE passes
      <3>1. phase' = [phase EXCEPT ![d] = phase[d]] /\ gateAt' = [gateAt EXCEPT ![d] = next]
            /\ blocked' = blocked
        BY <1>1, <1>4, <2>2 DEF Gate, GateTo, TypeParts
      <3>2. d \in blocked => phase[d] \in {ReleaseConfirmed, PayoutSubmitted}
        BY DEF GrowthInv, BlockedHaveBurned
      <3> QED BY <1>4, <2>1, <2>2, <3>1, <3>2, RowStepKeepsGrowth
    <2>3. CASE ~passes
      <3>1. TurnAway(d) /\ blocked' = IF Paying(d) THEN blocked \cup {d} ELSE blocked
        BY <1>4, <2>3 DEF Gate
      <3> QED BY <1>1, <1>4, <2>1, <2>3, <3>1, TurnAwayKeepsGrowth
    <2> QED BY <2>2, <2>3
  <1>5. CASE AmountGate(d)
    <2>1. Gate(d, "tolerance", WithinTolerance(d), "escrow") /\ gateAt[d] = "tolerance"
      BY <1>5 DEF AmountGate, Gate
    <2>2. WithinTolerance(d) \in BOOLEAN
      BY DEF WithinTolerance
    <2>3. WithinTolerance(d) /\ d \notin grown => Passed(d, phase[d], "escrow")
      BY <1>3 DEF Passed
    <2>4. Paying(d) /\ d \notin grown => WithinTolerance(d)
      BY <1>3 DEF Passed, Paying
    <2> QED BY <1>4, <2>1, <2>2, <2>3, <2>4
  <1>6. CASE EscrowGate(d)
    <2>1. Gate(d, "escrow", InEscrow(d), "funds") /\ gateAt[d] = "escrow"
      BY <1>6 DEF EscrowGate, Gate
    <2>2. InEscrow(d) \in BOOLEAN
      BY DEF InEscrow
    <2>3. InEscrow(d) /\ d \notin grown => Passed(d, phase[d], "funds")
      BY <1>3, <2>1 DEF Passed
    <2>4. Paying(d) /\ d \notin grown => InEscrow(d)
      BY <1>3 DEF Passed, Paying
    <2> QED BY <1>4, <2>1, <2>2, <2>3, <2>4
  <1>7. CASE FundsGate(d)
    <2>1. Gate(d, "funds", FundsMatch(d) /\ PayloadComplete(d), "rest") /\ gateAt[d] = "funds"
      BY <1>7 DEF FundsGate, Gate
    <2>2. (FundsMatch(d) /\ PayloadComplete(d)) \in BOOLEAN
      OBVIOUS
    <2>3. FundsMatch(d) /\ PayloadComplete(d) /\ d \notin grown => Passed(d, phase[d], "rest")
      BY <1>3, <2>1 DEF Passed
    <2>4. Paying(d) /\ d \notin grown => FundsMatch(d) /\ PayloadComplete(d)
      BY <1>3 DEF Passed, Paying
    <2> QED BY <1>4, <2>1, <2>2, <2>3, <2>4
  <1> QED BY <1>5, <1>6, <1>7

LEMMA LeaveGatesKeepsGrowth ==
  ASSUME CampaignInv, GrowthInv, NEW d \in CampaignRows,
         PassGates(d) \/ RestRefuses(d) \/ PreflightThrows(d)
  PROVE  GrowthInv'
  <1>1. TypeParts
    BY TypeOKIsTypeParts DEF CampaignInv
  <1>2. d \notin grown => Passed(d, phase[d], gateAt[d])
    BY DEF GrowthInv, StillPass
  <1>3. CASE PassGates(d)
    <2>1. gateAt[d] = "rest" /\ gateAt' = [gateAt EXCEPT ![d] = NoGate]
          /\ UNCHANGED <<made, funded, grown, blocked>>
      BY <1>3 DEF PassGates, GateTo
    <2>2. \/ phase' = [phase EXCEPT ![d] = PayoutSubmitted]
          \/ phase' = [phase EXCEPT ![d] = ReleaseConfirmed]
      BY <1>3 DEF PassGates, Become
    <2>3. d \notin grown => /\ Passed(d, PayoutSubmitted, NoGate)
                           /\ Passed(d, ReleaseConfirmed, NoGate)
      BY <1>2, <2>1, PhasesDiffer DEF Passed
    <2> QED BY <2>1, <2>2, <2>3, RowStepKeepsGrowth
  <1>4. CASE RestRefuses(d)
    BY <1>4, TurnAwayKeepsGrowth DEF RestRefuses
  <1>5. CASE PreflightThrows(d)
    <2>1. gateAt' = [gateAt EXCEPT ![d] = NoGate] /\ phase' = [phase EXCEPT ![d] = Initiated]
          /\ UNCHANGED <<made, funded, grown, blocked>>
      BY <1>5 DEF PreflightThrows, GateTo, Become
    <2>2. gateAt[d] # NoGate /\ phase[d] # ReleaseConfirmed
      BY <1>5, PhasesDiffer DEF PreflightThrows, Paying
    <2>3. d \notin blocked
      BY <2>2, PhasesDiffer DEF CampaignInv, CallsHaveRows, GrowthInv, BlockedHaveBurned
    <2>4. Passed(d, Initiated, NoGate)
      BY PhasesDiffer DEF Passed
    <2> QED BY <2>1, <2>3, <2>4, RowStepKeepsGrowth
  <1> QED BY <1>3, <1>4, <1>5

LEMMA CampaignStepKeepsGrowth ==
  CampaignInv /\ GrowthInv /\ [CampaignNext]_campaignVars => GrowthInv'
  <1> SUFFICES ASSUME CampaignInv, GrowthInv, [CampaignNext]_campaignVars PROVE GrowthInv'
    OBVIOUS
  <1>1. CASE UNCHANGED campaignVars
    <2>1. UNCHANGED <<made, funded, phase, gateAt, grown, blocked>>
      BY <1>1 DEF campaignVars
    <2>2. \A d \in CampaignRows \ grown' : Passed(d, phase'[d], gateAt'[d])
      BY <2>1 DEF GrowthInv, StillPass
    <2>3. StillPass'
      BY <2>1, <2>2, StillPassPrimed
    <2>4. BlockedHaveBurned'
      BY <2>1 DEF GrowthInv, BlockedHaveBurned
    <2> QED BY <2>3, <2>4 DEF GrowthInv
  <1>2. CASE CampaignNext
    BY <1>2, CreateKeepsGrowth, BeginKeepsGrowth, GateKeepsGrowth, LeaveGatesKeepsGrowth
    DEF CampaignNext
  <1> QED BY <1>1, <1>2

(* A row that passed the gates in its preflight is turned away by them from*)
(* its payout, after its burn, only when a row was added to its campaign in*)
(* between (preflight, destinationReleasedForPayout).                      *)
THEOREM OnlyGrowthBlocks == CampaignSpec => []BlockedOnlyByGrowth
  <1>1. CampaignInit => GrowthInv
    BY PhasesDiffer DEF CampaignInit, GrowthInv, StillPass, Passed, BlockedHaveBurned
  <1>2. GrowthInv => BlockedOnlyByGrowth
    BY DEF GrowthInv, BlockedHaveBurned, BlockedOnlyByGrowth
  <1> QED BY <1>1, <1>2, CampaignStepKeepsGrowth, CampaignInvariant, PTL DEF CampaignSpec
=============================================================================
