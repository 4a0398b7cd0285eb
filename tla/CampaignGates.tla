--------------------------- MODULE CampaignGates ----------------------------
(***************************************************************************)
(* The gates of payoutGates.js that compare a disbursement with the other  *)
(* rows of its source_reference, over the rows of one campaign: they run   *)
(* in the preflight before the burn (preflight.js) and once more in the    *)
(* guard of the payout, query by query while further rows are created.     *)
(*                                                                         *)
(* The circuit breaker, the daily cap, the whitelist and the approvals say *)
(* yes or no here (CircuitBreaker and PayoutGates have them); one step     *)
(* leads from the preflight to destination_release_confirmed; and one call *)
(* at a time works on a row (PayoutRail has its races).                    *)
(***************************************************************************)
EXTENDS Lifecycle, Integers, FiniteSets, SequencesExt

CONSTANTS CampaignRows,
          Usd,      \* amount_usd of each row
          Usdcx,    \* amount_usdcx of each row
          RowCap    \* BOS_MAX_PER_DISBURSEMENT_USD, 0 when unset

ASSUME CampaignAssumption ==
  /\ IsFiniteSet(CampaignRows)
  /\ Usd \in [CampaignRows -> Nat] /\ Usdcx \in [CampaignRows -> Nat]
  /\ RowCap \in Nat

VARIABLES
  made,     \* the rows in the order of created_at; none is ever deleted
  funded,   \* SUM(amount_usdcx) over them, whatever their status
  phase,    \* status of each row
  gateAt,   \* the next gate of the call that works on each row
  grown,    \* history: rows whose campaign grew since their preflight began
  blocked   \* history: rows these gates turned away from their payout

campaignVars == <<made, funded, phase, gateAt, grown, blocked>>

NoRow == "absent"
NoGate == "none"

CampaignInit ==
  /\ made = <<>>
  /\ funded = 0
  /\ phase = [d \in CampaignRows |-> NoRow]
  /\ gateAt = [d \in CampaignRows |-> NoGate]
  /\ grown = {}
  /\ blocked = {}

----------------------------------------------------------------------------
(* What the gates say of a row.                                            *)

(* perDisbursementCap.                                                     *)
WithinCap(d) == RowCap = 0 \/ Usd[d] \in 1 .. RowCap

Others(d) == SelectSeq(made, LAMBDA e : e # d)

(* amountTolerance: within two percent of the campaign's latest other row, *)
(* whatever its status; passed when there is none or it is worth nothing.  *)
WithinTolerance(d) ==
  /\ Usd[d] > 0
  /\ \/ Others(d) = <<>>
     \/ LET expected == Usd[Last(Others(d))]
            gap == IF Usd[d] > expected THEN Usd[d] - expected
                                        ELSE expected - Usd[d]
        IN  expected > 0 => 100 * gap <= 2 * expected

(* Slip: the preflight does not look for the campaign.                     *)
InEscrowWhenPaying(d) == phase[d] = Preflight \/ Others(d) # <<>>

(* attributableFunds, first query: some other row of the campaign.         *)
InEscrow(d) == Others(d) # <<>>

(* Slip: the campaign need only cover the row.                             *)
FundsSuffice(d) == funded >= Usdcx[d]

(* attributableFunds, last query: the campaign's rows, this one among      *)
(* them, add up to this one.                                               *)
FundsMatch(d) == /\ funded >= Usdcx[d]
                 /\ funded > 0 => funded = Usdcx[d]

(* beneficiaryPayload.                                                     *)
PayloadComplete(d) == Usdcx[d] > 0

----------------------------------------------------------------------------

GateTo(d, gate) == gateAt' = [gateAt EXCEPT ![d] = gate]
Become(d, s) == phase' = [phase EXCEPT ![d] = s]

Paying(d) == phase[d] = ReleaseConfirmed

(* A failed preflight leads to manual review; a row whose payout guard     *)
(* fails stays where it is.                                                *)
TurnAway(d) ==
  /\ GateTo(d, NoGate)
  /\ IF Paying(d) THEN UNCHANGED phase ELSE Become(d, ManualReview)

(* Slip: the sum stays what it was.                                        *)
CreateUncounted(d) ==
  /\ phase[d] = NoRow
  /\ Become(d, Initiated)
  /\ made' = Append(made, d)
  /\ grown' = {e \in CampaignRows : phase[e] \notin {NoRow, Initiated}}
                \cup grown
  /\ UNCHANGED <<funded, gateAt, blocked>>

(* initiateDisbursement's insert.                                          *)
CreateRow(d) ==
  /\ phase[d] = NoRow
  /\ Become(d, Initiated)
  /\ made' = Append(made, d)
  /\ funded' = funded + Usdcx[d]
  /\ grown' = {e \in CampaignRows : phase[e] \notin {NoRow, Initiated}}
                \cup grown
  /\ UNCHANGED <<gateAt, blocked>>

(* The preflight's claim, the breaker's check, the cap on the row and the  *)
(* daily cap.                                                              *)
BeginPreflight(d) ==
  /\ phase[d] = Initiated
  /\ \/ WithinCap(d) /\ Become(d, Preflight) /\ GateTo(d, "tolerance")
     \/ Become(d, ManualReview) /\ UNCHANGED gateAt
  /\ grown' = grown \ {d}
  /\ UNCHANGED <<made, funded, blocked>>

(* The payout's guard, up to the daily cap.                                *)
BeginGuard(d) ==
  /\ Paying(d) /\ gateAt[d] = NoGate
  /\ WithinCap(d)
  /\ GateTo(d, "tolerance")
  /\ UNCHANGED <<made, funded, phase, grown, blocked>>

Gate(d, gate, passes, next) ==
  /\ gateAt[d] = gate
  /\ IF passes
       THEN GateTo(d, next) /\ UNCHANGED <<phase, blocked>>
       ELSE /\ TurnAway(d)
            /\ blocked' = IF Paying(d) THEN blocked \cup {d} ELSE blocked
  /\ UNCHANGED <<made, funded, grown>>

AmountGate(d) == Gate(d, "tolerance", WithinTolerance(d), "escrow")
EscrowGate(d) == Gate(d, "escrow", InEscrow(d), "funds")
FundsGate(d) == Gate(d, "funds", FundsMatch(d) /\ PayloadComplete(d), "rest")

(* The whitelist and the approvals accept, and the row moves on: through   *)
(* the burn and the release, or into its payout.                           *)
PassGates(d) ==
  /\ gateAt[d] = "rest"
  /\ GateTo(d, NoGate)
  /\ Become(d, IF Paying(d) THEN PayoutSubmitted ELSE ReleaseConfirmed)
  /\ UNCHANGED <<made, funded, grown, blocked>>

(* They refuse, or one of the gates' queries fails.                        *)
RestRefuses(d) ==
  /\ gateAt[d] # NoGate
  /\ TurnAway(d)
  /\ UNCHANGED <<made, funded, grown, blocked>>

(* The verdict cannot be recorded: the claim of the preflight is rolled    *)
(* back.                                                                   *)
PreflightThrows(d) ==
  /\ gateAt[d] = "rest" /\ ~Paying(d)
  /\ GateTo(d, NoGate)
  /\ Become(d, Initiated)
  /\ UNCHANGED <<made, funded, grown, blocked>>

----------------------------------------------------------------------------

CampaignNext ==
  \E d \in CampaignRows :
    \/ CreateRow(d) \/ BeginPreflight(d) \/ BeginGuard(d)
    \/ AmountGate(d) \/ EscrowGate(d) \/ FundsGate(d)
    \/ PassGates(d) \/ RestRefuses(d) \/ PreflightThrows(d)

CampaignSpec == CampaignInit /\ [][CampaignNext]_campaignVars

----------------------------------------------------------------------------

(* The sum is that of the rows made, each of them once.                    *)
CampaignTypeOK ==
  /\ made \in Seq(CampaignRows)
  /\ Range(made) = {d \in CampaignRows : phase[d] # NoRow}
  /\ Len(made) = Cardinality(Range(made))
  /\ funded = MapThenSumSet(LAMBDA d : Usdcx[d], Range(made))
  /\ phase \in [CampaignRows -> {NoRow, Initiated, Preflight,
                                 ReleaseConfirmed, PayoutSubmitted,
                                 ManualReview}]
  /\ gateAt \in [CampaignRows -> {NoGate, "tolerance", "escrow", "funds", "rest"}]
  /\ grown \subseteq CampaignRows /\ blocked \subseteq CampaignRows

(* A campaign pays one row at most, in whatever order its rows are created *)
(* and judged: the sum of the row paid holds the amounts of all the others *)
(* (attributableFunds, beneficiaryPayload).                                *)
OnePaidPerCampaign ==
  \A d, e \in CampaignRows :
    phase[d] = PayoutSubmitted /\ phase[e] = PayoutSubmitted => d = e

(* The gates that run before the burn and again before the payout disagree *)
(* only about a row whose campaign grew in between                         *)
(* (destinationReleasedForPayout).                                         *)
BlockedOnlyByGrowth == blocked \subseteq grown
=============================================================================
