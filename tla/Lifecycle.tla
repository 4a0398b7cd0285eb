------------------------------ MODULE Lifecycle ------------------------------
(***************************************************************************)
(* The states of a disbursement and the transition table of the settlement *)
(* state machine (types.js, stateMachine.js): which pairs of states may be *)
(* attempted at all, and which successor `advance' tries.  The guards and  *)
(* the side effects of the table's entries are in TransitionEngine.        *)
(***************************************************************************)

----------------------------------------------------------------------------
(* The fifteen values of DisbursementState.                                *)

Initiated            == "disbursement_initiated"
Preflight            == "preflight_check"
BurnSubmitted        == "burn_submitted"
BurnConfirmed        == "burn_confirmed"
AttestationRequested == "attestation_requested"
AttestationConfirmed == "attestation_confirmed"
ReleaseUnobserved    == "destination_release_unobserved"
ReleaseObserved      == "destination_release_observed"
ReleaseConfirmed     == "destination_release_confirmed"
PayoutSubmitted      == "yellowcard_payout_submitted"
PayoutConfirmed      == "yellowcard_payout_confirmed"
Settled              == "settled"
Failed               == "failed"
Cancelled            == "cancelled"
ManualReview         == "manual_review"

(* States before any USDCx has been burned.                                *)
BeforeBurn == {Initiated, Preflight}

(* The states in which a destination release is being watched.             *)
Observing == {ReleaseUnobserved, ReleaseObserved}

Terminal == {Settled, Failed, Cancelled}

(* What the pipeline worker scans: neither terminal nor manual review.     *)
PipelineStates ==
  BeforeBurn \cup Observing \cup
    {BurnSubmitted, BurnConfirmed, AttestationRequested, AttestationConfirmed,
     ReleaseConfirmed, PayoutSubmitted, PayoutConfirmed}

NonTerminal == PipelineStates \cup {ManualReview}

States == NonTerminal \cup Terminal

(* Slip: a burn that waits to be mined has no SLA.                         *)
SlaStatesAfterBurn ==
  PipelineStates \ (BeforeBurn \cup {BurnSubmitted, PayoutConfirmed})

(* The states with an SLA, the only ones the reaper looks at.  There is    *)
(* none for initiated, preflight_check and yellowcard_payout_confirmed.    *)
SlaStates == PipelineStates \ (BeforeBurn \cup {PayoutConfirmed})

----------------------------------------------------------------------------
(* The forward chain: the entry registered first for each pipeline state,  *)
(* which is the one advanceDisbursement picks.                             *)
Forward == {<<Initiated, Preflight>>,
            <<Preflight, BurnSubmitted>>,
            <<BurnSubmitted, BurnConfirmed>>,
            <<BurnConfirmed, AttestationRequested>>,
            <<AttestationRequested, AttestationConfirmed>>,
            <<AttestationConfirmed, ReleaseUnobserved>>,
            <<ReleaseUnobserved, ReleaseObserved>>,
            <<ReleaseObserved, ReleaseConfirmed>>,
            <<ReleaseConfirmed, PayoutSubmitted>>,
            <<PayoutSubmitted, PayoutConfirmed>>,
            <<PayoutConfirmed, Settled>>}

(* Every key of TRANSITIONS.  The loop over GENERIC_TERMINAL_TARGETS adds  *)
(* failed, cancelled and manual_review to every state that is not          *)
(* terminal, manual_review -> manual_review included.                      *)
Edges ==
  Forward \cup {<<ManualReview, Settled>>}
          \cup (NonTerminal \X {Failed, Cancelled, ManualReview})

(* The candidate advanceDisbursement attempts.  For manual_review the      *)
(* first entry of the table is failed.                                     *)
NextOf == [s \in NonTerminal |->
             IF s = ManualReview THEN Failed
             ELSE CHOOSE t \in States : <<s, t>> \in Forward]

(* States whose edge to failed carries the guard withinRetryBudget.        *)
BudgetGuarded ==
  {BurnSubmitted, BurnConfirmed, AttestationRequested, AttestationConfirmed,
   ReleaseConfirmed, PayoutSubmitted}

(* Values of release_status; the column is null until first written.       *)
Unobserved == "unobserved"
Pending    == "observed_pending"
Confirmed  == "observed_confirmed"
Rejected   == "observed_failed"
NoRelease  == "null"
ReleaseStatuses == {Unobserved, Pending, Confirmed, Rejected}
=============================================================================
