---------------------------- MODULE ExternalWorld ----------------------------
(***************************************************************************)
(* The systems outside the repository, as its adapters use them, for one   *)
(* disbursement: the Stacks chain that mines burns, the settlement process *)
(* whose release xReserve reports, and the payout provider.                *)
(*                                                                         *)
(* A broadcast always creates a new burn: StacksAdapter.burnUsdcx receives *)
(* an idempotencyKey and ignores it.  A send is keyed: submitting the same *)
(* key again returns the existing send.                                    *)
(***************************************************************************)
EXTENDS Naturals, Lifecycle

CONSTANT MaxBurns   \* bound: how many broadcasts are explored

ASSUME MaxBurnsAssumption == MaxBurns \in Nat \ {0}

VARIABLES chain,    \* tx_status of the n-th burn
          burns,    \* how many burns have been broadcast
          surface,  \* what observeDestinationRelease answers
          send      \* status of the payout under key payout:<id>

worldVars == <<chain, burns, surface, send>>

Burns == 1 .. MaxBurns
NoTx  == 0

WorldTypeOK ==
  /\ chain \in [Burns -> {"none", "pending", "success", "failed"}]
  /\ burns \in 0 .. MaxBurns
  /\ surface \in ReleaseStatuses
  /\ send \in {"none", "pending", "completed", "failed"}

WorldInit ==
  /\ chain = [k \in Burns |-> "none"]
  /\ burns = 0
  /\ surface = Unobserved
  /\ send = "none"

Mined(k) == k \in Burns /\ chain[k] = "success"

(* Calls the adapters make.                                                *)
Broadcast ==
  /\ burns < MaxBurns
  /\ burns' = burns + 1
  /\ chain' = [chain EXCEPT ![burns + 1] = "pending"]
  /\ UNCHANGED <<surface, send>>

SubmitSend ==
  /\ send' = IF send = "none" THEN "pending" ELSE send
  /\ UNCHANGED <<chain, burns, surface>>

(* Moves of the world on its own.                                          *)
MineBurn(k) ==
  /\ chain[k] = "pending"
  /\ \E outcome \in {"success", "failed"} :
       chain' = [chain EXCEPT ![k] = outcome]
  /\ UNCHANGED <<burns, surface, send>>

(* The release follows a mined burn; once confirmed or failed it is final. *)
SettleRelease ==
  /\ surface \in {Unobserved, Pending}
  /\ \E k \in Burns : Mined(k)
  /\ surface' \in {Pending, Confirmed, Rejected}
  /\ UNCHANGED <<chain, burns, send>>

FinishSend ==
  /\ send = "pending"
  /\ send' \in {"completed", "failed"}
  /\ UNCHANGED <<chain, burns, surface>>

WorldMoves == \/ \E k \in Burns : MineBurn(k)
              \/ SettleRelease
              \/ FinishSend
=============================================================================
