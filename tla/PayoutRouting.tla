---------------------------- MODULE PayoutRouting ----------------------------
(***************************************************************************)
(* The payout leg of one disbursement over the choice of its provider      *)
(* (bridgeAdapterFactory.js): several processes, each with the             *)
(* PAYOUT_PROVIDER it was started with, submit the payout, keep the id the *)
(* provider gave under the provider's name, and confirm it later, perhaps  *)
(* after a restart under another setting.                                  *)
(*                                                                         *)
(* The claim and the roll back are those of TransitionEngine; the gates,   *)
(* the retries and the escalations of the leg are left to PayoutRail.      *)
(***************************************************************************)
EXTENDS Lifecycle, Naturals, FiniteSets

CONSTANTS Processes,
          Settings,    \* values PAYOUT_PROVIDER takes over the deployments
          MaxBoots,    \* bound: process starts explored
          MaxLegFaults \* bound: failing calls explored

ASSUME RoutingAssumption ==
  /\ IsFiniteSet(Processes)
  /\ MaxBoots \in Nat /\ MaxLegFaults \in Nat

VARIABLES
  leg,      \* disbursements.status, from destination_release_confirmed on
  env,      \* PAYOUT_PROVIDER of each process, Down when it is not running
  used,     \* history: the settings processes were started with
  sends,    \* status at each provider of the send under key payout:<id>
  ref,      \* external_refs payout_id by external_system: who gave the id
  at,       \* where each process is in its call
  boots, legFaults,
  lost      \* history: sends whose call was then rolled back

legVars == <<leg, sends, ref>>
processVars == <<env, used, boots>>
routingVars == <<legVars, processVars, at, legFaults, lost>>

----------------------------------------------------------------------------
(* The choice of the provider.                                             *)

Providers == {"yellowcard", "breet"}
Down == "down"

(* PAYOUT_LEGS: the flutterwave adapter serves no bank payout.             *)
Serves(name) == name \in Providers

(* resolvePayoutProvider trims and lowers the case before it looks the     *)
(* name up; anything unknown is yellowcard.  " Breet" stands for any such  *)
(* spelling of breet.                                                      *)
NameFor(setting) == CASE setting \in {"breet", " Breet"} -> "breet"
                      [] setting = "flutterwave" -> "flutterwave"
                      [] OTHER -> "yellowcard"

(* getPayoutAdapter compares the setting as it is.                         *)
AdapterFor(setting) == IF setting \in {"breet", "flutterwave"} THEN setting
                                                               ELSE "yellowcard"

Canonical == {"yellowcard", "breet", "flutterwave"}

NoRef == [issuer |-> "none"]
Ref(p) == [issuer |-> p]

----------------------------------------------------------------------------
(* The adapters' lookupSend: a provider knows the ids it gave.             *)

(* Slip: a send still on its way counts as completed.                      *)
AnswersAnything(adapter, r) == adapter = r.issuer /\ sends[adapter] # "none"

AnswersCompleted(adapter, r) == adapter = r.issuer /\ sends[adapter] = "completed"

(* Whose payout_id the row's reader takes: its own provider's, else the    *)
(* one of the historical default.                                          *)
RefFor(name) == IF ref[name] # NoRef THEN ref[name] ELSE ref["yellowcard"]

(* Slip: only the historical default is looked up.                         *)
PollsDefaultOnly(setting) ==
  ref["yellowcard"] # NoRef /\ AnswersCompleted("yellowcard", ref["yellowcard"])

(* isPayoutConfirmed: the process's own adapter for its own provider's id, *)
(* for the historical one the adapter that submitted it.                   *)
PollConfirms(setting) ==
  LET name == NameFor(setting)
  IN  \/ /\ ref[name] # NoRef
         /\ AnswersCompleted(AdapterFor(setting), ref[name])
      \/ /\ ref[name] = NoRef /\ ref["yellowcard"] # NoRef
         /\ AnswersCompleted("yellowcard", ref["yellowcard"])

----------------------------------------------------------------------------

RoutingInit ==
  /\ leg = ReleaseConfirmed
  /\ env = [p \in Processes |-> Down]
  /\ used = {}
  /\ sends = [v \in Providers |-> "none"]
  /\ ref = [v \in Providers |-> NoRef]
  /\ at = [p \in Processes |-> "idle"]
  /\ boots = 0
  /\ legFaults = 0
  /\ lost = 0

StepTo(p, step) == at' = [at EXCEPT ![p] = step]

LegFault == legFaults < MaxLegFaults /\ legFaults' = legFaults + 1

(* Slip: a provider that serves no bank payout is not refused.             *)
BootAnyway(p, setting) ==
  /\ boots < MaxBoots
  /\ env' = [env EXCEPT ![p] = setting]
  /\ used' = used \cup {setting}
  /\ boots' = boots + 1
  /\ StepTo(p, "idle")
  /\ UNCHANGED <<legVars, legFaults, lost>>

(* ensureInit: assertPayoutProviderCapable refuses to start on a provider  *)
(* that cannot serve the leg.  A start of a running process is a crash or  *)
(* a deployment: the call it was in is gone.                               *)
Boot(p, setting) ==
  /\ boots < MaxBoots
  /\ Serves(NameFor(setting))
  /\ env' = [env EXCEPT ![p] = setting]
  /\ used' = used \cup {setting}
  /\ boots' = boots + 1
  /\ StepTo(p, "idle")
  /\ UNCHANGED <<legVars, legFaults, lost>>

Free(p) == env[p] # Down /\ at[p] = "idle"

(* Slip: the claim without AND status = $2.                                *)
ClaimAnyLeg(p) ==
  /\ Free(p)
  /\ leg' = PayoutSubmitted
  /\ StepTo(p, "send")
  /\ UNCHANGED <<sends, ref, processVars, legFaults, lost>>

ClaimLeg(p) ==
  /\ Free(p)
  /\ leg = ReleaseConfirmed
  /\ leg' = PayoutSubmitted
  /\ StepTo(p, "send")
  /\ UNCHANGED <<sends, ref, processVars, legFaults, lost>>

(* submitPayout up to submitSend.  The key makes a repeated send the same  *)
(* send, at the same provider.                                             *)
SendOf(p) ==
  LET v == AdapterFor(env[p])
  IN  sends' = [sends EXCEPT ![v] = IF @ = "none" THEN "pending" ELSE @]

SendLeg(p) ==
  /\ at[p] = "send"
  /\ SendOf(p)
  /\ StepTo(p, "write")
  /\ UNCHANGED <<leg, ref, processVars, legFaults, lost>>

(* The provider refuses, or takes the send and its answer does not arrive. *)
SendLegThrows(p) ==
  /\ at[p] = "send"
  /\ LegFault
  /\ \/ UNCHANGED <<sends, lost>>
     \/ SendOf(p) /\ lost' = lost + 1
  /\ StepTo(p, "undo")
  /\ UNCHANGED <<leg, ref, processVars>>

(* upsertExternalRef, under the provider's name.                           *)
RecordRef(p) ==
  ref' = [ref EXCEPT ![NameFor(env[p])] = Ref(AdapterFor(env[p]))]

WriteLegRef(p) ==
  /\ at[p] = "write"
  /\ RecordRef(p)
  /\ StepTo(p, "idle")
  /\ UNCHANGED <<leg, sends, processVars, legFaults, lost>>

(* The ref's write fails, or the evidence's write after it.                *)
WriteLegRefThrows(p) ==
  /\ at[p] = "write"
  /\ LegFault
  /\ RecordRef(p) \/ UNCHANGED ref
  /\ lost' = lost + 1
  /\ StepTo(p, "undo")
  /\ UNCHANGED <<leg, sends, processVars>>

UndoLeg(p) ==
  /\ at[p] = "undo"
  /\ leg' = IF leg = PayoutSubmitted THEN ReleaseConfirmed ELSE leg
  /\ StepTo(p, "idle")
  /\ UNCHANGED <<sends, ref, processVars, legFaults, lost>>

----------------------------------------------------------------------------
(* Confirmation: the guard polls, the claim, confirmYellowCardPayout polls *)
(* again, with the process's own adapter whoever gave the id.              *)

PollLeg(p) ==
  /\ Free(p)
  /\ leg = PayoutSubmitted
  /\ PollConfirms(env[p])
  /\ StepTo(p, "claim")
  /\ UNCHANGED <<legVars, processVars, legFaults, lost>>

ClaimConfirmation(p) ==
  /\ at[p] = "claim"
  /\ IF leg = PayoutSubmitted
       THEN leg' = PayoutConfirmed /\ StepTo(p, "confirm")
       ELSE UNCHANGED leg /\ StepTo(p, "idle")
  /\ UNCHANGED <<sends, ref, processVars, legFaults, lost>>

(* Slip: the id is copied without asking the provider again.               *)
CopyRef(p) ==
  /\ at[p] = "confirm"
  /\ ref' = [ref EXCEPT ![NameFor(env[p])] = RefFor(NameFor(env[p]))]
  /\ StepTo(p, "idle")
  /\ UNCHANGED <<leg, sends, processVars, legFaults, lost>>

ConfirmLeg(p) ==
  /\ at[p] = "confirm"
  /\ AdapterFor(env[p]) = RefFor(NameFor(env[p])).issuer
  /\ ref' = [ref EXCEPT ![NameFor(env[p])] = RefFor(NameFor(env[p]))]
  /\ StepTo(p, "idle")
  /\ UNCHANGED <<leg, sends, processVars, legFaults, lost>>

(* The adapter does not know the id, or the call fails.                    *)
ConfirmLegThrows(p) ==
  /\ at[p] = "confirm"
  /\ IF AdapterFor(env[p]) = RefFor(NameFor(env[p])).issuer
       THEN LegFault ELSE UNCHANGED legFaults
  /\ StepTo(p, "undoConfirm")
  /\ UNCHANGED <<legVars, processVars, lost>>

UndoConfirm(p) ==
  /\ at[p] = "undoConfirm"
  /\ leg' = IF leg = PayoutConfirmed THEN PayoutSubmitted ELSE leg
  /\ StepTo(p, "idle")
  /\ UNCHANGED <<sends, ref, processVars, legFaults, lost>>

(* The provider finishes a send.                                           *)
FinishLegSend(v) ==
  /\ sends[v] = "pending"
  /\ \E outcome \in {"completed", "failed"} :
       sends' = [sends EXCEPT ![v] = outcome]
  /\ UNCHANGED <<leg, ref, processVars, at, legFaults, lost>>

----------------------------------------------------------------------------

LegStep(p) ==
  \/ ClaimLeg(p) \/ SendLeg(p) \/ SendLegThrows(p)
  \/ WriteLegRef(p) \/ WriteLegRefThrows(p) \/ UndoLeg(p)
  \/ PollLeg(p) \/ ClaimConfirmation(p)
  \/ ConfirmLeg(p) \/ ConfirmLegThrows(p) \/ UndoConfirm(p)

RoutingNext ==
  \/ \E p \in Processes : LegStep(p) \/ \E s \in Settings : Boot(p, s)
  \/ \E v \in Providers : FinishLegSend(v)

RoutingSpec == RoutingInit /\ [][RoutingNext]_routingVars

(* The loops of a running process go on: each call is resumed, and the     *)
(* pipeline worker's interval starts the next.                             *)
RoutingFairness == \A p \in Processes : WF_routingVars(LegStep(p))

RoutingFairSpec == RoutingSpec /\ RoutingFairness

----------------------------------------------------------------------------

(* No process that runs is set to a provider that cannot serve the leg,    *)
(* and only a running one is in a call.                                    *)
RoutingTypeOK ==
  /\ leg \in {ReleaseConfirmed, PayoutSubmitted, PayoutConfirmed}
  /\ env \in [Processes -> {s \in Settings : Serves(NameFor(s))} \cup {Down}]
  /\ used \subseteq Settings
  /\ \A p \in Processes : at[p] # "idle" => env[p] # Down
  /\ sends \in [Providers -> {"none", "pending", "completed", "failed"}]
  /\ ref \in [Providers -> {NoRef} \cup {Ref(v) : v \in Providers}]
  /\ at \in [Processes -> {"idle", "send", "write", "undo", "claim",
                           "confirm", "undoConfirm"}]
  /\ boots \in 0 .. MaxBoots
  /\ legFaults \in 0 .. MaxLegFaults
  /\ lost \in Nat

(* Processes that run under different providers never both pay the row of  *)
(* themselves: each send beyond the first follows one whose call threw     *)
(* after it (submitPayout, the claim and roll back of executeTransition).  *)
PaidOnceButForLosses ==
  Cardinality({v \in Providers : sends[v] # "none"}) <= 1 + lost

(* A confirmed payout was completed by a provider, whatever the processes  *)
(* were set to; and that provider's id is on record, as long as            *)
(* PAYOUT_PROVIDER is spelled as the adapters' names are                   *)
(* (isPayoutConfirmed).                                                    *)
ConfirmedByIssuer ==
  leg = PayoutConfirmed =>
    \E v \in Providers :
      /\ sends[v] = "completed"
      /\ used \subseteq Canonical => ref[v] # NoRef

(* "Name and adapter must never diverge": an id kept under a provider's    *)
(* name was given by that provider, as long as PAYOUT_PROVIDER is spelled  *)
(* as the adapters' names are.                                             *)
RefNamesItsIssuer ==
  used \subseteq Canonical =>
    \A v \in Providers : ref[v] # NoRef => ref[v].issuer = v

Paid == leg = PayoutSubmitted /\ ref # [v \in Providers |-> NoRef]
          /\ \A v \in Providers : sends[v] \in {"none", "completed"}

(* While the provider is not switched, a payout that completed and whose   *)
(* id is on record is confirmed.                                           *)
PaidIsConfirmed == Paid ~> leg = PayoutConfirmed \/ Cardinality(used) > 1

(* "fall back to that key so a provider switch does not orphan in-flight   *)
(* payouts" (confirmYellowCardPayout): a completed payout whose id is on   *)
(* record is confirmed, also after a switch.                               *)
SwitchOrphansNothing == Paid ~> leg = PayoutConfirmed
=============================================================================
