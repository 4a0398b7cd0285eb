----------------------------- MODULE MCServices -----------------------------
(* Small instances, for TLC, of the components that work beside the rail   *)
(* and share no state with one another: a behaviour picks one of them,     *)
(* `part', and runs it by itself.  In the initial states of the others no  *)
(* step is due, so that their fairness asks for none.                      *)
EXTENDS PayoutRouting, CircuitBreaker, CampaignGates, Intake, AlertMonitor, TLC

CONSTANTS p1, p2, b1, b2, d1, d2, d3, d4, q1, q2, q3, q4, k1, k2, w1, w2,
          m1, c1, c2, c3, t1, t2

TwoProcesses == {p1, p2}
AllSettings == {"yellowcard", "breet", " Breet", "flutterwave"}

TwoCalls == {b1, b2}

(* A row worth nothing, two rows within two percent, one far off.          *)
FourRows == {d1, d2, d3, d4}
UsdOf == (d1 :> 0) @@ (d2 :> 100) @@ (d3 :> 101) @@ (d4 :> 140)
UsdcxOf == (d1 :> 0) @@ (d2 :> 1) @@ (d3 :> 1) @@ (d4 :> 2)

(* Two requests that race for one key, and two that are incomplete.        *)
FourRequests == {q1, q2, q3, q4}
TwoKeys == {k1, k2}
KeyOfRequest == (q1 :> k1) @@ (q2 :> k1) @@ (q3 :> k1) @@ (q4 :> k2)
CompleteRequests == {q1, q2}
TwoWorkers == {w1, w2}

(* Three checks, of which one has nothing to report.                       *)
OneMonitor == {m1}
ThreeChecks == {c1, c2, c3}
TwoAlerts == {t1, t2}
KeysOfCheck == (c1 :> {t1}) @@ (c2 :> {t2}) @@ (c3 :> {})

VARIABLE part

Parts == {"routing", "breaker", "campaign", "intake", "monitor"}

allVars == <<part, routingVars, breakerVars, campaignVars, intakeVars,
             monitorVars>>

Init == /\ part \in Parts
        /\ RoutingInit /\ BreakerInit /\ CampaignInit /\ MonitorInit
        /\ IntakeInit /\ (part # "intake" => rate)

Next ==
  /\ UNCHANGED part
  /\ \/ /\ part = "routing" /\ RoutingNext
        /\ UNCHANGED <<breakerVars, campaignVars, intakeVars, monitorVars>>
     \/ /\ part = "breaker" /\ BreakerNext
        /\ UNCHANGED <<routingVars, campaignVars, intakeVars, monitorVars>>
     \/ /\ part = "campaign" /\ CampaignNext
        /\ UNCHANGED <<routingVars, breakerVars, intakeVars, monitorVars>>
     \/ /\ part = "intake" /\ IntakeNext
        /\ UNCHANGED <<routingVars, breakerVars, campaignVars, monitorVars>>
     \/ /\ part = "monitor" /\ MonitorNext
        /\ UNCHANGED <<routingVars, breakerVars, campaignVars, intakeVars>>

FairSpec == /\ Init /\ [][Next]_allVars
            /\ RoutingFairness /\ BreakerFairness
            /\ IntakeFairness /\ MonitorFairness
=============================================================================
