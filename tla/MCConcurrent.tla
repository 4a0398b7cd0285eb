---------------------------- MODULE MCConcurrent ----------------------------
(* Small instances, for TLC, of two components whose safety depends on     *)
(* calls that look something up and write later what they found: the gates *)
(* of MCPayoutGates under two executors, and two monitors with a pool      *)
(* each, of whose checks one has an alert to record.  A behaviour runs one *)
(* of the two, `part', by itself, so that they may share model values.     *)
EXTENDS MCPayoutGates, AlertMonitor

CONSTANTS m1, m2, c1, c2, c3, t1

TwoMonitors == {m1, m2}
ThreeChecks == {c1, c2, c3}
OneAlert == {t1}
KeysOfCheck == (c1 :> {t1}) @@ (c2 :> {}) @@ (c3 :> {})

VARIABLE part

allVars == <<part, vars, monitorVars>>

InitBoth == Init /\ MonitorInit /\ part \in {"gates", "monitors"}

(* Of the rows, only the one over the threshold grows older than a day.    *)
NextOfPart ==
  /\ UNCHANGED part
  /\ \/ part = "gates" /\ Next /\ aged' \subseteq {d3} /\ UNCHANGED monitorVars
     \/ part = "monitors" /\ MonitorNext /\ UNCHANGED vars

BothSpec == InitBoth /\ [][NextOfPart]_allVars

SymmetryOfBoth ==
  Symmetry \cup Permutations(Monitors) \cup Permutations({c2, c3})
=============================================================================
