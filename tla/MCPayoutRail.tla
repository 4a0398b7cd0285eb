----------------------------- MODULE MCPayoutRail -----------------------------
(* Small instances of PayoutRail for TLC.                                  *)
EXTENDS PayoutRailClaims, TLC

CONSTANTS w1, r1, c1, c2, h1

OneWorker == {w1}
OneReaper == {r1}
OneClient == {c1}
TwoClients == {c1, c2}
OneHook == {h1}
Nobody == {}

Symmetry == Permutations(Clients)

(* What the rest of a call still uses of the row it read.  States that     *)
(* differ only in the rest have the same future.                           *)
Needed(a) ==
  LET at(steps, targets) == pc[a] \in steps /\ target[a] \in targets
  IN  [seen[a] EXCEPT
        !.verdict = IF at({"guard"}, {BurnSubmitted}) THEN @ ELSE "none",
        !.tx = IF \/ at({"guard"}, {BurnConfirmed})
                  \/ at({"guard", "claim", "act"}, {AttestationRequested})
                 THEN @ ELSE NoTx,
        !.release = IF at({"guard"}, {PayoutSubmitted}) THEN @ ELSE NoRelease,
        !.retries = IF \/ at({"guard"}, {Failed}) /\ seen[a].status \in BudgetGuarded
                       \/ pc[a] = "scanned"
                      THEN @ ELSE 0]

(* Likewise the last failed state once no retry can look it up, and the    *)
(* queue item once its property says no more of it.                        *)
NeededLastFailed ==
  IF Clients # {} /\ (retries < MaxRetries \/ \E a \in Callers : pc[a] = "lookup")
    THEN lastFailed ELSE None

NeededReview == openReview /\ faults = 0 /\ retries = 0

View == <<worldVars, rowVars, bookVars, attRef, payoutRef, pc, target, got,
          [a \in Callers |-> Needed(a)], NeededLastFailed, NeededReview>>
=============================================================================
