--------------------------- MODULE CircuitBreaker ---------------------------
(***************************************************************************)
(* The circuit breaker of the payout leg (circuitBreaker.js): one row that *)
(* any number of calls read, and then write from what they read.           *)
(*                                                                         *)
(* Times are trips: tripped_at is the number of the trip that set it, and  *)
(* 0 when it is NULL.                                                      *)
(***************************************************************************)
EXTENDS Integers, FiniteSets

CONSTANTS BreakerCalls,   \* calls that may run at the same time
          FailureThreshold,
          HalfOpenMax,
          MaxTrips,       \* bound: trips explored
          MaxFailures,    \* bound: calls of recordFailure
          MaxProbes       \* bound: no check of a half-open row beyond it

ASSUME BreakerAssumption ==
  /\ IsFiniteSet(BreakerCalls)
  /\ FailureThreshold \in Nat \ {0} /\ HalfOpenMax \in Nat \ {0}
  /\ MaxTrips \in Nat /\ MaxFailures \in Nat /\ MaxProbes \in Nat

VARIABLES
  breaker,      \* circuit_breaker_state: state, count, trippedAt
  trips, cooled, \* the latest trip; the latest one past its cool-down
  probes,       \* probe rows in payout_gates
  probesBefore, \* how many of them were there at each trip
  callAt,       \* where each call is
  breakerRead,  \* the row each call read
  failures,     \* history: calls of recordFailure
  autoTrips,    \* history: trips by recordFailure
  overtaken     \* history: the row changed under a call that re-opened it

breakerVars == <<breaker, trips, cooled, probes, probesBefore, callAt,
                 breakerRead, failures, autoTrips, overtaken>>

ClosedRow == [state |-> "closed", count |-> 0, trippedAt |-> 0]

BreakerInit ==
  /\ breaker = ClosedRow
  /\ trips = 0 /\ cooled = 0
  /\ probes = 0
  /\ probesBefore = [t \in 0 .. MaxTrips |-> 0]
  /\ callAt = [c \in BreakerCalls |-> "idle"]
  /\ breakerRead = [c \in BreakerCalls |-> ClosedRow]
  /\ failures = 0 /\ autoTrips = 0
  /\ overtaken = FALSE

----------------------------------------------------------------------------

(* getState at the first step of a call, of which it keeps what the rest   *)
(* of the call uses; the row is there from migration 003 on.               *)
WhatItUses(step) ==
  CASE step = "fail" -> [breaker EXCEPT !.trippedAt = 0]
    [] step \in {"halfOpen", "count"} ->
         [ClosedRow EXCEPT !.trippedAt = breaker.trippedAt]
    [] OTHER -> ClosedRow

CallTo(c, step) ==
  /\ callAt' = [callAt EXCEPT ![c] = step]
  /\ breakerRead' = [breakerRead EXCEPT ![c] =
                        IF callAt[c] = "idle" THEN WhatItUses(step)
                                              ELSE ClosedRow]

Clocks == <<trips, cooled, probesBefore>>

(* The bound on trips leaves room for the failures being recorded.         *)
TripLeft ==
  trips + Cardinality({c \in BreakerCalls : callAt[c] = "fail"}) < MaxTrips

(* tripped_at = NOW().                                                     *)
StampTrip ==
  /\ trips < MaxTrips
  /\ trips' = trips + 1
  /\ probesBefore' = [probesBefore EXCEPT ![trips + 1] = probes]
  /\ UNCHANGED cooled

(* The cool-down of the latest trip passes.                                *)
CoolDown ==
  /\ cooled < trips
  /\ cooled' = trips
  /\ UNCHANGED <<breaker, trips, probes, probesBefore, callAt, breakerRead,
                 failures, autoTrips, overtaken>>

(* Slip: the cool-down is taken for passed while it lasts.                 *)
CooledEarly(row) == row.trippedAt > cooled

Cooled(row) == row.trippedAt \in 1 .. cooled

----------------------------------------------------------------------------
(* check: closed lets the call through, open turns it away, or makes the   *)
(* row half-open when it has cooled down, half-open counts the probes      *)
(* first.                                                                  *)

Check(c) ==
  /\ callAt[c] = "idle"
  /\ breaker.state = "half_open" => probes < MaxProbes
  /\ CallTo(c, CASE breaker.state = "half_open" -> "count"
                 [] breaker.state = "open" /\ Cooled(breaker) -> "halfOpen"
                 [] OTHER -> "idle")
  /\ UNCHANGED <<breaker, Clocks, probes, failures, autoTrips, overtaken>>

(* The call that re-opens the row is let through uncounted.                *)
HalfOpen(c) ==
  /\ callAt[c] = "halfOpen"
  /\ breaker' = [breaker EXCEPT !.state = "half_open"]
  /\ overtaken' = (overtaken \/ breaker.trippedAt # breakerRead[c].trippedAt)
  /\ CallTo(c, "idle")
  /\ UNCHANGED <<Clocks, probes, failures, autoTrips>>

(* created_at > tripped_at: nothing is later than NULL.                    *)
ProbesSince(t) == IF t = 0 THEN 0 ELSE probes - probesBefore[t]

(* Slip: the probes are not counted.                                       *)
CountNothing(c) ==
  /\ callAt[c] = "count"
  /\ CallTo(c, "probe")
  /\ UNCHANGED <<breaker, Clocks, probes, failures, autoTrips,
                 overtaken>>

CountProbes(c) ==
  /\ callAt[c] = "count"
  /\ CallTo(c, IF ProbesSince(breakerRead[c].trippedAt) >= HalfOpenMax
                 THEN "idle" ELSE "probe")
  /\ UNCHANGED <<breaker, Clocks, probes, failures, autoTrips,
                 overtaken>>

InsertProbe(c) ==
  /\ callAt[c] = "probe"
  /\ probes' = probes + 1
  /\ CallTo(c, "idle")
  /\ UNCHANGED <<breaker, Clocks, failures, autoTrips, overtaken>>

----------------------------------------------------------------------------
(* recordFailure and recordSuccess.                                        *)

ReadForFailure(c) ==
  /\ callAt[c] = "idle"
  /\ failures < MaxFailures /\ TripLeft
  /\ failures' = failures + 1
  /\ CallTo(c, "fail")
  /\ UNCHANGED <<breaker, Clocks, probes, autoTrips, overtaken>>

(* Slip: the count is raised by two.                                       *)
WriteTwoFailures(c) ==
  /\ callAt[c] = "fail"
  /\ LET row == breakerRead[c]
         n   == row.count + 2
     IN  IF row.state = "closed" /\ n >= FailureThreshold
           THEN /\ StampTrip
                /\ breaker' = [state |-> "open", count |-> n,
                               trippedAt |-> trips + 1]
                /\ autoTrips' = autoTrips + 1
           ELSE /\ breaker' = [breaker EXCEPT !.count = n]
                /\ UNCHANGED <<Clocks, autoTrips>>
  /\ CallTo(c, "idle")
  /\ UNCHANGED <<probes, failures, overtaken>>

WriteFailure(c) ==
  /\ callAt[c] = "fail"
  /\ LET row == breakerRead[c]
         n   == row.count + 1
     IN  IF row.state = "closed" /\ n >= FailureThreshold
           THEN /\ StampTrip
                /\ breaker' = [state |-> "open", count |-> n,
                               trippedAt |-> trips + 1]
                /\ autoTrips' = autoTrips + 1
           ELSE /\ breaker' = [breaker EXCEPT !.count = n]
                /\ UNCHANGED <<Clocks, autoTrips>>
  /\ CallTo(c, "idle")
  /\ UNCHANGED <<probes, failures, overtaken>>

ReadForSuccess(c) ==
  /\ callAt[c] = "idle"
  /\ breaker.state # "open"
  /\ CallTo(c, IF breaker.state = "half_open" THEN "close" ELSE "clear")
  /\ UNCHANGED <<breaker, Clocks, probes, failures, autoTrips, overtaken>>

WriteSuccess(c) ==
  /\ callAt[c] \in {"close", "clear"}
  /\ breaker' = IF callAt[c] = "close" THEN ClosedRow
                                       ELSE [breaker EXCEPT !.count = 0]
  /\ CallTo(c, "idle")
  /\ UNCHANGED <<Clocks, probes, failures, autoTrips, overtaken>>

(* Slip: the trip is not dated.                                            *)
TripUndated ==
  /\ TripLeft
  /\ StampTrip
  /\ breaker' = [breaker EXCEPT !.state = "open"]
  /\ UNCHANGED <<probes, callAt, breakerRead, failures, autoTrips, overtaken>>

(* trip and reset.                                                         *)
TripByHand ==
  /\ TripLeft
  /\ StampTrip
  /\ breaker' = [breaker EXCEPT !.state = "open", !.trippedAt = trips + 1]
  /\ UNCHANGED <<probes, callAt, breakerRead, failures, autoTrips, overtaken>>

ResetByHand ==
  /\ breaker' = ClosedRow
  /\ UNCHANGED <<Clocks, probes, callAt, breakerRead, failures, autoTrips,
                 overtaken>>

----------------------------------------------------------------------------

BreakerStep(c) ==
  \/ Check(c) \/ HalfOpen(c) \/ CountProbes(c) \/ InsertProbe(c)
  \/ WriteFailure(c) \/ WriteSuccess(c)

BreakerNext ==
  \/ \E c \in BreakerCalls :
       BreakerStep(c) \/ ReadForFailure(c) \/ ReadForSuccess(c)
  \/ CoolDown \/ TripByHand \/ ResetByHand

BreakerSpec == BreakerInit /\ [][BreakerNext]_breakerVars

(* Time passes, a call that has begun ends, and preflights keep coming.    *)
BreakerFairness ==
  /\ WF_breakerVars(CoolDown)
  /\ \A c \in BreakerCalls : WF_breakerVars(BreakerStep(c))

----------------------------------------------------------------------------

BreakerRows == [state : {"closed", "open", "half_open"}, count : Nat,
                trippedAt : 0 .. MaxTrips]

(* An open breaker knows when it was tripped.                              *)
BreakerTypeOK ==
  /\ breaker \in BreakerRows
  /\ breaker.state = "open" => breaker.trippedAt > 0
  /\ breaker.trippedAt <= trips
  /\ trips \in 0 .. MaxTrips /\ cooled \in 0 .. trips
  /\ probes \in Nat
  /\ probesBefore \in [0 .. MaxTrips -> 0 .. probes]
  /\ callAt \in [BreakerCalls -> {"idle", "halfOpen", "count", "probe",
                                  "fail", "close", "clear"}]
  /\ breakerRead \in [BreakerCalls -> BreakerRows]
  /\ failures \in Nat /\ autoTrips \in Nat
  /\ overtaken \in BOOLEAN

(* The probes let through since the latest trip exceed the limit by no     *)
(* more than the calls that ran beside the last one counted, although      *)
(* counting and inserting are separate statements (check).  A row whose    *)
(* trip was undone while a call re-opened it counts no probes at all.      *)
ProbesBounded ==
  ~overtaken =>
    probes - probesBefore[trips] <= HalfOpenMax + Cardinality(BreakerCalls) - 1

(* Lost and late updates of the counter never trip the breaker on fewer    *)
(* failures than the threshold (recordFailure).                            *)
TripsOnRealFailures == autoTrips > 0 => failures >= FailureThreshold

(* An open breaker lets a payout through again some time after its         *)
(* cool-down: it is never open with a trip it cannot date (check).         *)
BreakerReopens == (breaker.state = "open") ~> (breaker.state # "open")
=============================================================================
