----------------------- MODULE BreakerAndMonitorProofs -----------------------
(***************************************************************************)
(* The circuit breaker, proved for any number of calls and any limits, and *)
(* the monitor job, for any number of processes, checks and alert keys.    *)
(***************************************************************************)
EXTENDS CircuitBreaker, AlertMonitor, TLAPS, FiniteSetTheorems

----------------------------------------------------------------------------
(* The circuit breaker.                                                    *)

Probing == {c \in BreakerCalls : callAt[c] = "probe"}
Limit == HalfOpenMax + Cardinality(BreakerCalls) - 1

(* The probes since a trip are no fewer than those since a later one.      *)
TripsInOrder == \A s, t \in 0 .. trips : s <= t => probesBefore[s] <= probesBefore[t]

(* Unless a call was overtaken, a half-open row knows its trip, and so     *)
(* does every call that counts the probes of one.                          *)
TripKnown ==
  /\ \A c \in BreakerCalls :
       /\ breakerRead[c].trippedAt <= trips
       /\ callAt[c] = "halfOpen" => breakerRead[c].trippedAt > 0
  /\ ~overtaken =>
       /\ breaker.state = "half_open" => breaker.trippedAt > 0
       /\ \A c \in BreakerCalls : callAt[c] = "count" => breakerRead[c].trippedAt > 0

(* The probes made since the latest trip and those about to be.            *)
ProbesCounted ==
  ~overtaken => probes - probesBefore[trips] + Cardinality(Probing) <= Limit

(* A counter never runs ahead of the failures.                             *)
CountsAreFailures ==
  /\ breaker.count <= failures
  /\ \A c \in BreakerCalls : callAt[c] = "fail" => breakerRead[c].count < failures

BreakerInv ==
  /\ BreakerTypeOK /\ TripsInOrder /\ TripKnown /\ ProbesCounted
  /\ CountsAreFailures /\ TripsOnRealFailures

LEMMA ProbingIsFinite ==
  /\ IsFiniteSet(Probing) /\ Cardinality(Probing) \in Nat
  /\ Cardinality(BreakerCalls) \in Nat
  /\ Cardinality(Probing) <= Cardinality(BreakerCalls)
  /\ Limit \in Int
  BY BreakerAssumption, FS_Subset, FS_CardinalityType DEF Probing, Limit

(* The limit leaves room for every call to probe right after a trip.       *)
LEMMA LimitCoversCalls == Cardinality(Probing) <= Limit
  BY ProbingIsFinite, BreakerAssumption DEF Limit

(* The parts of the type invariant.                                        *)
RowOK ==
  /\ breaker \in BreakerRows
  /\ breaker.state = "open" => breaker.trippedAt > 0
  /\ breaker.trippedAt <= trips
ClocksOK ==
  /\ trips \in 0 .. MaxTrips /\ cooled \in 0 .. trips
  /\ probes \in Nat
  /\ probesBefore \in [0 .. MaxTrips -> 0 .. probes]
CallsOK ==
  /\ callAt \in [BreakerCalls -> {"idle", "halfOpen", "count", "probe",
                                  "fail", "close", "clear"}]
  /\ breakerRead \in [BreakerCalls -> BreakerRows]
HistoryOK == failures \in Nat /\ autoTrips \in Nat

LEMMA TypeParts ==
  /\ BreakerTypeOK <=>
       RowOK /\ ClocksOK /\ CallsOK /\ HistoryOK /\ overtaken \in BOOLEAN
  /\ BreakerTypeOK' <=>
       RowOK' /\ ClocksOK' /\ CallsOK' /\ HistoryOK' /\ overtaken' \in BOOLEAN
  BY DEF BreakerTypeOK, RowOK, ClocksOK, CallsOK, HistoryOK

LEMMA RowFields ==
  ASSUME NEW r \in BreakerRows
  PROVE  /\ r.state \in {"closed", "open", "half_open"} /\ r.count \in Nat
         /\ r.trippedAt \in 0 .. MaxTrips /\ r.trippedAt \in Nat
  BY BreakerAssumption DEF BreakerRows

LEMMA EditedRows ==
  ASSUME NEW r \in BreakerRows
  PROVE  /\ \A s \in {"closed", "open", "half_open"} :
              /\ [r EXCEPT !.state = s] \in BreakerRows
              /\ [r EXCEPT !.state = s].state = s
              /\ [r EXCEPT !.state = s].count = r.count
              /\ [r EXCEPT !.state = s].trippedAt = r.trippedAt
         /\ \A n \in Nat :
              /\ [r EXCEPT !.count = n] \in BreakerRows
              /\ [r EXCEPT !.count = n].state = r.state
              /\ [r EXCEPT !.count = n].count = n
              /\ [r EXCEPT !.count = n].trippedAt = r.trippedAt
  BY DEF BreakerRows

LEMMA ClosedRowFacts ==
  /\ ClosedRow \in BreakerRows
  /\ ClosedRow.state = "closed" /\ ClosedRow.count = 0 /\ ClosedRow.trippedAt = 0
  BY BreakerAssumption DEF ClosedRow, BreakerRows

(* What a call keeps of the row it read.                                   *)
LEMMA UsedFacts ==
  ASSUME BreakerTypeOK, NEW step
  PROVE  /\ WhatItUses(step) \in BreakerRows
         /\ WhatItUses(step).trippedAt <= trips
         /\ step \in {"halfOpen", "count"} =>
              WhatItUses(step).trippedAt = breaker.trippedAt
         /\ step = "fail" => WhatItUses(step).count = breaker.count
  <1>1. /\ breaker \in BreakerRows /\ breaker.trippedAt <= trips /\ trips \in Nat
        /\ breaker.trippedAt \in 0 .. MaxTrips /\ 0 \in 0 .. MaxTrips /\ 0 <= trips
    BY RowFields, BreakerAssumption DEF BreakerTypeOK
  <1>2. CASE step = "fail"
    <2>1. WhatItUses(step) = [breaker EXCEPT !.trippedAt = 0]
      BY <1>2 DEF WhatItUses
    <2>2. /\ [breaker EXCEPT !.trippedAt = 0] \in BreakerRows
          /\ [breaker EXCEPT !.trippedAt = 0].count = breaker.count
          /\ [breaker EXCEPT !.trippedAt = 0].trippedAt = 0
      BY <1>1 DEF BreakerRows
    <2> QED BY <1>1, <1>2, <2>1, <2>2
  <1>3. CASE step \in {"halfOpen", "count"}
    <2>1. WhatItUses(step) = [ClosedRow EXCEPT !.trippedAt = breaker.trippedAt]
      BY <1>3 DEF WhatItUses
    <2>2. /\ WhatItUses(step) \in BreakerRows
          /\ WhatItUses(step).trippedAt = breaker.trippedAt
      BY <1>1, <2>1 DEF BreakerRows, ClosedRow
    <2> QED BY <1>1, <1>3, <2>2
  <1>4. CASE step \notin {"fail", "halfOpen", "count"}
    <2>1. WhatItUses(step) = ClosedRow
      BY <1>4 DEF WhatItUses
    <2> QED BY <1>1, <1>4, <2>1, ClosedRowFacts
  <1> QED BY <1>2, <1>3, <1>4

LEMMA BreakerInitInv == BreakerInit => BreakerInv
  <1> SUFFICES ASSUME BreakerInit PROVE BreakerInv
    OBVIOUS
  <1>1. BreakerTypeOK
    <2>1. RowOK
      BY ClosedRowFacts DEF BreakerInit, RowOK
    <2>2. ClocksOK
      BY BreakerAssumption DEF BreakerInit, ClocksOK
    <2>3. CallsOK /\ HistoryOK /\ overtaken \in BOOLEAN
      BY ClosedRowFacts DEF BreakerInit, CallsOK, HistoryOK
    <2> QED BY <2>1, <2>2, <2>3, TypeParts
  <1>2. TripsInOrder /\ TripKnown /\ CountsAreFailures /\ TripsOnRealFailures
    BY BreakerAssumption
    DEF BreakerInit, TripsInOrder, TripKnown, CountsAreFailures,
        TripsOnRealFailures, ClosedRow
  <1>3. ProbesCounted
    BY LimitCoversCalls, ProbingIsFinite, BreakerAssumption
    DEF BreakerInit, ProbesCounted
  <1> QED BY <1>1, <1>2, <1>3 DEF BreakerInv

(* What a call is left with after a step, and who probes then.             *)
LEMMA CallToFacts ==
  ASSUME BreakerInv, NEW c \in BreakerCalls,
         NEW next \in {"idle", "halfOpen", "count", "probe", "fail", "close", "clear"},
         CallTo(c, next)
  PROVE  /\ CallsOK' /\ callAt'[c] = next
         /\ breakerRead'[c] \in BreakerRows /\ breakerRead'[c].trippedAt <= trips
         /\ next \in {"halfOpen", "count"} /\ callAt[c] = "idle" =>
              breakerRead'[c].trippedAt = breaker.trippedAt
         /\ next = "fail" /\ callAt[c] = "idle" =>
              breakerRead'[c].count = breaker.count
         /\ \A d \in BreakerCalls \ {c} :
              callAt'[d] = callAt[d] /\ breakerRead'[d] = breakerRead[d]
         /\ callAt[c] # "probe" /\ next # "probe" => Probing' = Probing
         /\ callAt[c] = "probe" /\ next # "probe" => Probing' = Probing \ {c}
  <1>1. /\ BreakerTypeOK /\ callAt \in [BreakerCalls -> {"idle", "halfOpen", "count",
                                    "probe", "fail", "close", "clear"}]
        /\ breakerRead \in [BreakerCalls -> BreakerRows] /\ 0 <= trips
    BY BreakerAssumption DEF BreakerInv, BreakerTypeOK
  <1> DEFINE r == IF callAt[c] = "idle" THEN WhatItUses(next) ELSE ClosedRow
  <1>2. /\ r \in BreakerRows /\ r.trippedAt <= trips
        /\ next \in {"halfOpen", "count"} /\ callAt[c] = "idle" =>
             r.trippedAt = breaker.trippedAt
        /\ next = "fail" /\ callAt[c] = "idle" => r.count = breaker.count
    BY <1>1, UsedFacts, ClosedRowFacts
  <1>3. callAt' = [callAt EXCEPT ![c] = next] /\ breakerRead' = [breakerRead EXCEPT ![c] = r]
    BY DEF CallTo
  <1> HIDE DEF r
  <1>4. CallsOK' /\ callAt'[c] = next /\ breakerRead'[c] = r
    BY <1>1, <1>2, <1>3 DEF CallsOK
  <1>5. \A d \in BreakerCalls \ {c} :
          callAt'[d] = callAt[d] /\ breakerRead'[d] = breakerRead[d]
    BY <1>1, <1>3
  <1>6. /\ callAt[c] # "probe" /\ next # "probe" => Probing' = Probing
        /\ callAt[c] = "probe" /\ next # "probe" => Probing' = Probing \ {c}
    BY <1>4, <1>5 DEF Probing
  <1> QED BY <1>2, <1>4, <1>5, <1>6

(* The scalars behind the invariant.                                       *)
LEMMA InvFacts ==
  ASSUME BreakerInv
  PROVE  /\ breaker \in BreakerRows /\ breaker.trippedAt \in Nat /\ breaker.count \in Nat
         /\ breaker.trippedAt <= trips /\ trips \in Nat /\ trips \in 0 .. MaxTrips
         /\ probes \in Nat /\ probesBefore[trips] \in Nat
         /\ \A c \in BreakerCalls :
              /\ breakerRead[c] \in BreakerRows /\ breakerRead[c].count \in Nat
              /\ breakerRead[c].trippedAt \in Nat /\ breakerRead[c].trippedAt <= trips
         /\ failures \in Nat /\ autoTrips \in Nat
  <1>1. BreakerTypeOK /\ MaxTrips \in Nat
    BY BreakerAssumption DEF BreakerInv
  <1>2. breaker \in BreakerRows /\ \A c \in BreakerCalls : breakerRead[c] \in BreakerRows
    BY <1>1 DEF BreakerTypeOK
  <1> QED BY <1>1, <1>2, RowFields DEF BreakerInv, BreakerTypeOK, TripKnown

(* A step that moves one call and leaves the row and the clocks alone.     *)
LEMMA CallStepKeepsType ==
  ASSUME BreakerInv, CallsOK', UNCHANGED <<breaker, Clocks, probes, overtaken>>,
         HistoryOK'
  PROVE  BreakerTypeOK' /\ TripsInOrder'
  <1>1. RowOK' /\ ClocksOK' /\ overtaken' \in BOOLEAN
    BY TypeParts DEF BreakerInv, RowOK, ClocksOK, Clocks
  <1>2. TripsInOrder'
    BY DEF BreakerInv, TripsInOrder, Clocks
  <1> QED BY <1>1, <1>2, TypeParts

(* A step of a call that changes neither the row nor the probes.           *)
LEMMA ReadKeepsInv ==
  ASSUME BreakerInv, NEW c \in BreakerCalls, Check(c) \/ ReadForSuccess(c)
  PROVE  BreakerInv'
  <1>1. callAt[c] = "idle"
        /\ UNCHANGED <<breaker, Clocks, probes, failures, autoTrips, overtaken>>
    BY DEF Check, ReadForSuccess
  <1>2. PICK next \in {"idle", "halfOpen", "count", "close", "clear"} :
          /\ CallTo(c, next)
          /\ next = "halfOpen" => breaker.state = "open"
          /\ next = "count" => breaker.state = "half_open"
    BY DEF Check, ReadForSuccess
  <1>3. BreakerTypeOK' /\ TripsInOrder'
    BY <1>1, <1>2, CallToFacts, CallStepKeepsType, InvFacts DEF HistoryOK
  <1>4. TripKnown'
    BY <1>1, <1>2, CallToFacts, InvFacts DEF BreakerInv, BreakerTypeOK, TripKnown, Clocks
  <1>5. ProbesCounted'
    BY <1>1, <1>2, CallToFacts DEF BreakerInv, ProbesCounted, Clocks, Limit
  <1>6. CountsAreFailures' /\ TripsOnRealFailures'
    BY <1>1, <1>2, CallToFacts DEF BreakerInv, CountsAreFailures, TripsOnRealFailures
  <1> QED BY <1>3, <1>4, <1>5, <1>6 DEF BreakerInv

LEMMA HalfOpenKeepsInv ==
  ASSUME BreakerInv, NEW c \in BreakerCalls, HalfOpen(c)
  PROVE  BreakerInv'
  <1>1. /\ callAt[c] = "halfOpen" /\ CallTo(c, "idle")
        /\ breaker' = [breaker EXCEPT !.state = "half_open"]
        /\ overtaken' = (overtaken \/ breaker.trippedAt # breakerRead[c].trippedAt)
        /\ UNCHANGED <<Clocks, probes, failures, autoTrips>>
    BY DEF HalfOpen
  <1>2. /\ breaker' \in BreakerRows /\ breaker'.state = "half_open"
        /\ breaker'.count = breaker.count /\ breaker'.trippedAt = breaker.trippedAt
    BY <1>1, InvFacts, EditedRows
  <1>3. BreakerTypeOK'
    <2>1. RowOK' /\ ClocksOK' /\ HistoryOK'
      BY <1>1, <1>2, TypeParts DEF BreakerInv, RowOK, ClocksOK, HistoryOK, Clocks
    <2>2. overtaken' \in BOOLEAN
      BY <1>1
    <2> QED BY <1>1, <2>1, <2>2, CallToFacts, TypeParts
  <1>4. TripKnown'
    <2>1. \A d \in BreakerCalls :
            /\ breakerRead'[d].trippedAt <= trips
            /\ callAt'[d] \in {"halfOpen", "count"} =>
                 callAt'[d] = callAt[d] /\ breakerRead'[d] = breakerRead[d]
      BY <1>1, CallToFacts, InvFacts
    <2>2. ~overtaken' => ~overtaken /\ breaker'.trippedAt > 0
      BY <1>1, <1>2 DEF BreakerInv, TripKnown
    <2> QED BY <1>1, <2>1, <2>2 DEF BreakerInv, TripKnown, Clocks
  <1>5. ProbesCounted'
    BY <1>1, CallToFacts DEF BreakerInv, ProbesCounted, Clocks, Limit
  <1>6. TripsInOrder' /\ TripsOnRealFailures'
    BY <1>1 DEF BreakerInv, TripsInOrder, TripsOnRealFailures, Clocks
  <1>7. CountsAreFailures'
    BY <1>1, <1>2, CallToFacts DEF BreakerInv, CountsAreFailures
  <1> QED BY <1>3, <1>4, <1>5, <1>6, <1>7 DEF BreakerInv

(* A call that counts fewer probes than the limit, since whichever trip it *)
(* read, finds room for itself and all the others.                         *)
LEMMA CountKeepsInv ==
  ASSUME BreakerInv, NEW c \in BreakerCalls, CountProbes(c)
  PROVE  BreakerInv'
  <1> DEFINE t == breakerRead[c].trippedAt
             next == IF ProbesSince(t) >= HalfOpenMax THEN "idle" ELSE "probe"
  <1>1. /\ callAt[c] = "count" /\ CallTo(c, next) /\ next \in {"idle", "probe"}
        /\ UNCHANGED <<breaker, Clocks, probes, failures, autoTrips, overtaken>>
    BY DEF CountProbes
  <1>2. BreakerTypeOK' /\ TripsInOrder'
    BY <1>1, CallToFacts, CallStepKeepsType, InvFacts DEF HistoryOK
  <1>3. TripKnown'
    BY <1>1, CallToFacts, InvFacts DEF BreakerInv, BreakerTypeOK, TripKnown, Clocks
  <1>4. CountsAreFailures' /\ TripsOnRealFailures'
    BY <1>1, CallToFacts DEF BreakerInv, CountsAreFailures, TripsOnRealFailures
  <1>5. ProbesCounted'
    <2>1. CASE ProbesSince(t) >= HalfOpenMax
      BY <1>1, <2>1, CallToFacts DEF BreakerInv, ProbesCounted, Clocks, Limit
    <2>2. CASE ~(ProbesSince(t) >= HalfOpenMax) /\ ~overtaken
      <3>1. t \in 1 .. trips
        BY <1>1, <2>2, InvFacts DEF BreakerInv, TripKnown
      <3>2. probesBefore[t] \in Nat /\ probesBefore[t] <= probesBefore[trips]
        BY <3>1, InvFacts, BreakerAssumption DEF BreakerInv, BreakerTypeOK, TripsInOrder
      <3>3. probes - probesBefore[t] < HalfOpenMax
        BY <2>2, <3>1, <3>2, InvFacts, BreakerAssumption DEF ProbesSince
      <3>4. Cardinality(Probing') <= Cardinality(BreakerCalls)
            /\ Cardinality(Probing') \in Nat
        BY BreakerAssumption, FS_Subset, FS_CardinalityType DEF Probing
      <3>5. probes - probesBefore[trips] + Cardinality(Probing') <= Limit
        BY <3>2, <3>3, <3>4, InvFacts, BreakerAssumption, ProbingIsFinite DEF Limit
      <3> QED BY <1>1, <3>5 DEF ProbesCounted, Clocks, Limit
    <2>3. CASE overtaken
      BY <1>1, <2>3 DEF ProbesCounted
    <2> QED BY <2>1, <2>2, <2>3
  <1> QED BY <1>2, <1>3, <1>4, <1>5 DEF BreakerInv

LEMMA InsertProbeKeepsInv ==
  ASSUME BreakerInv, NEW c \in BreakerCalls, InsertProbe(c)
  PROVE  BreakerInv'
  <1>1. /\ callAt[c] = "probe" /\ probes' = probes + 1 /\ CallTo(c, "idle")
        /\ UNCHANGED <<breaker, Clocks, failures, autoTrips, overtaken>>
    BY DEF InsertProbe
  <1>2. BreakerTypeOK'
    <2>1. RowOK' /\ HistoryOK' /\ overtaken' \in BOOLEAN
      BY <1>1, TypeParts DEF BreakerInv, RowOK, HistoryOK, Clocks
    <2>2. ClocksOK'
      BY <1>1, TypeParts, InvFacts DEF BreakerInv, ClocksOK, Clocks
    <2> QED BY <1>1, <2>1, <2>2, CallToFacts, TypeParts
  <1>3. TripKnown'
    BY <1>1, CallToFacts, InvFacts DEF BreakerInv, TripKnown, Clocks
  <1>4. TripsInOrder' /\ CountsAreFailures' /\ TripsOnRealFailures'
    BY <1>1, CallToFacts
    DEF BreakerInv, TripsInOrder, CountsAreFailures, TripsOnRealFailures, Clocks
  <1>5. ProbesCounted'
    <2>1. Probing' = Probing \ {c} /\ c \in Probing
      BY <1>1, CallToFacts DEF Probing
    <2>2. Cardinality(Probing') = Cardinality(Probing) - 1
      BY <2>1, ProbingIsFinite, FS_RemoveElement
    <2> QED BY <1>1, <2>2, ProbingIsFinite, InvFacts
            DEF BreakerInv, ProbesCounted, Clocks, Limit
  <1> QED BY <1>2, <1>3, <1>4, <1>5 DEF BreakerInv

----------------------------------------------------------------------------

(* A trip starts a new count, which the calls about to probe may use up.   *)
LEMMA StampFacts ==
  ASSUME BreakerInv, StampTrip, probes' = probes
  PROVE  /\ trips' = trips + 1 /\ trips' \in 0 .. MaxTrips
         /\ ClocksOK' /\ TripsInOrder' /\ probesBefore'[trips'] = probes
  <1>1. /\ trips' = trips + 1 /\ trips' \in 0 .. MaxTrips /\ cooled' = cooled
        /\ cooled' \in 0 .. trips'
    BY InvFacts, BreakerAssumption DEF BreakerInv, BreakerTypeOK, StampTrip
  <1>2. /\ probesBefore \in [0 .. MaxTrips -> 0 .. probes]
        /\ probesBefore' = [probesBefore EXCEPT ![trips'] = probes]
    BY <1>1 DEF BreakerInv, BreakerTypeOK, StampTrip
  <1>3. /\ probesBefore' \in [0 .. MaxTrips -> 0 .. probes]
        /\ probesBefore'[trips'] = probes
    BY <1>1, <1>2, InvFacts
  <1>4. \A s \in 0 .. trips : probesBefore'[s] = probesBefore[s]
    BY <1>1, <1>2, InvFacts, BreakerAssumption
  <1>5. TripsInOrder'
    <2> SUFFICES ASSUME NEW s \in 0 .. trips', NEW t \in 0 .. trips', s <= t
                 PROVE  probesBefore'[s] <= probesBefore'[t]
      BY DEF TripsInOrder
    <2>1. CASE t \in 0 .. trips
      BY <2>1, <1>4, InvFacts DEF BreakerInv, TripsInOrder
    <2>2. CASE t = trips'
      <3>1. probesBefore'[s] \in 0 .. probes
        BY <1>1, <1>3, BreakerAssumption
      <3> QED BY <2>2, <3>1, <1>3
    <2> QED BY <2>1, <2>2, <1>1, InvFacts
  <1>6. ClocksOK'
    BY <1>1, <1>3, InvFacts DEF ClocksOK
  <1> QED BY <1>1, <1>3, <1>5, <1>6

LEMMA StampKeepsCount ==
  ASSUME BreakerInv, StampTrip, probes' = probes, Probing' = Probing
  PROVE  ProbesCounted'
  <1>1. probes' - probesBefore'[trips'] = 0
    BY StampFacts, InvFacts
  <1>2. Limit' = Limit
    BY DEF Limit
  <1> QED BY <1>1, <1>2, LimitCoversCalls, ProbingIsFinite DEF ProbesCounted

(* The row that a trip leaves.                                             *)
LEMMA TripKeepsRow ==
  ASSUME BreakerInv, StampTrip, probes' = probes, NEW n \in Nat,
         breaker' = [state |-> "open", count |-> n, trippedAt |-> trips + 1]
  PROVE  /\ RowOK' /\ breaker'.count = n /\ breaker'.state = "open"
         /\ breaker'.trippedAt = trips'
  <1>1. trips' = trips + 1 /\ trips' \in 0 .. MaxTrips /\ trips' > 0 /\ trips' \in Nat
    BY StampFacts, InvFacts
  <1>2. breaker' \in BreakerRows
    BY <1>1 DEF BreakerRows
  <1> QED BY <1>1, <1>2 DEF RowOK

LEMMA TripByHandKeepsInv ==
  ASSUME BreakerInv, TripByHand
  PROVE  BreakerInv'
  <1>1. /\ breaker' = [breaker EXCEPT !.state = "open", !.trippedAt = trips + 1]
        /\ UNCHANGED <<probes, callAt, breakerRead, failures, autoTrips, overtaken>>
        /\ StampTrip
    BY DEF TripByHand
  <1>2. breaker' = [state |-> "open", count |-> breaker.count, trippedAt |-> trips + 1]
    BY <1>1, InvFacts DEF BreakerRows
  <1>3. /\ RowOK' /\ breaker'.count = breaker.count /\ breaker'.trippedAt = trips'
        /\ breaker'.state = "open"
    BY <1>1, <1>2, TripKeepsRow, InvFacts
  <1>4. BreakerTypeOK'
    <2>1. CallsOK' /\ HistoryOK' /\ overtaken' \in BOOLEAN
      BY <1>1, TypeParts DEF BreakerInv, CallsOK, HistoryOK
    <2> QED BY <1>1, <1>3, <2>1, StampFacts, TypeParts
  <1>5. ProbesCounted'
    BY <1>1, StampKeepsCount DEF Probing
  <1>6. TripKnown'
    BY <1>1, <1>3, StampFacts, InvFacts DEF BreakerInv, TripKnown
  <1>7. CountsAreFailures' /\ TripsOnRealFailures'
    BY <1>1, <1>3 DEF BreakerInv, CountsAreFailures, TripsOnRealFailures
  <1> QED BY <1>1, <1>4, <1>5, <1>6, <1>7, StampFacts DEF BreakerInv

LEMMA ReadFailureKeepsInv ==
  ASSUME BreakerInv, NEW c \in BreakerCalls, ReadForFailure(c)
  PROVE  BreakerInv'
  <1>1. /\ callAt[c] = "idle" /\ failures' = failures + 1 /\ CallTo(c, "fail")
        /\ UNCHANGED <<breaker, Clocks, probes, autoTrips, overtaken>>
    BY DEF ReadForFailure
  <1>2. BreakerTypeOK' /\ TripsInOrder'
    BY <1>1, CallToFacts, CallStepKeepsType, InvFacts DEF HistoryOK
  <1>3. TripKnown'
    BY <1>1, CallToFacts, InvFacts DEF BreakerInv, TripKnown, Clocks
  <1>4. ProbesCounted'
    BY <1>1, CallToFacts DEF BreakerInv, ProbesCounted, Clocks, Limit
  <1>5. CountsAreFailures'
    BY <1>1, CallToFacts, InvFacts DEF BreakerInv, CountsAreFailures
  <1>6. TripsOnRealFailures'
    BY <1>1, InvFacts, BreakerAssumption DEF BreakerInv, TripsOnRealFailures
  <1> QED BY <1>2, <1>3, <1>4, <1>5, <1>6 DEF BreakerInv

LEMMA WriteFailureKeepsInv ==
  ASSUME BreakerInv, NEW c \in BreakerCalls, WriteFailure(c)
  PROVE  BreakerInv'
  <1> DEFINE n == breakerRead[c].count + 1
  <1>1. callAt[c] = "fail" /\ CallTo(c, "idle") /\ Probing' = Probing
        /\ UNCHANGED <<probes, failures, overtaken>>
    BY CallToFacts DEF WriteFailure
  <1>2. n \in Nat /\ n <= failures
    BY <1>1, InvFacts DEF BreakerInv, CountsAreFailures
  <1>3. CASE breakerRead[c].state = "closed" /\ n >= FailureThreshold
    <2>1. /\ StampTrip /\ autoTrips' = autoTrips + 1
          /\ breaker' = [state |-> "open", count |-> n, trippedAt |-> trips + 1]
      BY <1>3 DEF WriteFailure
    <2>2. /\ RowOK' /\ breaker'.count = n /\ breaker'.trippedAt = trips'
          /\ breaker'.state = "open"
      BY <1>1, <1>2, <2>1, TripKeepsRow
    <2>3. BreakerTypeOK'
      <3>1. HistoryOK' /\ overtaken' \in BOOLEAN
        BY <1>1, <2>1, TypeParts DEF BreakerInv, HistoryOK
      <3> QED BY <1>1, <2>1, <2>2, <3>1, StampFacts, CallToFacts, TypeParts
    <2>4. TripKnown'
      <3>1. trips' = trips + 1 /\ overtaken' = overtaken /\ trips \in Nat
        BY <1>1, <2>1, StampFacts, InvFacts
      <3>2. \A d \in BreakerCalls :
              /\ breakerRead'[d].trippedAt <= trips'
              /\ callAt'[d] \in {"halfOpen", "count"} =>
                   callAt'[d] = callAt[d] /\ breakerRead'[d] = breakerRead[d]
        <4>1. \A d \in BreakerCalls :
                breakerRead'[d].trippedAt <= trips /\ breakerRead'[d].trippedAt \in Nat
          BY <1>1, CallToFacts, InvFacts, RowFields
        <4> QED BY <1>1, <3>1, <4>1, CallToFacts
      <3> QED BY <2>2, <3>1, <3>2 DEF BreakerInv, TripKnown
    <2>5. ProbesCounted'
      BY <1>1, <2>1, StampKeepsCount
    <2>6. CountsAreFailures'
      BY <1>1, <1>2, <2>2, CallToFacts DEF BreakerInv, CountsAreFailures
    <2>7. TripsOnRealFailures'
      BY <1>1, <1>2, <1>3, InvFacts, BreakerAssumption DEF TripsOnRealFailures
    <2> QED BY <1>1, <2>1, <2>3, <2>4, <2>5, <2>6, <2>7, StampFacts DEF BreakerInv
  <1>4. CASE ~(breakerRead[c].state = "closed" /\ n >= FailureThreshold)
    <2>1. breaker' = [breaker EXCEPT !.count = n] /\ UNCHANGED <<Clocks, autoTrips>>
      BY <1>4 DEF WriteFailure
    <2>2. /\ breaker' \in BreakerRows /\ breaker'.state = breaker.state
          /\ breaker'.count = n /\ breaker'.trippedAt = breaker.trippedAt
      BY <1>2, <2>1, InvFacts, EditedRows
    <2>3. BreakerTypeOK'
      <3>1. RowOK' /\ ClocksOK' /\ HistoryOK' /\ overtaken' \in BOOLEAN
        BY <1>1, <2>1, <2>2, TypeParts
        DEF BreakerInv, RowOK, ClocksOK, HistoryOK, Clocks
      <3> QED BY <1>1, <3>1, CallToFacts, TypeParts
    <2>4. TripKnown'
      <3>1. trips' = trips /\ overtaken' = overtaken
        BY <1>1, <2>1 DEF Clocks
      <3>2. \A d \in BreakerCalls :
              /\ breakerRead'[d].trippedAt <= trips
              /\ callAt'[d] \in {"halfOpen", "count"} =>
                   callAt'[d] = callAt[d] /\ breakerRead'[d] = breakerRead[d]
        BY <1>1, CallToFacts, InvFacts
      <3> QED BY <2>2, <3>1, <3>2 DEF BreakerInv, TripKnown
    <2>5. TripsInOrder' /\ ProbesCounted' /\ TripsOnRealFailures'
      BY <1>1, <2>1
      DEF BreakerInv, TripsInOrder, ProbesCounted, TripsOnRealFailures, Limit, Clocks
    <2>6. CountsAreFailures'
      BY <1>1, <1>2, <2>2, CallToFacts DEF BreakerInv, CountsAreFailures
    <2> QED BY <2>3, <2>4, <2>5, <2>6 DEF BreakerInv
  <1> QED BY <1>3, <1>4

(* A row that is closed, or whose count is cleared.                        *)
LEMMA ClearedRow ==
  ASSUME BreakerInv, breaker' \in {ClosedRow, [breaker EXCEPT !.count = 0]},
         UNCHANGED Clocks
  PROVE  /\ RowOK' /\ breaker'.count = 0
         /\ \/ breaker'.state = "closed"
            \/ breaker'.state = breaker.state /\ breaker'.trippedAt = breaker.trippedAt
  <1>1. CASE breaker' = ClosedRow
    BY <1>1, ClosedRowFacts, InvFacts DEF RowOK, Clocks
  <1>2. CASE breaker' = [breaker EXCEPT !.count = 0]
    <2>1. /\ breaker' \in BreakerRows /\ breaker'.state = breaker.state
          /\ breaker'.count = 0 /\ breaker'.trippedAt = breaker.trippedAt
      BY <1>2, InvFacts DEF BreakerRows
    <2> QED BY <2>1 DEF RowOK, Clocks, BreakerInv, BreakerTypeOK
  <1> QED BY <1>1, <1>2

LEMMA WriteSuccessKeepsInv ==
  ASSUME BreakerInv, NEW c \in BreakerCalls, WriteSuccess(c)
  PROVE  BreakerInv'
  <1>1. /\ callAt[c] \in {"close", "clear"} /\ CallTo(c, "idle") /\ Probing' = Probing
        /\ breaker' \in {ClosedRow, [breaker EXCEPT !.count = 0]}
        /\ UNCHANGED <<Clocks, probes, failures, autoTrips, overtaken>>
    BY CallToFacts DEF WriteSuccess
  <1>2. BreakerTypeOK'
    <2>1. ClocksOK' /\ HistoryOK' /\ overtaken' \in BOOLEAN
      BY <1>1, TypeParts DEF BreakerInv, ClocksOK, HistoryOK, Clocks
    <2> QED BY <1>1, <2>1, ClearedRow, CallToFacts, TypeParts
  <1>3. TripKnown'
    BY <1>1, ClearedRow, CallToFacts, InvFacts DEF BreakerInv, TripKnown, Clocks
  <1>4. TripsInOrder' /\ ProbesCounted' /\ TripsOnRealFailures'
    BY <1>1
    DEF BreakerInv, TripsInOrder, ProbesCounted, TripsOnRealFailures, Limit, Clocks
  <1>5. CountsAreFailures'
    BY <1>1, ClearedRow, CallToFacts, InvFacts DEF BreakerInv, CountsAreFailures
  <1> QED BY <1>2, <1>3, <1>4, <1>5 DEF BreakerInv

LEMMA ResetKeepsInv ==
  ASSUME BreakerInv, ResetByHand
  PROVE  BreakerInv'
  <1>1. /\ breaker' = ClosedRow
        /\ UNCHANGED <<Clocks, probes, callAt, breakerRead, failures, autoTrips,
                       overtaken>>
    BY DEF ResetByHand
  <1>2. BreakerTypeOK'
    <2>1. ClocksOK' /\ CallsOK' /\ HistoryOK' /\ overtaken' \in BOOLEAN
      BY <1>1, TypeParts DEF BreakerInv, ClocksOK, CallsOK, HistoryOK, Clocks
    <2> QED BY <1>1, <2>1, ClearedRow, TypeParts
  <1>3. TripKnown' /\ CountsAreFailures'
    BY <1>1, ClosedRowFacts, InvFacts DEF BreakerInv, TripKnown, CountsAreFailures, Clocks
  <1>4. TripsInOrder' /\ ProbesCounted' /\ TripsOnRealFailures'
    BY <1>1
    DEF BreakerInv, TripsInOrder, ProbesCounted, TripsOnRealFailures, Probing, Limit,
        Clocks
  <1> QED BY <1>2, <1>3, <1>4 DEF BreakerInv

LEMMA IdleKeepsInv ==
  ASSUME BreakerInv, CoolDown \/ UNCHANGED breakerVars
  PROVE  BreakerInv'
  <1>1. UNCHANGED <<breaker, trips, probes, probesBefore, callAt, breakerRead, failures,
                    autoTrips, overtaken>>
        /\ cooled' \in {cooled, trips}
    BY DEF CoolDown, breakerVars
  <1>2. BreakerTypeOK'
    <2>1. RowOK' /\ CallsOK' /\ HistoryOK' /\ overtaken' \in BOOLEAN
      BY <1>1, TypeParts DEF BreakerInv, RowOK, CallsOK, HistoryOK
    <2>2. ClocksOK'
      BY <1>1, TypeParts, InvFacts DEF BreakerInv, ClocksOK
    <2> QED BY <2>1, <2>2, TypeParts
  <1>3. /\ TripKnown' /\ CountsAreFailures' /\ TripsInOrder' /\ ProbesCounted'
        /\ TripsOnRealFailures'
    BY <1>1
    DEF BreakerInv, TripKnown, CountsAreFailures, TripsInOrder, ProbesCounted,
        TripsOnRealFailures, Probing, Limit
  <1> QED BY <1>2, <1>3 DEF BreakerInv

LEMMA BreakerStepKeepsInv == BreakerInv /\ [BreakerNext]_breakerVars => BreakerInv'
  <1> SUFFICES ASSUME BreakerInv, [BreakerNext]_breakerVars PROVE BreakerInv'
    OBVIOUS
  <1>1. ASSUME NEW c \in BreakerCalls,
               BreakerStep(c) \/ ReadForFailure(c) \/ ReadForSuccess(c)
        PROVE  BreakerInv'
    BY <1>1, ReadKeepsInv, HalfOpenKeepsInv, CountKeepsInv, InsertProbeKeepsInv,
       ReadFailureKeepsInv, WriteFailureKeepsInv, WriteSuccessKeepsInv
    DEF BreakerStep
  <1>2. CASE CoolDown \/ TripByHand \/ ResetByHand \/ UNCHANGED breakerVars
    BY <1>2, TripByHandKeepsInv, ResetKeepsInv, IdleKeepsInv
  <1> QED BY <1>1, <1>2 DEF BreakerNext

LEMMA BreakerInvariant == BreakerSpec => []BreakerInv
  BY BreakerInitInv, BreakerStepKeepsInv, PTL DEF BreakerSpec

(* An open breaker is dated, so that its cool-down can pass (trip,         *)
(* recordFailure, check).                                                  *)
THEOREM BreakerTypeCorrect == BreakerSpec => []BreakerTypeOK
  BY BreakerInvariant, PTL DEF BreakerInv

(* However many calls count and probe at the same time, those let through  *)
(* since the latest trip exceed the limit by fewer than there are calls,   *)
(* unless the trip was undone under a call that re-opened the row (check). *)
THEOREM ProbesStayBounded == BreakerSpec => []ProbesBounded
  <1>1. BreakerInv => ProbesBounded
    BY ProbingIsFinite
    DEF BreakerInv, BreakerTypeOK, ProbesCounted, ProbesBounded, Limit
  <1> QED BY <1>1, BreakerInvariant, PTL

(* Lost and late updates of the counter never trip the breaker on fewer    *)
(* failures than the threshold (recordFailure).                            *)
THEOREM TripsAreEarned == BreakerSpec => []TripsOnRealFailures
  BY BreakerInvariant, PTL DEF BreakerInv

----------------------------------------------------------------------------
(* The monitor job.                                                        *)

(* A check that looks an alert up or records it has one, of its own keys;  *)
(* a monitor that is off runs no check.                                    *)
ChecksHaveKeys ==
  \A m \in Monitors, c \in Checks :
    /\ todo[m][c] \subseteq KeysOf[c]
    /\ checkAt[m][c] \in {"select", "insert"} => todo[m][c] # {}

(* The monitors about to record an alert of a key that was not recent when *)
(* they looked it up.                                                      *)
Recorders(k) ==
  {m \in Monitors : \E c \in Checks : checkAt[m][c] = "insert" /\ NextKey(m, c) = k}

AlertsAndRecorders ==
  \A k \in AlertKeys : recent[k] + Cardinality(Recorders(k)) <= Cardinality(Monitors)

MonitorInv == MonitorTypeOK /\ ChecksHaveKeys /\ AlertsAndRecorders

Holders(m) == {c \in Checks : checkAt[m][c] \in Holding}

LEMMA RecordersAreFinite ==
  ASSUME NEW k
  PROVE  /\ IsFiniteSet(Recorders(k)) /\ Cardinality(Recorders(k)) \in Nat
         /\ IsFiniteSet(Recorders(k)') /\ Cardinality(Recorders(k)') \in Nat
         /\ Cardinality(Monitors) \in Nat
         /\ Cardinality(Recorders(k)) <= Cardinality(Monitors)
         /\ Cardinality(Recorders(k)') <= Cardinality(Monitors)
  BY MonitorAssumption, FS_Subset, FS_CardinalityType DEF Recorders

LEMMA HoldersAreFinite ==
  ASSUME NEW m \in Monitors
  PROVE  /\ IsFiniteSet(Holders(m)) /\ Cardinality(Holders(m)) \in Nat
         /\ IsFiniteSet(Holders(m)') /\ Cardinality(Holders(m)') \in Nat
  BY MonitorAssumption, FS_Subset, FS_CardinalityType DEF Holders

(* The key a check looks up or records is one of its own.                  *)
LEMMA NextKeyIsOwn ==
  ASSUME ChecksHaveKeys, NEW m \in Monitors, NEW c \in Checks,
         checkAt[m][c] \in {"select", "insert"}
  PROVE  NextKey(m, c) \in KeysOf[c] /\ NextKey(m, c) \in AlertKeys
  <1>1. NextKey(m, c) \in todo[m][c]
    BY DEF ChecksHaveKeys, NextKey
  <1> QED BY <1>1, MonitorAssumption DEF ChecksHaveKeys

LEMMA MonitorInitInv == MonitorInit => MonitorInv
  <1> SUFFICES ASSUME MonitorInit PROVE MonitorInv
    OBVIOUS
  <1>1. \A m \in Monitors : {c \in Checks : checkAt[m][c] \in Holding} = {}
    BY DEF MonitorInit, Idle, Holding
  <1>2. \A m \in Monitors : Held(m) <= PoolSize
    <2>1. Cardinality({}) <= PoolSize
      BY FS_EmptySet, MonitorAssumption
    <2> QED BY <1>1, <2>1 DEF Held
  <1>3. MonitorTypeOK
    BY <1>2, MonitorAssumption DEF MonitorInit, MonitorTypeOK, Idle, Nothing
  <1>4. ChecksHaveKeys
    BY DEF MonitorInit, ChecksHaveKeys, Idle, Nothing
  <1>5. \A k \in AlertKeys : Recorders(k) = {}
    BY DEF MonitorInit, Recorders, Idle
  <1>6. AlertsAndRecorders
    <2>1. 0 + Cardinality({}) <= Cardinality(Monitors)
      BY FS_EmptySet, FS_CardinalityType, MonitorAssumption
    <2> QED BY <1>5, <2>1 DEF MonitorInit, AlertsAndRecorders
  <1> QED BY <1>3, <1>4, <1>6 DEF MonitorInv

LEMMA AddOne ==
  ASSUME NEW S, NEW x, IsFiniteSet(S)
  PROVE  IsFiniteSet(S \cup {x}) /\ Cardinality(S \cup {x}) <= Cardinality(S) + 1
  <1>1. Cardinality(S) \in Nat
    BY FS_CardinalityType
  <1>2. /\ IsFiniteSet(S \cup {x})
        /\ Cardinality(S \cup {x}) =
             IF x \in S THEN Cardinality(S) ELSE Cardinality(S) + 1
    BY FS_AddElement
  <1>3. Cardinality(S \cup {x}) \in {Cardinality(S), Cardinality(S) + 1}
    BY <1>2
  <1> QED BY <1>1, <1>2, <1>3

(* A monitor that lets go of connections and records nothing more.         *)
LEMMA FewerHeld ==
  ASSUME MonitorInv, NEW m \in Monitors, Holders(m)' \subseteq Holders(m)
  PROVE  Held(m)' <= PoolSize
  <1>1. Held(m) <= PoolSize /\ Held(m) = Cardinality(Holders(m))
        /\ Held(m)' = Cardinality(Holders(m)')
    BY DEF MonitorInv, MonitorTypeOK, Held, Holders
  <1>2. Cardinality(Holders(m)') <= Cardinality(Holders(m))
    BY HoldersAreFinite, FS_Subset
  <1> QED BY <1>1, <1>2, HoldersAreFinite, MonitorAssumption

LEMMA FewerRecorders ==
  ASSUME MonitorInv, recent' \in [AlertKeys -> Nat], NEW k \in AlertKeys,
         recent'[k] <= recent[k], Recorders(k)' \subseteq Recorders(k)
  PROVE  recent'[k] + Cardinality(Recorders(k)') <= Cardinality(Monitors)
  <1>1. recent[k] \in Nat /\ recent'[k] \in Nat
        /\ recent[k] + Cardinality(Recorders(k)) <= Cardinality(Monitors)
    BY DEF MonitorInv, MonitorTypeOK, AlertsAndRecorders
  <1>2. Cardinality(Recorders(k)') <= Cardinality(Recorders(k))
    BY RecordersAreFinite, FS_Subset
  <1> QED BY <1>1, <1>2, RecordersAreFinite

Places == {"idle", "connect", "query", "select", "insert", "done", "failed"}

(* A step of one check, all the others as they were.                       *)
OneCheckMoves(m, c) ==
  /\ checkAt' \in [Monitors -> [Checks -> {"idle", "connect", "query", "select",
                                           "insert", "done", "failed"}]]
  /\ todo' \in [Monitors -> [Checks -> SUBSET AlertKeys]]
  /\ \A n \in Monitors, d \in Checks :
       <<n, d>> # <<m, c>> => checkAt'[n][d] = checkAt[n][d] /\ todo'[n][d] = todo[n][d]

TodoTo(m, c, keys) == todo' = [todo EXCEPT ![m][c] = keys]

LEMMA CheckMoved ==
  ASSUME MonitorInv, NEW m \in Monitors, NEW c \in Checks,
         NEW next \in Places, CheckTo(m, c, next),
         NEW keys \in SUBSET AlertKeys, TodoTo(m, c, keys)
  PROVE  OneCheckMoves(m, c) /\ checkAt'[m][c] = next /\ todo'[m][c] = keys
  BY DEF TodoTo, OneCheckMoves, CheckTo, MonitorInv, MonitorTypeOK, Places

LEMMA CheckMovedKeysKept ==
  ASSUME MonitorInv, NEW m \in Monitors, NEW c \in Checks,
         NEW next \in Places, CheckTo(m, c, next), todo' = todo
  PROVE  OneCheckMoves(m, c) /\ checkAt'[m][c] = next /\ todo'[m][c] = todo[m][c]
  BY DEF OneCheckMoves, CheckTo, MonitorInv, MonitorTypeOK, Places

LEMMA OthersHeld ==
  ASSUME NEW m \in Monitors, NEW c \in Checks, OneCheckMoves(m, c), NEW n \in Monitors
  PROVE  /\ n # m => Holders(n)' = Holders(n)
         /\ checkAt'[m][c] \notin Holding \/ checkAt[m][c] \in Holding
              => Holders(n)' \subseteq Holders(n)
         /\ Holders(m)' \subseteq Holders(m) \cup {c}
  BY DEF OneCheckMoves, Holders

(* Who records what after a step of one check.                             *)
LEMMA OthersRecord ==
  ASSUME NEW m \in Monitors, NEW c \in Checks, OneCheckMoves(m, c), NEW k \in AlertKeys
  PROVE  /\ checkAt'[m][c] # "insert" => Recorders(k)' \subseteq Recorders(k)
         /\ NextKey(m, c)' # k => Recorders(k)' \subseteq Recorders(k)
         /\ checkAt'[m][c] = "insert" /\ checkAt[m][c] = "insert" /\ todo' = todo
              => Recorders(k)' \subseteq Recorders(k)
  <1>1. \A n \in Monitors, d \in Checks :
          <<n, d>> # <<m, c>> => checkAt'[n][d] = checkAt[n][d]
                                 /\ NextKey(n, d)' = NextKey(n, d)
    BY DEF OneCheckMoves, NextKey
  <1> QED BY <1>1 DEF Recorders, NextKey

(* The parts of the type invariant.                                        *)
PlainOK ==
  /\ due \subseteq AlertKeys /\ told \subseteq AlertKeys
  /\ recent \in [AlertKeys -> Nat]
  /\ on \subseteq Monitors
  /\ run \in [Monitors -> {"off", "checking", "sending"}]
  /\ raised \in [Monitors -> [Checks -> SUBSET AlertKeys]]
  /\ outbox \in [Monitors -> SUBSET (AlertKeys \cup Checks)]
  /\ mishaps \in 0 .. MaxMishaps
ChecksOK ==
  /\ checkAt \in [Monitors -> [Checks -> {"idle", "connect", "query", "select",
                                          "insert", "done", "failed"}]]
  /\ todo \in [Monitors -> [Checks -> SUBSET AlertKeys]]
PoolOK == \A m \in Monitors : Held(m) <= PoolSize

LEMMA MonitorTypeParts ==
  /\ MonitorTypeOK <=> PoolOK /\ PlainOK /\ ChecksOK
  /\ MonitorTypeOK' <=> PoolOK' /\ PlainOK' /\ ChecksOK'
  BY DEF MonitorTypeOK, PoolOK, PlainOK, ChecksOK

(* A step after which every check is where it was, or off or waiting for   *)
(* its first connection.                                                   *)
LEMMA ChecksAtRestKeepInv ==
  ASSUME MonitorInv, ChecksOK', PlainOK',
         \A k \in AlertKeys : recent'[k] <= recent[k],
         \A n \in Monitors :
           \/ checkAt'[n] = checkAt[n] /\ todo'[n] = todo[n]
           \/ /\ \A c \in Checks : checkAt'[n][c] \in {"idle", "connect"}
              /\ todo'[n] \in {todo[n], Nothing}
  PROVE  MonitorInv'
  <1>1. PoolOK'
    <2>1. \A n \in Monitors : Holders(n)' \subseteq Holders(n)
      BY DEF Holders, Holding
    <2> QED BY <2>1, FewerHeld DEF PoolOK
  <1>2. ChecksHaveKeys'
    BY DEF MonitorInv, ChecksHaveKeys, Nothing
  <1>3. AlertsAndRecorders'
    <2>1. \A k \in AlertKeys : Recorders(k)' \subseteq Recorders(k)
      BY DEF Recorders, NextKey
    <2> QED BY <2>1, FewerRecorders DEF AlertsAndRecorders, PlainOK
  <1> QED BY <1>1, <1>2, <1>3, MonitorTypeParts DEF MonitorInv

LEMMA RunKeepsInv ==
  ASSUME MonitorInv, NEW m \in Monitors,
         RunStep(m) \/ Start(m) \/ Stop(m) \/ Die(m)
  PROVE  MonitorInv'
  <1>1. PlainOK /\ ChecksOK
    BY MonitorTypeParts DEF MonitorInv
  <1>2. PlainOK'
    <2>1. CASE StartRun(m) \/ Start(m) \/ Stop(m) \/ EndRun(m)
      BY <1>1, <2>1 DEF PlainOK, StartRun, Start, Stop, EndRun, alertVars, checkVars
    <2>2. CASE Collect(m)
      <3>1. PICK alerts : alerts = UNION {raised[m][c] : c \in Checks}
        OBVIOUS
      <3>2. alerts \subseteq AlertKeys
        BY <1>1, <3>1 DEF PlainOK
      <3>3. PICK failing : failing = {c \in Checks : checkAt[m][c] = "failed"}
        OBVIOUS
      <3>4. alerts \cup failing \in SUBSET (AlertKeys \cup Checks)
        BY <3>2, <3>3
      <3>5. outbox' = [outbox EXCEPT ![m] = alerts \cup failing]
        BY <2>2, <3>1, <3>3 DEF Collect
      <3>6. outbox' \in [Monitors -> SUBSET (AlertKeys \cup Checks)]
        <4>1. outbox \in [Monitors -> SUBSET (AlertKeys \cup Checks)]
          BY <1>1 DEF PlainOK
        <4> QED BY <3>4, <3>5, <4>1
      <3> QED BY <1>1, <2>2, <3>6 DEF PlainOK, Collect, alertVars, Nothing
    <2>3. CASE SendAlerts(m)
      BY <1>1, <2>3, MonitorAssumption DEF PlainOK, SendAlerts, Mishap, checkVars
    <2>4. CASE Die(m)
      BY <1>1, <2>4, MonitorAssumption DEF PlainOK, Die, Mishap, alertVars, Nothing
    <2> QED BY <2>1, <2>2, <2>3, <2>4 DEF RunStep
  <1>3. recent' = recent
    BY DEF RunStep, StartRun, Collect, SendAlerts, EndRun, Start, Stop, Die, alertVars
  <1>4. ChecksOK'
        /\ \A n \in Monitors :
             \/ checkAt'[n] = checkAt[n] /\ todo'[n] = todo[n]
             \/ /\ \A c \in Checks : checkAt'[n][c] \in {"idle", "connect"}
                /\ todo'[n] \in {todo[n], Nothing}
    <2>1. CASE StartRun(m)
      BY <1>1, <2>1 DEF ChecksOK, StartRun
    <2>2. CASE Start(m) \/ Stop(m) \/ EndRun(m) \/ SendAlerts(m)
      BY <1>1, <2>2 DEF ChecksOK, Start, Stop, EndRun, SendAlerts, checkVars
    <2>3. CASE Collect(m)
      BY <1>1, <2>3 DEF ChecksOK, Collect, Idle
    <2>4. CASE Die(m)
      BY <1>1, <2>4 DEF ChecksOK, Die, Idle, Nothing
    <2> QED BY <2>1, <2>2, <2>3, <2>4 DEF RunStep
  <1>5. \A k \in AlertKeys : recent'[k] <= recent[k]
    BY <1>1, <1>3 DEF PlainOK
  <1> QED BY <1>2, <1>4, <1>5, ChecksAtRestKeepInv

LEMMA WorldKeepsInv ==
  ASSUME MonitorInv, NEW k \in AlertKeys, Turn(k) \/ LeaveWindow(k)
  PROVE  MonitorInv'
  <1>1. PlainOK /\ ChecksOK
    BY MonitorTypeParts DEF MonitorInv
  <1>2. PlainOK' /\ ChecksOK' /\ checkAt' = checkAt /\ todo' = todo
    BY <1>1 DEF PlainOK, ChecksOK, Turn, LeaveWindow, checkVars
  <1>3. \A j \in AlertKeys : recent'[j] <= recent[j]
    BY <1>1 DEF PlainOK, Turn, LeaveWindow
  <1> QED BY <1>2, <1>3, ChecksAtRestKeepInv

LEMMA StutterKeepsInv ==
  ASSUME MonitorInv, UNCHANGED monitorVars
  PROVE  MonitorInv'
  <1>1. PlainOK' /\ ChecksOK' /\ checkAt' = checkAt /\ todo' = todo
        /\ \A j \in AlertKeys : recent'[j] <= recent[j]
    BY MonitorTypeParts
    DEF MonitorInv, PlainOK, ChecksOK, monitorVars, alertVars, checkVars
  <1> QED BY <1>1, ChecksAtRestKeepInv

----------------------------------------------------------------------------
(* The steps of a check.                                                   *)

(* A step of one check that takes no connection beyond those of the pool,  *)
(* and is left with keys of its own.                                       *)
LEMMA CheckKeepsPoolAndKeys ==
  ASSUME MonitorInv, NEW m \in Monitors, NEW c \in Checks, OneCheckMoves(m, c),
         \/ checkAt'[m][c] \notin Holding \/ checkAt[m][c] \in Holding
         \/ ConnectionFree(m),
         todo'[m][c] \subseteq KeysOf[c],
         checkAt'[m][c] \in {"select", "insert"} => todo'[m][c] # {}
  PROVE  PoolOK' /\ ChecksOK' /\ ChecksHaveKeys'
  <1>1. \A n \in Monitors : Held(n) <= PoolSize /\ Held(n) = Cardinality(Holders(n))
                            /\ Held(n)' = Cardinality(Holders(n)')
    BY DEF MonitorInv, MonitorTypeOK, Held, Holders
  <1>2. ASSUME NEW n \in Monitors PROVE Held(n)' <= PoolSize
    <2>1. CASE Holders(n)' \subseteq Holders(n)
      BY <2>1, FewerHeld
    <2>2. CASE n = m /\ ConnectionFree(m)
      <3>1. /\ IsFiniteSet(Holders(m) \cup {c})
            /\ Cardinality(Holders(m) \cup {c}) <= Cardinality(Holders(m)) + 1
        <4>1. IsFiniteSet(Holders(m)) /\ Cardinality(Holders(m)) \in Nat
          BY HoldersAreFinite
        <4> QED BY <4>1, AddOne
      <3>2. Holders(m)' \subseteq Holders(m) \cup {c}
        BY OthersHeld
      <3>3. Cardinality(Holders(m)') <= Cardinality(Holders(m) \cup {c})
            /\ Cardinality(Holders(m) \cup {c}) \in Nat
        BY <3>1, <3>2, FS_Subset, FS_CardinalityType
      <3> QED BY <2>2, <3>1, <3>3, <1>1, HoldersAreFinite, MonitorAssumption
              DEF ConnectionFree
    <2> QED BY <2>1, <2>2, OthersHeld
  <1>3. ChecksHaveKeys'
    BY DEF MonitorInv, ChecksHaveKeys, OneCheckMoves
  <1> QED BY <1>2, <1>3 DEF PoolOK, ChecksOK, OneCheckMoves

LEMMA CheckKeepsInv ==
  ASSUME MonitorInv, NEW m \in Monitors, NEW c \in Checks,
         Connect(m, c) \/ Query(m, c) \/ CheckThrows(m, c)
  PROVE  MonitorInv'
  <1>1. PlainOK /\ recent' = recent
    BY MonitorTypeParts
    DEF MonitorInv, Connect, Query, CheckThrows, alertVars
  <1>2. PlainOK'
    <2>1. UNCHANGED <<due, told, recent, on, run, outbox>>
      BY DEF Connect, Query, CheckThrows, alertVars
    <2>2. mishaps' \in 0 .. MaxMishaps
      BY <1>1, MonitorAssumption
      DEF PlainOK, Connect, Query, CheckThrows, Mishap
    <2>3. raised' \in [Monitors -> [Checks -> SUBSET AlertKeys]]
      BY <1>1 DEF PlainOK, Connect, Query, CheckThrows
    <2> QED BY <1>1, <2>1, <2>2, <2>3 DEF PlainOK
  <1>3. /\ OneCheckMoves(m, c) /\ checkAt'[m][c] # "insert"
        /\ todo'[m][c] \subseteq KeysOf[c]
        /\ checkAt'[m][c] = "select" => todo'[m][c] # {}
        /\ \/ checkAt'[m][c] \notin Holding \/ checkAt[m][c] \in Holding
           \/ ConnectionFree(m)
    <2>1. CASE Connect(m, c)
      BY <2>1, CheckMovedKeysKept DEF Connect, MonitorInv, ChecksHaveKeys, Places
    <2>2. CASE Query(m, c)
      <3>0. PICK keys : keys = due \cap KeysOf[c]
        OBVIOUS
      <3>1. keys \in SUBSET AlertKeys /\ AfterKeys(keys) \in {"done", "select"}
            /\ (AfterKeys(keys) = "select" => keys # {})
        BY <1>1, <3>0 DEF PlainOK, AfterKeys
      <3>2. OneCheckMoves(m, c) /\ checkAt'[m][c] = AfterKeys(keys)
            /\ todo'[m][c] = keys
        <4>1. TodoTo(m, c, keys) /\ CheckTo(m, c, AfterKeys(keys))
          BY <2>2, <3>0 DEF Query, TodoTo
        <4>2. PICK next \in Places : next = AfterKeys(keys)
          BY <3>1 DEF Places
        <4>3. CheckTo(m, c, next)
          BY <4>1, <4>2
        <4> QED BY <3>1, <4>1, <4>2, <4>3, CheckMoved
      <3> QED BY <2>2, <3>0, <3>1, <3>2 DEF Query, Holding
    <2>3. CASE CheckThrows(m, c)
      <3>1. TodoTo(m, c, {}) /\ CheckTo(m, c, "failed")
        BY <2>3 DEF CheckThrows, TodoTo
      <3>2. OneCheckMoves(m, c) /\ checkAt'[m][c] = "failed" /\ todo'[m][c] = {}
        <4>1. {} \in SUBSET AlertKeys
          OBVIOUS
        <4> QED BY <3>1, <4>1, CheckMoved DEF Places
      <3> QED BY <3>2 DEF Holding
    <2> QED BY <2>1, <2>2, <2>3
  <1>4. AlertsAndRecorders'
    <2> SUFFICES ASSUME NEW k \in AlertKeys
                 PROVE  recent'[k] + Cardinality(Recorders(k)') <= Cardinality(Monitors)
      BY DEF AlertsAndRecorders
    <2>1. Recorders(k)' \subseteq Recorders(k)
      BY <1>3, OthersRecord
    <2>2. recent'[k] <= recent[k]
      BY <1>1 DEF PlainOK
    <2> QED BY <1>2, <2>1, <2>2, FewerRecorders DEF PlainOK
  <1>5. PoolOK' /\ ChecksOK' /\ ChecksHaveKeys'
    BY <1>3, CheckKeepsPoolAndKeys
  <1> QED BY <1>2, <1>4, <1>5, MonitorTypeParts DEF MonitorInv

(* The lookup finds no recent alert of the key, so that all the monitors   *)
(* may record one.                                                         *)
LEMMA SuppressKeepsInv ==
  ASSUME MonitorInv, NEW m \in Monitors, NEW c \in Checks, ShouldSuppress(m, c)
  PROVE  MonitorInv'
  <1>0. PICK k, keys : k = NextKey(m, c) /\ keys = todo[m][c] \ {k}
    OBVIOUS
  <1>1. checkAt[m][c] = "select" /\ PlainOK' /\ recent' = recent
        /\ recent \in [AlertKeys -> Nat]
    BY MonitorTypeParts DEF MonitorInv, PlainOK, ShouldSuppress, alertVars
  <1>2. k \in KeysOf[c] /\ k \in AlertKeys
    BY <1>0, <1>1, NextKeyIsOwn DEF MonitorInv
  <1>3. todo[m][c] \subseteq KeysOf[c] /\ todo[m][c] # {}
        /\ keys \in SUBSET AlertKeys
    BY <1>0, <1>1 DEF MonitorInv, ChecksHaveKeys, MonitorTypeOK
  <1>4. CASE recent[k] > 0
    <2>1. AfterKeys(keys) \in {"done", "select"}
          /\ (AfterKeys(keys) = "select" => keys # {})
      BY DEF AfterKeys
    <2>2. OneCheckMoves(m, c) /\ checkAt'[m][c] = AfterKeys(keys) /\ todo'[m][c] = keys
      <3>1. TodoTo(m, c, keys) /\ CheckTo(m, c, AfterKeys(keys))
        BY <1>0, <1>4 DEF ShouldSuppress, TodoTo
      <3>2. PICK next \in Places : next = AfterKeys(keys)
        BY <2>1 DEF Places
      <3>3. CheckTo(m, c, next)
        BY <3>1, <3>2
      <3> QED BY <1>3, <3>1, <3>2, <3>3, CheckMoved
    <2>3. PoolOK' /\ ChecksOK' /\ ChecksHaveKeys'
      BY <1>0, <1>1, <1>3, <2>1, <2>2, CheckKeepsPoolAndKeys DEF Holding
    <2>4. AlertsAndRecorders'
      BY <1>1, <2>1, <2>2, OthersRecord, FewerRecorders DEF AlertsAndRecorders
    <2> QED BY <1>1, <2>3, <2>4, MonitorTypeParts DEF MonitorInv
  <1>5. CASE ~(recent[k] > 0)
    <2>1. OneCheckMoves(m, c) /\ checkAt'[m][c] = "insert" /\ todo' = todo
      <3>1. todo' = todo /\ CheckTo(m, c, "insert")
        BY <1>0, <1>5 DEF ShouldSuppress
      <3> QED BY <3>1, CheckMovedKeysKept DEF Places
    <2>2. PoolOK' /\ ChecksOK' /\ ChecksHaveKeys'
      BY <1>1, <1>3, <2>1, CheckKeepsPoolAndKeys DEF Holding
    <2>3. ASSUME NEW j \in AlertKeys
          PROVE  recent'[j] + Cardinality(Recorders(j)') <= Cardinality(Monitors)
      <3>1. CASE j = k
        BY <1>1, <1>5, <3>1, RecordersAreFinite
      <3>2. CASE j # k
        <4>1. NextKey(m, c)' # j
          BY <1>0, <2>1, <3>2 DEF NextKey
        <4> QED BY <1>1, <2>1, <4>1, OthersRecord, FewerRecorders
      <3> QED BY <3>1, <3>2
    <2> QED BY <1>1, <2>2, <2>3, MonitorTypeParts DEF MonitorInv, AlertsAndRecorders
  <1> QED BY <1>4, <1>5

(* What a monitor records it is no longer about to record: no other check  *)
(* of it has the key.                                                      *)
LEMMA InsertAlertKeepsInv ==
  ASSUME MonitorInv, NEW m \in Monitors, NEW c \in Checks, InsertAlert(m, c)
  PROVE  MonitorInv'
  <1>0. PICK k, keys : k = NextKey(m, c) /\ keys = todo[m][c] \ {k}
    OBVIOUS
  <1>1. checkAt[m][c] = "insert" /\ PlainOK
    BY MonitorTypeParts DEF MonitorInv, InsertAlert
  <1>2. k \in KeysOf[c] /\ k \in AlertKeys
    BY <1>0, <1>1, NextKeyIsOwn DEF MonitorInv
  <1>3. todo[m][c] \subseteq KeysOf[c] /\ keys \in SUBSET AlertKeys
    BY <1>0, <1>1 DEF MonitorInv, ChecksHaveKeys, MonitorTypeOK
  <1>4. /\ recent' = [recent EXCEPT ![k] = @ + 1]
        /\ raised' = [raised EXCEPT ![m][c] = @ \cup {k}]
        /\ TodoTo(m, c, keys) /\ CheckTo(m, c, AfterKeys(keys))
        /\ UNCHANGED <<due, told, on, run, outbox, mishaps>>
    BY <1>0 DEF InsertAlert, TodoTo
  <1>5. AfterKeys(keys) \in {"done", "select"} /\ (AfterKeys(keys) = "select" => keys # {})
    BY DEF AfterKeys
  <1>6. OneCheckMoves(m, c) /\ checkAt'[m][c] = AfterKeys(keys) /\ todo'[m][c] = keys
    <2>1. PICK next \in Places : next = AfterKeys(keys)
      BY <1>5 DEF Places
    <2>2. CheckTo(m, c, next)
      BY <1>4, <2>1
    <2> QED BY <1>3, <1>4, <2>1, <2>2, CheckMoved
  <1>7. PoolOK' /\ ChecksOK' /\ ChecksHaveKeys'
    BY <1>0, <1>1, <1>3, <1>5, <1>6, CheckKeepsPoolAndKeys DEF Holding
  <1>8. PlainOK'
    BY <1>1, <1>2, <1>4 DEF PlainOK
  <1>9. ASSUME NEW j \in AlertKeys
        PROVE  recent'[j] + Cardinality(Recorders(j)') <= Cardinality(Monitors)
    <2>1. Recorders(j)' \subseteq Recorders(j)
      BY <1>5, <1>6, OthersRecord
    <2>2. CASE j = k
      <3>1. m \in Recorders(k)
        BY <1>0, <1>1 DEF Recorders
      <3>2. m \notin Recorders(k)'
        <4> SUFFICES ASSUME NEW d \in Checks, checkAt'[m][d] = "insert",
                            NextKey(m, d)' = k
                     PROVE  FALSE
          BY DEF Recorders
        <4>1. d # c
          BY <1>5, <1>6
        <4>2. checkAt[m][d] = "insert" /\ NextKey(m, d) = k
          BY <1>6, <4>1 DEF OneCheckMoves, NextKey
        <4>3. k \in KeysOf[d]
          BY <4>2, NextKeyIsOwn DEF MonitorInv
        <4> QED BY <1>2, <4>1, <4>3, MonitorAssumption
      <3>3. Cardinality(Recorders(k)') <= Cardinality(Recorders(k)) - 1
        <4>1. Recorders(k)' \subseteq Recorders(k) \ {m}
          BY <2>1, <2>2, <3>2
        <4>2. IsFiniteSet(Recorders(k) \ {m})
              /\ Cardinality(Recorders(k) \ {m}) = Cardinality(Recorders(k)) - 1
          BY <3>1, RecordersAreFinite, FS_RemoveElement
        <4>3. Cardinality(Recorders(k)') <= Cardinality(Recorders(k) \ {m})
          BY <4>1, <4>2, FS_Subset
        <4> QED BY <4>2, <4>3
      <3>4. recent'[k] = recent[k] + 1 /\ recent[k] \in Nat
        BY <1>1, <1>2, <1>4 DEF PlainOK
      <3>5. recent[k] + Cardinality(Recorders(k)) <= Cardinality(Monitors)
        BY <1>2 DEF MonitorInv, AlertsAndRecorders
      <3> QED BY <2>2, <3>3, <3>4, <3>5, RecordersAreFinite
    <2>3. CASE j # k
      <3>1. recent'[j] = recent[j] /\ recent[j] \in Nat
        BY <1>1, <1>4, <2>3 DEF PlainOK
      <3> QED BY <2>1, <3>1, <1>8, FewerRecorders DEF PlainOK
    <2> QED BY <2>2, <2>3
  <1> QED BY <1>7, <1>8, <1>9, MonitorTypeParts DEF MonitorInv, AlertsAndRecorders

----------------------------------------------------------------------------

LEMMA MonitorStepKeepsInv == MonitorInv /\ [MonitorNext]_monitorVars => MonitorInv'
  <1> SUFFICES ASSUME MonitorInv, [MonitorNext]_monitorVars PROVE MonitorInv'
    OBVIOUS
  <1>1. ASSUME NEW m \in Monitors, RunStep(m) \/ Start(m) \/ Stop(m) \/ Die(m)
        PROVE  MonitorInv'
    BY <1>1, RunKeepsInv
  <1>2. ASSUME NEW m \in Monitors, NEW c \in Checks, CheckStep(m, c)
        PROVE  MonitorInv'
    BY <1>2, CheckKeepsInv, SuppressKeepsInv, InsertAlertKeepsInv DEF CheckStep
  <1>3. ASSUME NEW k \in AlertKeys, Turn(k) \/ LeaveWindow(k) PROVE MonitorInv'
    BY <1>3, WorldKeepsInv
  <1>4. CASE UNCHANGED monitorVars
    BY <1>4, StutterKeepsInv
  <1> QED BY <1>1, <1>2, <1>3, <1>4 DEF MonitorNext

LEMMA MonitorInvariant == MonitorSpec => []MonitorInv
  BY MonitorInitInv, MonitorStepKeepsInv, PTL DEF MonitorSpec

(* A process never holds more connections than its pool has (createPool,   *)
(* runChecks).                                                             *)
THEOREM MonitorTypeCorrect == MonitorSpec => []MonitorTypeOK
  BY MonitorInvariant, PTL DEF MonitorInv

(* However many processes watch, no alert is recorded more often in its    *)
(* window than there are processes (shouldSuppress, recordAlert).          *)
THEOREM AlertsDoNotStorm == MonitorSpec => []NoAlertStorm
  <1>1. MonitorInv => NoAlertStorm
    BY RecordersAreFinite
    DEF MonitorInv, MonitorTypeOK, AlertsAndRecorders, NoAlertStorm
  <1> QED BY <1>1, MonitorInvariant, PTL

(* The checks of a run that has begun are under way or have settled.       *)
RunsHaveChecks ==
  \A m \in Monitors, c \in Checks : run[m] = "checking" => checkAt[m][c] # "idle"

LEMMA CheckKeepsRuns ==
  ASSUME MonitorTypeOK, RunsHaveChecks, NEW m \in Monitors, NEW c \in Checks,
         CheckStep(m, c)
  PROVE  RunsHaveChecks'
  <1>1. /\ checkAt \in [Monitors -> [Checks -> {"idle", "connect", "query", "select",
                                               "insert", "done", "failed"}]]
        /\ run' = run
    BY DEF MonitorTypeOK, CheckStep, Connect, Query, ShouldSuppress, InsertAlert, CheckThrows
  <1>2. \E next : CheckTo(m, c, next) /\ next # "idle"
    <2>1. CASE Connect(m, c)
      BY <2>1 DEF Connect
    <2>2. CASE CheckThrows(m, c)
      BY <2>2 DEF CheckThrows
    <2>3. CASE Query(m, c)
      BY <2>3 DEF Query, AfterKeys
    <2>4. CASE ShouldSuppress(m, c)
      BY <2>4 DEF ShouldSuppress, AfterKeys
    <2>5. CASE InsertAlert(m, c)
      BY <2>5 DEF InsertAlert, AfterKeys
    <2> QED BY <2>1, <2>2, <2>3, <2>4, <2>5 DEF CheckStep
  <1>3. PICK next : CheckTo(m, c, next) /\ next # "idle"
    BY <1>2
  <1>4. \A n \in Monitors, d \in Checks :
          checkAt'[n][d] = IF n = m /\ d = c THEN next ELSE checkAt[n][d]
    BY <1>1, <1>3 DEF CheckTo
  <1> QED BY <1>1, <1>3, <1>4 DEF RunsHaveChecks

LEMMA MonitorStepKeepsRuns ==
  MonitorTypeOK /\ RunsHaveChecks /\ [MonitorNext]_monitorVars => RunsHaveChecks'
  <1> SUFFICES ASSUME MonitorTypeOK, RunsHaveChecks, [MonitorNext]_monitorVars
               PROVE  RunsHaveChecks'
    OBVIOUS
  <1>a. /\ checkAt \in [Monitors -> [Checks -> {"idle", "connect", "query", "select",
                                               "insert", "done", "failed"}]]
        /\ run \in [Monitors -> {"off", "checking", "sending"}]
    BY DEF MonitorTypeOK
  <1>1. ASSUME NEW m \in Monitors, StartRun(m) \/ Collect(m) \/ EndRun(m) \/ Die(m)
        PROVE  RunsHaveChecks'
    BY <1>1, <1>a DEF RunsHaveChecks, StartRun, Collect, EndRun, Die, Idle, checkVars
  <1>2. ASSUME NEW m \in Monitors, NEW c \in Checks, CheckStep(m, c)
        PROVE  RunsHaveChecks'
    BY <1>2, CheckKeepsRuns
  <1>3. ASSUME NEW m \in Monitors, SendAlerts(m) \/ Start(m) \/ Stop(m)
        PROVE  RunsHaveChecks'
    BY <1>3 DEF RunsHaveChecks, SendAlerts, Start, Stop, checkVars
  <1>4. CASE UNCHANGED monitorVars \/ \E k \in AlertKeys : Turn(k) \/ LeaveWindow(k)
    BY <1>4 DEF RunsHaveChecks, Turn, LeaveWindow, monitorVars, checkVars
  <1> QED BY <1>1, <1>2, <1>3, <1>4 DEF MonitorNext, RunStep

LEMMA RunsHaveChecksAlways == MonitorSpec => []RunsHaveChecks
  <1>1. MonitorInit => RunsHaveChecks
    BY DEF MonitorInit, RunsHaveChecks
  <1> QED BY <1>1, MonitorStepKeepsRuns, MonitorTypeCorrect, PTL DEF MonitorSpec

(* However many checks share the pool: while fewer of them have alerts to  *)
(* record than it has connections, not all connections are held by checks  *)
(* that wait for another, so the run is never at a stand (runChecks,       *)
(* createPool).                                                            *)
THEOREM RunsNeverStand == MonitorSpec => []RunsMoveOn
  <1>1. ASSUME MonitorInv, RunsHaveChecks, NEW m \in Monitors, run[m] = "checking",
               Cardinality(Recording(m)) < PoolSize,
               \A c \in Checks : checkAt[m][c] # "query",
               NEW b \in Checks, checkAt[m][b] \notin {"done", "failed"}
        PROVE  ConnectionFree(m) /\ \E c \in Checks : checkAt[m][c] \in Waiting
    <2>1. checkAt[m][b] \in Waiting
      BY <1>1 DEF MonitorInv, MonitorTypeOK, RunsHaveChecks, Waiting
    <2>2. Holders(m) \subseteq Recording(m)
      BY <1>1 DEF Holders, Recording, MonitorInv, ChecksHaveKeys, Holding
    <2>3. IsFiniteSet(Recording(m))
      BY MonitorAssumption, FS_Subset DEF Recording
    <2>4. /\ Cardinality(Holders(m)) <= Cardinality(Recording(m))
          /\ Cardinality(Holders(m)) \in Nat /\ Cardinality(Recording(m)) \in Nat
      BY <2>2, <2>3, FS_Subset, FS_CardinalityType
    <2>5. Cardinality(Holders(m)) < PoolSize
      BY <1>1, <2>4, MonitorAssumption
    <2> QED BY <2>1, <2>5 DEF ConnectionFree, Held, Holders
  <1>2. MonitorInv /\ RunsHaveChecks => RunsMoveOn
    BY <1>1 DEF RunsMoveOn, AllSettled
  <1> QED BY <1>2, MonitorInvariant, RunsHaveChecksAlways, PTL
=============================================================================
