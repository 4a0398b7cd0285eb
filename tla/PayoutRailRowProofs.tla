------------------------- MODULE PayoutRailRowProofs -------------------------
(***************************************************************************)
(* A row that nobody works on is complete: as long as nothing has failed,  *)
(* it holds what the next step from its state needs.                       *)
(*                                                                         *)
(* A claim makes the state visible before its action has run, so that the  *)
(* row alone is incomplete most of the time.  The invariant says that what *)
(* it lacks is still to be written by a call under way; a retry goes back  *)
(* only to states that lack nothing, because of what the audit log holds.  *)
(***************************************************************************)
EXTENDS PayoutRailProofs

(* The states a row can have failed from, of which the audit log tells.    *)
FailedFrom(s) == s = ManualReview \/ (s = PayoutSubmitted /\ payoutRef)

KnowsFailure(a) ==
  /\ pc[a] = "scanned" => payoutRef /\ target[a] = PayoutConfirmed
  /\ pc[a] = "unqueue" =>
       seen[a].status = ManualReview /\ seen[a].id = "row" /\ target[a] \in Terminal
  /\ pc[a] \in InTransition /\ target[a] = Failed /\ seen[a].id = "row" =>
       FailedFrom(seen[a].status)
  /\ pc[a] = "reset" => target[a] = Initiated \/ FailedFrom(target[a])
  /\ pc[a] = "audit" => target[a] = Failed
  /\ pc[a] \in {"act", "write", "persist", "audit", "rollback"} => seen[a].id = "row"

FailuresKnown ==
  /\ \A a \in Callers : KnowsFailure(a)
  /\ lastFailed # None => FailedFrom(lastFailed)

(* What a call read of the burn's id is on the row, and what its action    *)
(* gave it to write is there.                                              *)
KnowsBurn(a) ==
  /\ seen[a].tx # NoTx => tx # NoTx
  /\ pc[a] \in {"claim", "act"} /\ target[a] \in AfterBurn => seen[a].tx # NoTx
  /\ pc[a] = "persist" /\ target[a] = Preflight => got[a].verdict # "none"
  /\ pc[a] \in {"write", "persist"} /\ target[a] = BurnSubmitted => got[a].tx # NoTx

BurnKnown == \A a \in Callers : KnowsBurn(a)

(* The four states whose actions leave something that later states need,   *)
(* what it is, and the calls that are still to write it.                   *)
Supplying == {Preflight, BurnSubmitted, AttestationRequested, PayoutSubmitted}

Recorded(s) ==
  /\ s = Preflight => verdict # "none"
  /\ s = BurnSubmitted => tx # NoTx
  /\ s = AttestationRequested => attRef # NoTx
  /\ s = PayoutSubmitted => payoutRef

Supplies(a, s) ==
  /\ target[a] = s
  /\ \/ pc[a] = "act"
     \/ s = Preflight /\ pc[a] = "persist"
     \/ s = BurnSubmitted /\ pc[a] \in {"write", "persist"}
     \/ s = PayoutSubmitted /\ pc[a] \in {"write", "rollback"}

Given(s) == Recorded(s) \/ \E a \in Callers : Supplies(a, s)

NeededIn(s) == IF s = BurnSubmitted THEN {BurnSubmitted} \cup AfterBurn ELSE {s}

RowSupplied ==
  faults = 0 =>
    /\ \A s \in Supplying : status \in NeededIn(s) => Given(s)
    /\ \A a \in Callers : pc[a] = "rollback" => target[a] = PayoutSubmitted

RowInv == TypeInv /\ FailuresKnown /\ BurnKnown /\ RowSupplied

----------------------------------------------------------------------------
(* The table around these states.                                          *)

LEMMA PayoutsStartWhenReleased ==
  ASSUME NEW s, <<s, PayoutSubmitted>> \in Edges
  PROVE  s = ReleaseConfirmed
BY EdgeKinds, ForwardEdges DEF Initiated, Preflight, BurnSubmitted, BurnConfirmed,
   AttestationRequested, AttestationConfirmed, ReleaseUnobserved, ReleaseObserved,
   ReleaseConfirmed, PayoutSubmitted, PayoutConfirmed, Settled, Failed, Cancelled,
   ManualReview

LEMMA NeededStates ==
  ASSUME NEW s \in Supplying
  PROVE  /\ s \in NeededIn(s)
         /\ Initiated \notin NeededIn(s) /\ ManualReview \notin NeededIn(s)
         /\ ReleaseConfirmed \notin NeededIn(s)
         /\ NeededIn(s) \subseteq Supplying \cup {BurnConfirmed}
         /\ \A t \in NeededIn(s) : t = s \/ (s = BurnSubmitted /\ t \in AfterBurn)
BY DEF NeededIn, Supplying, AfterBurn, Initiated, Preflight, BurnSubmitted, BurnConfirmed,
   AttestationRequested, ReleaseConfirmed, PayoutSubmitted, ManualReview

LEMMA NamesDiffer ==
  /\ Failed \notin NonTerminal /\ Failed \in Terminal
  /\ Failed # ManualReview /\ Failed # PayoutSubmitted /\ Failed # PayoutConfirmed
  /\ Failed \notin AfterBurn /\ Failed \notin Supplying
  /\ ManualReview \notin Terminal /\ ManualReview # BurnSubmitted
  /\ ManualReview # None /\ PayoutSubmitted # ManualReview
  /\ PayoutSubmitted # BurnSubmitted /\ PayoutSubmitted # Preflight
  /\ PayoutSubmitted \notin AfterBurn
BY DEF NonTerminal, Terminal, PipelineStates, BeforeBurn, Observing, AfterBurn, Supplying,
   Initiated, Preflight, BurnSubmitted, BurnConfirmed, AttestationRequested,
   AttestationConfirmed, ReleaseUnobserved, ReleaseObserved, ReleaseConfirmed,
   PayoutSubmitted, PayoutConfirmed, Settled, Failed, Cancelled, ManualReview, None

----------------------------------------------------------------------------
(* What a step of a call does for the row: nothing that is recorded is     *)
(* lost, and what the call was to write is written or still to come.       *)

Furthers(a) ==
  /\ KnowsFailure(a)' /\ KnowsBurn(a)'
  /\ lastFailed' # None => FailedFrom(lastFailed)'
  /\ \A s \in Supplying : Recorded(s) => Recorded(s)'
  /\ faults' = 0 => faults = 0
  /\ faults' = 0 => (pc'[a] = "rollback" => target'[a] = PayoutSubmitted)
  /\ faults' = 0 /\ pc[a] # "rollback" =>
       \A s \in Supplying : Supplies(a, s) => Supplies(a, s)' \/ Recorded(s)'

Columns == <<verdict, tx, attRef, payoutRef, lastFailed, faults>>

LEMMA CallFacts ==
  ASSUME RowInv, NEW a \in Callers
  PROVE  /\ CallsOK /\ KnowsFailure(a) /\ KnowsBurn(a)
         /\ lastFailed # None => FailedFrom(lastFailed)
         /\ faults \in Nat /\ burns \in Nat /\ attRef \in Txs
BY EngineAssumption, MaxBurnsAssumption
DEF RowInv, TypeInv, TypeOK, EngineTypeOK, WorldTypeOK, FailuresKnown, BurnKnown

LEMMA ColumnsKept ==
  ASSUME UNCHANGED Columns
  PROVE  /\ \A s : Recorded(s) => Recorded(s)'
         /\ \A s : FailedFrom(s) = FailedFrom(s)'
BY DEF Columns, Recorded, FailedFrom

(* A step that leaves the columns alone, of a call that writes none.       *)
LEMMA BesideTheRow ==
  ASSUME RowInv, NEW a \in Callers, UNCHANGED Columns,
         KnowsFailure(a)', KnowsBurn(a)', pc'[a] # "rollback",
         pc[a] \notin {"act", "write", "persist"}
  PROVE  Furthers(a)
<1>1. \A s \in Supplying : Supplies(a, s) => pc[a] = "rollback"
  BY DEF Supplies
<1> QED BY <1>1, ColumnsKept, CallFacts DEF Furthers, Columns, FailedFrom

LEMMA GoneCalls ==
  ASSUME CallsOK, NEW a \in Callers, Return(a)
  PROVE  /\ KnowsFailure(a)' /\ KnowsBurn(a)'
         /\ pc'[a] = "idle" /\ \A s : ~Supplies(a, s)'
BY DEF CallsOK, Return, KnowsFailure, KnowsBurn, InTransition, NoRow, Supplies

LEMMA AttemptKnows ==
  ASSUME RowInv, NEW a \in Callers, NEW row, NEW to, Attempt(a, row, to),
         row.tx # NoTx => tx # NoTx, tx' = tx, payoutRef' = payoutRef,
         to = Failed /\ row.id = "row" => FailedFrom(row.status)
  PROVE  KnowsFailure(a)' /\ KnowsBurn(a)' /\ pc'[a] = "guard"
<1>1. pc'[a] = "guard" /\ seen'[a] = row /\ target'[a] = to
  BY CallFacts DEF Attempt, CallsOK
<1>2. FailedFrom(row.status) => FailedFrom(row.status)'
  BY DEF FailedFrom
<1>3. KnowsFailure(a)'
  BY <1>1, <1>2 DEF KnowsFailure, FailedFrom
<1>4. KnowsBurn(a)'
  BY <1>1 DEF KnowsBurn
<1> QED BY <1>1, <1>3, <1>4

LEMMA GuardAndClaimFurther ==
  ASSUME RowInv, NEW a \in Callers,
         \/ GuardAccepts(a) \/ GuardRejects(a) \/ GuardEscalates(a)
         \/ ClaimWon(a) \/ ClaimLost(a)
  PROVE  Furthers(a)
<1>a. CallsOK /\ KnowsFailure(a) /\ KnowsBurn(a)
  BY CallFacts
<1>1. CASE GuardAccepts(a)
  <2>1. /\ pc[a] = "guard" /\ pc'[a] = "claim" /\ seen'[a] = seen[a]
        /\ target'[a] = target[a] /\ got'[a] = got[a] /\ UNCHANGED Columns
    BY <1>1, <1>a DEF GuardAccepts, Goto, CallsOK, Columns, rowVars, sideVars, bookVars
  <2>2. target[a] \in AfterBurn => seen[a].tx # NoTx
    BY <1>1 DEF GuardAccepts, GuardHolds, IsBurnConfirmed, AfterBurn
  <2>3. KnowsFailure(a)' /\ KnowsBurn(a)'
    BY <1>a, <2>1, <2>2, ColumnsKept DEF KnowsFailure, KnowsBurn, InTransition, Columns,
       FailedFrom
  <2> QED BY <2>1, <2>3, BesideTheRow
<1>2. CASE GuardRejects(a) \/ ClaimLost(a)
  <2>1. pc[a] \in {"guard", "claim"} /\ Return(a) /\ UNCHANGED Columns
    BY <1>2 DEF GuardRejects, ClaimLost, Columns, rowVars, sideVars, bookVars
  <2> QED BY <1>a, <2>1, GoneCalls, BesideTheRow
<1>3. CASE GuardEscalates(a)
  <2>1. pc[a] = "guard" /\ Attempt(a, seen[a], ManualReview) /\ UNCHANGED Columns
    BY <1>3 DEF GuardEscalates, Columns, rowVars, sideVars, bookVars
  <2>2. KnowsFailure(a)' /\ KnowsBurn(a)' /\ pc'[a] = "guard"
    BY <1>a, <2>1, AttemptKnows, NamesDiffer DEF KnowsBurn, Columns
  <2> QED BY <2>1, <2>2, BesideTheRow
<1>4. CASE ClaimWon(a)
  <2>1. /\ pc[a] = "claim" /\ pc'[a] = "act" /\ seen'[a] = seen[a]
        /\ target'[a] = target[a] /\ got'[a] = got[a] /\ UNCHANGED Columns
        /\ seen[a].id = "row"
    BY <1>4, <1>a DEF ClaimWon, ClaimMatches, Goto, CallsOK, Columns, sideVars, bookVars
  <2>2. KnowsFailure(a)' /\ KnowsBurn(a)'
    BY <1>a, <2>1, ColumnsKept DEF KnowsFailure, KnowsBurn, InTransition, Columns,
       FailedFrom
  <2> QED BY <2>1, <2>2, BesideTheRow
<1> QED BY <1>1, <1>2, <1>3, <1>4

LEMMA SupplyingNames ==
  /\ Supplying \cap Terminal = {} /\ ManualReview \notin Supplying
  /\ Supplying \cap {BurnConfirmed, AttestationConfirmed, PayoutConfirmed,
                     ReleaseUnobserved, ReleaseObserved, ReleaseConfirmed} = {}
  /\ AttestationRequested \in AfterBurn
  /\ Preflight # BurnSubmitted /\ Preflight # AttestationRequested
  /\ BurnSubmitted # AttestationRequested /\ PayoutSubmitted # AttestationRequested
BY DEF Supplying, Terminal, AfterBurn, Preflight, BurnSubmitted, BurnConfirmed,
   AttestationRequested, AttestationConfirmed, ReleaseUnobserved, ReleaseObserved,
   ReleaseConfirmed, PayoutSubmitted, PayoutConfirmed, Settled, Failed, Cancelled,
   ManualReview

(* An action that leaves something for the row to be written later.        *)
LEMMA ResultsFurther ==
  ASSUME RowInv, NEW a \in Callers,
         \/ RunPreflightCheck(a) \/ SubmitBurn(a) \/ BeginReleaseObservation(a)
         \/ ObserveRelease(a) \/ SubmitPayout(a)
  PROVE  Furthers(a)
<1>a. CallsOK /\ KnowsFailure(a) /\ KnowsBurn(a) /\ burns \in Nat
  BY CallFacts
<1>1. /\ pc[a] = "act" /\ pc'[a] \in {"write", "persist"}
      /\ seen'[a] = seen[a] /\ target'[a] = target[a] /\ UNCHANGED Columns
  BY <1>a DEF RunPreflightCheck, SubmitBurn, BeginReleaseObservation, ObserveRelease,
     SubmitPayout, Acting, Goto, CallsOK, Columns, rowVars, sideVars, bookVars
<1>2. /\ target[a] = Preflight => pc'[a] = "persist" /\ got'[a].verdict # "none"
      /\ target[a] = BurnSubmitted => pc'[a] = "write" /\ got'[a].tx # NoTx
      /\ target[a] = PayoutSubmitted => pc'[a] = "write"
      /\ target[a] # AttestationRequested
  <2>1. CASE RunPreflightCheck(a)
    BY <1>a, <2>1, SupplyingNames, NamesDiffer
    DEF RunPreflightCheck, Acting, CallsOK, Details
  <2>2. CASE SubmitBurn(a)
    BY <1>a, <2>2, SupplyingNames, NamesDiffer
    DEF SubmitBurn, Broadcast, Acting, CallsOK, Details, NoTx
  <2>3. CASE BeginReleaseObservation(a) \/ ObserveRelease(a)
    BY <2>3, SupplyingNames, NamesDiffer
    DEF BeginReleaseObservation, ObserveRelease, ObservesRelease, Acting, Supplying
  <2>4. CASE SubmitPayout(a)
    BY <1>a, <2>4, SupplyingNames, NamesDiffer DEF SubmitPayout, Acting, Goto, CallsOK
  <2> QED BY <2>1, <2>2, <2>3, <2>4
<1>3. KnowsFailure(a)' /\ KnowsBurn(a)'
  BY <1>a, <1>1, <1>2, ColumnsKept DEF KnowsFailure, KnowsBurn, InTransition, Columns,
     FailedFrom
<1>4. \A s \in Supplying : Supplies(a, s) => Supplies(a, s)'
  BY <1>1, <1>2 DEF Supplies, Supplying
<1> QED BY <1>1, <1>3, <1>4, ColumnsKept, CallFacts DEF Furthers, Columns, FailedFrom

(* An action, or a write, with which the call's work on the columns ends.  *)
LEMMA WritesFurther ==
  ASSUME RowInv, NEW a \in Callers,
         \/ RequestAttestation(a) \/ RecordConfirmation(a) \/ WriteRefs(a)
  PROVE  Furthers(a)
<1>a. /\ CallsOK /\ KnowsFailure(a) /\ KnowsBurn(a)
      /\ lastFailed # None => FailedFrom(lastFailed)
  BY CallFacts
<1>1. CASE RequestAttestation(a)
  <2>1. /\ pc[a] = "act" /\ target[a] = AttestationRequested /\ Return(a)
        /\ attRef' = seen[a].tx
        /\ UNCHANGED <<verdict, tx, payoutRef, lastFailed, faults>>
    BY <1>1 DEF RequestAttestation, Acting, rowVars, bookVars
  <2>2. attRef' # NoTx
    BY <1>a, <2>1, SupplyingNames DEF KnowsBurn
  <2>3. KnowsFailure(a)' /\ KnowsBurn(a)' /\ pc'[a] = "idle"
    BY <1>a, <2>1, GoneCalls
  <2>4. \A s \in Supplying : (Recorded(s) => Recorded(s)') /\ (Supplies(a, s) => Recorded(s)')
    BY <2>1, <2>2, SupplyingNames DEF Recorded, Supplies, Supplying
  <2> QED BY <1>a, <2>1, <2>3, <2>4 DEF Furthers, FailedFrom
<1>2. CASE RecordConfirmation(a)
  <2>1. /\ pc[a] = "act" /\ target[a] \notin Supplying /\ Return(a) /\ UNCHANGED Columns
    BY <1>2, SupplyingNames
    DEF RecordConfirmation, Acting, Columns, rowVars, sideVars, bookVars
  <2>2. KnowsFailure(a)' /\ KnowsBurn(a)' /\ pc'[a] = "idle"
    BY <1>a, <2>1, GoneCalls
  <2>3. \A s \in Supplying : ~Supplies(a, s)
    BY <2>1 DEF Supplies
  <2> QED BY <1>a, <2>1, <2>2, <2>3, ColumnsKept DEF Furthers, Columns, FailedFrom
<1>3. CASE WriteRefs(a) /\ target[a] = BurnSubmitted
  <2>1. /\ pc[a] = "write" /\ pc'[a] = "persist" /\ seen'[a] = seen[a]
        /\ target'[a] = target[a] /\ got'[a] = got[a]
        /\ UNCHANGED <<verdict, tx, attRef, lastFailed, faults>>
    BY <1>3, <1>a DEF WriteRefs, Goto, CallsOK, rowVars, bookVars
  <2>2. payoutRef => payoutRef'
    BY <1>3 DEF WriteRefs
  <2>3. KnowsFailure(a)' /\ KnowsBurn(a)'
    BY <1>a, <1>3, <2>1, <2>2, SupplyingNames, NamesDiffer
    DEF KnowsFailure, KnowsBurn, InTransition, FailedFrom
  <2>4. \A s \in Supplying : (Recorded(s) => Recorded(s)')
                               /\ (Supplies(a, s) => Supplies(a, s)')
    BY <1>3, <2>1, <2>2, NamesDiffer DEF Recorded, Supplies
  <2> QED BY <1>a, <2>1, <2>2, <2>3, <2>4 DEF Furthers, FailedFrom
<1>4. CASE WriteRefs(a) /\ target[a] # BurnSubmitted
  <2>1. /\ pc[a] = "write" /\ Return(a)
        /\ UNCHANGED <<verdict, tx, attRef, lastFailed, faults>>
    BY <1>4 DEF WriteRefs, rowVars, bookVars
  <2>2. (payoutRef => payoutRef') /\ (target[a] = PayoutSubmitted => payoutRef')
    BY <1>4 DEF WriteRefs
  <2>3. KnowsFailure(a)' /\ KnowsBurn(a)' /\ pc'[a] = "idle"
    BY <1>a, <2>1, GoneCalls
  <2>4. \A s \in Supplying : (Recorded(s) => Recorded(s)') /\ (Supplies(a, s) => Recorded(s)')
    BY <1>4, <2>1, <2>2, SupplyingNames, NamesDiffer DEF Recorded, Supplies
  <2> QED BY <1>a, <2>1, <2>2, <2>3, <2>4 DEF Furthers, FailedFrom
<1> QED BY <1>1, <1>2, <1>3, <1>4

LEMMA EndsFurther ==
  ASSUME RowInv, NEW a \in Callers, MarkTerminal(a) \/ MoveToManualReview(a)
  PROVE  Furthers(a)
<1>a. /\ CallsOK /\ KnowsFailure(a) /\ KnowsBurn(a) /\ faults \in Nat
      /\ lastFailed # None => FailedFrom(lastFailed)
  BY CallFacts
<1>1. /\ pc[a] = "act" /\ target[a] \notin Supplying
      /\ UNCHANGED <<verdict, tx, attRef, payoutRef, lastFailed>>
      /\ faults' \in {faults, faults + 1}
      /\ Return(a) \/ (target[a] = Failed /\ Goto(a, "audit"))
  BY SupplyingNames
  DEF MarkTerminal, MoveToManualReview, Acting, QueueWrite, Finish, rowVars
<1>2. KnowsFailure(a)' /\ KnowsBurn(a)' /\ pc'[a] \in {"idle", "audit"}
  <2>1. CASE Return(a)
    BY <1>a, <2>1, GoneCalls
  <2>2. CASE target[a] = Failed /\ Goto(a, "audit")
    BY <1>a, <1>1, <2>2, NamesDiffer
    DEF KnowsFailure, KnowsBurn, InTransition, Goto, CallsOK, FailedFrom
  <2> QED BY <1>1, <2>1, <2>2
<1>3. \A s \in Supplying : ~Supplies(a, s)
  BY <1>1 DEF Supplies
<1> QED BY <1>a, <1>1, <1>2, <1>3 DEF Furthers, Recorded, FailedFrom

LEMMA PersistFurthers ==
  ASSUME RowInv, NEW a \in Callers, Persist(a)
  PROVE  Furthers(a)
<1>a. /\ CallsOK /\ KnowsFailure(a) /\ KnowsBurn(a)
      /\ lastFailed # None => FailedFrom(lastFailed)
  BY CallFacts
<1>1. /\ pc[a] = "persist"
      /\ verdict' = IF got[a].verdict # "none" THEN got[a].verdict ELSE verdict
      /\ tx' = IF got[a].tx # NoTx THEN got[a].tx ELSE tx
      /\ UNCHANGED <<attRef, payoutRef, lastFailed, faults>>
      /\ Return(a) \/ (target[a] = Failed /\ Goto(a, "audit"))
  BY DEF Persist, Finish, sideVars, bookVars
<1>2. KnowsFailure(a)' /\ KnowsBurn(a)' /\ pc'[a] \in {"idle", "audit"}
  <2>1. CASE Return(a)
    BY <1>a, <2>1, GoneCalls
  <2>2. CASE target[a] = Failed /\ Goto(a, "audit")
    BY <1>a, <1>1, <2>2, NamesDiffer
    DEF KnowsFailure, KnowsBurn, InTransition, Goto, CallsOK, FailedFrom
  <2> QED BY <1>1, <2>1, <2>2
<1>3. \A s \in Supplying : (Recorded(s) => Recorded(s)') /\ (Supplies(a, s) => Recorded(s)')
  <2>1. ASSUME NEW s \in Supplying, Recorded(s) PROVE Recorded(s)'
    BY <1>1, <2>1 DEF Recorded
  <2>2. ASSUME NEW s \in Supplying, Supplies(a, s) PROVE Recorded(s)'
    BY <1>a, <1>1, <2>2, SupplyingNames, NamesDiffer DEF Recorded, Supplies, KnowsBurn
  <2> QED BY <2>1, <2>2
<1> QED BY <1>a, <1>1, <1>2, <1>3 DEF Furthers, FailedFrom

LEMMA AuditFurthers ==
  ASSUME RowInv, NEW a \in Callers, Audit(a)
  PROVE  Furthers(a)
<1>a. /\ CallsOK /\ KnowsFailure(a) /\ KnowsBurn(a) /\ faults \in Nat
      /\ lastFailed # None => FailedFrom(lastFailed)
  BY CallFacts
<1>1. /\ pc[a] = "audit" /\ Return(a) /\ UNCHANGED <<verdict, tx, attRef, payoutRef>>
      /\ faults' \in {faults, faults + 1} /\ lastFailed' \in {lastFailed, seen[a].status}
  BY DEF Audit, rowVars
<1>2. FailedFrom(seen[a].status)
  BY <1>a, <1>1 DEF KnowsFailure, InTransition
<1>3. KnowsFailure(a)' /\ KnowsBurn(a)' /\ pc'[a] = "idle"
  BY <1>a, <1>1, GoneCalls
<1>4. \A s \in Supplying : ~Supplies(a, s)
  BY <1>1 DEF Supplies
<1> QED BY <1>a, <1>1, <1>2, <1>3, <1>4 DEF Furthers, Recorded, FailedFrom

LEMMA ThrowFurthers ==
  ASSUME RowInv, NEW a \in Callers, ActionThrows(a)
  PROVE  Furthers(a)
<1>a. /\ CallsOK /\ KnowsFailure(a) /\ KnowsBurn(a) /\ faults \in Nat
      /\ lastFailed # None => FailedFrom(lastFailed)
  BY CallFacts
<1>1. /\ pc[a] \in {"act", "write"} /\ pc'[a] = "rollback" /\ seen'[a] = seen[a]
      /\ target'[a] = target[a] /\ got'[a] = got[a]
      /\ UNCHANGED <<verdict, tx, lastFailed>>
  BY <1>a DEF ActionThrows, CanThrow, Goto, CallsOK, rowVars
<1>2. \/ faults' = faults + 1
      \/ faults' = faults /\ pc[a] = "act" /\ target[a] = PayoutSubmitted
  BY DEF ActionThrows, Acting
<1>3. (payoutRef => payoutRef') /\ (attRef # NoTx => attRef' # NoTx)
  BY <1>a, SupplyingNames DEF ActionThrows, ThrowsWithRefs, KnowsBurn
<1>4. KnowsFailure(a)' /\ KnowsBurn(a)'
  BY <1>a, <1>1, <1>3 DEF KnowsFailure, KnowsBurn, InTransition, FailedFrom
<1>5. \A s \in Supplying : Recorded(s) => Recorded(s)'
  BY <1>1, <1>3 DEF Recorded
<1>6. ASSUME faults' = 0, NEW s \in Supplying, Supplies(a, s)
      PROVE  Supplies(a, s)'
  BY <1>a, <1>1, <1>2, <1>6 DEF Supplies
<1> QED BY <1>a, <1>1, <1>2, <1>3, <1>4, <1>5, <1>6 DEF Furthers, FailedFrom

LEMMA RollbackFurthers ==
  ASSUME RowInv, NEW a \in Callers, Rollback(a)
  PROVE  Furthers(a)
<1>a. CallsOK /\ lastFailed # None => FailedFrom(lastFailed)
  BY CallFacts
<1>1. pc[a] = "rollback" /\ Return(a) /\ UNCHANGED Columns
  BY DEF Rollback, Columns, sideVars
<1>2. KnowsFailure(a)' /\ KnowsBurn(a)' /\ pc'[a] = "idle"
  BY <1>1, CallFacts, GoneCalls
<1> QED BY <1>a, <1>1, <1>2, CallFacts, ColumnsKept DEF Furthers, Columns, FailedFrom

LEMMA EngineFurthers ==
  ASSUME RowInv, NEW a \in Callers, EngineStep(a)
  PROVE  Furthers(a)
BY GuardAndClaimFurther, ResultsFurther, WritesFurther, EndsFurther, PersistFurthers,
   AuditFurthers, ThrowFurthers, RollbackFurthers DEF EngineStep

(* The calls of the service read the row and write no column.              *)
LEMMA RowReadFurthers ==
  ASSUME RowInv, NEW a \in Callers, NEW to, Attempt(a, CurrentRow, to),
         pc[a] \in {"idle", "listed"}, to = Failed => status = ManualReview,
         UNCHANGED Columns
  PROVE  Furthers(a)
<1>1. /\ CurrentRow.tx = tx /\ CurrentRow.status = status
      /\ tx' = tx /\ payoutRef' = payoutRef
  BY DEF CurrentRow, Columns
<1>2. KnowsFailure(a)' /\ KnowsBurn(a)' /\ pc'[a] = "guard"
  BY <1>1, AttemptKnows DEF FailedFrom
<1> QED BY <1>2, BesideTheRow

LEMMA ServiceFurthers ==
  ASSUME RowInv, NEW a \in Callers, ServiceStep(a) \/ ServiceCall(a)
  PROVE  Furthers(a)
<1>a. /\ CallsOK /\ KnowsFailure(a) /\ KnowsBurn(a) /\ faults \in Nat
      /\ lastFailed # None => FailedFrom(lastFailed)
  BY CallFacts
<1>1. CASE NothingToDo(a)
  <2>1. pc[a] = "listed" /\ Return(a) /\ UNCHANGED Columns
    BY <1>1 DEF NothingToDo, Columns, rowVars, sideVars, bookVars
  <2> QED BY <1>a, <2>1, GoneCalls, BesideTheRow
<1>2. CASE AdvanceListed(a) \/ ApiAdvance(a)
  <2>1. /\ pc[a] \in {"idle", "listed"} /\ status \in NonTerminal
        /\ Attempt(a, CurrentRow, NextOf[status]) /\ UNCHANGED Columns
    BY <1>2 DEF AdvanceListed, ApiAdvance, Idle, AdvanceCurrentRow, Columns, rowVars,
       sideVars, bookVars
  <2> QED BY <2>1, OnlyManualReviewAdvancesToFailed, RowReadFurthers
<1>3. CASE RecoverListed(a) \/ ApiRecover(a)
  <2>1. /\ pc[a] \in {"idle", "listed"}
        /\ Attempt(a, CurrentRow, ManualReview) /\ UNCHANGED Columns
    BY <1>3 DEF RecoverListed, ApiRecover, Idle, RecoverCurrentRow, Columns, rowVars,
       sideVars, bookVars
  <2> QED BY <2>1, NamesDiffer, RowReadFurthers
<1>4. CASE BeginRetry(a) \/ WebhookCompleted(a)
  <2>1. /\ pc[a] = "idle" /\ pc'[a] \in {"lookup", "listed"} /\ seen'[a] = seen[a]
        /\ target'[a] = target[a] /\ UNCHANGED Columns
    BY <1>4, <1>a DEF BeginRetry, WebhookCompleted, Idle, Goto, CallsOK, Columns, rowVars,
       sideVars, bookVars
  <2>2. KnowsFailure(a)' /\ KnowsBurn(a)'
    BY <1>a, <2>1 DEF KnowsFailure, KnowsBurn, InTransition, Columns
  <2> QED BY <2>1, <2>2, BesideTheRow
<1>5. CASE LookupLastState(a)
  <2>1. /\ pc[a] = "lookup" /\ pc'[a] = "reset" /\ seen'[a] = seen[a]
        /\ target'[a] = (IF lastFailed = None THEN Initiated ELSE lastFailed)
        /\ UNCHANGED Columns
    BY <1>5, <1>a DEF LookupLastState, CallsOK, Columns, rowVars, sideVars, bookVars
  <2>2. target'[a] = Initiated \/ FailedFrom(target'[a])
    BY <1>a, <2>1
  <2>3. KnowsFailure(a)' /\ KnowsBurn(a)'
    BY <1>a, <2>1, <2>2 DEF KnowsFailure, KnowsBurn, InTransition, Columns, FailedFrom
  <2> QED BY <2>1, <2>3, BesideTheRow
<1>6. CASE ResetForRetry(a)
  <2>1. /\ pc[a] = "reset" /\ pc'[a] = "listed" /\ seen'[a] = seen[a] /\ UNCHANGED Columns
    BY <1>6, <1>a DEF ResetForRetry, CallsOK, Columns, sideVars
  <2>2. KnowsFailure(a)' /\ KnowsBurn(a)'
    BY <1>a, <2>1 DEF KnowsFailure, KnowsBurn, InTransition, Columns
  <2> QED BY <2>1, <2>2, BesideTheRow
<1>7. CASE WebhookFailed(a)
  <2> DEFINE ref == [NoRow EXCEPT !.id = "ref", !.status = status]
  <2>1. ref.id # "row" /\ ref.tx = NoTx
    BY DEF NoRow
  <2>2. pc[a] = "idle" /\ Attempt(a, ref, Failed) /\ UNCHANGED Columns
    BY <1>7 DEF WebhookFailed, Idle, Columns, rowVars, sideVars, bookVars
  <2> HIDE DEF ref
  <2>3. KnowsFailure(a)' /\ KnowsBurn(a)' /\ pc'[a] = "guard"
    BY <2>1, <2>2, AttemptKnows DEF Columns
  <2> QED BY <2>2, <2>3, BesideTheRow
<1>8. CASE \E resolution \in Terminal : BeginResolve(a, resolution)
  <2>1. /\ pc[a] = "idle" /\ pc'[a] = "unqueue" /\ seen'[a] = CurrentRow
        /\ target'[a] \in Terminal /\ status = ManualReview /\ UNCHANGED Columns
    BY <1>8, <1>a DEF BeginResolve, Idle, CallsOK, Columns, rowVars, sideVars, bookVars
  <2>2. CurrentRow.status = ManualReview /\ CurrentRow.id = "row" /\ CurrentRow.tx = tx
    BY <2>1 DEF CurrentRow
  <2>3. KnowsFailure(a)' /\ KnowsBurn(a)'
    BY <2>1, <2>2 DEF KnowsFailure, KnowsBurn, FailedFrom, Columns
  <2> QED BY <2>1, <2>3, BesideTheRow
<1>9. CASE Unqueue(a)
  <2>1. /\ pc[a] = "unqueue" /\ pc'[a] = "guard" /\ seen'[a] = seen[a]
        /\ target'[a] = target[a] /\ faults' \in {faults, faults + 1}
        /\ UNCHANGED <<verdict, tx, attRef, payoutRef, lastFailed>>
    BY <1>9, <1>a DEF Unqueue, QueueWrite, Goto, CallsOK, rowVars
  <2>2. KnowsFailure(a)' /\ KnowsBurn(a)'
    BY <1>a, <2>1 DEF KnowsFailure, KnowsBurn, InTransition, FailedFrom
  <2>3. \A s \in Supplying : ~Supplies(a, s)
    BY <2>1 DEF Supplies
  <2> QED BY <1>a, <2>1, <2>2, <2>3 DEF Furthers, Recorded, FailedFrom
<1> QED BY <1>1, <1>2, <1>3, <1>4, <1>5, <1>6, <1>7, <1>8, <1>9
        DEF ServiceStep, ServiceCall

LEMMA LoopsFurther ==
  ASSUME RowInv, NEW a \in Callers,
         \/ Crash(a) \/ PipelineSelect(a) \/ ReaperSelect(a)
         \/ ReconcileScan(a) \/ ReconcileStep(a)
  PROVE  Furthers(a)
<1>a. /\ CallsOK /\ KnowsFailure(a) /\ KnowsBurn(a) /\ faults \in Nat
      /\ lastFailed # None => FailedFrom(lastFailed)
  BY CallFacts
<1>1. CASE Crash(a)
  <2>1. /\ Return(a) /\ faults' = faults + 1
        /\ UNCHANGED <<verdict, tx, attRef, payoutRef, lastFailed>>
    BY <1>1 DEF Crash, rowVars, sideVars
  <2> QED BY <1>a, <2>1, GoneCalls DEF Furthers, Recorded, FailedFrom
<1>2. CASE PipelineSelect(a) \/ ReaperSelect(a)
  <2>1. /\ pc[a] = "idle" /\ pc'[a] = "listed" /\ seen'[a] = seen[a] /\ UNCHANGED Columns
    BY <1>2, <1>a DEF PipelineSelect, ReaperSelect, Idle, Goto, CallsOK, Columns, rowVars,
       sideVars, bookVars
  <2>2. KnowsFailure(a)' /\ KnowsBurn(a)'
    BY <1>a, <2>1 DEF KnowsFailure, KnowsBurn, InTransition, Columns
  <2> QED BY <2>1, <2>2, BesideTheRow
<1>3. CASE ReconcileEscalates(a)
  <2>1. pc[a] = "idle" /\ Attempt(a, CurrentRow, ManualReview) /\ UNCHANGED Columns
    BY <1>3 DEF ReconcileEscalates, RecoverCurrentRow, Idle, Columns, rowVars, sideVars,
       bookVars
  <2> QED BY <2>1, NamesDiffer, RowReadFurthers
<1>4. CASE ScanPayout(a)
  <2>1. /\ pc[a] = "idle" /\ pc'[a] = "scanned" /\ seen'[a] = CurrentRow
        /\ target'[a] = PayoutConfirmed /\ payoutRef /\ UNCHANGED Columns
    BY <1>4, <1>a DEF ScanPayout, Idle, CallsOK, Columns, rowVars, sideVars, bookVars
  <2>2. CurrentRow.tx = tx
    BY DEF CurrentRow
  <2>3. KnowsFailure(a)' /\ KnowsBurn(a)'
    BY <2>1, <2>2, NamesDiffer DEF KnowsFailure, KnowsBurn, Columns
  <2> QED BY <2>1, <2>3, BesideTheRow
<1>5. CASE ReconcileStep(a)
  <2>1. pc[a] = "scanned" /\ UNCHANGED Columns
    BY <1>5 DEF ReconcileStep, RouteConfirmed, RouteFailed, LeaveScanned, Columns, rowVars,
       sideVars, bookVars
  <2>2. payoutRef /\ target[a] = PayoutConfirmed /\ seen[a].status = PayoutSubmitted
    BY <1>a, <2>1, OnlyPayoutSubmittedConfirms
    DEF KnowsFailure, CallsOK, HoldsEdge, InTransition
  <2>3. KnowsFailure(a)' /\ KnowsBurn(a)' /\ pc'[a] \in {"guard", "idle"}
    <3>1. CASE RouteConfirmed(a)
      <4>1. /\ pc'[a] = "guard" /\ seen'[a] = seen[a] /\ target'[a] = target[a]
        BY <3>1, <1>a DEF RouteConfirmed, Goto, CallsOK
      <4> QED BY <1>a, <2>1, <2>2, <4>1, NamesDiffer DEF KnowsFailure, KnowsBurn, Columns
    <3>2. CASE RouteFailed(a)
      <4>1. Attempt(a, seen[a], Failed)
        BY <3>2 DEF RouteFailed
      <4> QED BY <1>a, <2>1, <2>2, <4>1, AttemptKnows
           DEF KnowsBurn, FailedFrom, Columns
    <3>3. CASE LeaveScanned(a)
      BY <3>3, <1>a, GoneCalls DEF LeaveScanned
    <3> QED BY <1>5, <3>1, <3>2, <3>3 DEF ReconcileStep
  <2> QED BY <2>1, <2>3, BesideTheRow
<1> QED BY <1>1, <1>2, <1>3, <1>4, <1>5 DEF ReconcileScan

----------------------------------------------------------------------------
(* The invariant.                                                          *)

LEMMA MovesFurther ==
  ASSUME RowInv, NEW a \in Callers, MovesOf(a)
  PROVE  /\ Furthers(a) /\ OthersStay(a)
         /\ status' = status \/ ClaimWon(a) \/ Rollback(a) \/ ResetForRetry(a)
<1>1. CallsOK
  BY CallFacts
<1> QED BY <1>1, EngineFurthers, ServiceFurthers, LoopsFurther, OtherCallsStay,
     EngineWritesStatus, ServiceWritesStatus, LoopsKeepStatus DEF MovesOf, CallerMoves

(* Once executeTransition runs, only it and a crash move the call.         *)
LEMMA OnlyTheEngineMoves ==
  ASSUME NEW a \in Callers, MovesOf(a), pc[a] \in {"guard", "claim", "act", "rollback"}
  PROVE  EngineStep(a) \/ Crash(a)
<1>1. ~ServiceStep(a) /\ ~ServiceCall(a)
  BY DEF ServiceStep, ServiceCall, NothingToDo, AdvanceListed, RecoverListed,
     LookupLastState, ResetForRetry, Unqueue, ApiAdvance, ApiRecover, BeginRetry,
     BeginResolve, WebhookCompleted, WebhookFailed, Idle
<1>2. /\ ~PipelineSelect(a) /\ ~ReaperSelect(a) /\ ~ReconcileScan(a)
      /\ ~ReconcileStep(a)
  BY DEF PipelineSelect, ReaperSelect, ReconcileScan, ReconcileEscalates, ScanPayout,
     ReconcileStep, RouteConfirmed, RouteFailed, LeaveScanned, Idle
<1> QED BY <1>1, <1>2 DEF MovesOf, CallerMoves

LEMMA RollingBackEnds ==
  ASSUME NEW a \in Callers, MovesOf(a), pc[a] = "rollback"
  PROVE  Rollback(a) \/ Crash(a)
<1>1. EngineStep(a) => Rollback(a)
  BY DEF EngineStep, GuardAccepts, GuardRejects, GuardEscalates, ClaimWon, ClaimLost,
     RunPreflightCheck, SubmitBurn, RequestAttestation, RecordConfirmation,
     BeginReleaseObservation, ObserveRelease, SubmitPayout, WriteRefs, MarkTerminal,
     MoveToManualReview, Persist, Audit, ActionThrows, CanThrow, Acting
<1> QED BY <1>1, OnlyTheEngineMoves

LEMMA MovesKeepKnowledge ==
  ASSUME RowInv, NEW a \in Callers, MovesOf(a)
  PROVE  FailuresKnown' /\ BurnKnown'
<1>1. Furthers(a) /\ OthersStay(a)
  BY MovesFurther
<1>2. (payoutRef => payoutRef') /\ (tx # NoTx => tx' # NoTx)
  <2>1. PayoutSubmitted \in Supplying /\ BurnSubmitted \in Supplying
    BY DEF Supplying
  <2> QED BY <1>1, <2>1, NamesDiffer, SupplyingNames DEF Furthers, Recorded
<1>3. ASSUME NEW b \in Callers \ {a}
      PROVE  KnowsFailure(b)' /\ KnowsBurn(b)'
  <2>1. /\ KnowsFailure(b) /\ KnowsBurn(b)
    BY CallFacts
  <2>2. /\ pc'[b] = pc[b] /\ seen'[b] = seen[b]
        /\ target'[b] = target[b] /\ got'[b] = got[b]
    BY <1>1 DEF OthersStay
  <2> QED BY <1>2, <2>1, <2>2 DEF KnowsFailure, KnowsBurn, FailedFrom
<1> QED BY <1>1, <1>3 DEF Furthers, FailuresKnown, BurnKnown

LEMMA MovesKeepGiven ==
  ASSUME RowInv, NEW a \in Callers, MovesOf(a), faults' = 0,
         NEW s \in Supplying, Given(s), pc[a] # "rollback" \/ s # target[a]
  PROVE  Given(s)'
<1>1. Furthers(a) /\ OthersStay(a)
  BY MovesFurther
<1>2. ASSUME NEW b \in Callers \ {a}, Supplies(b, s) PROVE Supplies(b, s)'
  BY <1>1, <1>2 DEF OthersStay, Supplies
<1>3. CASE Supplies(a, s)
  BY <1>1, <1>3 DEF Furthers, Given, Supplies
<1>4. CASE Recorded(s)
  BY <1>1, <1>4 DEF Furthers, Given
<1> QED BY <1>2, <1>3, <1>4 DEF Given

LEMMA MovesKeepRowSupplied ==
  ASSUME RowInv, NEW a \in Callers, MovesOf(a)
  PROVE  RowSupplied'
<1> SUFFICES ASSUME faults' = 0
             PROVE  /\ \A s \in Supplying : (status \in NeededIn(s))' => Given(s)'
                    /\ \A b \in Callers : pc'[b] = "rollback" => target'[b] = PayoutSubmitted
  BY DEF RowSupplied, NeededIn
<1>1. /\ Furthers(a) /\ OthersStay(a) /\ faults = 0
      /\ status' = status \/ ClaimWon(a) \/ Rollback(a) \/ ResetForRetry(a)
  BY MovesFurther DEF Furthers
<1>2. /\ \A s \in Supplying : status \in NeededIn(s) => Given(s)
      /\ \A b \in Callers : pc[b] = "rollback" => target[b] = PayoutSubmitted
  BY <1>1 DEF RowInv, RowSupplied
<1>3. ASSUME NEW b \in Callers, pc'[b] = "rollback" PROVE target'[b] = PayoutSubmitted
  BY <1>1, <1>2, <1>3 DEF Furthers, OthersStay
<1>4. ASSUME NEW s \in Supplying, status' \in NeededIn(s) PROVE Given(s)'
  <2>1. CASE pc[a] = "rollback"
    <3>1. Rollback(a)
      BY <1>1, <2>1, RollingBackEnds, CallFacts DEF Crash
    <3>2. target[a] = PayoutSubmitted /\ seen[a].status = ReleaseConfirmed
      BY <1>2, <2>1, CallFacts, PayoutsStartWhenReleased DEF CallsOK, HoldsEdge, InTransition
    <3>3. status' = status /\ status # PayoutSubmitted
      BY <1>4, <3>1, <3>2, NeededStates DEF Rollback
    <3>4. s # PayoutSubmitted /\ Given(s)
      BY <1>2, <1>4, <3>3, NamesDiffer DEF NeededIn
    <3> QED BY <3>2, <3>4, MovesKeepGiven
  <2>2. CASE pc[a] # "rollback" /\ status' = status
    BY <1>2, <1>4, <2>2, MovesKeepGiven
  <2>3. CASE ClaimWon(a)
    <3>1. /\ pc[a] = "claim" /\ status' = target[a] /\ pc'[a] = "act"
          /\ target'[a] = target[a] /\ tx' = tx
      BY <2>3, CallFacts DEF ClaimWon, Goto, CallsOK
    <3>2. CASE target[a] = s
      BY <3>1, <3>2 DEF Given, Supplies
    <3>3. CASE target[a] # s
      <4>1. s = BurnSubmitted /\ target[a] \in AfterBurn
        BY <1>4, <3>1, <3>3, NeededStates
      <4>2. tx # NoTx
        BY <3>1, <4>1, CallFacts DEF KnowsBurn
      <4> QED BY <3>1, <4>1, <4>2, NamesDiffer, SupplyingNames DEF Given, Recorded
    <3> QED BY <3>2, <3>3
  <2>4. CASE ResetForRetry(a)
    <3>1. pc[a] = "reset" /\ status' = target[a] /\ UNCHANGED payoutRef
      BY <2>4 DEF ResetForRetry, sideVars
    <3>2. target[a] = PayoutSubmitted /\ payoutRef
      BY <1>4, <3>1, CallFacts, NeededStates DEF KnowsFailure, FailedFrom
    <3>3. s = PayoutSubmitted
      BY <1>4, <3>1, <3>2, NeededStates, NamesDiffer
    <3> QED BY <3>1, <3>2, <3>3, NamesDiffer, SupplyingNames DEF Given, Recorded
  <2>5. Rollback(a) => pc[a] = "rollback"
    BY DEF Rollback
  <2> QED BY <1>1, <2>1, <2>2, <2>3, <2>4, <2>5
<1> QED BY <1>3, <1>4 DEF NeededIn

LEMMA InitRowInv == Init => RowInv
<1> SUFFICES ASSUME Init PROVE RowInv
  OBVIOUS
<1>1. /\ status = Initiated /\ tx = NoTx /\ lastFailed = None
      /\ \A a \in Callers : pc[a] = "idle" /\ seen[a].tx = NoTx
  BY DEF Init, EngineInit, NoRow
<1>2. FailuresKnown
  BY <1>1 DEF FailuresKnown, KnowsFailure, InTransition
<1>3. BurnKnown
  BY <1>1 DEF BurnKnown, KnowsBurn
<1>4. RowSupplied
  BY <1>1, NeededStates DEF RowSupplied
<1> QED BY <1>2, <1>3, <1>4, InitTypeInv DEF RowInv

LEMMA NextKeepsRowInv == RowInv /\ [Next]_vars => RowInv'
<1> SUFFICES ASSUME RowInv, [Next]_vars PROVE RowInv'
  OBVIOUS
<1>1. TypeInv'
  BY NextKeepsTypeInv DEF RowInv
<1>2. CASE \E a \in Callers : MovesOf(a)
  BY <1>1, <1>2, MovesKeepKnowledge, MovesKeepRowSupplied DEF RowInv
<1>3. CASE UNCHANGED <<status, Columns, callVars>>
  <2>1. FailuresKnown' /\ BurnKnown'
    BY <1>3 DEF RowInv, FailuresKnown, BurnKnown, KnowsFailure, KnowsBurn, FailedFrom,
       Columns, callVars
  <2>2. RowSupplied'
    BY <1>3 DEF RowInv, RowSupplied, NeededIn, Given, Recorded, Supplies, Columns, callVars
  <2> QED BY <1>1, <2>1, <2>2 DEF RowInv
<1>4. Tick \/ (WorldMoves /\ UNCHANGED engineVars) \/ UNCHANGED vars
        => UNCHANGED <<status, Columns, callVars>>
  BY DEF Tick, engineVars, vars, rowVars, sideVars, callVars, bookVars, Columns
<1> QED BY <1>2, <1>3, <1>4 DEF Next, MovesOf

LEMMA SuppliedRowIsComplete == RowInv => QuietRowIsComplete
<1> SUFFICES ASSUME RowInv, Quiet, faults = 0
             PROVE  /\ status = Preflight => verdict # "none"
                    /\ status \in {BurnSubmitted} \cup AfterBurn => tx # NoTx
                    /\ status = AttestationRequested => attRef # NoTx
                    /\ status = PayoutSubmitted => payoutRef
  BY DEF QuietRowIsComplete
<1>1. \A a \in Callers : pc[a] = "idle"
  BY DEF Quiet, Idle
<1>2. ASSUME NEW s \in Supplying, status \in NeededIn(s) PROVE Recorded(s)
  BY <1>1, <1>2 DEF RowInv, RowSupplied, Given, Supplies
<1> QED BY <1>2, NamesDiffer, SupplyingNames DEF Recorded, NeededIn, Supplying

(* A row that no call works on and that nothing has failed for holds what  *)
(* the next step from its state needs - its preflight result, its burn id, *)
(* its attestation, its payout ref - however many callers raced for it.    *)
THEOREM QuietRowsAreComplete == Spec => []QuietRowIsComplete
<1>1. Spec => []RowInv
  BY InitRowInv, NextKeepsRowInv, PTL DEF Spec
<1> QED BY <1>1, SuppliedRowIsComplete, PTL

----------------------------------------------------------------------------
(* The operators' queue.  The request that resolves a row closes its item  *)
(* before the claim, and a recovery opens it after the claim.              *)

(* The call is about to open the item, or to take the row out of review.   *)
Attends(b) ==
  \/ pc[b] = "act" /\ target[b] = ManualReview
  \/ /\ pc[b] \in {"guard", "claim"} /\ target[b] \in Terminal
     /\ seen[b].status = ManualReview /\ seen[b].id = "row"

Ends(b) == pc[b] \in {"act", "persist", "audit"} /\ target[b] \in Terminal

ReviewKept ==
  faults = 0 /\ retries = 0 =>
    /\ status = ManualReview => openReview \/ \E b \in Callers : Attends(b)
    /\ \A b \in Callers : Ends(b) => status \in Terminal

ReviewInv == RowInv /\ ReviewKept

LEMMA QueueWriters ==
  ASSUME NEW a \in Callers, MovesOf(a), retries \in Nat
  PROVE  /\ openReview' = openReview \/ MarkTerminal(a) \/ MoveToManualReview(a) \/ Unqueue(a)
         /\ retries' = 0 => retries = 0 /\ ~ResetForRetry(a)
<1>1. CASE EngineStep(a)
  <2>1. pc[a] # "reset"
    BY <1>1 DEF EngineStep, GuardAccepts, GuardRejects, GuardEscalates, ClaimWon, ClaimLost,
       RunPreflightCheck, SubmitBurn, RequestAttestation, RecordConfirmation,
       BeginReleaseObservation, ObserveRelease, SubmitPayout, WriteRefs, MarkTerminal,
       MoveToManualReview, Persist, Audit, ActionThrows, CanThrow, Rollback, Acting
  <2>2. retries' = retries \/ ClaimWon(a)
    BY <1>1 DEF EngineStep, GuardAccepts, GuardRejects, GuardEscalates, ClaimLost,
       RunPreflightCheck, SubmitBurn, RequestAttestation, RecordConfirmation,
       BeginReleaseObservation, ObserveRelease, SubmitPayout, WriteRefs, MarkTerminal,
       MoveToManualReview, Persist, Audit, ActionThrows, Rollback, rowVars
  <2>3. openReview' = openReview \/ MarkTerminal(a) \/ MoveToManualReview(a)
    BY <1>1 DEF EngineStep, GuardAccepts, GuardRejects, GuardEscalates, ClaimWon, ClaimLost,
       RunPreflightCheck, SubmitBurn, RequestAttestation, RecordConfirmation,
       BeginReleaseObservation, ObserveRelease, SubmitPayout, WriteRefs,
       Persist, Audit, ActionThrows, Rollback, sideVars
  <2> QED BY <2>1, <2>2, <2>3 DEF ClaimWon, ResetForRetry
<1>2. CASE ServiceStep(a) \/ ServiceCall(a)
  <2>1. retries' = retries \/ retries' = retries + 1
    BY <1>2 DEF ServiceStep, ServiceCall, NothingToDo, AdvanceListed, RecoverListed,
       AdvanceCurrentRow, RecoverCurrentRow, LookupLastState, ResetForRetry, Unqueue,
       ApiAdvance, ApiRecover, BeginRetry, BeginResolve, WebhookCompleted, WebhookFailed,
       rowVars
  <2>2. openReview' = openReview \/ Unqueue(a)
    BY <1>2 DEF ServiceStep, ServiceCall, NothingToDo, AdvanceListed, RecoverListed,
       AdvanceCurrentRow, RecoverCurrentRow, LookupLastState, ResetForRetry,
       ApiAdvance, ApiRecover, BeginRetry, BeginResolve, WebhookCompleted, WebhookFailed,
       sideVars
  <2> QED BY <2>1, <2>2 DEF ResetForRetry
<1>3. CASE \/ Crash(a) \/ PipelineSelect(a) \/ ReaperSelect(a)
           \/ ReconcileScan(a) \/ ReconcileStep(a)
  BY <1>3 DEF Crash, PipelineSelect, ReaperSelect, ReconcileScan, ReconcileEscalates,
     RecoverCurrentRow, ScanPayout, ReconcileStep, RouteConfirmed, RouteFailed,
     LeaveScanned, ResetForRetry, rowVars, sideVars
<1> QED BY <1>1, <1>2, <1>3 DEF MovesOf, CallerMoves

(* Nothing brings a row back from a terminal state but a retry.            *)
LEMMA TerminalStays ==
  ASSUME RowInv, NEW a \in Callers, MovesOf(a), faults = 0, ~ResetForRetry(a),
         status \in Terminal
  PROVE  status' = status
<1>1. status' = status \/ ClaimWon(a) \/ Rollback(a)
  BY MovesFurther
<1>2. CASE ClaimWon(a)
  <2>1. seen[a].status = status /\ seen[a].status \in NonTerminal
    BY <1>2, CallFacts, EdgeEnds DEF ClaimWon, ClaimMatches, CallsOK, HoldsEdge, InTransition
  <2> QED BY <2>1, SupplyingNames, NamesDiffer DEF NonTerminal, Terminal, PipelineStates,
       BeforeBurn, Observing, Initiated, Preflight, BurnSubmitted, BurnConfirmed,
       AttestationRequested, AttestationConfirmed, ReleaseUnobserved, ReleaseObserved,
       ReleaseConfirmed, PayoutSubmitted, PayoutConfirmed, Settled, Failed, Cancelled,
       ManualReview
<1>3. CASE Rollback(a)
  <2>1. target[a] = PayoutSubmitted
    BY <1>3 DEF Rollback, RowInv, RowSupplied
  <2>2. PayoutSubmitted \notin Terminal
    BY SupplyingNames DEF Supplying
  <2> QED BY <1>3, <2>1, <2>2 DEF Rollback
<1> QED BY <1>1, <1>2, <1>3

LEMMA EndingFollowsAClaim ==
  ASSUME RowInv, NEW a \in Callers, MovesOf(a), Ends(a)'
  PROVE  ClaimWon(a) \/ Ends(a)
<1>a. CallsOK /\ Ends(a)'
  BY CallFacts
<1>1. CASE EngineStep(a)
  <2>1. CASE Return(a)
    BY <1>a, <2>1 DEF Return, CallsOK, Ends
  <2>2. CASE GuardAccepts(a) \/ GuardEscalates(a) \/ ActionThrows(a)
    BY <1>a, <2>2 DEF GuardAccepts, GuardEscalates, ActionThrows, Goto, Attempt, CallsOK, Ends
  <2>3. CASE RunPreflightCheck(a) \/ SubmitBurn(a) \/ BeginReleaseObservation(a)
    BY <1>a, <2>3, SupplyingNames
    DEF RunPreflightCheck, SubmitBurn, BeginReleaseObservation, Acting, Ends, Terminal,
        Preflight, BurnSubmitted, ReleaseUnobserved, Settled, Failed, Cancelled
  <2>4. CASE ObserveRelease(a) \/ MarkTerminal(a) \/ Persist(a)
    BY <1>a, <2>1, <2>4
    DEF ObserveRelease, MarkTerminal, Persist, Finish, Acting, Goto, CallsOK, Ends
  <2>5. CASE SubmitPayout(a) \/ WriteRefs(a)
    BY <1>a, <2>1, <2>5
    DEF SubmitPayout, WriteRefs, Acting, Goto, CallsOK, Ends, Terminal, BurnSubmitted,
        Settled, Failed, Cancelled
  <2> QED BY <1>1, <2>1, <2>2, <2>3, <2>4, <2>5
       DEF EngineStep, GuardRejects, ClaimLost, RequestAttestation, RecordConfirmation,
           MoveToManualReview, Audit, Rollback
<1>2. CASE ServiceStep(a) \/ ServiceCall(a)
  BY <1>a, <1>2
  DEF ServiceStep, ServiceCall, NothingToDo, AdvanceListed, RecoverListed,
      AdvanceCurrentRow, RecoverCurrentRow, LookupLastState, ResetForRetry, Unqueue,
      ApiAdvance, ApiRecover, BeginRetry, BeginResolve, WebhookCompleted, WebhookFailed,
      Return, Goto, Attempt, CallsOK, Ends
<1>3. CASE \/ Crash(a) \/ PipelineSelect(a) \/ ReaperSelect(a)
           \/ ReconcileScan(a) \/ ReconcileStep(a)
  BY <1>a, <1>3
  DEF Crash, PipelineSelect, ReaperSelect, ReconcileScan, ReconcileEscalates,
      RecoverCurrentRow, ScanPayout, ReconcileStep, RouteConfirmed, RouteFailed,
      LeaveScanned, Return, Goto, Attempt, CallsOK, Ends
<1> QED BY <1>1, <1>2, <1>3 DEF MovesOf, CallerMoves

(* A call that attends to the row goes on to open the item, or to win the  *)
(* claim: the guards of a resolution never reject.                         *)
LEMMA AttendingGoesOn ==
  ASSUME RowInv, NEW a \in Callers, MovesOf(a), Attends(a), faults' = 0,
         status = ManualReview, status' = ManualReview
  PROVE  openReview' \/ Attends(a)'
<1>a. CallsOK /\ faults \in Nat
  BY CallFacts
<1>b. EngineStep(a)
  BY <1>a, OnlyTheEngineMoves DEF Attends, Crash
<1>1. CASE pc[a] = "act" /\ target[a] = ManualReview
  <2>1. MoveToManualReview(a) \/ ActionThrows(a) \/ ObserveRelease(a)
    BY <1>b, <1>1, NamesDiffer, SupplyingNames
    DEF EngineStep, GuardAccepts, GuardRejects, GuardEscalates, ClaimWon, ClaimLost,
        RunPreflightCheck, SubmitBurn, RequestAttestation, RecordConfirmation,
        BeginReleaseObservation, SubmitPayout, WriteRefs, MarkTerminal, Persist, Audit,
        Rollback, Acting, Supplying, ManualReview, BurnConfirmed, AttestationConfirmed,
        PayoutConfirmed, ReleaseUnobserved, Preflight, BurnSubmitted, AttestationRequested,
        PayoutSubmitted
  <2>2. ~ObservesRelease(a) /\ ManualReview \notin PipelineStates
    BY <1>1 DEF ObservesRelease, PipelineStates, BeforeBurn, Observing, Initiated, Preflight,
       BurnSubmitted, BurnConfirmed, AttestationRequested, AttestationConfirmed,
       ReleaseUnobserved, ReleaseObserved, ReleaseConfirmed, PayoutSubmitted,
       PayoutConfirmed, Failed, ManualReview
  <2>3. MoveToManualReview(a)
    BY <1>1, <2>1, <2>2 DEF ActionThrows, CanThrow, ObserveRelease
  <2>4. QueueWrite(TRUE)
    BY <2>3 DEF MoveToManualReview
  <2> QED BY <1>a, <2>4 DEF QueueWrite
<1>2. CASE /\ pc[a] \in {"guard", "claim"} /\ target[a] \in Terminal
           /\ seen[a].status = ManualReview /\ seen[a].id = "row"
  <2>1. /\ GuardHolds(seen[a], target[a]) /\ ~Polls(seen[a], target[a])
        /\ ~EscalatesRejection(target[a])
    BY <1>2 DEF GuardHolds, Polls, EscalatesRejection, BudgetGuarded, Observing, Terminal,
       PipelineStates, BeforeBurn, Initiated, Preflight, BurnSubmitted, BurnConfirmed,
       AttestationRequested, AttestationConfirmed, ReleaseUnobserved, ReleaseObserved,
       ReleaseConfirmed, PayoutSubmitted, PayoutConfirmed, Settled, Failed, Cancelled,
       ManualReview
  <2>2. ~ClaimWon(a) /\ ~ClaimLost(a)
    BY <1>2, NamesDiffer DEF ClaimWon, ClaimLost, ClaimMatches
  <2>3. GuardAccepts(a)
    BY <1>b, <1>2, <2>1, <2>2
    DEF EngineStep, GuardRejects, GuardEscalates,
        RunPreflightCheck, SubmitBurn, RequestAttestation, RecordConfirmation,
        BeginReleaseObservation, ObserveRelease, SubmitPayout, WriteRefs, MarkTerminal,
        MoveToManualReview, Persist, Audit, ActionThrows, CanThrow, Rollback, Acting
  <2> QED BY <1>a, <1>2, <2>3 DEF GuardAccepts, Goto, CallsOK, Attends
<1> QED BY <1>1, <1>2 DEF Attends

LEMMA MovesKeepReview ==
  ASSUME ReviewInv, NEW a \in Callers, MovesOf(a)
  PROVE  ReviewKept'
<1> SUFFICES ASSUME faults' = 0, retries' = 0
             PROVE  /\ status' = ManualReview =>
                         openReview' \/ \E b \in Callers : Attends(b)'
                    /\ \A b \in Callers : Ends(b)' => status' \in Terminal
  BY DEF ReviewKept, Terminal
<1>a. RowInv /\ CallsOK /\ ReviewKept
  BY CallFacts DEF ReviewInv
<1>b. retries \in Nat
  BY EngineAssumption DEF ReviewInv, RowInv, TypeInv, TypeOK, EngineTypeOK
<1>1. /\ faults = 0 /\ retries = 0 /\ ~ResetForRetry(a) /\ OthersStay(a)
      /\ status' = status \/ ClaimWon(a) \/ Rollback(a)
      /\ \/ openReview' = openReview
         \/ MarkTerminal(a) \/ MoveToManualReview(a) \/ Unqueue(a)
  BY <1>a, <1>b, MovesFurther, QueueWriters DEF Furthers
<1>2. /\ status = ManualReview => openReview \/ \E b \in Callers : Attends(b)
      /\ \A b \in Callers : Ends(b) => status \in Terminal
  BY <1>1 DEF ReviewInv, ReviewKept
<1>3. ASSUME NEW b \in Callers, Ends(b)' PROVE status' \in Terminal
  <2>1. CASE Ends(b)
    BY <1>a, <1>1, <1>2, <2>1, TerminalStays
  <2>2. CASE b = a /\ ClaimWon(a)
    BY <1>3, <1>a, <2>2 DEF ClaimWon, Goto, CallsOK, Ends
  <2>3. CASE b # a
    BY <1>1, <1>3, <2>1, <2>3 DEF OthersStay, Ends
  <2> QED BY <1>3, <1>a, <2>1, <2>2, <2>3, EndingFollowsAClaim
<1>4. ASSUME status' = ManualReview, status' # status
      PROVE  \E b \in Callers : Attends(b)'
  <2>1. ~Rollback(a)
    <3> SUFFICES ASSUME Rollback(a) PROVE FALSE
      OBVIOUS
    <3>1. pc[a] = "rollback" /\ target[a] = PayoutSubmitted
      BY <1>a, <1>1 DEF Rollback, RowInv, RowSupplied
    <3>2. seen[a].status = ReleaseConfirmed
      BY <1>a, <3>1, PayoutsStartWhenReleased DEF CallsOK, HoldsEdge, InTransition
    <3> QED BY <1>4, <3>2 DEF Rollback, ReleaseConfirmed, ManualReview
  <2>2. ClaimWon(a)
    BY <1>1, <1>4, <2>1
  <2>3. pc'[a] = "act" /\ target'[a] = ManualReview
    BY <1>4, <1>a, <2>2 DEF ClaimWon, Goto, CallsOK
  <2> QED BY <2>3 DEF Attends
<1>5. ASSUME status' = ManualReview, status' = status
      PROVE  openReview' \/ \E b \in Callers : Attends(b)'
  <2>1. CASE \E b \in Callers : Attends(b)
    <3>1. PICK b \in Callers : Attends(b)
      BY <2>1
    <3>2. CASE b = a
      BY <1>5, <1>a, <3>1, <3>2, AttendingGoesOn
    <3>3. CASE b # a
      BY <1>1, <3>1, <3>3 DEF OthersStay, Attends
    <3> QED BY <3>2, <3>3
  <2>2. CASE openReview /\ Unqueue(a)
    <3>1. /\ pc[a] = "unqueue" /\ pc'[a] = "guard" /\ seen'[a] = seen[a]
          /\ target'[a] = target[a]
      BY <1>a, <2>2 DEF Unqueue, Goto, CallsOK
    <3>2. seen[a].status = ManualReview /\ seen[a].id = "row" /\ target[a] \in Terminal
      BY <1>a, <3>1, CallFacts DEF KnowsFailure
    <3> QED BY <3>1, <3>2 DEF Attends
  <2>3. CASE openReview /\ MarkTerminal(a)
    BY <1>2, <1>5, <2>3, NamesDiffer DEF MarkTerminal, Acting, Ends
  <2>4. CASE openReview /\ MoveToManualReview(a)
    BY <1>1, <2>4 DEF MoveToManualReview, QueueWrite
  <2> QED BY <1>1, <1>2, <1>5, <2>1, <2>2, <2>3, <2>4
<1> QED BY <1>3, <1>4, <1>5

LEMMA InitReviewInv == Init => ReviewInv
<1> SUFFICES ASSUME Init PROVE ReviewKept
  BY InitRowInv DEF ReviewInv
<1>1. status = Initiated /\ \A a \in Callers : pc[a] = "idle"
  BY DEF Init, EngineInit
<1>2. Initiated # ManualReview
  BY DEF Initiated, ManualReview
<1> QED BY <1>1, <1>2 DEF ReviewKept, Ends

LEMMA NextKeepsReviewInv == ReviewInv /\ [Next]_vars => ReviewInv'
<1> SUFFICES ASSUME ReviewInv, [Next]_vars PROVE ReviewInv'
  OBVIOUS
<1>1. RowInv'
  BY NextKeepsRowInv DEF ReviewInv
<1>2. CASE \E a \in Callers : MovesOf(a)
  BY <1>1, <1>2, MovesKeepReview DEF ReviewInv
<1>3. CASE UNCHANGED <<status, retries, openReview, faults, callVars>>
  BY <1>1, <1>3 DEF ReviewInv, ReviewKept, Attends, Ends, callVars
<1>4. Tick \/ (WorldMoves /\ UNCHANGED engineVars) \/ UNCHANGED vars
        => UNCHANGED <<status, retries, openReview, faults, callVars>>
  BY DEF Tick, engineVars, vars, rowVars, sideVars, callVars, bookVars
<1> QED BY <1>2, <1>3, <1>4 DEF Next, MovesOf

(* As long as nothing has failed and no retry has touched it, a row in     *)
(* manual review that no call works on has its open item in the operators' *)
(* queue, whoever else was recovering or resolving it at the same time.    *)
THEOREM ReviewItemsAreOpen == Spec => []ReviewItemOpen
<1>1. Spec => []ReviewInv
  BY InitReviewInv, NextKeepsReviewInv, PTL DEF Spec
<1>2. ReviewInv => ReviewItemOpen
  BY DEF ReviewInv, ReviewKept, ReviewItemOpen, Quiet, Idle, Attends
<1> QED BY <1>1, <1>2, PTL
=============================================================================
