--------------------------- MODULE PayoutRailProofs ---------------------------
(***************************************************************************)
(* Theorems about PayoutRail, for any number of callers and any bounds:    *)
(* its types, what every step leaves alone and who writes the status, and  *)
(* that it implements LifecycleSpec.                                       *)
(***************************************************************************)
EXTENDS PayoutRail, TLAPS, FiniteSetTheorems

----------------------------------------------------------------------------
(* The transition table.                                                   *)

LEMMA ForwardEdges ==
  ASSUME NEW s, NEW t, <<s, t>> \in Forward
  PROVE  \/ s = Initiated /\ t = Preflight
         \/ s = Preflight /\ t = BurnSubmitted
         \/ s = BurnSubmitted /\ t = BurnConfirmed
         \/ s = BurnConfirmed /\ t = AttestationRequested
         \/ s = AttestationRequested /\ t = AttestationConfirmed
         \/ s = AttestationConfirmed /\ t = ReleaseUnobserved
         \/ s = ReleaseUnobserved /\ t = ReleaseObserved
         \/ s = ReleaseObserved /\ t = ReleaseConfirmed
         \/ s = ReleaseConfirmed /\ t = PayoutSubmitted
         \/ s = PayoutSubmitted /\ t = PayoutConfirmed
         \/ s = PayoutConfirmed /\ t = Settled
BY DEF Forward

LEMMA EdgeKinds ==
  ASSUME NEW s, NEW t, <<s, t>> \in Edges
  PROVE  \/ <<s, t>> \in Forward
         \/ s = ManualReview /\ t = Settled
         \/ s \in NonTerminal /\ t \in {Failed, Cancelled, ManualReview}
BY DEF Edges

LEMMA EdgeEnds ==
  ASSUME NEW s, NEW t, <<s, t>> \in Edges
  PROVE  s \in NonTerminal /\ t \in States
<1>1. CASE <<s, t>> \in Forward
  BY <1>1, ForwardEdges DEF States, NonTerminal, Terminal, PipelineStates, BeforeBurn, Observing
<1>2. CASE <<s, t>> \notin Forward
  BY <1>2, EdgeKinds DEF States, NonTerminal, Terminal
<1> QED BY <1>1, <1>2

LEMMA NextOfIsAnEdge ==
  ASSUME NEW s \in NonTerminal
  PROVE  <<s, NextOf[s]>> \in Edges
<1>1. CASE s = ManualReview
  BY <1>1 DEF NextOf, Edges, NonTerminal
<1>2. CASE s # ManualReview
  <2>1. \E t \in States : <<s, t>> \in Forward
    <3>1. s \in PipelineStates
      BY <1>2 DEF NonTerminal
    <3> QED BY <3>1 DEF Forward, PipelineStates, BeforeBurn, Observing, States,
                        NonTerminal, Terminal
  <2>2. <<s, CHOOSE u \in States : <<s, u>> \in Forward>> \in Forward
    BY <2>1
  <2> QED BY <1>2, <2>2 DEF NextOf, Edges
<1> QED BY <1>1, <1>2

LEMMA EdgesFromNonTerminal ==
  ASSUME NEW s \in NonTerminal, NEW t \in {Failed, Cancelled, ManualReview}
  PROVE  <<s, t>> \in Edges
BY DEF Edges

LEMMA ResolveIsAnEdge ==
  ASSUME NEW t \in Terminal
  PROVE  <<ManualReview, t>> \in Edges
BY DEF Edges, Terminal, NonTerminal

(* The burn is claimed from preflight only, nothing comes back to the      *)
(* states before it, and nothing else of the pipeline is reached from them.*)
LEMMA EdgesAroundTheBurn ==
  ASSUME NEW s, NEW t, <<s, t>> \in Edges
  PROVE  /\ t = BurnSubmitted => s = Preflight
         /\ t \in BeforeBurn => s \in BeforeBurn
         /\ s \in BeforeBurn /\ t \in PipelineStates =>
              t \in BeforeBurn \cup {BurnSubmitted}
<1>1. CASE <<s, t>> \in Forward
  BY <1>1, ForwardEdges DEF BeforeBurn, Initiated, Preflight, BurnSubmitted,
       BurnConfirmed, AttestationRequested, AttestationConfirmed,
       ReleaseUnobserved, ReleaseObserved, ReleaseConfirmed, PayoutSubmitted,
       PayoutConfirmed, Settled
<1>2. CASE t \in {Settled, Failed, Cancelled, ManualReview}
  BY <1>2 DEF BeforeBurn, PipelineStates, Observing, Initiated, Preflight,
       BurnSubmitted, BurnConfirmed, AttestationRequested, AttestationConfirmed,
       ReleaseUnobserved, ReleaseObserved, ReleaseConfirmed, PayoutSubmitted,
       PayoutConfirmed, Settled, Failed, Cancelled, ManualReview
<1> QED BY <1>1, <1>2, EdgeKinds

LEMMA OnlyManualReviewAdvancesToFailed ==
  ASSUME NEW s \in NonTerminal, NextOf[s] = Failed
  PROVE  s = ManualReview
<1> SUFFICES ASSUME s # ManualReview PROVE FALSE
  OBVIOUS
<1>1. <<s, Failed>> \in Forward
  <2>1. s \in PipelineStates
    BY DEF NonTerminal
  <2>2. \E t \in States : <<s, t>> \in Forward
    BY <2>1 DEF Forward, PipelineStates, BeforeBurn, Observing, States, NonTerminal, Terminal
  <2>3. <<s, CHOOSE t \in States : <<s, t>> \in Forward>> \in Forward
    BY <2>2
  <2> QED BY <2>3 DEF NextOf
<1> QED BY <1>1 DEF Forward, Initiated, Preflight, BurnSubmitted, BurnConfirmed,
     AttestationRequested, AttestationConfirmed, ReleaseUnobserved, ReleaseObserved,
     ReleaseConfirmed, PayoutSubmitted, PayoutConfirmed, Settled, Failed

LEMMA OnlyPayoutSubmittedConfirms ==
  ASSUME NEW s, <<s, PayoutConfirmed>> \in Edges
  PROVE  s = PayoutSubmitted
BY EdgeKinds, ForwardEdges DEF Initiated, Preflight, BurnSubmitted, BurnConfirmed,
   AttestationRequested, AttestationConfirmed, ReleaseUnobserved, ReleaseObserved,
   ReleaseConfirmed, PayoutSubmitted, PayoutConfirmed, Settled, Failed, Cancelled,
   ManualReview

----------------------------------------------------------------------------
(* Type correctness.  A call under way holds an edge of the table, and a   *)
(* retry resets to a state that is not terminal: without the two, neither  *)
(* the roll back nor the reset is known to write a state.                  *)

InTransition == {"guard", "claim", "act", "write", "persist", "audit",
                 "rollback", "unqueue", "scanned"}

HoldsEdge(a) ==
  /\ pc[a] \in InTransition => <<seen[a].status, target[a]>> \in Edges
  /\ pc[a] = "reset" => target[a] \in NonTerminal

CallsOK ==
  /\ pc \in [Callers -> Steps]
  /\ seen \in [Callers -> Rows]
  /\ target \in [Callers -> States]
  /\ got \in [Callers -> Details]
  /\ \A a \in Callers : HoldsEdge(a)

TypeInv == TypeOK /\ CallsOK

LEMMA NoRowType == NoRow \in Rows /\ NoDetails \in Details /\ Initiated \in States
<1>1. Initiated \in States /\ Initiated \in NonTerminal
  BY DEF States, NonTerminal, PipelineStates, BeforeBurn
<1> QED BY <1>1, MaxBurnsAssumption, EngineAssumption
     DEF NoRow, NoDetails, Rows, Details, Verdicts, Txs, NoTx

LEMMA CurrentRowType ==
  ASSUME TypeInv
  PROVE  CurrentRow \in Rows
BY DEF TypeInv, TypeOK, EngineTypeOK, CurrentRow, Rows

LEMMA GotoCalls ==
  ASSUME CallsOK, NEW a \in Callers, NEW step \in Steps, Goto(a, step),
         step \in InTransition => <<seen[a].status, target[a]>> \in Edges,
         step = "reset" => target[a] \in NonTerminal
  PROVE  CallsOK'
BY DEF CallsOK, HoldsEdge, Goto

LEMMA ReturnCalls ==
  ASSUME CallsOK, NEW a \in Callers, Return(a)
  PROVE  CallsOK'
BY NoRowType DEF CallsOK, HoldsEdge, Return, Steps, InTransition

LEMMA AttemptCalls ==
  ASSUME CallsOK, NEW a \in Callers, NEW row \in Rows, NEW to,
         <<row.status, to>> \in Edges, Attempt(a, row, to)
  PROVE  CallsOK'
<1>1. to \in States
  BY EdgeEnds
<1> QED BY <1>1 DEF CallsOK, HoldsEdge, Attempt, Steps, InTransition

(* An action of the engine fills in what it returned and steps on.         *)
LEMMA GotCalls ==
  ASSUME CallsOK, NEW a \in Callers, NEW step \in {"write", "persist"},
         pc[a] = "act", pc' = [pc EXCEPT ![a] = step],
         got' \in [Callers -> Details], UNCHANGED <<seen, target>>
  PROVE  CallsOK'
BY DEF CallsOK, HoldsEdge, Steps, InTransition

LEMMA FinishCalls ==
  ASSUME CallsOK, NEW a \in Callers, pc[a] \in InTransition, Finish(a)
  PROVE  CallsOK'
<1>1. CASE target[a] = Failed
  BY <1>1, GotoCalls DEF Finish, CallsOK, HoldsEdge, Steps
<1>2. CASE target[a] # Failed
  BY <1>2, ReturnCalls DEF Finish
<1> QED BY <1>1, <1>2

LEMMA InitTypeInv == Init => TypeInv
<1> SUFFICES ASSUME Init PROVE TypeInv
  OBVIOUS
<1> USE NoRowType, MaxBurnsAssumption, EngineAssumption
<1>1. WorldTypeOK
  BY DEF Init, EngineInit, WorldInit, WorldTypeOK, Burns, ReleaseStatuses
<1>2. /\ status \in States /\ verdict \in Verdicts /\ tx \in Txs
      /\ release \in ReleaseStatuses \cup {NoRelease}
      /\ retries \in 0 .. RetryCap /\ age \in 0 .. 2
  BY DEF Init, EngineInit, Verdicts, Txs, NoTx
<1>3. /\ lastFailed \in NonTerminal \cup {None} /\ attRef \in Txs
      /\ faults \in 0 .. MaxFaults /\ reopened \in Nat
  BY DEF Init, EngineInit, Txs, NoTx
<1>4. openReview \in BOOLEAN /\ payoutRef \in BOOLEAN
  BY Zenon DEF Init, EngineInit
<1>5. CallsOK
  BY DEF Init, EngineInit, CallsOK, HoldsEdge, InTransition, Steps
<1> QED BY <1>1, <1>2, <1>3, <1>4, <1>5 DEF TypeInv, TypeOK, EngineTypeOK, CallsOK

LEMMA QueueWriteType ==
  ASSUME TypeInv, NEW open \in BOOLEAN, QueueWrite(open)
  PROVE  openReview' \in BOOLEAN /\ faults' \in 0 .. MaxFaults
<1>1. openReview \in BOOLEAN /\ faults \in 0 .. MaxFaults
  BY DEF TypeInv, TypeOK, EngineTypeOK
<1>2. openReview' \in BOOLEAN
  BY <1>1, Zenon DEF QueueWrite
<1>3. faults' = faults \/ (faults < MaxFaults /\ faults' = faults + 1)
  BY Zenon DEF QueueWrite
<1>4. faults' \in 0 .. MaxFaults
  BY <1>1, <1>3, EngineAssumption
<1> QED BY <1>2, <1>4

(* The variables no step of a caller's own bookkeeping touches.            *)
LEMMA UnchangedTypeInv ==
  ASSUME TypeInv, CallsOK', UNCHANGED <<worldVars, rowVars, sideVars, bookVars>>
  PROVE  TypeInv'
BY DEF TypeInv, TypeOK, CallsOK, EngineTypeOK, WorldTypeOK,
       worldVars, rowVars, sideVars, bookVars

LEMMA EngineKeepsTypeInv ==
  ASSUME TypeInv, NEW a \in Callers, EngineStep(a)
  PROVE  TypeInv'
<1> USE DEF TypeInv
<1>a. pc[a] \in InTransition /\ <<seen[a].status, target[a]>> \in Edges
  BY DEF EngineStep, GuardAccepts, GuardRejects, GuardEscalates, ClaimWon, ClaimLost,
         RunPreflightCheck, SubmitBurn, RequestAttestation, RecordConfirmation,
         BeginReleaseObservation, ObserveRelease, SubmitPayout, WriteRefs,
         MarkTerminal, MoveToManualReview, Persist, Audit, ActionThrows, CanThrow,
         Rollback, Acting, InTransition, CallsOK, HoldsEdge
<1>b. /\ seen[a] \in Rows /\ seen[a].status \in NonTerminal /\ seen[a].tx \in Txs
      /\ target[a] \in States
      /\ got[a] \in Details
  BY <1>a, EdgeEnds DEF CallsOK, Rows
<1>1. CASE GuardAccepts(a)
  <2>1. CallsOK'
    BY <1>1, <1>a, GotoCalls DEF GuardAccepts, Steps
  <2> QED BY <1>1, <2>1, UnchangedTypeInv DEF GuardAccepts
<1>2. CASE GuardRejects(a)
  <2>1. CallsOK'
    BY <1>2, ReturnCalls DEF GuardRejects
  <2> QED BY <1>2, <2>1, UnchangedTypeInv DEF GuardRejects
<1>3. CASE GuardEscalates(a)
  <2>1. <<seen[a].status, ManualReview>> \in Edges
    BY <1>b, EdgesFromNonTerminal
  <2>2. CallsOK'
    BY <1>3, <2>1, <1>b, AttemptCalls DEF GuardEscalates
  <2> QED BY <1>3, <2>2, UnchangedTypeInv DEF GuardEscalates
<1>4. CASE ClaimWon(a)
  <2>1. CallsOK'
    BY <1>4, <1>a, GotoCalls DEF ClaimWon, Steps
  <2>2. retries' \in 0 .. RetryCap
    BY <1>4, EngineAssumption DEF ClaimWon, TypeOK, EngineTypeOK
  <2> QED BY <1>4, <1>b, <2>1, <2>2
       DEF ClaimWon, TypeOK, EngineTypeOK, CallsOK, WorldTypeOK, worldVars,
           sideVars, bookVars
<1>5. CASE ClaimLost(a)
  <2>1. CallsOK'
    BY <1>5, ReturnCalls DEF ClaimLost
  <2> QED BY <1>5, <2>1, UnchangedTypeInv DEF ClaimLost
<1>6. CASE RunPreflightCheck(a)
  <2>1. got' \in [Callers -> Details]
    BY <1>6 DEF RunPreflightCheck, CallsOK, Details, Verdicts
  <2>2. CallsOK'
    BY <1>6, <2>1, GotCalls DEF RunPreflightCheck, Acting
  <2> QED BY <1>6, <2>2, UnchangedTypeInv DEF RunPreflightCheck
<1>7. CASE SubmitBurn(a)
  <2>1. burns' \in 0 .. MaxBurns /\ WorldTypeOK'
    BY <1>7, MaxBurnsAssumption
       DEF SubmitBurn, Broadcast, TypeOK, EngineTypeOK, WorldTypeOK, Burns
  <2>2. got' \in [Callers -> Details]
    BY <1>7, <2>1 DEF SubmitBurn, CallsOK, Details, Txs
  <2>3. CallsOK'
    BY <1>7, <2>2, GotCalls DEF SubmitBurn, Acting
  <2> QED BY <1>7, <2>1, <2>3
       DEF SubmitBurn, TypeOK, EngineTypeOK, CallsOK, rowVars, sideVars, bookVars
<1>8. CASE RequestAttestation(a)
  <2>1. CallsOK'
    BY <1>8, ReturnCalls DEF RequestAttestation
  <2> QED BY <1>8, <1>b, <2>1
       DEF RequestAttestation, TypeOK, EngineTypeOK, CallsOK, WorldTypeOK,
           worldVars, rowVars, bookVars
<1>9. CASE RecordConfirmation(a)
  <2>1. CallsOK'
    BY <1>9, ReturnCalls DEF RecordConfirmation
  <2> QED BY <1>9, <2>1, UnchangedTypeInv DEF RecordConfirmation
<1>10. CASE BeginReleaseObservation(a)
  <2>1. got' \in [Callers -> Details]
    BY <1>10 DEF BeginReleaseObservation, CallsOK, Details, ReleaseStatuses
  <2>2. CallsOK'
    BY <1>10, <2>1, GotCalls DEF BeginReleaseObservation, Acting
  <2> QED BY <1>10, <2>2, UnchangedTypeInv DEF BeginReleaseObservation
<1>11. CASE ObserveRelease(a)
  <2>1. got' \in [Callers -> Details]
    BY <1>11 DEF ObserveRelease, CallsOK, Details, TypeOK, EngineTypeOK, WorldTypeOK
  <2>2. CallsOK'
    BY <1>11, <2>1, GotCalls DEF ObserveRelease
  <2> QED BY <1>11, <2>2, UnchangedTypeInv DEF ObserveRelease
<1>12. CASE SubmitPayout(a)
  <2>1. CallsOK'
    BY <1>12, <1>a, GotoCalls DEF SubmitPayout, Steps
  <2> QED BY <1>12, <2>1
       DEF SubmitPayout, SubmitSend, TypeOK, EngineTypeOK, CallsOK, WorldTypeOK,
           rowVars, sideVars, bookVars
<1>13. CASE WriteRefs(a)
  <2>1. CallsOK'
    BY <1>13, <1>a, GotoCalls, ReturnCalls DEF WriteRefs, Steps
  <2> QED BY <1>13, <2>1
       DEF WriteRefs, TypeOK, EngineTypeOK, CallsOK, WorldTypeOK,
           worldVars, rowVars, bookVars
<1>14. CASE MarkTerminal(a)
  <2>1. CallsOK'
    BY <1>14, <1>a, FinishCalls DEF MarkTerminal
  <2>2. openReview' \in BOOLEAN /\ faults' \in 0 .. MaxFaults
    BY <1>14, QueueWriteType DEF MarkTerminal
  <2> QED BY <1>14, <2>1, <2>2
       DEF MarkTerminal, TypeOK, EngineTypeOK, CallsOK, WorldTypeOK,
           worldVars, rowVars
<1>15. CASE MoveToManualReview(a)
  <2>1. CallsOK'
    BY <1>15, ReturnCalls DEF MoveToManualReview
  <2>2. openReview' \in BOOLEAN /\ faults' \in 0 .. MaxFaults
    BY <1>15, QueueWriteType DEF MoveToManualReview
  <2> QED BY <1>15, <2>1, <2>2
       DEF MoveToManualReview, TypeOK, EngineTypeOK, CallsOK, WorldTypeOK,
           worldVars, rowVars
<1>16. CASE Persist(a)
  <2>1. CallsOK'
    BY <1>16, <1>a, FinishCalls DEF Persist
  <2> QED BY <1>16, <1>b, <2>1
       DEF Persist, TypeOK, EngineTypeOK, CallsOK, WorldTypeOK, Details,
           worldVars, sideVars, bookVars
<1>17. CASE Audit(a)
  <2>1. CallsOK'
    BY <1>17, ReturnCalls DEF Audit
  <2> QED BY <1>17, <1>b, <2>1, EngineAssumption
       DEF Audit, TypeOK, EngineTypeOK, CallsOK, WorldTypeOK, worldVars, rowVars
<1>18. CASE ActionThrows(a)
  <2>1. CallsOK'
    BY <1>18, <1>a, GotoCalls DEF ActionThrows, Steps
  <2>2. attRef' \in Txs /\ payoutRef' \in BOOLEAN
    BY <1>18, <1>b DEF ActionThrows, ThrowsWithRefs, TypeOK, EngineTypeOK
  <2>3. faults' \in 0 .. MaxFaults
    BY <1>18, EngineAssumption DEF ActionThrows, TypeOK, EngineTypeOK
  <2> QED BY <1>18, <2>1, <2>2, <2>3
       DEF ActionThrows, TypeOK, EngineTypeOK, CallsOK, WorldTypeOK, worldVars, rowVars
<1>19. CASE Rollback(a)
  <2>1. CallsOK'
    BY <1>19, ReturnCalls DEF Rollback
  <2>2. seen[a].status \in States
    BY <1>b DEF States
  <2> QED BY <1>19, <2>1, <2>2
       DEF Rollback, TypeOK, EngineTypeOK, CallsOK, WorldTypeOK, worldVars, sideVars
<1> QED BY <1>1, <1>2, <1>3, <1>4, <1>5, <1>6, <1>7, <1>8, <1>9, <1>10, <1>11,
           <1>12, <1>13, <1>14, <1>15, <1>16, <1>17, <1>18, <1>19 DEF EngineStep

LEMMA ServiceKeepsTypeInv ==
  ASSUME TypeInv, NEW a \in Callers,
         ServiceStep(a) \/ ServiceCall(a)
  PROVE  TypeInv'
<1> USE DEF TypeInv
<1>a. CurrentRow \in Rows /\ CurrentRow.status = status
  BY CurrentRowType DEF CurrentRow
<1>1. CASE NothingToDo(a)
  <2>1. CallsOK'
    BY <1>1, ReturnCalls DEF NothingToDo
  <2> QED BY <1>1, <2>1, UnchangedTypeInv DEF NothingToDo
<1>2. CASE AdvanceCurrentRow(a)
  <2>1. <<CurrentRow.status, NextOf[status]>> \in Edges
    BY <1>2, <1>a, NextOfIsAnEdge DEF AdvanceCurrentRow
  <2>2. CallsOK'
    BY <1>2, <1>a, <2>1, AttemptCalls DEF AdvanceCurrentRow
  <2> QED BY <1>2, <2>2, UnchangedTypeInv DEF AdvanceCurrentRow
<1>3. CASE RecoverCurrentRow(a)
  <2>1. <<CurrentRow.status, ManualReview>> \in Edges
    BY <1>3, <1>a, EdgesFromNonTerminal DEF RecoverCurrentRow
  <2>2. CallsOK'
    BY <1>3, <1>a, <2>1, AttemptCalls DEF RecoverCurrentRow
  <2> QED BY <1>3, <2>2, UnchangedTypeInv DEF RecoverCurrentRow
<1>4. CASE BeginRetry(a)
  <2>1. CallsOK'
    BY <1>4, GotoCalls DEF BeginRetry, Steps, InTransition
  <2> QED BY <1>4, <2>1, UnchangedTypeInv DEF BeginRetry
<1>5. CASE LookupLastState(a)
  <2>1. target'[a] \in NonTerminal /\ target' \in [Callers -> States]
    BY <1>5 DEF LookupLastState, TypeOK, EngineTypeOK, CallsOK, States,
                NonTerminal, PipelineStates, BeforeBurn
  <2>2. CallsOK'
    BY <1>5, <2>1 DEF LookupLastState, CallsOK, HoldsEdge, Steps, InTransition
  <2> QED BY <1>5, <2>2, UnchangedTypeInv DEF LookupLastState
<1>6. CASE ResetForRetry(a)
  <2>1. target[a] \in NonTerminal
    BY <1>6 DEF ResetForRetry, CallsOK, HoldsEdge
  <2>2. CallsOK'
    BY <1>6, NoRowType DEF ResetForRetry, CallsOK, HoldsEdge, Steps, InTransition
  <2>3. /\ status' \in States
        /\ retries' \in 0 .. RetryCap
        /\ reopened' \in Nat
    BY <1>6, <2>1, EngineAssumption DEF ResetForRetry, States, TypeOK, EngineTypeOK
  <2> QED BY <1>6, <2>2, <2>3
       DEF ResetForRetry, TypeOK, EngineTypeOK, CallsOK, WorldTypeOK, worldVars, sideVars
<1>7. CASE WebhookCompleted(a)
  <2>1. CallsOK'
    BY <1>7, GotoCalls DEF WebhookCompleted, Steps, InTransition
  <2> QED BY <1>7, <2>1, UnchangedTypeInv DEF WebhookCompleted
<1>8. CASE WebhookFailed(a)
  <2> DEFINE ref == [NoRow EXCEPT !.id = "ref", !.status = status]
  <2>1. ref \in Rows /\ ref.status = status
    BY NoRowType DEF NoRow, Rows, TypeOK, EngineTypeOK
  <2>2. <<ref.status, Failed>> \in Edges
    BY <1>8, <2>1, EdgesFromNonTerminal DEF WebhookFailed
  <2>3. Attempt(a, ref, Failed)
    BY <1>8 DEF WebhookFailed
  <2> HIDE DEF ref
  <2>4. CallsOK'
    BY <2>1, <2>2, <2>3, AttemptCalls
  <2> QED BY <1>8, <2>4, UnchangedTypeInv DEF WebhookFailed
<1>9. CASE \E resolution \in Terminal : BeginResolve(a, resolution)
  <2>1. PICK resolution \in Terminal : BeginResolve(a, resolution)
    BY <1>9
  <2>2. <<CurrentRow.status, resolution>> \in Edges /\ resolution \in States
    BY <2>1, <1>a, ResolveIsAnEdge DEF BeginResolve, States
  <2>3. CallsOK'
    BY <1>a, <2>1, <2>2 DEF BeginResolve, CallsOK, HoldsEdge, Steps, InTransition
  <2> QED BY <2>1, <2>3, UnchangedTypeInv DEF BeginResolve
<1>10. CASE Unqueue(a)
  <2>1. <<seen[a].status, target[a]>> \in Edges
    BY <1>10 DEF Unqueue, CallsOK, HoldsEdge, InTransition
  <2>2. CallsOK'
    BY <1>10, <2>1, GotoCalls DEF Unqueue, Steps
  <2>3. openReview' \in BOOLEAN /\ faults' \in 0 .. MaxFaults
    BY <1>10, QueueWriteType DEF Unqueue
  <2> QED BY <1>10, <2>2, <2>3
       DEF Unqueue, TypeOK, EngineTypeOK, CallsOK, WorldTypeOK, worldVars, rowVars
<1> QED BY <1>1, <1>2, <1>3, <1>4, <1>5, <1>6, <1>7, <1>8, <1>9, <1>10
        DEF ServiceStep, ServiceCall, AdvanceListed, ApiAdvance, ApiRecover, RecoverListed

LEMMA ReconcileKeepsTypeInv ==
  ASSUME TypeInv, NEW a \in Callers,
         ReconcileStep(a) \/ ReconcileScan(a)
  PROVE  TypeInv'
<1> USE DEF TypeInv
<1>1. CASE ReconcileEscalates(a)
  <2>1. RecoverCurrentRow(a)
    BY <1>1 DEF ReconcileEscalates
  <2>2. <<CurrentRow.status, ManualReview>> \in Edges
    BY <2>1, EdgesFromNonTerminal DEF RecoverCurrentRow, CurrentRow
  <2>3. CallsOK'
    BY <2>1, <2>2, CurrentRowType, AttemptCalls DEF RecoverCurrentRow
  <2> QED BY <2>1, <2>3, UnchangedTypeInv DEF RecoverCurrentRow
<1>2. CASE ScanPayout(a)
  <2>1. /\ <<CurrentRow.status, PayoutConfirmed>> \in Edges
        /\ CurrentRow \in Rows /\ PayoutConfirmed \in States
    BY <1>2, CurrentRowType
       DEF ScanPayout, CurrentRow, Edges, Forward, States, NonTerminal, PipelineStates
  <2>2. CallsOK'
    BY <1>2, <2>1 DEF ScanPayout, CallsOK, HoldsEdge, Steps, InTransition
  <2> QED BY <1>2, <2>2, UnchangedTypeInv DEF ScanPayout
<1>3. CASE ReconcileStep(a)
  <2>1. /\ pc[a] = "scanned" /\ <<seen[a].status, target[a]>> \in Edges
        /\ seen[a] \in Rows
    BY <1>3 DEF ReconcileStep, RouteConfirmed, RouteFailed, LeaveScanned, CallsOK,
         HoldsEdge, InTransition
  <2>2. <<seen[a].status, Failed>> \in Edges
    BY <2>1, EdgeEnds, EdgesFromNonTerminal
  <2>3. CASE RouteConfirmed(a)
    <3>1. CallsOK'
      BY <2>1, <2>3, GotoCalls DEF RouteConfirmed, Steps
    <3> QED BY <2>3, <3>1, UnchangedTypeInv DEF RouteConfirmed
  <2>4. CASE RouteFailed(a)
    <3>1. CallsOK'
      BY <2>1, <2>2, <2>4, AttemptCalls DEF RouteFailed
    <3> QED BY <2>4, <3>1, UnchangedTypeInv DEF RouteFailed
  <2>5. CASE LeaveScanned(a)
    <3>1. CallsOK'
      BY <2>5, ReturnCalls DEF LeaveScanned
    <3> QED BY <2>5, <3>1, UnchangedTypeInv DEF LeaveScanned
  <2> QED BY <1>3, <2>3, <2>4, <2>5 DEF ReconcileStep
<1> QED BY <1>1, <1>2, <1>3 DEF ReconcileScan

LEMMA WorldKeepsTypeOK ==
  ASSUME WorldTypeOK, WorldMoves
  PROVE  WorldTypeOK'
BY DEF WorldTypeOK, WorldMoves, MineBurn, SettleRelease, FinishSend, Burns, ReleaseStatuses

LEMMA NextKeepsTypeInv == TypeInv /\ [Next]_vars => TypeInv'
<1> SUFFICES ASSUME TypeInv, [Next]_vars PROVE TypeInv'
  OBVIOUS
<1>1. ASSUME NEW a \in Callers, CallerMoves(a) \/ ServiceCall(a) \/ ReconcileScan(a)
      PROVE  TypeInv'
  BY <1>1, EngineKeepsTypeInv, ServiceKeepsTypeInv, ReconcileKeepsTypeInv DEF CallerMoves
<1>2. ASSUME NEW a \in Callers, PipelineSelect(a) \/ ReaperSelect(a)
      PROVE  TypeInv'
  <2>1. CallsOK'
    BY <1>2, GotoCalls DEF PipelineSelect, ReaperSelect, Steps, InTransition, TypeInv
  <2> QED BY <1>2, <2>1, UnchangedTypeInv DEF PipelineSelect, ReaperSelect
<1>3. ASSUME NEW a \in Callers, Crash(a)
      PROVE  TypeInv'
  <2>1. CallsOK'
    BY <1>3, ReturnCalls DEF Crash, TypeInv
  <2>2. faults' \in 0 .. MaxFaults
    BY <1>3, EngineAssumption DEF Crash, TypeInv, TypeOK, EngineTypeOK
  <2> QED BY <1>3, <2>1, <2>2
       DEF Crash, TypeInv, TypeOK, EngineTypeOK, CallsOK, WorldTypeOK,
           worldVars, rowVars, sideVars
<1>4. CASE Tick
  BY <1>4, EngineAssumption
     DEF Tick, TypeInv, TypeOK, EngineTypeOK, CallsOK, HoldsEdge, WorldTypeOK,
         worldVars, sideVars, callVars, bookVars
<1>5. CASE WorldMoves /\ UNCHANGED engineVars
  BY <1>5, WorldKeepsTypeOK
     DEF TypeInv, TypeOK, EngineTypeOK, CallsOK, HoldsEdge, engineVars,
         rowVars, sideVars, callVars, bookVars
<1>6. CASE UNCHANGED vars
  BY <1>6
     DEF TypeInv, TypeOK, EngineTypeOK, CallsOK, HoldsEdge, WorldTypeOK, vars, worldVars,
         engineVars, rowVars, sideVars, callVars, bookVars
<1> QED BY <1>1, <1>2, <1>3, <1>4, <1>5, <1>6 DEF Next

(* The row, the side tables and every call's local variables keep their    *)
(* types for any number of callers; in particular no roll back and no      *)
(* retry ever writes anything but a state of the table (TypeOK).           *)
THEOREM TypeCorrect == Spec => []TypeOK
<1>1. Spec => []TypeInv
  BY InitTypeInv, NextKeepsTypeInv, PTL DEF Spec
<1>2. TypeInv => TypeOK
  BY DEF TypeInv
<1> QED BY <1>1, <1>2, PTL

----------------------------------------------------------------------------
(* What every move of a caller leaves alone: the calls of the others.      *)

OthersStay(a) ==
  \A b \in Callers \ {a} :
    /\ pc'[b] = pc[b] /\ seen'[b] = seen[b]
    /\ target'[b] = target[b] /\ got'[b] = got[b]

MovesOf(a) == CallerMoves(a) \/ ServiceCall(a) \/ Crash(a)
                \/ PipelineSelect(a) \/ ReaperSelect(a) \/ ReconcileScan(a)

LEMMA CallFormsKeepOthers ==
  ASSUME CallsOK, NEW a \in Callers, NEW step, NEW row, NEW to,
         Goto(a, step) \/ Return(a) \/ Attempt(a, row, to)
  PROVE  OthersStay(a)
BY DEF CallsOK, OthersStay, Goto, Return, Attempt

LEMMA EngineKeepsOthers ==
  ASSUME CallsOK, NEW a \in Callers, EngineStep(a)
  PROVE  OthersStay(a)
<1>1. CASE \/ GuardAccepts(a) \/ GuardRejects(a) \/ GuardEscalates(a)
           \/ ClaimWon(a) \/ ClaimLost(a)
  BY <1>1, CallFormsKeepOthers
     DEF GuardAccepts, GuardRejects, GuardEscalates, ClaimWon, ClaimLost
<1>2. CASE RunPreflightCheck(a) \/ SubmitBurn(a) \/ BeginReleaseObservation(a)
             \/ ObserveRelease(a)
  BY <1>2 DEF CallsOK, OthersStay, RunPreflightCheck, SubmitBurn,
              BeginReleaseObservation, ObserveRelease
<1>3. CASE RequestAttestation(a) \/ RecordConfirmation(a) \/ SubmitPayout(a)
             \/ WriteRefs(a) \/ MoveToManualReview(a)
  BY <1>3, CallFormsKeepOthers
     DEF RequestAttestation, RecordConfirmation, SubmitPayout, WriteRefs, MoveToManualReview
<1>4. CASE MarkTerminal(a) \/ Persist(a) \/ Audit(a) \/ ActionThrows(a) \/ Rollback(a)
  BY <1>4, CallFormsKeepOthers
     DEF MarkTerminal, Persist, Finish, Audit, ActionThrows, Rollback
<1> QED BY <1>1, <1>2, <1>3, <1>4 DEF EngineStep

LEMMA OtherCallsStay ==
  ASSUME CallsOK, NEW a \in Callers, MovesOf(a)
  PROVE  OthersStay(a)
<1>1. CASE EngineStep(a)
  BY <1>1, EngineKeepsOthers
<1>2. CASE NothingToDo(a) \/ AdvanceCurrentRow(a) \/ RecoverCurrentRow(a)
  BY <1>2, CallFormsKeepOthers DEF NothingToDo, AdvanceCurrentRow, RecoverCurrentRow
<1>3. CASE BeginRetry(a) \/ WebhookCompleted(a) \/ WebhookFailed(a) \/ Unqueue(a)
  BY <1>3, CallFormsKeepOthers DEF BeginRetry, WebhookCompleted, WebhookFailed, Unqueue
<1>4. CASE LookupLastState(a) \/ ResetForRetry(a)
  BY <1>4 DEF CallsOK, OthersStay, LookupLastState, ResetForRetry
<1>5. CASE \E resolution \in Terminal : BeginResolve(a, resolution)
  BY <1>5 DEF CallsOK, OthersStay, BeginResolve
<1>6. CASE PipelineSelect(a) \/ ReaperSelect(a) \/ Crash(a)
  BY <1>6, CallFormsKeepOthers DEF PipelineSelect, ReaperSelect, Crash
<1>7. CASE RouteConfirmed(a) \/ RouteFailed(a) \/ LeaveScanned(a)
  BY <1>7, CallFormsKeepOthers DEF RouteConfirmed, RouteFailed, LeaveScanned
<1>8. CASE ScanPayout(a)
  BY <1>8 DEF CallsOK, OthersStay, ScanPayout
<1> QED BY <1>1, <1>2, <1>3, <1>4, <1>5, <1>6, <1>7, <1>8
        DEF MovesOf, CallerMoves, ServiceStep, ServiceCall, AdvanceListed,
            ApiAdvance, ApiRecover, RecoverListed, ReconcileStep, ReconcileScan,
            ReconcileEscalates

----------------------------------------------------------------------------
(* Who writes the status, and that a failed send stays failed.             *)

LEMMA EngineWritesStatus ==
  ASSUME NEW a \in Callers, EngineStep(a)
  PROVE  status' = status \/ ClaimWon(a) \/ Rollback(a)
BY DEF EngineStep, GuardAccepts, GuardRejects, GuardEscalates, ClaimLost,
   RunPreflightCheck, SubmitBurn, RequestAttestation, RecordConfirmation,
   BeginReleaseObservation, ObserveRelease, SubmitPayout, WriteRefs, MarkTerminal,
   MoveToManualReview, Persist, Audit, ActionThrows, rowVars

LEMMA EngineKeepsFailedSend ==
  ASSUME NEW a \in Callers, EngineStep(a)
  PROVE  send = "failed" => send' = "failed"
BY DEF EngineStep, GuardAccepts, GuardRejects, GuardEscalates, ClaimWon, ClaimLost,
   RunPreflightCheck, SubmitBurn, Broadcast, RequestAttestation, RecordConfirmation,
   BeginReleaseObservation, ObserveRelease, SubmitPayout, SubmitSend, WriteRefs,
   MarkTerminal, MoveToManualReview, Persist, Audit, ActionThrows, Rollback, worldVars

LEMMA ServiceWritesStatus ==
  ASSUME NEW a \in Callers, ServiceStep(a) \/ ServiceCall(a)
  PROVE  UNCHANGED worldVars /\ (status' = status \/ ResetForRetry(a))
<1>1. CASE ServiceStep(a)
  BY <1>1 DEF ServiceStep, NothingToDo, AdvanceListed, RecoverListed,
     AdvanceCurrentRow, RecoverCurrentRow, LookupLastState, ResetForRetry, Unqueue,
     rowVars
<1>2. CASE ServiceCall(a)
  BY <1>2 DEF ServiceCall, ApiAdvance, ApiRecover, AdvanceCurrentRow,
     RecoverCurrentRow, BeginRetry, BeginResolve, WebhookCompleted, WebhookFailed,
     rowVars
<1> QED BY <1>1, <1>2

LEMMA LoopsKeepStatus ==
  ASSUME NEW a \in Callers,
         \/ Crash(a) \/ PipelineSelect(a) \/ ReaperSelect(a)
         \/ ReconcileScan(a) \/ ReconcileStep(a)
  PROVE  UNCHANGED worldVars /\ status' = status
<1>1. CASE Crash(a) \/ PipelineSelect(a) \/ ReaperSelect(a)
  BY <1>1 DEF Crash, PipelineSelect, ReaperSelect, rowVars
<1>2. CASE ReconcileScan(a)
  BY <1>2 DEF ReconcileScan, ReconcileEscalates, RecoverCurrentRow, ScanPayout, rowVars
<1>3. CASE ReconcileStep(a)
  BY <1>3 DEF ReconcileStep, RouteConfirmed, RouteFailed, LeaveScanned, rowVars
<1> QED BY <1>1, <1>2, <1>3

LEMMA StatusWriters ==
  ASSUME Next, status' # status
  PROVE  \E a \in Callers : ClaimWon(a) \/ Rollback(a) \/ ResetForRetry(a)
<1>1. CASE \E a \in Callers : MovesOf(a)
  BY <1>1, EngineWritesStatus, ServiceWritesStatus, LoopsKeepStatus
  DEF MovesOf, CallerMoves
<1>2. CASE Tick \/ (WorldMoves /\ UNCHANGED engineVars)
  BY <1>2 DEF Tick, engineVars, rowVars
<1> QED BY <1>1, <1>2 DEF Next, MovesOf

LEMMA FailedSendStays ==
  ASSUME Next
  PROVE  send = "failed" => send' = "failed"
<1>1. CASE \E a \in Callers : MovesOf(a)
  BY <1>1, EngineKeepsFailedSend, ServiceWritesStatus, LoopsKeepStatus
  DEF MovesOf, CallerMoves, worldVars
<1>2. CASE Tick \/ WorldMoves
  BY <1>2 DEF Tick, WorldMoves, MineBurn, SettleRelease, FinishSend, worldVars
<1> QED BY <1>1, <1>2 DEF Next, MovesOf

----------------------------------------------------------------------------
(* PayoutRail implements LifecycleSpec.  First the abstract variables, as  *)
(* the refinement mapping of PayoutRail has them.                          *)
HeldBy(a) == IF Holds(a) THEN <<seen[a].status, target[a]>> ELSE <<>>
Held      == [a \in Callers |-> HeldBy(a)]
Retrying(a) == pc[a] \in {"lookup", "reset"}
Noticed   == {a \in Callers : Retrying(a)}

LEMMA HeldStep ==
  ASSUME NEW a \in Callers, OthersStay(a)
  PROVE  /\ Held' = [Held EXCEPT ![a] = HeldBy(a)']
         /\ Noticed' = IF Retrying(a)' THEN Noticed \cup {a} ELSE Noticed \ {a}
<1>1. \A b \in Callers \ {a} : HeldBy(b)' = HeldBy(b) /\ (Retrying(b)' <=> Retrying(b))
  BY DEF OthersStay, HeldBy, Holds, Retrying
<1> QED BY <1>1 DEF Held, Noticed

(* A step that neither moves the status nor what the caller holds.         *)
LEMMA StutterStep ==
  ASSUME NEW a \in Callers, OthersStay(a), UNCHANGED status,
         HeldBy(a)' = HeldBy(a), Retrying(a)' <=> Retrying(a)
  PROVE  UNCHANGED <<status, Held, Noticed>>
<1>1. Held' = [Held EXCEPT ![a] = HeldBy(a)]
  BY HeldStep
<1>2. [Held EXCEPT ![a] = HeldBy(a)] = Held
  BY DEF Held
<1>3. Noticed' = Noticed
  BY HeldStep DEF Noticed
<1> QED BY <1>1, <1>2, <1>3

(* The table of the specification is the table of the engine.              *)
LEMMA SameTable ==
  /\ Abstract!Initiated = Initiated /\ Abstract!Failed = Failed
  /\ Abstract!NonTerminal = NonTerminal
  /\ Abstract!Edges = Edges
<1>1. /\ Abstract!Initiated = Initiated
      /\ Abstract!Preflight = Preflight
      /\ Abstract!BurnSubmitted = BurnSubmitted
      /\ Abstract!BurnConfirmed = BurnConfirmed
      /\ Abstract!AttestationRequested = AttestationRequested
      /\ Abstract!AttestationConfirmed = AttestationConfirmed
      /\ Abstract!ReleaseUnobserved = ReleaseUnobserved
      /\ Abstract!ReleaseObserved = ReleaseObserved
      /\ Abstract!ReleaseConfirmed = ReleaseConfirmed
      /\ Abstract!PayoutSubmitted = PayoutSubmitted
      /\ Abstract!PayoutConfirmed = PayoutConfirmed
      /\ Abstract!Settled = Settled
      /\ Abstract!Failed = Failed
      /\ Abstract!Cancelled = Cancelled
      /\ Abstract!ManualReview = ManualReview
  BY DEF Initiated, Preflight, BurnSubmitted, BurnConfirmed, AttestationRequested,
         AttestationConfirmed, ReleaseUnobserved, ReleaseObserved,
         ReleaseConfirmed, PayoutSubmitted, PayoutConfirmed, Settled, Failed,
         Cancelled, ManualReview, Abstract!Initiated, Abstract!Preflight,
         Abstract!BurnSubmitted, Abstract!BurnConfirmed,
         Abstract!AttestationRequested, Abstract!AttestationConfirmed,
         Abstract!ReleaseUnobserved, Abstract!ReleaseObserved,
         Abstract!ReleaseConfirmed, Abstract!PayoutSubmitted,
         Abstract!PayoutConfirmed, Abstract!Settled, Abstract!Failed,
         Abstract!Cancelled, Abstract!ManualReview
<1>2. /\ Abstract!BeforeBurn = BeforeBurn /\ Abstract!Observing = Observing
      /\ Abstract!Forward = Forward
  BY <1>1 DEF BeforeBurn, Abstract!BeforeBurn, Observing, Abstract!Observing,
     Forward, Abstract!Forward
<1>3. Abstract!PipelineStates = PipelineStates
  BY <1>1, <1>2 DEF PipelineStates, Abstract!PipelineStates
<1>4. Abstract!NonTerminal = NonTerminal
  BY <1>1, <1>3 DEF NonTerminal, Abstract!NonTerminal
<1> QED BY <1>1, <1>2, <1>4 DEF Edges, Abstract!Edges

LEMMA AbstractState ==
  /\ UNCHANGED <<status, Held, Noticed>> => UNCHANGED Abstract!vars
  /\ Abstract!Init <=> status = Initiated /\ Held = [a \in Callers |-> <<>>] /\ Noticed = {}
<1>1. UNCHANGED <<status, Held, Noticed>> => UNCHANGED Abstract!vars
  BY DEF Abstract!vars, Held, HeldBy, Noticed, Retrying
<1>2. Abstract!Init <=>
        status = Initiated /\ Held = [a \in Callers |-> <<>>] /\ Noticed = {}
  BY SameTable DEF Abstract!Init, Held, HeldBy, Noticed, Retrying, Abstract!NoEdge
<1> QED BY <1>1, <1>2

----------------------------------------------------------------------------
(* How a step of caller a appears to the specification.                    *)

LEMMA AsClaim ==
  ASSUME NEW a \in Callers, OthersStay(a), ~Holds(a), Holds(a)',
         seen'[a].status = status, target'[a] = status',
         <<status, status'>> \in Edges, ~Retrying(a), ~Retrying(a)'
  PROVE  Abstract!Next
<1>1. /\ Held[a] = <<>> /\ Held' = [Held EXCEPT ![a] = <<status, status'>>]
      /\ Noticed' = Noticed
  BY HeldStep DEF Held, HeldBy, Noticed
<1>2. Abstract!Claim(a)
  BY <1>1, SameTable DEF Abstract!Claim, Abstract!NoEdge, Held, HeldBy, Noticed, Retrying
<1> QED BY <1>2 DEF Abstract!Next

LEMMA AsRelease ==
  ASSUME NEW a \in Callers, OthersStay(a), Holds(a), ~Holds(a)', status' = status,
         ~Retrying(a), ~Retrying(a)'
  PROVE  Abstract!Next
<1>1. Held[a] # <<>> /\ Held' = [Held EXCEPT ![a] = <<>>] /\ Noticed' = Noticed
  BY HeldStep DEF Held, HeldBy, Noticed
<1>2. Abstract!Release(a)
  BY <1>1 DEF Abstract!Release, Abstract!NoEdge, Held, HeldBy, Noticed, Retrying
<1> QED BY <1>2 DEF Abstract!Next

LEMMA AsUndo ==
  ASSUME NEW a \in Callers, OthersStay(a), Holds(a), ~Holds(a)',
         status' = IF status = target[a] THEN seen[a].status ELSE status,
         ~Retrying(a), ~Retrying(a)'
  PROVE  Abstract!Next
<1>1. /\ Held[a] # <<>> /\ Held[a] = <<seen[a].status, target[a]>>
      /\ Held' = [Held EXCEPT ![a] = <<>>] /\ Noticed' = Noticed
  BY HeldStep DEF Held, HeldBy, Noticed
<1>2. status' = IF status = Held[a][2] THEN Held[a][1] ELSE status
  BY <1>1
<1>3. Abstract!Undo(a)
  BY <1>1, <1>2 DEF Abstract!Undo, Abstract!NoEdge, Held, HeldBy, Noticed, Retrying
<1> QED BY <1>3 DEF Abstract!Next

LEMMA HeldUntouched ==
  ASSUME NEW a \in Callers, OthersStay(a), ~Holds(a), ~Holds(a)'
  PROVE  Held' = Held
<1>1. Held' = [Held EXCEPT ![a] = <<>>]
  BY HeldStep DEF HeldBy
<1> QED BY <1>1 DEF Held, HeldBy

LEMMA AsNotice ==
  ASSUME NEW a \in Callers, OthersStay(a), ~Holds(a), ~Holds(a)', Retrying(a)',
         status = Failed, status' = status
  PROVE  Abstract!Next
<1>1. Held' = Held /\ Noticed' = Noticed \cup {a}
  BY HeldStep, HeldUntouched
<1>2. Abstract!Notice(a)
  BY <1>1, SameTable DEF Abstract!Notice, Held, HeldBy, Noticed, Retrying
<1> QED BY <1>2 DEF Abstract!Next

LEMMA AsReset ==
  ASSUME NEW a \in Callers, OthersStay(a), ~Holds(a), ~Holds(a)', Retrying(a), ~Retrying(a)',
         status' \in NonTerminal
  PROVE  Abstract!Next
<1>1. Held' = Held /\ Noticed' = Noticed \ {a} /\ a \in Noticed
  BY HeldStep, HeldUntouched DEF Noticed
<1>2. Abstract!Reset(a)
  BY <1>1, SameTable DEF Abstract!Reset, Held, HeldBy, Noticed, Retrying
<1> QED BY <1>2 DEF Abstract!Next

LEMMA AsForget ==
  ASSUME NEW a \in Callers, OthersStay(a), ~Holds(a), ~Holds(a)', Retrying(a), ~Retrying(a)',
         status' = status
  PROVE  Abstract!Next
<1>1. Held' = Held /\ Noticed' = Noticed \ {a} /\ a \in Noticed
  BY HeldStep, HeldUntouched DEF Noticed
<1>2. Abstract!Forget(a)
  BY <1>1 DEF Abstract!Forget, Held, HeldBy, Noticed, Retrying
<1> QED BY <1>2 DEF Abstract!Next

LEMMA AsStutter ==
  ASSUME NEW a \in Callers, OthersStay(a), status' = status,
         Holds(a)' <=> Holds(a),
         Holds(a) => seen'[a] = seen[a] /\ target'[a] = target[a],
         Retrying(a)' <=> Retrying(a)
  PROVE  UNCHANGED Abstract!vars
<1>1. HeldBy(a)' = HeldBy(a)
  BY DEF HeldBy
<1> QED BY <1>1, StutterStep, AbstractState

----------------------------------------------------------------------------

AbstractStep == Abstract!Next \/ UNCHANGED Abstract!vars

LEMMA EngineImplements ==
  ASSUME CallsOK, NEW a \in Callers, OthersStay(a), EngineStep(a)
  PROVE  AbstractStep
<1> USE DEF AbstractStep
<1>1. CASE \/ GuardAccepts(a) \/ GuardRejects(a) \/ GuardEscalates(a) \/ ClaimLost(a)
           \/ Persist(a) \/ Audit(a)
  <2>1. /\ pc[a] \in {"guard", "claim", "persist", "audit"}
        /\ pc'[a] \in {"guard", "claim", "audit", "idle"} /\ status' = status
    BY <1>1 DEF GuardAccepts, GuardRejects, GuardEscalates, ClaimLost, Persist, Audit,
         Finish, Goto, Return, Attempt, CallsOK, rowVars
  <2> QED BY <2>1, AsStutter DEF Holds, Retrying
<1>2. CASE ClaimWon(a)
  <2>1. /\ pc[a] = "claim" /\ pc'[a] = "act" /\ seen'[a].status = status
        /\ target'[a] = status' /\ <<status, status'>> \in Edges
    BY <1>2 DEF ClaimWon, ClaimMatches, Goto, CallsOK, HoldsEdge, InTransition
  <2> QED BY <2>1, AsClaim DEF Holds, Retrying
<1>3. CASE SubmitBurn(a) \/ SubmitPayout(a) \/ ActionThrows(a)
  <2>1. /\ pc[a] \in {"act", "write"} /\ pc'[a] \in {"write", "rollback"}
        /\ status' = status /\ seen'[a] = seen[a] /\ target'[a] = target[a]
    BY <1>3 DEF SubmitBurn, SubmitPayout, ActionThrows, CanThrow, Acting, Goto, CallsOK,
         rowVars
  <2> QED BY <2>1, AsStutter DEF Holds, Retrying
<1>4. CASE \/ RunPreflightCheck(a) \/ RequestAttestation(a) \/ RecordConfirmation(a)
           \/ BeginReleaseObservation(a) \/ ObserveRelease(a) \/ WriteRefs(a)
           \/ MarkTerminal(a) \/ MoveToManualReview(a)
  <2>1. /\ pc[a] \in {"act", "write"} /\ pc'[a] \in {"persist", "audit", "idle"}
        /\ status' = status
    BY <1>4 DEF RunPreflightCheck, RequestAttestation, RecordConfirmation,
         BeginReleaseObservation, ObserveRelease, WriteRefs, MarkTerminal,
         MoveToManualReview, Acting, Finish, Goto, Return, CallsOK, rowVars
  <2> QED BY <2>1, AsRelease DEF Holds, Retrying
<1>5. CASE Rollback(a)
  <2>1. /\ pc[a] = "rollback" /\ pc'[a] = "idle"
        /\ status' = IF status = target[a] THEN seen[a].status ELSE status
    BY <1>5 DEF Rollback, Return, CallsOK
  <2> QED BY <2>1, AsUndo DEF Holds, Retrying
<1> QED BY <1>1, <1>2, <1>3, <1>4, <1>5 DEF EngineStep

LEMMA ServiceImplements ==
  ASSUME CallsOK, NEW a \in Callers, OthersStay(a),
         \/ ServiceStep(a) \/ ServiceCall(a) \/ ReconcileStep(a) \/ ReconcileScan(a)
         \/ PipelineSelect(a) \/ ReaperSelect(a) \/ Crash(a)
  PROVE  AbstractStep
<1> USE DEF AbstractStep
<1>1. CASE \/ NothingToDo(a) \/ AdvanceListed(a) \/ RecoverListed(a) \/ ApiAdvance(a)
           \/ ApiRecover(a) \/ WebhookCompleted(a) \/ WebhookFailed(a) \/ Unqueue(a)
           \/ PipelineSelect(a) \/ ReaperSelect(a)
           \/ ReconcileStep(a) \/ ReconcileScan(a)
           \/ \E resolution \in Terminal : BeginResolve(a, resolution)
  <2>1. /\ pc[a] \in {"idle", "listed", "unqueue", "scanned"}
        /\ pc'[a] \in {"idle", "listed", "guard", "unqueue", "scanned"}
        /\ status' = status
    BY <1>1 DEF NothingToDo, AdvanceListed, RecoverListed, ApiAdvance, ApiRecover,
         AdvanceCurrentRow, RecoverCurrentRow, WebhookCompleted, WebhookFailed, Unqueue,
         PipelineSelect, ReaperSelect, BeginResolve, ReconcileStep, ReconcileScan,
         ReconcileEscalates, ScanPayout, RouteConfirmed, RouteFailed, LeaveScanned,
         Idle, Goto, Return, Attempt, CallsOK, rowVars
  <2> QED BY <2>1, AsStutter DEF Holds, Retrying
<1>2. CASE BeginRetry(a)
  <2>1. pc[a] = "idle" /\ pc'[a] = "lookup" /\ status = Failed /\ status' = status
    BY <1>2 DEF BeginRetry, Idle, Goto, CallsOK, rowVars
  <2> QED BY <2>1, AsNotice DEF Holds, Retrying
<1>3. CASE LookupLastState(a)
  <2>1. pc[a] = "lookup" /\ pc'[a] = "reset" /\ status' = status
    BY <1>3 DEF LookupLastState, CallsOK, rowVars
  <2> QED BY <2>1, AsStutter DEF Holds, Retrying
<1>4. CASE ResetForRetry(a)
  <2>1. pc[a] = "reset" /\ pc'[a] = "listed" /\ status' \in NonTerminal
    BY <1>4 DEF ResetForRetry, CallsOK, HoldsEdge
  <2> QED BY <2>1, AsReset DEF Holds, Retrying
<1>5. CASE Crash(a)
  <2>1. pc'[a] = "idle" /\ status' = status
    BY <1>5 DEF Crash, Return, CallsOK, rowVars
  <2>2. CASE Holds(a)
    BY <2>1, <2>2, AsRelease DEF Holds, Retrying
  <2>3. CASE Retrying(a)
    BY <2>1, <2>3, AsForget DEF Holds, Retrying
  <2>4. CASE ~Holds(a) /\ ~Retrying(a)
    BY <2>1, <2>4, AsStutter DEF Holds, Retrying
  <2> QED BY <2>2, <2>3, <2>4
<1> QED BY <1>1, <1>2, <1>3, <1>4, <1>5 DEF ServiceStep, ServiceCall

LEMMA NextImplements == TypeInv /\ [Next]_vars => AbstractStep
<1> SUFFICES ASSUME TypeInv, [Next]_vars PROVE AbstractStep
  OBVIOUS
<1>1. ASSUME NEW a \in Callers, MovesOf(a)
      PROVE  AbstractStep
  <2>1. CallsOK /\ OthersStay(a)
    BY <1>1, OtherCallsStay DEF TypeInv
  <2> QED BY <1>1, <2>1, EngineImplements, ServiceImplements DEF MovesOf, CallerMoves
<1>2. CASE Tick \/ (WorldMoves /\ UNCHANGED engineVars) \/ UNCHANGED vars
  <2>1. UNCHANGED <<status, pc, seen, target>>
    BY <1>2 DEF Tick, vars, engineVars, rowVars, callVars
  <2>2. UNCHANGED <<status, Held, Noticed>>
    BY <2>1 DEF Held, HeldBy, Holds, Noticed, Retrying
  <2> QED BY <2>2, AbstractState DEF AbstractStep
<1> QED BY <1>1, <1>2 DEF Next, MovesOf

LEMMA InitImplements == Init => Abstract!Init
BY AbstractState DEF Init, EngineInit, Held, HeldBy, Holds, Noticed, Retrying

(* The claims, roll backs and resets of any number of callers, crashing    *)
(* and failing, keep the promise of LifecycleSpec about the status column: *)
(* it moves along the table's edges, back only by the caller that holds    *)
(* the edge, and elsewhere only by a retry that saw the row failed         *)
(* (ImplementsLifecycle).                                                  *)
THEOREM ImplementsTheLifecycle == Spec => ImplementsLifecycle
<1>1. Spec => []TypeInv
  BY InitTypeInv, NextKeepsTypeInv, PTL DEF Spec
<1>2. TypeInv /\ [Next]_vars => [Abstract!Next]_(Abstract!vars)
  BY NextImplements DEF AbstractStep
<1> QED BY <1>1, <1>2, InitImplements, PTL DEF Spec, ImplementsLifecycle, Abstract!Spec
=============================================================================
