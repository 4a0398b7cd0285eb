------------------------- MODULE PayoutRailBurnProofs -------------------------
(***************************************************************************)
(* How often the burn of one disbursement is broadcast, what each further  *)
(* broadcast costs, and who moves a finished row.                          *)
(*                                                                         *)
(* burns <= 1 + reopened is not inductive: a caller that has claimed       *)
(* burn_submitted will broadcast, and a row before the burn may be claimed *)
(* again.  Both are counted in the invariant: every broadcast made, every  *)
(* broadcast some caller is still entitled to, and the one a row before    *)
(* the burn still has ahead of it.                                         *)
(***************************************************************************)
EXTENDS PayoutRailProofs

(* Callers whose claim of the burn has not led to a broadcast yet.  One    *)
(* whose action threw before the broadcast stays one until its roll back.  *)
Entitled(a) == /\ pc[a] \in {"act", "rollback"}
               /\ target[a] = BurnSubmitted
               /\ got[a].tx = NoTx

Unpaid == {a \in Callers : Entitled(a)}

One(P) == IF P THEN 1 ELSE 0

BurnAccount ==
  burns + Cardinality(Unpaid) + One(status \in BeforeBurn) <= 1 + reopened

(* What a call knows of its own broadcast, and which actions roll back.    *)
BurnCall(a) ==
  /\ pc[a] \notin {"write", "persist", "audit", "rollback"} => got[a].tx = NoTx
  /\ pc[a] = "write" => target[a] \in {BurnSubmitted, PayoutSubmitted}
  /\ pc[a] = "write" /\ target[a] = BurnSubmitted => got[a].tx # NoTx
  /\ pc[a] = "rollback" => \/ target[a] \in PipelineStates
                           \/ seen[a].status \in Observing

BurnCalls == \A a \in Callers : BurnCall(a)

BurnInv == TypeInv /\ BurnCalls /\ BurnAccount

----------------------------------------------------------------------------

LEMMA OneIsNatural ==
  ASSUME NEW P
  PROVE  One(P) \in Nat
BY DEF One

LEMMA Balance ==
  ASSUME NEW b \in Nat, NEW b1 \in Nat, NEW n \in Nat, NEW n1 \in Nat,
         NEW e \in Nat, NEW e1 \in Nat, NEW s \in Nat, NEW s1 \in Nat,
         NEW r \in Nat, NEW r1 \in Nat,
         n1 + e = n + e1, b + n + s <= 1 + r, b1 + e1 + s1 + r <= b + e + s + r1
  PROVE  b1 + n1 + s1 <= 1 + r1
OBVIOUS

(* Two sets that differ in one element at most.                            *)
LEMMA OneJoinsOrLeaves ==
  ASSUME NEW S, NEW T, NEW a, IsFiniteSet(S), IsFiniteSet(T), S \ {a} = T \ {a}
  PROVE  /\ Cardinality(S) \in Nat /\ Cardinality(T) \in Nat
         /\ Cardinality(T) + One(a \in S) = Cardinality(S) + One(a \in T)
<1>1. /\ Cardinality(S \ {a}) = Cardinality(S) - One(a \in S)
      /\ Cardinality(T \ {a}) = Cardinality(T) - One(a \in T)
      /\ Cardinality(S) \in Nat /\ Cardinality(T) \in Nat
  BY FS_RemoveElement, FS_CardinalityType DEF One
<1>2. One(a \in S) \in Nat /\ One(a \in T) \in Nat
  BY OneIsNatural
<1>3. Cardinality(S) - One(a \in S) = Cardinality(T) - One(a \in T)
  BY <1>1
<1>4. ASSUME NEW n \in Nat, NEW n1 \in Nat, NEW e \in Nat, NEW e1 \in Nat, n - e = n1 - e1
      PROVE  n1 + e = n + e1
  BY <1>4
<1> QED BY <1>1, <1>2, <1>3, <1>4

(* Only the caller that moves can join or leave the entitled.              *)
LEMMA UnpaidCount ==
  ASSUME NEW a \in Callers, OthersStay(a)
  PROVE  /\ Cardinality(Unpaid) \in Nat /\ Cardinality(Unpaid') \in Nat
         /\ Cardinality(Unpaid') + One(Entitled(a)) =
              Cardinality(Unpaid) + One(Entitled(a)')
<1>1. Unpaid \ {a} = Unpaid' \ {a}
  BY DEF OthersStay, Unpaid, Entitled
<1>2. IsFiniteSet(Unpaid) /\ IsFiniteSet(Unpaid')
  BY CallersAssumption, FS_Subset DEF Unpaid
<1>3. (a \in Unpaid <=> Entitled(a)) /\ (a \in Unpaid' <=> Entitled(a)')
  BY DEF Unpaid
<1>4. One(a \in Unpaid) = One(Entitled(a)) /\ One(a \in Unpaid') = One(Entitled(a)')
  BY <1>3 DEF One
<1>5. /\ Cardinality(Unpaid) \in Nat /\ Cardinality(Unpaid') \in Nat
      /\ Cardinality(Unpaid') + One(a \in Unpaid) = Cardinality(Unpaid) + One(a \in Unpaid')
  BY <1>1, <1>2, OneJoinsOrLeaves
<1> QED BY <1>4, <1>5

(* What is left to prove of a step of a once its calls are in order: that  *)
(* it pays for what it adds.                                               *)
LEMMA AccountOfStep ==
  ASSUME BurnInv, TypeInv', NEW a \in Callers, OthersStay(a),
         burns' + One(Entitled(a)') + One(status' \in BeforeBurn) + reopened <=
           burns + One(Entitled(a)) + One(status \in BeforeBurn) + reopened'
  PROVE  BurnAccount'
<1>1. /\ burns \in Nat /\ burns' \in Nat /\ reopened \in Nat /\ reopened' \in Nat
  BY MaxBurnsAssumption DEF BurnInv, TypeInv, TypeOK, EngineTypeOK, WorldTypeOK
<1>2. /\ One(status \in BeforeBurn) \in Nat /\ One(status' \in BeforeBurn) \in Nat
      /\ One(Entitled(a)) \in Nat /\ One(Entitled(a)') \in Nat
  BY OneIsNatural
<1>3. /\ Cardinality(Unpaid) \in Nat /\ Cardinality(Unpaid') \in Nat
      /\ Cardinality(Unpaid') + One(Entitled(a)) = Cardinality(Unpaid) + One(Entitled(a)')
  BY UnpaidCount
<1>4. burns + Cardinality(Unpaid) + One(status \in BeforeBurn) <= 1 + reopened
  BY DEF BurnInv, BurnAccount
<1>5. burns' + Cardinality(Unpaid') + One(status' \in BeforeBurn) <= 1 + reopened'
  BY <1>1, <1>2, <1>3, <1>4, Balance
<1> QED BY <1>5 DEF BurnAccount

LEMMA CallsOfStep ==
  ASSUME BurnCalls, NEW a \in Callers, OthersStay(a), BurnCall(a)'
  PROVE  BurnCalls'
BY DEF BurnCalls, BurnCall, OthersStay

(* Most steps neither broadcast nor move the row back nor win a claim.     *)
LEMMA NeutralStep ==
  ASSUME BurnInv, TypeInv', NEW a \in Callers, OthersStay(a), BurnCall(a)',
         UNCHANGED <<burns, reopened>>,
         status' \in BeforeBurn => status \in BeforeBurn,
         Entitled(a)' => Entitled(a)
  PROVE  BurnInv'
<1>1. BurnCalls'
  BY CallsOfStep DEF BurnInv
<1>2. /\ One(Entitled(a)') <= One(Entitled(a))
      /\ One(status' \in BeforeBurn) <= One(status \in BeforeBurn)
  BY DEF One
<1>3. /\ One(Entitled(a)') \in Nat /\ One(Entitled(a)) \in Nat
      /\ One(status' \in BeforeBurn) \in Nat /\ One(status \in BeforeBurn) \in Nat
      /\ burns \in Nat /\ reopened \in Nat
  BY OneIsNatural, MaxBurnsAssumption
     DEF BurnInv, TypeInv, TypeOK, EngineTypeOK, WorldTypeOK
<1>4. BurnAccount'
  BY <1>2, <1>3, AccountOfStep
<1> QED BY <1>1, <1>4 DEF BurnInv

(* A claim of the burn trades the broadcast the row had ahead of it for    *)
(* the caller's entitlement.                                               *)
LEMMA ClaimKeepsAccount ==
  ASSUME BurnInv, TypeInv', NEW a \in Callers, ClaimWon(a), OthersStay(a)
  PROVE  BurnInv'
<1>1. /\ pc[a] = "claim" /\ pc'[a] = "act" /\ status = seen[a].status
      /\ status' = target[a] /\ <<status, status'>> \in Edges
      /\ target'[a] = target[a] /\ got'[a] = got[a]
      /\ UNCHANGED <<burns, reopened>>
  BY DEF ClaimWon, ClaimMatches, Goto, BurnInv, TypeInv, CallsOK, HoldsEdge,
         InTransition, worldVars, bookVars
<1>2. BurnCall(a)'
  BY <1>1 DEF BurnInv, BurnCalls, BurnCall
<1>3. ~Entitled(a)
  BY <1>1 DEF Entitled
<1>4. CASE status' = BurnSubmitted
  <2>1. status \in BeforeBurn /\ status' \notin BeforeBurn
    BY <1>1, <1>4, EdgesAroundTheBurn
       DEF BeforeBurn, BurnSubmitted, Initiated, Preflight
  <2>2. /\ One(Entitled(a)) = 0 /\ One(Entitled(a)') <= 1
        /\ One(Entitled(a)') \in Nat
        /\ One(status \in BeforeBurn) = 1 /\ One(status' \in BeforeBurn) = 0
    BY <1>3, <2>1 DEF One
  <2>3. burns \in Nat /\ reopened \in Nat
    BY MaxBurnsAssumption DEF BurnInv, TypeInv, TypeOK, EngineTypeOK, WorldTypeOK
  <2>4. BurnAccount'
    BY <1>1, <2>2, <2>3, AccountOfStep
  <2> QED BY <1>2, <2>4, CallsOfStep DEF BurnInv
<1>5. CASE status' # BurnSubmitted
  <2>1. ~Entitled(a)'
    BY <1>1, <1>5 DEF Entitled
  <2>2. status' \in BeforeBurn => status \in BeforeBurn
    BY <1>1, EdgesAroundTheBurn
  <2> QED BY <1>1, <1>2, <2>1, <2>2, NeutralStep
<1> QED BY <1>4, <1>5

(* A broadcast uses the entitlement up.                                    *)
LEMMA BroadcastKeepsAccount ==
  ASSUME BurnInv, TypeInv', NEW a \in Callers, SubmitBurn(a), OthersStay(a)
  PROVE  BurnInv'
<1>1. /\ pc[a] = "act" /\ target[a] = BurnSubmitted /\ got[a].tx = NoTx
      /\ burns \in Nat /\ burns' = burns + 1 /\ reopened \in Nat
      /\ UNCHANGED <<status, reopened>>
  BY MaxBurnsAssumption
     DEF SubmitBurn, Acting, Broadcast, BurnInv, BurnCalls, BurnCall,
         TypeInv, TypeOK, EngineTypeOK, WorldTypeOK, rowVars, bookVars
<1>2. /\ pc'[a] = "write" /\ target'[a] = BurnSubmitted /\ got'[a].tx = burns + 1
      /\ burns + 1 # NoTx
  BY <1>1 DEF SubmitBurn, Broadcast, BurnInv, TypeInv, CallsOK, Details, NoTx
<1>3. BurnCall(a)'
  BY <1>2 DEF BurnCall
<1>4. Entitled(a) /\ ~Entitled(a)'
  BY <1>1, <1>2 DEF Entitled
<1>5. /\ One(Entitled(a)) = 1 /\ One(Entitled(a)') = 0
      /\ One(status \in BeforeBurn) = One(status' \in BeforeBurn)
      /\ One(status \in BeforeBurn) \in Nat
  BY <1>1, <1>4 DEF One
<1>6. BurnAccount'
  BY <1>1, <1>5, AccountOfStep
<1> QED BY <1>3, <1>6, CallsOfStep DEF BurnInv

(* A roll back before the broadcast returns the entitlement to the row; one*)
(* after it reopens the burn.                                              *)
LEMMA RollbackKeepsAccount ==
  ASSUME BurnInv, TypeInv', NEW a \in Callers, Rollback(a), OthersStay(a)
  PROVE  BurnInv'
<1>1. /\ pc[a] = "rollback" /\ <<seen[a].status, target[a]>> \in Edges
      /\ target[a] \in PipelineStates \/ seen[a].status \in Observing
      /\ burns \in Nat /\ reopened \in Nat /\ UNCHANGED burns
      /\ pc'[a] = "idle" /\ got'[a].tx = NoTx
  BY MaxBurnsAssumption
     DEF Rollback, Return, NoDetails, worldVars, InTransition, BurnInv, BurnCalls,
         BurnCall, TypeInv, TypeOK, EngineTypeOK, WorldTypeOK, CallsOK, HoldsEdge
<1>2. BurnCall(a)' /\ ~Entitled(a)'
  BY <1>1 DEF BurnCall, Entitled
<1>3. CASE status # target[a] \/ seen[a].status \notin BeforeBurn \/ status \in BeforeBurn
  <2>1. status' \in BeforeBurn => status \in BeforeBurn
    BY <1>3 DEF Rollback
  <2>2. CASE reopened' = reopened
    BY <1>1, <1>2, <2>1, <2>2, NeutralStep
  <2>3. CASE reopened' = reopened + 1
    <3>1. /\ One(Entitled(a)') = 0 /\ One(Entitled(a)) \in Nat
          /\ One(status' \in BeforeBurn) <= One(status \in BeforeBurn)
          /\ One(status' \in BeforeBurn) \in Nat /\ One(status \in BeforeBurn) \in Nat
      BY <1>2, <2>1, OneIsNatural DEF One
    <3>2. BurnAccount'
      BY <1>1, <2>3, <3>1, AccountOfStep
    <3> QED BY <1>2, <3>2, CallsOfStep DEF BurnInv
  <2> QED BY <2>2, <2>3 DEF Rollback
<1>4. CASE status = target[a] /\ seen[a].status \in BeforeBurn /\ status \notin BeforeBurn
  <2>1. target[a] = BurnSubmitted
    <3>1. seen[a].status \notin Observing
      BY <1>4 DEF BeforeBurn, Observing, Initiated, Preflight, ReleaseUnobserved,
                  ReleaseObserved
    <3> QED BY <1>1, <1>4, <3>1, EdgesAroundTheBurn
  <2>2. /\ One(Entitled(a)') = 0 /\ One(status \in BeforeBurn) = 0
        /\ One(status' \in BeforeBurn) <= 1 /\ One(status' \in BeforeBurn) \in Nat
        /\ One(Entitled(a)) \in Nat
    BY <1>2, <1>4, OneIsNatural DEF One
  <2>3. CASE got[a].tx = NoTx
    <3>1. One(Entitled(a)) = 1 /\ reopened' = reopened
      BY <1>1, <2>1, <2>3 DEF Entitled, One, Rollback
    <3>2. BurnAccount'
      BY <1>1, <2>2, <3>1, AccountOfStep
    <3> QED BY <1>2, <3>2, CallsOfStep DEF BurnInv
  <2>4. CASE got[a].tx # NoTx
    <3>1. reopened' = reopened + 1
      BY <1>4, <2>4 DEF Rollback
    <3>2. BurnAccount'
      BY <1>1, <2>2, <3>1, AccountOfStep
    <3> QED BY <1>2, <3>2, CallsOfStep DEF BurnInv
  <2> QED BY <2>3, <2>4
<1> QED BY <1>3, <1>4

(* A retry that puts the row back before the burn is counted in reopened.  *)
LEMMA ResetKeepsAccount ==
  ASSUME BurnInv, TypeInv', NEW a \in Callers, ResetForRetry(a), OthersStay(a)
  PROVE  BurnInv'
<1>1. /\ pc[a] = "reset" /\ pc'[a] = "listed" /\ got'[a] = got[a]
      /\ UNCHANGED burns /\ burns \in Nat /\ reopened \in Nat /\ reopened' \in Nat
      /\ status' = target[a]
  BY MaxBurnsAssumption
     DEF ResetForRetry, worldVars, BurnInv, TypeInv, TypeOK, EngineTypeOK, WorldTypeOK, CallsOK
<1>2. BurnCall(a)' /\ ~Entitled(a) /\ ~Entitled(a)'
  BY <1>1 DEF BurnCall, Entitled, BurnInv, BurnCalls
<1>3. CASE status' \in BeforeBurn /\ status \notin BeforeBurn
  <2>1. reopened' = reopened + 1
    BY <1>3 DEF ResetForRetry
  <2>2. /\ One(Entitled(a)) = 0 /\ One(Entitled(a)') = 0
        /\ One(status \in BeforeBurn) = 0 /\ One(status' \in BeforeBurn) = 1
    BY <1>2, <1>3 DEF One
  <2>3. BurnAccount'
    BY <1>1, <2>1, <2>2, AccountOfStep
  <2> QED BY <1>2, <2>3, CallsOfStep DEF BurnInv
<1>4. CASE status' \in BeforeBurn => status \in BeforeBurn
  <2>1. reopened' = reopened
    BY <1>1, <1>4 DEF ResetForRetry
  <2> QED BY <1>1, <1>2, <1>4, <2>1, NeutralStep
<1> QED BY <1>3, <1>4

----------------------------------------------------------------------------
(* Every step.                                                             *)

(* A step that only moves the caller on to where it has broadcast nothing  *)
(* and is entitled to nothing.                                             *)
LEMMA ReturnKeepsAccount ==
  ASSUME BurnInv, TypeInv', NEW a \in Callers, OthersStay(a),
         Return(a), UNCHANGED <<burns, reopened, status>>
  PROVE  BurnInv'
<1>1. pc'[a] = "idle" /\ got'[a].tx = NoTx
  BY DEF Return, NoDetails, BurnInv, TypeInv, CallsOK
<1>2. BurnCall(a)' /\ ~Entitled(a)'
  BY <1>1 DEF BurnCall, Entitled
<1> QED BY <1>2, NeutralStep

LEMMA BeginKeepsAccount ==
  ASSUME BurnInv, TypeInv', NEW a \in Callers, OthersStay(a),
         got'[a].tx = NoTx, pc'[a] \notin {"act", "write", "rollback"},
         UNCHANGED <<burns, reopened, status>>
  PROVE  BurnInv'
<1>1. BurnCall(a)' /\ ~Entitled(a)'
  BY DEF BurnCall, Entitled
<1> QED BY <1>1, NeutralStep

LEMMA EngineKeepsAccount ==
  ASSUME BurnInv, TypeInv', NEW a \in Callers, EngineStep(a), OthersStay(a)
  PROVE  BurnInv'
<1>a. CallsOK /\ BurnCall(a)
  BY DEF BurnInv, TypeInv, BurnCalls
<1>1. CASE \/ GuardRejects(a) \/ ClaimLost(a) \/ RequestAttestation(a)
           \/ RecordConfirmation(a) \/ MoveToManualReview(a) \/ Audit(a)
  BY <1>1, ReturnKeepsAccount
     DEF GuardRejects, ClaimLost, RequestAttestation, RecordConfirmation,
         MoveToManualReview, Audit, worldVars, rowVars, bookVars
<1>2. CASE GuardAccepts(a) \/ GuardEscalates(a)
  BY <1>2, <1>a, BeginKeepsAccount
     DEF GuardAccepts, GuardEscalates, Goto, Attempt, CallsOK, BurnCall,
         worldVars, rowVars, bookVars
<1>3. CASE ClaimWon(a)
  BY <1>3, ClaimKeepsAccount
<1>4. CASE SubmitBurn(a)
  BY <1>4, BroadcastKeepsAccount
<1>5. CASE RunPreflightCheck(a) \/ BeginReleaseObservation(a) \/ ObserveRelease(a)
  <2>1. /\ pc'[a] = "persist" /\ got'[a].tx = got[a].tx
        /\ UNCHANGED <<burns, reopened, status>>
    BY <1>5, <1>a DEF RunPreflightCheck, BeginReleaseObservation, ObserveRelease,
          CallsOK, Details, worldVars, rowVars, bookVars
  <2>2. BurnCall(a)' /\ ~Entitled(a)'
    BY <2>1 DEF BurnCall, Entitled
  <2> QED BY <2>1, <2>2, NeutralStep
<1>6. CASE SubmitPayout(a)
  <2>1. /\ pc'[a] = "write" /\ target'[a] = PayoutSubmitted /\ got'[a] = got[a]
        /\ UNCHANGED <<burns, reopened, status>>
    BY <1>6, <1>a DEF SubmitPayout, SubmitSend, Acting, Goto, CallsOK, rowVars, bookVars
  <2>2. BurnCall(a)' /\ ~Entitled(a)'
    BY <2>1 DEF BurnCall, Entitled, BurnSubmitted, PayoutSubmitted
  <2> QED BY <2>1, <2>2, NeutralStep
<1>7. CASE WriteRefs(a)
  <2>1. CASE target[a] = BurnSubmitted
    <3>1. pc'[a] = "persist" /\ UNCHANGED <<burns, reopened, status>>
      BY <1>7, <1>a, <2>1 DEF WriteRefs, Goto, CallsOK, worldVars, rowVars, bookVars
    <3>2. BurnCall(a)' /\ ~Entitled(a)'
      BY <3>1 DEF BurnCall, Entitled
    <3> QED BY <3>1, <3>2, NeutralStep
  <2>2. CASE target[a] # BurnSubmitted
    BY <1>7, <2>2, ReturnKeepsAccount DEF WriteRefs, worldVars, rowVars, bookVars
  <2> QED BY <2>1, <2>2
<1>8. CASE MarkTerminal(a) \/ Persist(a)
  <2>1. Finish(a) /\ UNCHANGED <<burns, reopened, status>>
    BY <1>8 DEF MarkTerminal, Persist, worldVars, rowVars, bookVars
  <2>2. CASE target[a] = Failed
    <3>1. pc'[a] = "audit"
      BY <1>a, <2>1, <2>2 DEF Finish, Goto, CallsOK
    <3>2. BurnCall(a)' /\ ~Entitled(a)'
      BY <3>1 DEF BurnCall, Entitled
    <3> QED BY <2>1, <3>2, NeutralStep
  <2>3. CASE target[a] # Failed
    BY <2>1, <2>3, ReturnKeepsAccount DEF Finish
  <2> QED BY <2>2, <2>3
<1>9. CASE ActionThrows(a)
  <2>1. /\ pc'[a] = "rollback" /\ pc[a] \in {"act", "write"}
        /\ target'[a] = target[a] /\ got'[a] = got[a] /\ seen'[a] = seen[a]
        /\ UNCHANGED <<burns, reopened, status>>
    BY <1>9, <1>a DEF ActionThrows, CanThrow, Goto, CallsOK, worldVars, rowVars
  <2>2. target[a] \in PipelineStates \/ seen[a].status \in Observing
    BY <1>9, <1>a DEF ActionThrows, CanThrow, ObservesRelease, BurnCall, PipelineStates,
          Observing
  <2>3. BurnCall(a)'
    BY <2>1, <2>2 DEF BurnCall
  <2>4. Entitled(a)' => Entitled(a)
    BY <1>a, <2>1 DEF Entitled, BurnCall
  <2> QED BY <2>1, <2>3, <2>4, NeutralStep
<1>10. CASE Rollback(a)
  BY <1>10, RollbackKeepsAccount
<1> QED BY <1>1, <1>2, <1>3, <1>4, <1>5, <1>6, <1>7, <1>8, <1>9, <1>10 DEF EngineStep

LEMMA ServiceKeepsAccount ==
  ASSUME BurnInv, TypeInv', NEW a \in Callers, OthersStay(a),
         \/ ServiceStep(a) \/ ServiceCall(a) \/ ReconcileStep(a) \/ ReconcileScan(a)
         \/ PipelineSelect(a) \/ ReaperSelect(a) \/ Crash(a)
  PROVE  BurnInv'
<1>a. CallsOK /\ BurnCall(a)
  BY DEF BurnInv, TypeInv, BurnCalls
<1>1. CASE NothingToDo(a) \/ Crash(a)
  BY <1>1, ReturnKeepsAccount DEF NothingToDo, Crash, worldVars, rowVars, bookVars
<1>2. CASE AdvanceListed(a) \/ RecoverListed(a) \/ ApiAdvance(a) \/ ApiRecover(a)
  BY <1>2, <1>a, BeginKeepsAccount
     DEF AdvanceListed, RecoverListed, ApiAdvance, ApiRecover, AdvanceCurrentRow,
         RecoverCurrentRow, Idle, Attempt, CallsOK, BurnCall, worldVars, rowVars, bookVars
<1>3. CASE BeginRetry(a) \/ WebhookCompleted(a) \/ PipelineSelect(a) \/ ReaperSelect(a)
             \/ Unqueue(a)
  BY <1>3, <1>a, BeginKeepsAccount
     DEF BeginRetry, WebhookCompleted, PipelineSelect, ReaperSelect, Unqueue, Idle,
         Goto, CallsOK, BurnCall, worldVars, rowVars, bookVars
<1>4. CASE WebhookFailed(a)
  BY <1>4, <1>a, BeginKeepsAccount
     DEF WebhookFailed, Attempt, Idle, CallsOK, BurnCall, worldVars, rowVars, bookVars
<1>5. CASE LookupLastState(a)
  BY <1>5, <1>a, BeginKeepsAccount
     DEF LookupLastState, CallsOK, BurnCall, worldVars, rowVars, bookVars
<1>6. CASE ResetForRetry(a)
  BY <1>6, ResetKeepsAccount
<1>7. CASE \E resolution \in Terminal : BeginResolve(a, resolution)
  BY <1>7, <1>a, BeginKeepsAccount
     DEF BeginResolve, Idle, CallsOK, BurnCall, worldVars, rowVars, bookVars
<1>8. CASE ReconcileEscalates(a) \/ ScanPayout(a)
  BY <1>8, <1>a, BeginKeepsAccount
     DEF ReconcileEscalates, RecoverCurrentRow, ScanPayout, Idle, Attempt, CallsOK,
         BurnCall, worldVars, rowVars, bookVars
<1>9. CASE RouteConfirmed(a) \/ RouteFailed(a)
  BY <1>9, <1>a, BeginKeepsAccount
     DEF RouteConfirmed, RouteFailed, Goto, Attempt, CallsOK, BurnCall, worldVars,
         rowVars, bookVars
<1>10. CASE LeaveScanned(a)
  BY <1>10, ReturnKeepsAccount DEF LeaveScanned, worldVars, rowVars, bookVars
<1> QED BY <1>1, <1>2, <1>3, <1>4, <1>5, <1>6, <1>7, <1>8, <1>9, <1>10
        DEF ServiceStep, ServiceCall, ReconcileStep, ReconcileScan

LEMMA NextKeepsAccount == BurnInv /\ [Next]_vars => BurnInv'
<1> SUFFICES ASSUME BurnInv, [Next]_vars PROVE BurnInv'
  OBVIOUS
<1>a. TypeInv' /\ CallsOK
  BY NextKeepsTypeInv DEF BurnInv, TypeInv
<1>1. ASSUME NEW a \in Callers, MovesOf(a)
      PROVE  BurnInv'
  <2>1. OthersStay(a)
    BY <1>1, <1>a, OtherCallsStay
  <2> QED BY <1>1, <1>a, <2>1, EngineKeepsAccount, ServiceKeepsAccount
          DEF MovesOf, CallerMoves
<1>2. CASE Tick \/ (WorldMoves /\ UNCHANGED engineVars) \/ UNCHANGED vars
  <2>1. UNCHANGED <<burns, reopened, status, callVars>>
    BY <1>2 DEF Tick, WorldMoves, MineBurn, SettleRelease, FinishSend,
          worldVars, bookVars, vars, engineVars, rowVars
  <2>2. Unpaid' = Unpaid
    BY <2>1 DEF Unpaid, Entitled, callVars
  <2> QED BY <1>a, <2>1, <2>2
          DEF BurnInv, BurnCalls, BurnCall, BurnAccount, callVars
<1> QED BY <1>1, <1>2 DEF Next, MovesOf

LEMMA InitBurnInv == Init => BurnInv
<1> SUFFICES ASSUME Init PROVE BurnInv
  OBVIOUS
<1>1. Unpaid = {} /\ Cardinality(Unpaid) = 0
  BY FS_EmptySet DEF Init, EngineInit, Unpaid, Entitled
<1>2. BurnCalls
  BY DEF Init, EngineInit, BurnCalls, BurnCall, NoDetails
<1>3. BurnAccount
  BY <1>1 DEF Init, EngineInit, WorldInit, BurnAccount, One
<1> QED BY <1>2, <1>3, InitTypeInv DEF BurnInv

(* However many workers, reapers and requests overlap, whatever throws and *)
(* whatever crashes: beyond the first burn there is one broadcast at most  *)
(* for each roll back of an action that had broadcast and for each retry   *)
(* that put the row back before the burn (BurnsPaidFor).  The claim of     *)
(* executeTransition alone never lets two callers burn.                    *)
THEOREM EveryBurnIsPaidFor == Spec => []BurnsPaidFor
<1>1. Spec => []BurnInv
  BY InitBurnInv, NextKeepsAccount, PTL DEF Spec
<1>2. BurnInv => BurnsPaidFor
  <2> SUFFICES ASSUME BurnInv PROVE BurnsPaidFor
    OBVIOUS
  <2>1. /\ burns + Cardinality(Unpaid) + One(status \in BeforeBurn) <= 1 + reopened
        /\ burns \in Nat /\ reopened \in Nat
    BY MaxBurnsAssumption
       DEF BurnInv, BurnAccount, TypeInv, TypeOK, EngineTypeOK, WorldTypeOK
  <2>2. Cardinality(Unpaid) \in Nat /\ One(status \in BeforeBurn) \in Nat
    BY CallersAssumption, FS_Subset, FS_CardinalityType, OneIsNatural DEF Unpaid
  <2> QED BY <2>1, <2>2 DEF BurnsPaidFor
<1> QED BY <1>1, <1>2, PTL

----------------------------------------------------------------------------
(* What the further broadcasts cost, and who moves a finished row.         *)
(*                                                                         *)
(* reopened <= faults + retries is not inductive: an action that threw     *)
(* after its broadcast reopens the burn only when it is rolled back, when  *)
(* its fault is counted already.  Neither is LeavesForCause a property of  *)
(* a single step: that a retry still under way met a failure, and that no  *)
(* roll back leaves settled or cancelled, is known only from what those    *)
(* calls did before.                                                       *)

(* A call whose roll back will reopen the burn.                            *)
Reopening(a) == pc[a] = "rollback" /\ got[a].tx # NoTx

Reopeners == {a \in Callers : Reopening(a)}

CostAccount == reopened + Cardinality(Reopeners) <= faults + retries

(* What is known of a call that rolls back, and of one that retries: when  *)
(* the row is no longer failed, something has carried it on since.         *)
CauseKnown(a) ==
  /\ pc[a] = "rollback" => \/ target[a] \in PipelineStates
                           \/ target[a] = Failed /\ faults > 0
  /\ Retrying(a) => a \in Clients /\ (status = Failed \/ retries + faults > 0)

CausesKnown == \A a \in Callers : CauseKnown(a)

CauseInv == BurnInv /\ CostAccount /\ CausesKnown

LEMMA BooksAreNumbers ==
  ASSUME TypeInv
  PROVE  faults \in Nat /\ retries \in Nat /\ reopened \in Nat /\ burns \in Nat
BY MaxBurnsAssumption, EngineAssumption DEF TypeInv, TypeOK, EngineTypeOK, WorldTypeOK

(* Only an action that throws leads to a roll back, and only the two       *)
(* statements of a retry to its reset.                                     *)
LEMMA EngineGoesTo ==
  ASSUME CallsOK, NEW a \in Callers, EngineStep(a)
  PROVE  ~Retrying(a)' /\ (pc'[a] = "rollback" => ActionThrows(a))
<1>1. CASE \/ GuardAccepts(a) \/ GuardRejects(a) \/ GuardEscalates(a) \/ ClaimWon(a)
           \/ ClaimLost(a) \/ WriteRefs(a) \/ MarkTerminal(a) \/ MoveToManualReview(a)
           \/ Persist(a) \/ Audit(a) \/ RequestAttestation(a) \/ RecordConfirmation(a)
           \/ SubmitPayout(a) \/ Rollback(a)
  BY <1>1 DEF CallsOK, Retrying, GuardAccepts, GuardRejects, GuardEscalates, ClaimWon,
       ClaimLost, WriteRefs, MarkTerminal, MoveToManualReview, Persist, Audit,
       RequestAttestation, RecordConfirmation, SubmitPayout, Rollback, Finish, Goto,
       Return, Attempt
<1>2. CASE RunPreflightCheck(a) \/ SubmitBurn(a) \/ BeginReleaseObservation(a)
             \/ ObserveRelease(a)
  BY <1>2 DEF CallsOK, Retrying, RunPreflightCheck, SubmitBurn, BeginReleaseObservation,
       ObserveRelease
<1>3. CASE ActionThrows(a)
  BY <1>3 DEF CallsOK, Retrying, ActionThrows, Goto
<1> QED BY <1>1, <1>2, <1>3 DEF EngineStep

LEMMA CallsGoTo ==
  ASSUME CallsOK, NEW a \in Callers, MovesOf(a)
  PROVE  /\ pc'[a] = "rollback" => ActionThrows(a)
         /\ Retrying(a)' => BeginRetry(a) \/ LookupLastState(a)
<1>1. CASE EngineStep(a)
  BY <1>1, EngineGoesTo
<1>2. CASE NothingToDo(a) \/ AdvanceCurrentRow(a) \/ RecoverCurrentRow(a)
  BY <1>2 DEF CallsOK, Retrying, NothingToDo, AdvanceCurrentRow, RecoverCurrentRow,
       Return, Attempt
<1>3. CASE BeginRetry(a) \/ LookupLastState(a)
  BY <1>3 DEF CallsOK, BeginRetry, LookupLastState, Goto
<1>4. CASE \/ WebhookCompleted(a) \/ WebhookFailed(a) \/ Unqueue(a) \/ ResetForRetry(a)
           \/ \E resolution \in Terminal : BeginResolve(a, resolution)
  BY <1>4 DEF CallsOK, Retrying, WebhookCompleted, WebhookFailed, Unqueue, ResetForRetry,
       BeginResolve, Goto, Attempt
<1>5. CASE \/ PipelineSelect(a) \/ ReaperSelect(a) \/ Crash(a)
           \/ RouteConfirmed(a) \/ RouteFailed(a) \/ LeaveScanned(a) \/ ScanPayout(a)
  BY <1>5 DEF CallsOK, Retrying, PipelineSelect, ReaperSelect, Crash, RouteConfirmed,
       RouteFailed, LeaveScanned, ScanPayout, Goto, Return, Attempt
<1> QED BY <1>1, <1>2, <1>3, <1>4, <1>5
        DEF MovesOf, CallerMoves, ServiceStep, ServiceCall, AdvanceListed,
            ApiAdvance, ApiRecover, RecoverListed, ReconcileStep, ReconcileScan,
            ReconcileEscalates

(* What has been counted is never taken back.                              *)
LEMMA EngineBooks ==
  ASSUME TypeInv, NEW a \in Callers, EngineStep(a)
  PROVE  /\ faults <= faults' /\ retries <= retries'
         /\ reopened' = reopened \/ Rollback(a)
<1>a. faults \in Nat /\ retries \in Nat /\ reopened \in Nat
  BY BooksAreNumbers
<1>1. CASE \/ GuardAccepts(a) \/ GuardRejects(a) \/ GuardEscalates(a) \/ ClaimLost(a)
           \/ RunPreflightCheck(a) \/ SubmitBurn(a) \/ RequestAttestation(a)
           \/ RecordConfirmation(a) \/ BeginReleaseObservation(a) \/ ObserveRelease(a)
           \/ SubmitPayout(a) \/ WriteRefs(a) \/ Persist(a)
  <2>1. faults' = faults /\ retries' = retries /\ reopened' = reopened
    BY <1>1 DEF GuardAccepts, GuardRejects, GuardEscalates, ClaimLost, RunPreflightCheck,
       SubmitBurn, RequestAttestation, RecordConfirmation, BeginReleaseObservation,
       ObserveRelease, SubmitPayout, WriteRefs, Persist, rowVars, bookVars
  <2> QED BY <1>a, <2>1
<1>2. CASE ClaimWon(a)
  <2>1. /\ faults' = faults /\ reopened' = reopened
        /\ retries' = retries \/ retries' = retries + 1
    BY <1>2 DEF ClaimWon, bookVars
  <2> QED BY <1>a, <2>1
<1>3. CASE MarkTerminal(a) \/ MoveToManualReview(a) \/ Audit(a) \/ ActionThrows(a)
  <2>1. /\ retries' = retries /\ reopened' = reopened
        /\ faults' = faults \/ faults' = faults + 1
    BY <1>3 DEF MarkTerminal, MoveToManualReview, Audit, ActionThrows, QueueWrite, rowVars
  <2> QED BY <1>a, <2>1
<1>4. CASE Rollback(a)
  BY <1>a, <1>4 DEF Rollback
<1> QED BY <1>1, <1>2, <1>3, <1>4 DEF EngineStep

LEMMA BooksGrow ==
  ASSUME TypeInv, NEW a \in Callers, MovesOf(a)
  PROVE  /\ faults <= faults' /\ retries <= retries'
         /\ reopened' = reopened \/ Rollback(a) \/ ResetForRetry(a)
<1>a. faults \in Nat /\ retries \in Nat /\ reopened \in Nat
  BY BooksAreNumbers
<1>1. CASE EngineStep(a)
  BY <1>1, EngineBooks
<1>2. CASE \/ NothingToDo(a) \/ AdvanceCurrentRow(a) \/ RecoverCurrentRow(a)
           \/ BeginRetry(a) \/ LookupLastState(a) \/ WebhookCompleted(a)
           \/ WebhookFailed(a) \/ PipelineSelect(a) \/ ReaperSelect(a)
           \/ RouteConfirmed(a) \/ RouteFailed(a) \/ LeaveScanned(a) \/ ScanPayout(a)
           \/ \E resolution \in Terminal : BeginResolve(a, resolution)
  <2>1. faults' = faults /\ retries' = retries /\ reopened' = reopened
    BY <1>2 DEF NothingToDo, AdvanceCurrentRow, RecoverCurrentRow, BeginRetry,
       LookupLastState, WebhookCompleted, WebhookFailed, PipelineSelect, ReaperSelect,
       RouteConfirmed, RouteFailed, LeaveScanned, ScanPayout, BeginResolve,
       rowVars, bookVars
  <2> QED BY <1>a, <2>1
<1>3. CASE Unqueue(a) \/ Crash(a)
  <2>1. /\ retries' = retries /\ reopened' = reopened
        /\ faults' = faults \/ faults' = faults + 1
    BY <1>3 DEF Unqueue, Crash, QueueWrite, rowVars
  <2> QED BY <1>a, <2>1
<1>4. CASE ResetForRetry(a)
  BY <1>a, <1>4 DEF ResetForRetry
<1> QED BY <1>1, <1>2, <1>3, <1>4
        DEF MovesOf, CallerMoves, ServiceStep, ServiceCall, AdvanceListed,
            ApiAdvance, ApiRecover, RecoverListed, ReconcileStep, ReconcileScan,
            ReconcileEscalates

(* Only the caller that moves can join or leave the reopeners.             *)
LEMMA ReopenersCount ==
  ASSUME NEW a \in Callers, OthersStay(a)
  PROVE  /\ Cardinality(Reopeners) \in Nat /\ Cardinality(Reopeners') \in Nat
         /\ Cardinality(Reopeners') + One(Reopening(a)) =
              Cardinality(Reopeners) + One(Reopening(a)')
<1>1. Reopeners \ {a} = Reopeners' \ {a}
  BY DEF OthersStay, Reopeners, Reopening
<1>2. IsFiniteSet(Reopeners) /\ IsFiniteSet(Reopeners')
  BY CallersAssumption, FS_Subset DEF Reopeners
<1>3. (a \in Reopeners <=> Reopening(a)) /\ (a \in Reopeners' <=> Reopening(a)')
  BY DEF Reopeners
<1>4. /\ One(a \in Reopeners) = One(Reopening(a))
      /\ One(a \in Reopeners') = One(Reopening(a)')
  BY <1>3 DEF One
<1>5. /\ Cardinality(Reopeners) \in Nat /\ Cardinality(Reopeners') \in Nat
      /\ Cardinality(Reopeners') + One(a \in Reopeners) =
           Cardinality(Reopeners) + One(a \in Reopeners')
  BY <1>1, <1>2, OneJoinsOrLeaves
<1> QED BY <1>4, <1>5

LEMMA CostBalance ==
  ASSUME NEW r \in Nat, NEW r1 \in Nat, NEW n \in Nat, NEW n1 \in Nat,
         NEW e \in Nat, NEW e1 \in Nat, NEW f \in Nat, NEW f1 \in Nat,
         NEW q \in Nat, NEW q1 \in Nat,
         n1 + e = n + e1, r + n <= f + q, r1 + e1 + f + q <= r + e + f1 + q1
  PROVE  r1 + n1 <= f1 + q1
OBVIOUS

LEMMA CostOfStep ==
  ASSUME TypeInv, TypeInv', CostAccount, NEW a \in Callers, OthersStay(a),
         reopened' + One(Reopening(a)') + faults + retries <=
           reopened + One(Reopening(a)) + faults' + retries'
  PROVE  CostAccount'
<1>1. /\ faults \in Nat /\ retries \in Nat /\ reopened \in Nat
      /\ faults' \in Nat /\ retries' \in Nat /\ reopened' \in Nat
  BY MaxBurnsAssumption, EngineAssumption DEF TypeInv, TypeOK, EngineTypeOK, WorldTypeOK
<1>2. One(Reopening(a)) \in Nat /\ One(Reopening(a)') \in Nat
  BY OneIsNatural
<1>3. /\ Cardinality(Reopeners) \in Nat /\ Cardinality(Reopeners') \in Nat
      /\ Cardinality(Reopeners') + One(Reopening(a)) =
           Cardinality(Reopeners) + One(Reopening(a)')
  BY ReopenersCount
<1>4. reopened + Cardinality(Reopeners) <= faults + retries
  BY DEF CostAccount
<1>5. reopened' + Cardinality(Reopeners') <= faults' + retries'
  BY <1>1, <1>2, <1>3, <1>4, CostBalance
<1> QED BY <1>5 DEF CostAccount

LEMMA MoveKeepsCost ==
  ASSUME BurnInv, TypeInv', CostAccount, NEW a \in Callers, MovesOf(a), OthersStay(a)
  PROVE  CostAccount'
<1>a. CallsOK /\ BurnCall(a) /\ TypeInv
  BY DEF BurnInv, TypeInv, BurnCalls
<1>b. /\ faults \in Nat /\ retries \in Nat /\ reopened \in Nat
      /\ faults' \in Nat /\ retries' \in Nat /\ reopened' \in Nat
  BY MaxBurnsAssumption, EngineAssumption
     DEF BurnInv, TypeInv, TypeOK, EngineTypeOK, WorldTypeOK
<1>c. One(Reopening(a)) \in Nat /\ One(Reopening(a)') \in Nat
  BY OneIsNatural
<1>d. /\ faults <= faults' /\ retries <= retries'
      /\ reopened' = reopened \/ Rollback(a) \/ ResetForRetry(a)
  BY <1>a, BooksGrow
<1>1. CASE ActionThrows(a) /\ pc[a] = "write"
  <2>1. faults' = faults + 1 /\ retries' = retries /\ reopened' = reopened
    BY <1>1 DEF ActionThrows, Acting, rowVars
  <2>2. One(Reopening(a)') <= 1
    BY DEF One
  <2> QED BY <1>a, <1>b, <1>c, <2>1, <2>2, CostOfStep
<1>2. CASE Rollback(a)
  <2>1. /\ faults' = faults /\ retries' = retries
        /\ reopened' <= reopened + One(Reopening(a))
    BY <1>2, <1>b DEF Rollback, Reopening, One
  <2>2. One(Reopening(a)') = 0
    BY <1>2, <1>a DEF Rollback, Return, CallsOK, Reopening, One
  <2> QED BY <1>a, <1>b, <1>c, <2>1, <2>2, CostOfStep
<1>3. CASE ResetForRetry(a)
  <2>1. faults' = faults /\ retries' = retries + 1 /\ reopened' <= reopened + 1
    BY <1>3, <1>b DEF ResetForRetry
  <2>2. One(Reopening(a)') = 0
    BY <1>3, <1>a DEF ResetForRetry, CallsOK, Reopening, One
  <2> QED BY <1>a, <1>b, <1>c, <2>1, <2>2, CostOfStep
<1>4. CASE /\ ~(ActionThrows(a) /\ pc[a] = "write")
           /\ ~Rollback(a) /\ ~ResetForRetry(a)
  <2>1. ~Reopening(a)'
    <3>1. CASE ActionThrows(a)
      <4>1. pc[a] = "act" /\ got'[a] = got[a]
        BY <1>4, <3>1 DEF ActionThrows, CanThrow, Goto
      <4> QED BY <1>a, <4>1 DEF BurnCall, Reopening
    <3>2. CASE ~ActionThrows(a)
      BY <1>a, <3>2, CallsGoTo DEF Reopening
    <3> QED BY <3>1, <3>2
  <2>2. One(Reopening(a)') = 0
    BY <2>1 DEF One
  <2> QED BY <1>4, <1>a, <1>b, <1>c, <1>d, <2>2, CostOfStep
<1> QED BY <1>1, <1>2, <1>3, <1>4

LEMMA CountsStayPositive ==
  ASSUME NEW r \in Nat, NEW r1 \in Nat, NEW f \in Nat, NEW f1 \in Nat,
         r <= r1, f <= f1, r + f > 0
  PROVE  r1 + f1 > 0
OBVIOUS

(* A row leaves failed only by the roll back of an action that threw or by *)
(* the reset of a retry.                                                   *)
LEMMA LeavingFailedCosts ==
  ASSUME CauseInv, TypeInv', NEW a \in Callers, MovesOf(a),
         status = Failed, status' # Failed
  PROVE  retries' + faults' > 0
<1>a. CallsOK /\ CauseKnown(a) /\ TypeInv
  BY DEF CauseInv, BurnInv, TypeInv, CausesKnown
<1>b. /\ faults \in Nat /\ retries \in Nat /\ faults' \in Nat /\ retries' \in Nat
      /\ faults <= faults' /\ retries <= retries'
  BY <1>a, BooksGrow, MaxBurnsAssumption, EngineAssumption
     DEF TypeInv, TypeOK, EngineTypeOK, WorldTypeOK
<1>c. Failed \notin NonTerminal /\ Failed \notin PipelineStates
  BY DEF NonTerminal, PipelineStates, BeforeBurn, Observing, Initiated, Preflight,
     BurnSubmitted, BurnConfirmed, AttestationRequested, AttestationConfirmed,
     ReleaseUnobserved, ReleaseObserved, ReleaseConfirmed, PayoutSubmitted,
     PayoutConfirmed, Failed, ManualReview
<1>1. ClaimWon(a) \/ Rollback(a) \/ ResetForRetry(a)
  BY EngineWritesStatus, ServiceWritesStatus, LoopsKeepStatus DEF MovesOf, CallerMoves
<1>2. ~ClaimWon(a)
  BY <1>a, <1>c, EdgeEnds DEF ClaimWon, ClaimMatches, CallsOK, HoldsEdge, InTransition
<1>3. CASE Rollback(a)
  <2>1. target[a] = Failed /\ pc[a] = "rollback"
    BY <1>3 DEF Rollback
  <2>2. faults > 0
    BY <1>a, <1>c, <2>1 DEF CauseKnown
  <2>3. retries + faults > 0
    BY <1>b, <2>2
  <2> QED BY <1>b, <2>3, CountsStayPositive
<1>4. CASE ResetForRetry(a)
  BY <1>4, <1>b DEF ResetForRetry
<1> QED BY <1>1, <1>2, <1>3, <1>4

LEMMA MoveKeepsCauses ==
  ASSUME CauseInv, TypeInv', NEW a \in Callers, MovesOf(a), OthersStay(a)
  PROVE  CausesKnown'
<1>a. CallsOK /\ TypeInv /\ \A b \in Callers : CauseKnown(b)
  BY DEF CauseInv, BurnInv, TypeInv, CausesKnown
<1>b. /\ faults \in Nat /\ retries \in Nat /\ faults' \in Nat /\ retries' \in Nat
      /\ faults <= faults' /\ retries <= retries'
  BY <1>a, BooksGrow, MaxBurnsAssumption, EngineAssumption
     DEF TypeInv, TypeOK, EngineTypeOK, WorldTypeOK
<1>c. /\ faults > 0 => faults' > 0
      /\ retries + faults > 0 => retries' + faults' > 0
  <2>1. faults > 0 => faults' > 0
    BY <1>b
  <2>2. retries + faults > 0 => retries' + faults' > 0
    BY <1>b, CountsStayPositive
  <2> QED BY <2>1, <2>2
<1>d. status = Failed => status' = Failed \/ retries' + faults' > 0
  BY <1>a, LeavingFailedCosts
<1>1. ASSUME NEW b \in Callers \ {a}
      PROVE  CauseKnown(b)'
  <2>1. CauseKnown(b) /\ pc'[b] = pc[b] /\ target'[b] = target[b]
    BY <1>a DEF OthersStay
  <2>2. pc'[b] = "rollback" => \/ target'[b] \in PipelineStates
                                \/ (target'[b] = Failed /\ faults' > 0)
    BY <1>c, <2>1 DEF CauseKnown
  <2>3. Retrying(b)' => b \in Clients /\ (status' = Failed \/ retries' + faults' > 0)
    BY <1>c, <1>d, <2>1 DEF CauseKnown, Retrying
  <2> QED BY <2>2, <2>3 DEF CauseKnown
<1>2. pc'[a] = "rollback" => \/ target'[a] \in PipelineStates
                              \/ (target'[a] = Failed /\ faults' > 0)
  <2> SUFFICES ASSUME pc'[a] = "rollback"
               PROVE  target'[a] \in PipelineStates \/ (target'[a] = Failed /\ faults' > 0)
    OBVIOUS
  <2>1. ActionThrows(a) /\ target'[a] = target[a] /\ CanThrow(a)
    BY <1>a, CallsGoTo DEF ActionThrows, Goto
  <2>2. target[a] \in PipelineStates \/ target[a] = Failed
    BY <1>a, <2>1 DEF CanThrow, ObservesRelease, PipelineStates, Observing, CauseInv,
       BurnInv, BurnCalls, BurnCall
  <2>3. target[a] = Failed => faults' > 0
    <3>1. target[a] = Failed => ~Acting(a, {PayoutSubmitted})
      BY DEF Acting, Failed, PayoutSubmitted
    <3>2. target[a] = Failed => faults' = faults + 1
      BY <2>1, <3>1 DEF ActionThrows
    <3> QED BY <1>b, <3>2
  <2> QED BY <2>1, <2>2, <2>3
<1>3. Retrying(a)' => a \in Clients /\ (status' = Failed \/ retries' + faults' > 0)
  <2> SUFFICES ASSUME Retrying(a)'
               PROVE  a \in Clients /\ (status' = Failed \/ retries' + faults' > 0)
    OBVIOUS
  <2>1. BeginRetry(a) \/ LookupLastState(a)
    BY <1>a, CallsGoTo
  <2>2. a \in Clients /\ (status = Failed \/ retries + faults > 0)
    BY <1>a, <2>1 DEF BeginRetry, LookupLastState, CauseKnown, Retrying
  <2> QED BY <1>c, <1>d, <2>2
<1>4. CauseKnown(a)'
  BY <1>2, <1>3 DEF CauseKnown
<1> QED BY <1>1, <1>4 DEF CausesKnown

LEMMA NextKeepsCauses == CauseInv /\ [Next]_vars => CauseInv'
<1> SUFFICES ASSUME CauseInv, [Next]_vars PROVE CauseInv'
  OBVIOUS
<1>a. BurnInv' /\ TypeInv' /\ CallsOK
  BY NextKeepsAccount DEF CauseInv, BurnInv, TypeInv
<1>1. ASSUME NEW a \in Callers, MovesOf(a)
      PROVE  CauseInv'
  <2>1. OthersStay(a)
    BY <1>1, <1>a, OtherCallsStay
  <2> QED BY <1>1, <1>a, <2>1, MoveKeepsCost, MoveKeepsCauses DEF CauseInv
<1>2. CASE Tick \/ (WorldMoves /\ UNCHANGED engineVars) \/ UNCHANGED vars
  <2>1. UNCHANGED <<status, retries, faults, reopened, callVars>>
    BY <1>2 DEF Tick, vars, engineVars, rowVars, bookVars
  <2>2. Reopeners' = Reopeners
    BY <2>1 DEF Reopeners, Reopening, callVars
  <2>3. CostAccount' /\ CausesKnown'
    BY <2>1, <2>2 DEF CauseInv, CostAccount, CausesKnown, CauseKnown, Retrying, callVars
  <2> QED BY <1>a, <2>3 DEF CauseInv
<1> QED BY <1>1, <1>2 DEF Next, MovesOf

LEMMA InitCauseInv == Init => CauseInv
<1> SUFFICES ASSUME Init PROVE CauseInv
  OBVIOUS
<1>1. Reopeners = {} /\ Cardinality(Reopeners) = 0
  BY FS_EmptySet DEF Init, EngineInit, Reopeners, Reopening
<1>2. CostAccount
  BY <1>1 DEF Init, EngineInit, CostAccount
<1>3. CausesKnown
  BY DEF Init, EngineInit, CausesKnown, CauseKnown, Retrying
<1> QED BY <1>2, <1>3, InitBurnInv DEF CauseInv

LEMMA CauseInvariant == Spec => []CauseInv
BY InitCauseInv, NextKeepsCauses, PTL DEF Spec

(* Every broadcast of the burn beyond the first was preceded by a failure  *)
(* of its own or by one more in retry_count, whoever overlaps with whom:   *)
(* executeTransition and retryDisbursement never burn again for free       *)
(* (BurnsCostFailures).                                                    *)
THEOREM FurtherBurnsCost == Spec => []BurnsCostFailures
<1>1. CauseInv => reopened <= faults + retries
  <2> SUFFICES ASSUME CauseInv PROVE reopened <= faults + retries
    OBVIOUS
  <2>1. faults \in Nat /\ retries \in Nat /\ reopened \in Nat
    BY BooksAreNumbers DEF CauseInv, BurnInv
  <2>2. Cardinality(Reopeners) \in Nat
    BY CallersAssumption, FS_Subset, FS_CardinalityType DEF Reopeners
  <2>3. reopened + Cardinality(Reopeners) <= faults + retries
    BY DEF CauseInv, CostAccount
  <2> QED BY <2>1, <2>2, <2>3
<1>2. CauseInv /\ BurnsPaidFor => BurnsCostFailures
  <2> SUFFICES ASSUME CauseInv, BurnsPaidFor PROVE BurnsCostFailures
    OBVIOUS
  <2>1. faults \in Nat /\ retries \in Nat /\ reopened \in Nat /\ burns \in Nat
    BY BooksAreNumbers DEF CauseInv, BurnInv
  <2> QED BY <1>1, <2>1 DEF BurnsPaidFor, BurnsCostFailures
<1> QED BY <1>2, CauseInvariant, EveryBurnIsPaidFor, PTL

(* A row that settled or was cancelled is moved by nothing but the reset   *)
(* of a retry that began while the row was failed and was overtaken        *)
(* (retryDisbursement's unconditional UPDATE); without any failure and any *)
(* retry the two states are final for every caller (FinalButForRetries).   *)
THEOREM SettledIsFinalButForRetries == Spec => FinalButForRetries
<1>1. ASSUME CauseInv, Next, status \in {Settled, Cancelled}, status' # status
      PROVE  /\ retries + faults > 0
             /\ \E c \in Clients : pc[c] = "reset" /\ pc'[c] = "listed"
  <2>a. /\ {Settled, Cancelled} \cap (NonTerminal \cup PipelineStates) = {}
        /\ Failed \notin {Settled, Cancelled}
    BY DEF NonTerminal, PipelineStates, BeforeBurn, Observing, Initiated, Preflight,
       BurnSubmitted, BurnConfirmed, AttestationRequested, AttestationConfirmed,
       ReleaseUnobserved, ReleaseObserved, ReleaseConfirmed, PayoutSubmitted,
       PayoutConfirmed, Settled, Cancelled, Failed, ManualReview
  <2>1. PICK a \in Callers : ClaimWon(a) \/ Rollback(a) \/ ResetForRetry(a)
    BY <1>1, StatusWriters
  <2>2. CallsOK /\ CauseKnown(a)
    BY <1>1 DEF CauseInv, BurnInv, TypeInv, CausesKnown
  <2>3. ~ClaimWon(a)
    BY <1>1, <2>a, <2>2, EdgeEnds
       DEF ClaimWon, ClaimMatches, CallsOK, HoldsEdge, InTransition
  <2>4. ~Rollback(a)
    BY <1>1, <2>a, <2>2 DEF Rollback, CauseKnown
  <2>5. pc[a] = "reset" /\ pc'[a] = "listed"
    BY <2>1, <2>2, <2>3, <2>4 DEF ResetForRetry, CallsOK
  <2> QED BY <1>1, <2>a, <2>2, <2>5 DEF CauseKnown, Retrying
<1>2. CauseInv /\ [Next]_vars => [LeavesForCause]_vars
  BY <1>1 DEF LeavesForCause
<1> QED BY <1>2, CauseInvariant, PTL DEF Spec, FinalButForRetries
=============================================================================
