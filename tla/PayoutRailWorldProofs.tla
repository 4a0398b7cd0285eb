------------------------ MODULE PayoutRailWorldProofs ------------------------
(***************************************************************************)
(* A row is never ahead of the world: the chain, the attestation, the      *)
(* release and the payout are as far as the row's state says.              *)
(*                                                                         *)
(* The state of the row alone is not inductive.  A claim writes the target *)
(* some time after its guard looked, a roll back writes the state read     *)
(* even earlier, and a retry writes the state of an old audit row.  So the *)
(* invariant says the same of every state a call or the audit log still    *)
(* carries.  It holds because what a guard sees never un-happens (Grows).  *)
(***************************************************************************)
EXTENDS PayoutRailProofs

(* Backed, and the attestation stays on record through the payout.         *)
Earned(s) ==
  Backed(s) /\ (s \in AfterAttestation \cup AfterRelease => Mined(attRef))

Truthful(r) ==
  /\ r \in {Confirmed, Rejected} => surface = r
  /\ r = Pending => surface # Unobserved

Claimed == {"claim", "act", "write", "persist", "audit", "rollback"}

CarriesEarned(a) ==
  /\ pc[a] \in InTransition => Earned(seen[a].status)
  /\ pc[a] \in Claimed \cup {"reset"} => Earned(target[a])
  /\ pc[a] \in {"claim", "act"} /\ target[a] = AttestationRequested => Mined(seen[a].tx)
  /\ Truthful(got[a].release)
  /\ pc[a] \in InTransition /\ target[a] = Settled /\ seen[a].status = ManualReview =>
       a \in Clients

CallsEarned == \A a \in Callers : CarriesEarned(a)

RecordEarned ==
  /\ attRef # NoTx => Mined(attRef)
  /\ Earned(status)
  /\ lastFailed # None => Earned(lastFailed)
  /\ Truthful(release)
  /\ PayoutBacked
  /\ \A k \in Burns : k > burns => chain[k] = "none"

WorldInv == TypeInv /\ CallsEarned /\ RecordEarned

----------------------------------------------------------------------------
(* What has happened outside stays so.                                     *)

Grows ==
  /\ \A k \in Burns : chain[k] = "success" => chain'[k] = "success"
  /\ surface \in {Confirmed, Rejected} => surface' = surface
  /\ surface # Unobserved => surface' # Unobserved
  /\ send = "completed" => send' = "completed"
  /\ Mined(attRef) => Mined(attRef)'

LEMMA EarnedStays ==
  ASSUME Grows, NEW s, Earned(s)
  PROVE  Earned(s)'
<1>1. \A k \in Burns : Mined(k) => Mined(k)'
  BY DEF Grows, Mined
<1> QED BY <1>1 DEF Grows, Earned, Backed

LEMMA TruthfulStays ==
  ASSUME Grows, NEW r, Truthful(r)
  PROVE  Truthful(r)'
BY DEF Grows, Truthful

LEMMA MinedStays ==
  ASSUME Grows, NEW k, Mined(k)
  PROVE  Mined(k)'
BY DEF Grows, Mined

LEMMA CallsEarnedStay ==
  ASSUME CallsEarned, Grows, NEW a \in Callers, OthersStay(a), CarriesEarned(a)'
  PROVE  CallsEarned'
<1> SUFFICES ASSUME NEW b \in Callers, b # a PROVE CarriesEarned(b)'
  BY DEF CallsEarned
<1>1. /\ pc'[b] = pc[b] /\ seen'[b] = seen[b]
      /\ target'[b] = target[b] /\ got'[b] = got[b]
  BY DEF OthersStay
<1>2. CarriesEarned(b)
  BY DEF CallsEarned
<1>3. /\ Earned(seen[b].status) => Earned(seen[b].status)'
      /\ Earned(target[b]) => Earned(target[b])'
  <2>1. PICK s : s = seen[b].status /\ s = seen'[b].status
    BY <1>1
  <2>2. PICK t : t = target[b] /\ t = target'[b]
    BY <1>1
  <2>3. (Earned(s) => Earned(s)') /\ (Earned(t) => Earned(t)')
    BY EarnedStays
  <2> QED BY <2>1, <2>2, <2>3 DEF Earned, Backed
<1>4. Mined(seen[b].tx) => Mined(seen[b].tx)'
  BY <1>1 DEF Mined, Grows
<1>5. Truthful(got[b].release) => Truthful(got[b].release)'
  BY <1>1 DEF Truthful, Grows
<1> QED BY <1>1, <1>2, <1>3, <1>4, <1>5 DEF CarriesEarned

(* No edge from a terminal state is ever claimed; the states before the    *)
(* burn and those the pipeline leaves alone need nothing of the world.     *)
LEMMA NothingToEarn ==
  ASSUME NEW s \in BeforeBurn \cup Terminal \cup {BurnSubmitted, ManualReview}
  PROVE  Earned(s)
BY DEF Earned, Backed, AfterBurn, AfterAttestation, AfterRelease, BeforeBurn, Terminal,
       Observing, Initiated, Preflight, BurnSubmitted, BurnConfirmed, AttestationRequested,
       AttestationConfirmed, ReleaseUnobserved, ReleaseObserved, ReleaseConfirmed,
       PayoutSubmitted, PayoutConfirmed, Settled, Failed, Cancelled, ManualReview

(* The guard of an edge looks at what the edge's target adds; the rest was *)
(* earned by the state the row was read in.                                *)
LEMMA GuardEarns ==
  ASSUME NEW row \in Rows, NEW to, <<row.status, to>> \in Edges,
         Earned(row.status), GuardHolds(row, to),
         attRef \in Txs, attRef # NoTx => Mined(attRef)
  PROVE  /\ Earned(to)
         /\ to = AttestationRequested => Mined(row.tx)
<1>1. CASE to \in BeforeBurn \cup Terminal \cup {BurnSubmitted, ManualReview}
  <2>1. to # AttestationRequested
    BY <1>1 DEF BeforeBurn, Terminal, Initiated, Preflight, BurnSubmitted,
         AttestationRequested, Settled, Failed, Cancelled, ManualReview
  <2> QED BY <1>1, <2>1, NothingToEarn
<1>2. CASE to \notin BeforeBurn \cup Terminal \cup {BurnSubmitted, ManualReview}
  <2> DEFINE s == row.status
  <2>1. \/ s = BurnSubmitted /\ to = BurnConfirmed
        \/ s = BurnConfirmed /\ to = AttestationRequested
        \/ s = AttestationRequested /\ to = AttestationConfirmed
        \/ s = AttestationConfirmed /\ to = ReleaseUnobserved
        \/ s = ReleaseUnobserved /\ to = ReleaseObserved
        \/ s = ReleaseObserved /\ to = ReleaseConfirmed
        \/ s = ReleaseConfirmed /\ to = PayoutSubmitted
        \/ s = PayoutSubmitted /\ to = PayoutConfirmed
    BY <1>2, EdgeKinds, ForwardEdges DEF BeforeBurn, Terminal
  <2>2. CASE to \in {BurnConfirmed, AttestationRequested}
    <3>1. Mined(row.tx)
      BY <2>2 DEF GuardHolds, IsBurnConfirmed, Mined, Rows, Txs, Burns, NoTx
    <3>2. \E k \in Burns : Mined(k)
      BY <3>1 DEF Mined
    <3> QED BY <2>2, <3>1, <3>2
            DEF Earned, Backed, AfterBurn, AfterAttestation, AfterRelease, Observing,
                BurnConfirmed, AttestationRequested, AttestationConfirmed,
                ReleaseUnobserved, ReleaseObserved, ReleaseConfirmed, PayoutSubmitted,
                PayoutConfirmed
  <2>3. CASE to \in {AttestationConfirmed, ReleaseUnobserved}
    <3>1. Mined(attRef) /\ \E k \in Burns : Mined(k)
      BY <2>3 DEF GuardHolds, IsAttestationConfirmed, Mined
    <3> QED BY <2>3, <3>1
            DEF Earned, Backed, AfterRelease, AttestationRequested, AttestationConfirmed,
                ReleaseUnobserved, ReleaseConfirmed, PayoutSubmitted, PayoutConfirmed
  <2>4. CASE to \in {ReleaseObserved, ReleaseConfirmed, PayoutSubmitted, PayoutConfirmed}
    <3>1. Mined(attRef) /\ \E k \in Burns : Mined(k)
      BY <2>1, <2>4 DEF Earned, Backed, AfterAttestation, AfterRelease, Observing, Mined,
           AttestationConfirmed, ReleaseUnobserved, ReleaseObserved, ReleaseConfirmed,
           PayoutSubmitted, PayoutConfirmed, BurnConfirmed, AttestationRequested, BurnSubmitted
    <3>2. to \in AfterRelease => surface = Confirmed
      BY <2>1, <2>4 DEF GuardHolds, SaysConfirmed, Earned, Backed, AfterRelease,
           ReleaseObserved, ReleaseConfirmed, PayoutSubmitted, PayoutConfirmed,
           BurnConfirmed, AttestationRequested, AttestationConfirmed, ReleaseUnobserved
    <3>3. to = PayoutConfirmed => send = "completed"
      BY DEF GuardHolds, IsPayoutConfirmed
    <3> QED BY <2>4, <3>1, <3>2, <3>3
            DEF Earned, Backed, AttestationRequested, ReleaseObserved,
                ReleaseConfirmed, PayoutSubmitted, PayoutConfirmed
  <2> QED BY <2>1, <2>2, <2>3, <2>4
<1> QED BY <1>1, <1>2

----------------------------------------------------------------------------
(* Steps that leave the world and the attestation alone.                   *)

LEMMA StillWorldGrows ==
  ASSUME UNCHANGED <<worldVars, attRef>>
  PROVE  Grows
BY DEF Grows, Mined, worldVars

LEMMA StepOnTheRow ==
  ASSUME WorldInv, TypeInv', NEW a \in Callers, OthersStay(a),
         UNCHANGED <<worldVars, attRef>>, CarriesEarned(a)',
         Earned(status'), lastFailed' # None => Earned(lastFailed'), Truthful(release')
  PROVE  WorldInv'
<1>1. CallsEarned'
  BY StillWorldGrows, CallsEarnedStay DEF WorldInv
<1>2. RecordEarned'
  BY DEF WorldInv, RecordEarned, Earned, Backed, Truthful, PayoutBacked, Mined, worldVars
<1> QED BY <1>1, <1>2 DEF WorldInv

LEMMA StepOfTheCall ==
  ASSUME WorldInv, TypeInv', NEW a \in Callers, OthersStay(a),
         UNCHANGED <<worldVars, attRef, status, lastFailed, release>>, CarriesEarned(a)'
  PROVE  WorldInv'
BY StepOnTheRow DEF WorldInv, RecordEarned

LEMMA ReturnCarries ==
  ASSUME CallsOK, NEW a \in Callers, Return(a)
  PROVE  CarriesEarned(a)'
<1>1. pc'[a] = "idle" /\ got'[a].release = NoRelease
  BY DEF Return, NoDetails, CallsOK
<1>2. (Truthful(got[a].release))'
  BY <1>1 DEF Truthful, NoRelease, Confirmed, Rejected, Pending
<1> QED BY <1>1, <1>2 DEF CarriesEarned, InTransition, Claimed

LEMMA BeginCarries ==
  ASSUME WorldInv, NEW a \in Callers, UNCHANGED <<worldVars, attRef>>,
         pc'[a] \in {"guard", "unqueue", "scanned", "listed", "lookup"},
         pc'[a] \in {"guard", "unqueue", "scanned"} => Earned(seen'[a].status),
         target'[a] = Settled /\ seen'[a].status = ManualReview /\ pc'[a] \in InTransition
           => a \in Clients,
         got'[a] = got[a]
  PROVE  CarriesEarned(a)'
<1>1. Truthful(got[a].release)'
  BY DEF WorldInv, CallsEarned, CarriesEarned, Truthful, worldVars
<1>2. (Earned(seen[a].status))' <=> Earned(seen'[a].status)
  BY DEF Earned, Backed, Mined, worldVars
<1> QED BY <1>1, <1>2 DEF CarriesEarned, InTransition, Claimed

LEMMA ProceedCarries ==
  ASSUME WorldInv, NEW a \in Callers, UNCHANGED <<worldVars, attRef>>,
         pc[a] \in Claimed, pc'[a] \in Claimed, pc'[a] # "claim",
         pc'[a] = "act" => pc[a] = "claim",
         seen'[a] = seen[a], target'[a] = target[a], Truthful(got'[a].release)
  PROVE  CarriesEarned(a)'
<1>1. CarriesEarned(a) /\ pc[a] \in InTransition
  BY DEF WorldInv, CallsEarned, InTransition, Claimed
<1>2. /\ (Earned(seen[a].status))' <=> Earned(seen[a].status)
      /\ (Earned(target[a]))' <=> Earned(target[a])
      /\ Truthful(got[a].release)' <=> Truthful(got'[a].release)
      /\ Mined(seen[a].tx)' <=> Mined(seen[a].tx)
  BY DEF Earned, Backed, Truthful, Mined, worldVars
<1> QED BY <1>1, <1>2 DEF CarriesEarned

LEMMA FinishCarries ==
  ASSUME WorldInv, NEW a \in Callers, UNCHANGED <<worldVars, attRef>>,
         pc[a] \in Claimed, Finish(a)
  PROVE  CarriesEarned(a)'
<1>1. CASE target[a] = Failed
  <2>1. /\ pc'[a] = "audit" /\ seen'[a] = seen[a] /\ target'[a] = target[a]
        /\ got'[a] = got[a]
    BY <1>1 DEF Finish, Goto, WorldInv, TypeInv, CallsOK
  <2>2. Truthful(got'[a].release)
    BY <2>1 DEF WorldInv, CallsEarned, CarriesEarned
  <2> QED BY <2>1, <2>2, ProceedCarries DEF Claimed
<1>2. CASE target[a] # Failed
  BY <1>2, ReturnCarries DEF Finish, WorldInv, TypeInv
<1> QED BY <1>1, <1>2

LEMMA GuardAndClaimKeepWorldInv ==
  ASSUME WorldInv, TypeInv', NEW a \in Callers, OthersStay(a),
         \/ GuardAccepts(a) \/ GuardRejects(a) \/ GuardEscalates(a)
         \/ ClaimWon(a) \/ ClaimLost(a)
  PROVE  WorldInv'
<1>a. CallsOK /\ RecordEarned /\ CarriesEarned(a) /\ attRef \in Txs
  BY DEF WorldInv, TypeInv, CallsEarned, TypeOK, EngineTypeOK
<1>1. CASE GuardRejects(a) \/ ClaimLost(a)
  BY <1>1, <1>a, ReturnCarries, StepOfTheCall
     DEF GuardRejects, ClaimLost, rowVars, sideVars
<1>2. CASE GuardEscalates(a)
  <2>1. /\ pc[a] = "guard" /\ pc'[a] = "guard" /\ seen'[a] = seen[a]
        /\ target'[a] = ManualReview /\ got'[a] = got[a]
        /\ UNCHANGED <<worldVars, attRef, status, lastFailed, release>>
    BY <1>2, <1>a DEF GuardEscalates, Attempt, CallsOK, rowVars, sideVars
  <2>2. Earned(seen'[a].status) /\ ManualReview # Settled
    BY <1>a, <2>1 DEF CarriesEarned, InTransition, ManualReview, Settled
  <2>3. CarriesEarned(a)'
    BY <2>1, <2>2, BeginCarries
  <2> QED BY <2>1, <2>3, StepOfTheCall
<1>3. CASE GuardAccepts(a)
  <2>1. /\ pc[a] = "guard" /\ pc'[a] = "claim" /\ seen'[a] = seen[a]
        /\ target'[a] = target[a] /\ got'[a] = got[a]
        /\ GuardHolds(seen[a], target[a])
        /\ UNCHANGED <<worldVars, attRef, status, lastFailed, release>>
    BY <1>3, <1>a DEF GuardAccepts, Goto, CallsOK, rowVars, sideVars
  <2>2. /\ Earned(seen[a].status) /\ seen[a] \in Rows
        /\ <<seen[a].status, target[a]>> \in Edges
    BY <1>a, <2>1 DEF CarriesEarned, InTransition, CallsOK, HoldsEdge
  <2>3. /\ Earned(target[a])
        /\ target[a] = AttestationRequested => Mined(seen[a].tx)
    BY <1>a, <2>1, <2>2, GuardEarns DEF RecordEarned
  <2>4. /\ (Earned(seen[a].status))' <=> Earned(seen[a].status)
        /\ (Earned(target[a]))' <=> Earned(target[a])
        /\ Truthful(got[a].release)' <=> Truthful(got[a].release)
        /\ Mined(seen[a].tx)' <=> Mined(seen[a].tx)
    BY <2>1 DEF Earned, Backed, Truthful, Mined, worldVars
  <2>5. CarriesEarned(a)'
    BY <1>a, <2>1, <2>2, <2>3, <2>4 DEF CarriesEarned, InTransition
  <2> QED BY <2>1, <2>5, StepOfTheCall
<1>4. CASE ClaimWon(a)
  <2>1. /\ pc[a] = "claim" /\ pc'[a] = "act" /\ seen'[a] = seen[a]
        /\ target'[a] = target[a] /\ got'[a] = got[a] /\ status' = target[a]
        /\ UNCHANGED <<worldVars, attRef, lastFailed, release>>
    BY <1>4, <1>a DEF ClaimWon, Goto, CallsOK, sideVars
  <2>2. Truthful(got'[a].release) /\ Earned(status')
    BY <1>a, <2>1 DEF CarriesEarned, Claimed
  <2>3. CarriesEarned(a)'
    BY <2>1, <2>2, ProceedCarries DEF Claimed
  <2> QED BY <1>a, <2>1, <2>2, <2>3, StepOnTheRow DEF RecordEarned
<1> QED BY <1>1, <1>2, <1>3, <1>4

LEMMA ActionsOnTheRowKeepWorldInv ==
  ASSUME WorldInv, TypeInv', NEW a \in Callers, OthersStay(a),
         \/ RunPreflightCheck(a) \/ RecordConfirmation(a) \/ BeginReleaseObservation(a)
         \/ ObserveRelease(a) \/ WriteRefs(a) \/ MarkTerminal(a) \/ MoveToManualReview(a)
         \/ Persist(a) \/ Audit(a) \/ Rollback(a)
  PROVE  WorldInv'
<1>a. CallsOK /\ RecordEarned /\ CarriesEarned(a)
  BY DEF WorldInv, TypeInv, CallsEarned
<1>1. CASE RunPreflightCheck(a) \/ BeginReleaseObservation(a) \/ ObserveRelease(a)
  <2>1. /\ pc[a] = "act" /\ pc'[a] = "persist" /\ seen'[a] = seen[a]
        /\ target'[a] = target[a]
        /\ UNCHANGED <<worldVars, attRef, status, lastFailed, release>>
    BY <1>1, <1>a DEF RunPreflightCheck, BeginReleaseObservation, ObserveRelease,
         Acting, CallsOK, rowVars, sideVars
  <2>2. got'[a].release \in {got[a].release, Unobserved, surface}
    BY <1>1, <1>a DEF RunPreflightCheck, BeginReleaseObservation, ObserveRelease,
         CallsOK, Details
  <2>3. Truthful(got'[a].release)
    BY <1>a, <2>2 DEF CarriesEarned, Truthful, Unobserved, Confirmed, Rejected, Pending
  <2>4. CarriesEarned(a)'
    BY <2>1, <2>3, ProceedCarries DEF Claimed
  <2> QED BY <2>1, <2>4, StepOfTheCall
<1>2. CASE RecordConfirmation(a) \/ MoveToManualReview(a)
  BY <1>2, <1>a, ReturnCarries, StepOfTheCall
     DEF RecordConfirmation, MoveToManualReview, rowVars, sideVars
<1>3. CASE WriteRefs(a)
  <2>1. UNCHANGED <<worldVars, attRef, status, lastFailed, release>> /\ pc[a] = "write"
    BY <1>3 DEF WriteRefs, rowVars
  <2>2. CASE target[a] = BurnSubmitted
    <3>1. /\ pc'[a] = "persist" /\ seen'[a] = seen[a] /\ target'[a] = target[a]
          /\ got'[a] = got[a]
      BY <1>3, <1>a, <2>2 DEF WriteRefs, Goto, CallsOK
    <3>2. Truthful(got'[a].release)
      BY <1>a, <3>1 DEF CarriesEarned
    <3>3. CarriesEarned(a)'
      BY <2>1, <3>1, <3>2, ProceedCarries DEF Claimed
    <3> QED BY <2>1, <3>3, StepOfTheCall
  <2>3. CASE target[a] # BurnSubmitted
    BY <1>3, <1>a, <2>1, <2>3, ReturnCarries, StepOfTheCall DEF WriteRefs
  <2> QED BY <2>2, <2>3
<1>4. CASE MarkTerminal(a)
  <2>1. /\ UNCHANGED <<worldVars, attRef, status, lastFailed, release>>
        /\ pc[a] \in Claimed /\ Finish(a)
    BY <1>4 DEF MarkTerminal, Acting, Claimed, rowVars
  <2> QED BY <2>1, FinishCarries, StepOfTheCall
<1>5. CASE Persist(a)
  <2>1. /\ UNCHANGED <<worldVars, attRef, status, lastFailed>>
        /\ pc[a] \in Claimed /\ Finish(a) /\ release' \in {got[a].release, release}
    BY <1>5 DEF Persist, Claimed, sideVars
  <2>2. CarriesEarned(a)'
    BY <2>1, FinishCarries
  <2>3. Truthful(release')
    BY <1>a, <2>1 DEF RecordEarned, CarriesEarned
  <2> QED BY <1>a, <2>1, <2>2, <2>3, StepOnTheRow DEF RecordEarned
<1>6. CASE Audit(a)
  <2>1. /\ UNCHANGED <<worldVars, attRef, status, release>>
        /\ lastFailed' \in {seen[a].status, lastFailed} /\ Return(a) /\ pc[a] = "audit"
    BY <1>6 DEF Audit, rowVars
  <2>2. lastFailed' # None => Earned(lastFailed')
    BY <1>a, <2>1 DEF RecordEarned, CarriesEarned, InTransition
  <2> QED BY <1>a, <2>1, <2>2, ReturnCarries, StepOnTheRow DEF RecordEarned
<1>7. CASE Rollback(a)
  <2>1. /\ UNCHANGED <<worldVars, attRef, release, lastFailed>>
        /\ status' \in {seen[a].status, status} /\ Return(a) /\ pc[a] = "rollback"
    BY <1>7 DEF Rollback, sideVars
  <2>2. Earned(status')
    BY <1>a, <2>1 DEF RecordEarned, CarriesEarned, InTransition
  <2> QED BY <1>a, <2>1, <2>2, ReturnCarries, StepOnTheRow DEF RecordEarned
<1> QED BY <1>1, <1>2, <1>3, <1>4, <1>5, <1>6, <1>7

LEMMA ServiceKeepsWorldInv ==
  ASSUME WorldInv, TypeInv', NEW a \in Callers, OthersStay(a),
         \/ ServiceStep(a) \/ ServiceCall(a) \/ ReconcileStep(a) \/ ReconcileScan(a)
         \/ PipelineSelect(a) \/ ReaperSelect(a) \/ Crash(a)
  PROVE  WorldInv'
<1>a. CallsOK /\ RecordEarned /\ CarriesEarned(a) /\ Earned(status) /\ status \in States
  BY DEF WorldInv, TypeInv, TypeOK, EngineTypeOK, CallsEarned, RecordEarned
<1>1. CASE NothingToDo(a) \/ Crash(a)
  BY <1>1, <1>a, ReturnCarries, StepOfTheCall DEF NothingToDo, Crash, rowVars, sideVars
<1>2. CASE AdvanceCurrentRow(a)
  <2>1. /\ pc'[a] = "guard" /\ seen'[a].status = status
        /\ target'[a] = NextOf[status] /\ got'[a] = got[a] /\ status \in NonTerminal
        /\ UNCHANGED <<worldVars, attRef, status, lastFailed, release>>
    BY <1>2, <1>a DEF AdvanceCurrentRow, Attempt, CallsOK, CurrentRow, rowVars, sideVars
  <2>2. ~(target'[a] = Settled /\ seen'[a].status = ManualReview)
    BY <2>1 DEF NextOf, Failed, Settled
  <2>3. CarriesEarned(a)'
    BY <1>a, <2>1, <2>2, BeginCarries
  <2> QED BY <2>1, <2>3, StepOfTheCall
<1>3. CASE RecoverCurrentRow(a)
  <2>1. /\ pc'[a] = "guard" /\ seen'[a].status = status
        /\ target'[a] = ManualReview /\ got'[a] = got[a]
        /\ UNCHANGED <<worldVars, attRef, status, lastFailed, release>>
    BY <1>3, <1>a DEF RecoverCurrentRow, Attempt, CallsOK, CurrentRow, rowVars, sideVars
  <2>2. target'[a] # Settled
    BY <2>1 DEF ManualReview, Settled
  <2>3. CarriesEarned(a)'
    BY <1>a, <2>1, <2>2, BeginCarries
  <2> QED BY <2>1, <2>3, StepOfTheCall
<1>4. CASE WebhookFailed(a)
  <2>1. /\ pc'[a] = "guard" /\ seen'[a].status = status
        /\ target'[a] = Failed /\ got'[a] = got[a]
        /\ UNCHANGED <<worldVars, attRef, status, lastFailed, release>>
    BY <1>4, <1>a DEF WebhookFailed, Attempt, CallsOK, NoRow, rowVars, sideVars
  <2>2. target'[a] # Settled
    BY <2>1 DEF Failed, Settled
  <2>3. CarriesEarned(a)'
    BY <1>a, <2>1, <2>2, BeginCarries
  <2> QED BY <2>1, <2>3, StepOfTheCall
<1>5. CASE BeginRetry(a) \/ WebhookCompleted(a) \/ PipelineSelect(a) \/ ReaperSelect(a)
  <2>1. /\ pc'[a] \in {"listed", "lookup"} /\ got'[a] = got[a]
        /\ UNCHANGED <<worldVars, attRef, status, lastFailed, release>>
    BY <1>5, <1>a DEF BeginRetry, WebhookCompleted, PipelineSelect, ReaperSelect, Goto,
         CallsOK, rowVars, sideVars
  <2>2. CarriesEarned(a)'
    BY <2>1, BeginCarries DEF InTransition
  <2> QED BY <2>1, <2>2, StepOfTheCall
<1>6. CASE \E resolution \in Terminal : BeginResolve(a, resolution)
  <2>1. /\ pc'[a] = "unqueue" /\ seen'[a].status = status /\ a \in Clients
        /\ got'[a] = got[a]
        /\ UNCHANGED <<worldVars, attRef, status, lastFailed, release>>
    BY <1>6, <1>a DEF BeginResolve, CallsOK, CurrentRow, rowVars, sideVars
  <2>2. CarriesEarned(a)'
    BY <1>a, <2>1, BeginCarries
  <2> QED BY <2>1, <2>2, StepOfTheCall
<1>7. CASE Unqueue(a)
  <2>1. /\ pc[a] = "unqueue" /\ pc'[a] = "guard" /\ seen'[a] = seen[a]
        /\ target'[a] = target[a] /\ got'[a] = got[a]
        /\ UNCHANGED <<worldVars, attRef, status, lastFailed, release>>
    BY <1>7, <1>a DEF Unqueue, Goto, CallsOK, rowVars
  <2>2. /\ Earned(seen'[a].status)
        /\ target'[a] = Settled /\ seen'[a].status = ManualReview => a \in Clients
    BY <1>a, <2>1 DEF CarriesEarned, InTransition
  <2>3. CarriesEarned(a)'
    BY <2>1, <2>2, BeginCarries
  <2> QED BY <2>1, <2>3, StepOfTheCall
<1>8. CASE LookupLastState(a)
  <2>1. /\ pc'[a] = "reset" /\ got'[a] = got[a]
        /\ target'[a] = IF lastFailed = None THEN Initiated ELSE lastFailed
        /\ UNCHANGED <<worldVars, attRef, status, lastFailed, release>>
    BY <1>8, <1>a DEF LookupLastState, CallsOK, rowVars, sideVars
  <2>2. Earned(target'[a])
    BY <1>a, <2>1, NothingToEarn DEF RecordEarned, BeforeBurn
  <2>3. /\ (Earned(target[a]))' <=> Earned(target'[a])
        /\ Truthful(got[a].release)' <=> Truthful(got[a].release)
    BY <2>1 DEF Earned, Backed, Truthful, Mined, worldVars
  <2>4. CarriesEarned(a)'
    BY <1>a, <2>1, <2>2, <2>3 DEF CarriesEarned, InTransition, Claimed
  <2> QED BY <2>1, <2>4, StepOfTheCall
<1>9. CASE ResetForRetry(a)
  <2>1. /\ pc[a] = "reset" /\ pc'[a] = "listed" /\ got'[a] = got[a] /\ status' = target[a]
        /\ UNCHANGED <<worldVars, attRef, lastFailed, release>>
    BY <1>9, <1>a DEF ResetForRetry, CallsOK, sideVars
  <2>2. Earned(status')
    BY <1>a, <2>1 DEF CarriesEarned
  <2>3. CarriesEarned(a)'
    BY <2>1, BeginCarries DEF InTransition
  <2> QED BY <1>a, <2>1, <2>2, <2>3, StepOnTheRow DEF RecordEarned
<1>10. CASE ScanPayout(a)
  <2>1. /\ pc'[a] = "scanned" /\ seen'[a].status = status
        /\ target'[a] = PayoutConfirmed /\ got'[a] = got[a]
        /\ UNCHANGED <<worldVars, attRef, status, lastFailed, release>>
    BY <1>10, <1>a DEF ScanPayout, CallsOK, CurrentRow, rowVars, sideVars
  <2>2. target'[a] # Settled
    BY <2>1 DEF PayoutConfirmed, Settled
  <2>3. CarriesEarned(a)'
    BY <1>a, <2>1, <2>2, BeginCarries
  <2> QED BY <2>1, <2>3, StepOfTheCall
<1>11. CASE RouteConfirmed(a) \/ RouteFailed(a)
  <2>1. /\ pc[a] = "scanned" /\ pc'[a] = "guard" /\ seen'[a] = seen[a]
        /\ target'[a] \in {target[a], Failed} /\ got'[a] = got[a]
        /\ UNCHANGED <<worldVars, attRef, status, lastFailed, release>>
    BY <1>11, <1>a DEF RouteConfirmed, RouteFailed, Goto, Attempt, CallsOK, rowVars,
         sideVars
  <2>2. /\ Earned(seen'[a].status)
        /\ target'[a] = Settled /\ seen'[a].status = ManualReview => a \in Clients
    BY <1>a, <2>1 DEF CarriesEarned, InTransition, Failed, Settled
  <2>3. CarriesEarned(a)'
    BY <2>1, <2>2, BeginCarries
  <2> QED BY <2>1, <2>3, StepOfTheCall
<1>12. CASE LeaveScanned(a)
  BY <1>12, <1>a, ReturnCarries, StepOfTheCall DEF LeaveScanned, rowVars, sideVars
<1> QED BY <1>1, <1>2, <1>3, <1>4, <1>5, <1>6, <1>7, <1>8, <1>9, <1>10, <1>11, <1>12
        DEF ServiceStep, ServiceCall, AdvanceListed, RecoverListed, ApiAdvance, ApiRecover,
            ReconcileStep, ReconcileScan, ReconcileEscalates

----------------------------------------------------------------------------
(* Steps that move the world or replace the attestation.                   *)

LEMMA RecordStays ==
  ASSUME RecordEarned, Grows, UNCHANGED <<status, lastFailed, release>>,
         attRef' # NoTx => Mined(attRef)', PayoutBacked',
         \A k \in Burns : k > burns' => chain'[k] = "none"
  PROVE  RecordEarned'
<1>1. Earned(status)'
  <2>1. PICK s : s = status /\ s = status'
    OBVIOUS
  <2>2. Earned(s)'
    BY <2>1, EarnedStays DEF RecordEarned
  <2> QED BY <2>1, <2>2 DEF Earned, Backed
<1>2. (lastFailed # None => Earned(lastFailed))'
  <2>1. PICK s : s = lastFailed /\ s = lastFailed'
    OBVIOUS
  <2>2. s # None => Earned(s)'
    BY <2>1, EarnedStays DEF RecordEarned
  <2> QED BY <2>1, <2>2 DEF Earned, Backed
<1>3. Truthful(release)'
  BY DEF RecordEarned, Grows, Truthful
<1> QED BY <1>1, <1>2, <1>3 DEF RecordEarned

LEMMA ProceedGrowing ==
  ASSUME WorldInv, NEW a \in Callers, Grows,
         pc[a] \in Claimed, pc'[a] \in Claimed \ {"claim", "act"},
         seen'[a] = seen[a], target'[a] = target[a], got'[a].release = got[a].release
  PROVE  CarriesEarned(a)'
<1>1. CarriesEarned(a) /\ pc[a] \in InTransition
  BY DEF WorldInv, CallsEarned, InTransition, Claimed
<1>2. PICK s : s = seen[a].status /\ s = seen'[a].status
  OBVIOUS
<1>3. PICK t : t = target[a] /\ t = target'[a]
  OBVIOUS
<1>4. Earned(s)' /\ Earned(t)'
  BY <1>1, <1>2, <1>3, EarnedStays DEF CarriesEarned
<1>5. (Earned(seen[a].status))' /\ (Earned(target[a]))'
  BY <1>2, <1>3, <1>4 DEF Earned, Backed
<1>6. Truthful(got[a].release)'
  BY <1>1 DEF CarriesEarned, Truthful, Grows
<1> QED BY <1>1, <1>5, <1>6 DEF CarriesEarned

LEMMA WorldStepsOfACallerKeepWorldInv ==
  ASSUME WorldInv, TypeInv', NEW a \in Callers, OthersStay(a),
         SubmitBurn(a) \/ SubmitPayout(a) \/ RequestAttestation(a) \/ ActionThrows(a)
  PROVE  WorldInv'
<1>a. /\ CallsOK /\ CallsEarned /\ RecordEarned /\ CarriesEarned(a) /\ WorldTypeOK
      /\ attRef \in Txs
  BY DEF WorldInv, TypeInv, TypeOK, EngineTypeOK, CallsEarned
<1>1. CASE SubmitBurn(a)
  <2>1. /\ pc[a] = "act" /\ pc'[a] = "write" /\ seen'[a] = seen[a]
        /\ target'[a] = target[a] /\ got'[a].release = got[a].release
        /\ UNCHANGED <<status, lastFailed, release, attRef, surface, send>>
    BY <1>1, <1>a DEF SubmitBurn, Broadcast, Acting, CallsOK, Details, rowVars, sideVars
  <2>2. /\ burns \in Nat /\ burns' = burns + 1 /\ burns + 1 \in Burns
        /\ chain' = [chain EXCEPT ![burns + 1] = "pending"]
        /\ DOMAIN chain = Burns /\ chain[burns + 1] = "none"
    BY <1>1, <1>a, MaxBurnsAssumption
       DEF SubmitBurn, Broadcast, WorldTypeOK, Burns, RecordEarned
  <2>3. \A k \in Burns : chain[k] = "success" => chain'[k] = "success"
    BY <2>2
  <2>4. Grows
    BY <2>1, <2>3 DEF Grows, Mined
  <2>5. \A k \in Burns : k > burns' => chain'[k] = "none"
    BY <1>a, <2>2 DEF RecordEarned, Burns
  <2>6. RecordEarned'
    BY <1>a, <2>1, <2>4, <2>5, RecordStays DEF RecordEarned, PayoutBacked, Grows
  <2>7. CarriesEarned(a)'
    BY <2>1, <2>4, ProceedGrowing DEF Claimed
  <2> QED BY <1>a, <2>4, <2>6, <2>7, CallsEarnedStay DEF WorldInv
<1>2. CASE SubmitPayout(a)
  <2>1. /\ pc[a] = "act" /\ pc'[a] = "write" /\ seen'[a] = seen[a]
        /\ target'[a] = target[a] /\ got'[a] = got[a] /\ target[a] = PayoutSubmitted
        /\ UNCHANGED <<status, lastFailed, release, attRef, surface, chain, burns>>
        /\ send # "none" => send' = send
    BY <1>2, <1>a DEF SubmitPayout, SubmitSend, Acting, Goto, CallsOK, rowVars, sideVars
  <2>2. Grows
    BY <2>1 DEF Grows, Mined
  <2>3. surface = Confirmed /\ Mined(attRef)
    BY <1>a, <2>1 DEF CarriesEarned, Claimed, Earned, Backed, AfterRelease
  <2>4. RecordEarned'
    BY <1>a, <2>1, <2>2, <2>3, RecordStays DEF RecordEarned, PayoutBacked, Grows, Mined
  <2>5. CarriesEarned(a)'
    BY <2>1, <2>2, ProceedGrowing DEF Claimed
  <2> QED BY <1>a, <2>2, <2>4, <2>5, CallsEarnedStay DEF WorldInv
<1>3. CASE RequestAttestation(a)
  <2>1. /\ pc[a] = "act" /\ target[a] = AttestationRequested /\ attRef' = seen[a].tx
        /\ UNCHANGED <<status, lastFailed, release, worldVars>> /\ Return(a)
    BY <1>3 DEF RequestAttestation, Acting, rowVars
  <2>2. Mined(attRef)'
    BY <1>a, <2>1 DEF CarriesEarned, Mined, worldVars
  <2>3. Grows
    BY <2>1, <2>2 DEF Grows, worldVars
  <2>4. RecordEarned'
    BY <1>a, <2>1, <2>2, <2>3, RecordStays DEF RecordEarned, PayoutBacked, worldVars
  <2> QED BY <1>a, <2>1, <2>3, <2>4, ReturnCarries, CallsEarnedStay DEF WorldInv
<1>4. CASE ActionThrows(a)
  <2>1. /\ pc[a] \in {"act", "write"} /\ pc'[a] = "rollback" /\ seen'[a] = seen[a]
        /\ target'[a] = target[a] /\ got'[a] = got[a]
        /\ UNCHANGED <<status, lastFailed, release, worldVars>>
    BY <1>4, <1>a DEF ActionThrows, CanThrow, Goto, Acting, CallsOK, rowVars
  <2>2. \/ attRef' = attRef
        \/ pc[a] = "act" /\ target[a] = AttestationRequested /\ attRef' = seen[a].tx
    BY <1>4 DEF ActionThrows, ThrowsWithRefs
  <2>3. (attRef' # NoTx => Mined(attRef)') /\ (Mined(attRef) => Mined(attRef)')
    BY <1>a, <2>1, <2>2 DEF RecordEarned, CarriesEarned, Mined, worldVars
  <2>4. Grows
    BY <2>1, <2>3 DEF Grows, worldVars
  <2>5. RecordEarned'
    BY <1>a, <2>1, <2>3, <2>4, RecordStays DEF RecordEarned, PayoutBacked, worldVars
  <2>6. CarriesEarned(a)'
    BY <2>1, <2>4, ProceedGrowing DEF Claimed
  <2> QED BY <1>a, <2>4, <2>5, <2>6, CallsEarnedStay DEF WorldInv
<1> QED BY <1>1, <1>2, <1>3, <1>4

LEMMA WorldMovesGrow ==
  ASSUME WorldInv, WorldMoves, UNCHANGED attRef
  PROVE  Grows /\ \A k \in Burns : k > burns' => chain'[k] = "none"
<1>a. WorldTypeOK /\ RecordEarned
  BY DEF WorldInv, TypeInv, TypeOK, EngineTypeOK
<1>1. CASE \E k \in Burns : MineBurn(k)
  <2>1. PICK j \in Burns : MineBurn(j)
    BY <1>1
  <2>2. /\ \A k \in Burns : k # j => chain'[k] = chain[k]
        /\ chain[j] = "pending" /\ UNCHANGED <<burns, surface, send>>
    BY <1>a, <2>1 DEF MineBurn, WorldTypeOK
  <2>3. \A k \in Burns : chain[k] # "pending" => chain'[k] = chain[k]
    BY <2>2
  <2> QED BY <1>a, <2>2, <2>3 DEF Grows, Mined, RecordEarned
<1>2. CASE SettleRelease
  BY <1>2, <1>a DEF SettleRelease, Grows, Mined, RecordEarned,
     Unobserved, Pending, Confirmed, Rejected
<1>3. CASE FinishSend
  BY <1>3, <1>a DEF FinishSend, Grows, Mined, RecordEarned
<1> QED BY <1>1, <1>2, <1>3 DEF WorldMoves

LEMMA QuietStepKeepsWorldInv ==
  ASSUME WorldInv, TypeInv', Grows, UNCHANGED callVars,
         UNCHANGED <<status, lastFailed, release, attRef>>, PayoutBacked',
         \A k \in Burns : k > burns' => chain'[k] = "none"
  PROVE  WorldInv'
<1>1. RecordEarned'
  BY RecordStays DEF WorldInv, RecordEarned, Grows
<1>2. CallsEarned'
  <2>1. ASSUME NEW a \in Callers PROVE CarriesEarned(a)'
    <3>1. CarriesEarned(a)
      BY DEF WorldInv, CallsEarned
    <3>2. UNCHANGED <<pc[a], seen[a], target[a], got[a]>>
      BY DEF callVars
    <3>3. PICK s : s = seen[a].status /\ s = seen'[a].status
      BY <3>2
    <3>4. PICK t : t = target[a] /\ t = target'[a]
      BY <3>2
    <3>5. (Earned(s) => Earned(s)') /\ (Earned(t) => Earned(t)')
      BY EarnedStays
    <3>6. /\ Earned(seen[a].status) => (Earned(seen[a].status))'
          /\ Earned(target[a]) => (Earned(target[a]))'
      BY <3>3, <3>4, <3>5 DEF Earned, Backed
    <3>7. /\ Mined(seen[a].tx) => (Mined(seen[a].tx))'
          /\ Truthful(got[a].release) => Truthful(got[a].release)'
      BY <3>2 DEF Mined, Truthful, Grows
    <3> QED BY <3>1, <3>2, <3>6, <3>7 DEF CarriesEarned
  <2> QED BY <2>1 DEF CallsEarned
<1> QED BY <1>1, <1>2 DEF WorldInv

----------------------------------------------------------------------------
(* Every step, and the theorems.                                           *)

LEMMA InitWorldInv == Init => WorldInv
<1> SUFFICES ASSUME Init PROVE WorldInv
  OBVIOUS
<1>1. CallsEarned
  BY DEF Init, EngineInit, CallsEarned, CarriesEarned, InTransition, Claimed, Truthful,
     NoDetails, NoRelease, Confirmed, Rejected, Pending
<1>2. Earned(status)
  BY NothingToEarn DEF Init, EngineInit, BeforeBurn
<1>3. RecordEarned
  BY <1>2 DEF Init, EngineInit, WorldInit, RecordEarned, Truthful, PayoutBacked,
     NoRelease, Confirmed, Rejected, Pending
<1> QED BY <1>1, <1>3, InitTypeInv DEF WorldInv

LEMMA NextKeepsWorldInv == WorldInv /\ [Next]_vars => WorldInv'
<1> SUFFICES ASSUME WorldInv, [Next]_vars PROVE WorldInv'
  OBVIOUS
<1>a. TypeInv' /\ CallsOK
  BY NextKeepsTypeInv DEF WorldInv, TypeInv
<1>1. ASSUME NEW a \in Callers, MovesOf(a)
      PROVE  WorldInv'
  <2>1. OthersStay(a)
    BY <1>1, <1>a, OtherCallsStay
  <2>2. CASE EngineStep(a)
    BY <1>a, <2>1, <2>2, GuardAndClaimKeepWorldInv, ActionsOnTheRowKeepWorldInv,
       WorldStepsOfACallerKeepWorldInv DEF EngineStep
  <2>3. CASE ~EngineStep(a)
    BY <1>1, <1>a, <2>1, <2>3, ServiceKeepsWorldInv DEF MovesOf, CallerMoves
  <2> QED BY <2>2, <2>3
<1>2. CASE WorldMoves /\ UNCHANGED engineVars
  <2>1. /\ Grows /\ \A k \in Burns : k > burns' => chain'[k] = "none"
        /\ UNCHANGED callVars /\ UNCHANGED <<status, lastFailed, release, attRef>>
    BY <1>2, WorldMovesGrow DEF engineVars, rowVars, sideVars
  <2>2. PayoutBacked'
    BY <1>2, <2>1 DEF WorldInv, RecordEarned, PayoutBacked, Grows, WorldMoves, MineBurn,
         SettleRelease, FinishSend, Confirmed, Pending, Unobserved
  <2> QED BY <1>a, <2>1, <2>2, QuietStepKeepsWorldInv
<1>3. CASE Tick \/ UNCHANGED vars
  <2>1. UNCHANGED <<worldVars, status, lastFailed, release, attRef, callVars>>
    BY <1>3 DEF Tick, vars, engineVars, rowVars, sideVars
  <2>2. /\ Grows /\ UNCHANGED callVars
        /\ UNCHANGED <<status, lastFailed, release, attRef>>
    BY <2>1, StillWorldGrows
  <2>3. PayoutBacked' /\ \A k \in Burns : k > burns' => chain'[k] = "none"
    BY <2>1 DEF WorldInv, RecordEarned, PayoutBacked, Mined, worldVars
  <2> QED BY <1>a, <2>2, <2>3, QuietStepKeepsWorldInv
<1> QED BY <1>1, <1>2, <1>3 DEF Next, MovesOf

LEMMA WorldInvAlways == Spec => []WorldInv
BY InitWorldInv, NextKeepsWorldInv, PTL DEF Spec

(* Whatever brought the row to its state - a guard, a roll back, a retry   *)
(* from the audit log - the chain, the attestation, the release and the    *)
(* payout are as far as the state says (StateIsBacked).                    *)
THEOREM StateIsAlwaysBacked == Spec => []StateIsBacked
<1>1. WorldInv => StateIsBacked
  BY DEF WorldInv, RecordEarned, Earned, StateIsBacked
<1> QED BY <1>1, WorldInvAlways, PTL

(* Nothing is ever sent to the recipient before the external settlement    *)
(* confirmed the release of an attested, mined burn (PayoutBacked).        *)
THEOREM PayoutIsAlwaysBacked == Spec => []PayoutBacked
<1>1. WorldInv => PayoutBacked
  BY DEF WorldInv, RecordEarned
<1> QED BY <1>1, WorldInvAlways, PTL

(* The release_status on record is what the external process shows, though *)
(* a caller writes what it observed some time ago (ReleaseTruthful).       *)
THEOREM ReleaseIsNeverFabricated == Spec => []ReleaseTruthful
<1>1. WorldInv => ReleaseTruthful
  BY DEF WorldInv, RecordEarned, Truthful, ReleaseTruthful
<1> QED BY <1>1, WorldInvAlways, PTL

LEMMA SettlingStep == WorldInv /\ [Next]_vars => [SettlesForCause]_vars
<1> SUFFICES ASSUME WorldInv, Next, status # Settled, status' = Settled
             PROVE  \/ status = PayoutConfirmed /\ send = "completed"
                    \/ /\ status = ManualReview
                       /\ \E c \in Clients : /\ pc[c] = "claim" /\ target[c] = Settled
                                             /\ pc'[c] = "act"
  BY DEF SettlesForCause
<1>a. CallsOK /\ CallsEarned /\ Backed(status)
  BY DEF WorldInv, TypeInv, RecordEarned, Earned
<1>b. Settled \notin NonTerminal
  BY DEF NonTerminal, PipelineStates, BeforeBurn, Observing, Initiated, Preflight,
     BurnSubmitted, BurnConfirmed, AttestationRequested, AttestationConfirmed,
     ReleaseUnobserved, ReleaseObserved, ReleaseConfirmed, PayoutSubmitted,
     PayoutConfirmed, Settled, ManualReview
<1>1. PICK a \in Callers : ClaimWon(a) \/ Rollback(a) \/ ResetForRetry(a)
  BY StatusWriters
<1>2. CASE ClaimWon(a)
  <2>1. /\ pc[a] = "claim" /\ pc'[a] = "act" /\ target[a] = Settled
        /\ status = seen[a].status /\ <<status, Settled>> \in Edges
    BY <1>a, <1>2 DEF ClaimWon, ClaimMatches, Goto, CallsOK, HoldsEdge, InTransition
  <2>2. CarriesEarned(a)
    BY <1>a DEF CallsEarned
  <2>3. status = PayoutConfirmed \/ status = ManualReview
    BY <2>1, EdgeKinds, ForwardEdges
       DEF Initiated, Preflight, BurnSubmitted, BurnConfirmed, AttestationRequested,
           AttestationConfirmed, ReleaseUnobserved, ReleaseObserved, ReleaseConfirmed,
           PayoutSubmitted, PayoutConfirmed, Settled, Failed, Cancelled, ManualReview
  <2>4. status = PayoutConfirmed => send = "completed"
    BY <1>a DEF Backed
  <2>5. status = ManualReview => a \in Clients
    BY <2>1, <2>2 DEF CarriesEarned, InTransition
  <2> QED BY <2>1, <2>3, <2>4, <2>5
<1>3. CASE Rollback(a)
  <2>1. seen[a].status \in NonTerminal
    BY <1>a, <1>3, EdgeEnds DEF Rollback, CallsOK, HoldsEdge, InTransition
  <2> QED BY <1>3, <1>b, <2>1 DEF Rollback
<1>4. CASE ResetForRetry(a)
  BY <1>4, <1>a, <1>b DEF ResetForRetry, CallsOK, HoldsEdge
<1> QED BY <1>1, <1>2, <1>3, <1>4

(* A row becomes settled only from a completed payout or by a request that *)
(* claims it from manual review (SettledBacked).                           *)
THEOREM SettledForCause == Spec => SettledBacked
<1>1. WorldInv /\ [Next]_vars => [SettlesForCause]_vars
  BY SettlingStep
<1> QED BY <1>1, WorldInvAlways, PTL DEF Spec, SettledBacked

----------------------------------------------------------------------------
(* No caller is on its way to failed but from manual review or after the   *)
(* provider failed the payout; a webhook's row never matches the claim.    *)

FailingForCause(a) ==
  /\ /\ pc[a] \in {"guard", "claim", "unqueue"}
     /\ target[a] = Failed
     /\ seen[a].id = "row"
     => \/ seen[a].status = ManualReview
        \/ seen[a].status = PayoutSubmitted /\ send = "failed"
  /\ pc[a] = "scanned" => target[a] = PayoutConfirmed

FailInv == TypeInv /\ \A a \in Callers : FailingForCause(a)

(* What the caller that moves is on its way to afterwards.                 *)
LEMMA MoveFailsForCause ==
  ASSUME FailInv, Next, NEW a \in Callers, MovesOf(a)
  PROVE  FailingForCause(a)'
<1>a. CallsOK /\ FailingForCause(a) /\ (send = "failed" => send' = "failed")
  BY FailedSendStays DEF FailInv, TypeInv
<1>1. CASE pc'[a] \notin {"guard", "claim", "unqueue", "scanned"}
  BY <1>1 DEF FailingForCause
<1>2. CASE GuardAccepts(a) \/ Unqueue(a)
  BY <1>2, <1>a DEF GuardAccepts, Unqueue, Goto, CallsOK, FailingForCause
<1>3. CASE GuardEscalates(a) \/ RecoverCurrentRow(a)
  BY <1>3, <1>a DEF GuardEscalates, RecoverCurrentRow, Attempt, CallsOK, FailingForCause,
     Failed, ManualReview
<1>4. CASE AdvanceCurrentRow(a)
  <2>1. /\ seen'[a].status = status /\ target'[a] = NextOf[status]
        /\ status \in NonTerminal /\ pc'[a] = "guard"
    BY <1>4, <1>a DEF AdvanceCurrentRow, Attempt, CallsOK, CurrentRow
  <2> QED BY <2>1, OnlyManualReviewAdvancesToFailed DEF FailingForCause
<1>5. CASE WebhookFailed(a)
  <2>1. seen'[a].id = "ref" /\ pc'[a] = "guard"
    BY <1>5, <1>a DEF WebhookFailed, Attempt, CallsOK, NoRow
  <2> QED BY <2>1 DEF FailingForCause
<1>6. CASE \E resolution \in Terminal : BeginResolve(a, resolution)
  <2>1. seen'[a].status = ManualReview /\ pc'[a] = "unqueue"
    BY <1>6, <1>a DEF BeginResolve, CallsOK, CurrentRow
  <2> QED BY <2>1 DEF FailingForCause
<1>7. CASE ScanPayout(a)
  BY <1>7, <1>a DEF ScanPayout, CallsOK, FailingForCause
<1>8. CASE RouteConfirmed(a)
  BY <1>8, <1>a DEF RouteConfirmed, Goto, CallsOK, FailingForCause, PayoutConfirmed, Failed
<1>9. CASE RouteFailed(a)
  <2>1. /\ pc[a] = "scanned" /\ pc'[a] = "guard" /\ seen'[a] = seen[a]
        /\ send = "failed" /\ <<seen[a].status, PayoutConfirmed>> \in Edges
    BY <1>9, <1>a DEF RouteFailed, Attempt, CallsOK, HoldsEdge, InTransition,
         FailingForCause
  <2> QED BY <1>a, <2>1, OnlyPayoutSubmittedConfirms DEF FailingForCause
<1> QED
  <2>1. ASSUME EngineStep(a), pc'[a] \in {"guard", "claim", "unqueue", "scanned"}
        PROVE  GuardAccepts(a) \/ GuardEscalates(a)
    BY <1>a, <2>1 DEF EngineStep, GuardAccepts, GuardRejects, GuardEscalates, ClaimWon,
       ClaimLost, RunPreflightCheck, SubmitBurn, RequestAttestation, RecordConfirmation,
       BeginReleaseObservation, ObserveRelease, SubmitPayout, WriteRefs, MarkTerminal,
       MoveToManualReview, Persist, Audit, ActionThrows, Rollback, Finish, Goto, Return,
       CallsOK
  <2>2. ASSUME ServiceStep(a) \/ ServiceCall(a),
               pc'[a] \in {"guard", "claim", "unqueue", "scanned"}
        PROVE  \/ Unqueue(a) \/ RecoverCurrentRow(a) \/ AdvanceCurrentRow(a)
               \/ WebhookFailed(a)
               \/ \E resolution \in Terminal : BeginResolve(a, resolution)
    BY <1>a, <2>2 DEF ServiceStep, ServiceCall, NothingToDo, AdvanceListed, RecoverListed,
       ApiAdvance, ApiRecover, BeginRetry, LookupLastState, ResetForRetry,
       WebhookCompleted, Goto, Return, CallsOK
  <2>3. ASSUME \/ Crash(a) \/ PipelineSelect(a) \/ ReaperSelect(a) \/ LeaveScanned(a),
               pc'[a] \in {"guard", "claim", "unqueue", "scanned"}
        PROVE  FALSE
    BY <1>a, <2>3 DEF Crash, PipelineSelect, ReaperSelect, LeaveScanned, Goto, Return,
       CallsOK
  <2> QED BY <1>1, <1>2, <1>3, <1>4, <1>5, <1>6, <1>7, <1>8, <1>9, <2>1, <2>2, <2>3
          DEF MovesOf, CallerMoves, ReconcileStep, ReconcileScan, ReconcileEscalates

LEMMA NextKeepsFailInv == FailInv /\ [Next]_vars => FailInv'
<1> SUFFICES ASSUME FailInv, [Next]_vars PROVE FailInv'
  OBVIOUS
<1>a. TypeInv' /\ CallsOK
  BY NextKeepsTypeInv DEF FailInv, TypeInv
<1>1. ASSUME NEW a \in Callers, MovesOf(a), Next
      PROVE  FailInv'
  <2>1. OthersStay(a) /\ (send = "failed" => send' = "failed")
    BY <1>1, <1>a, OtherCallsStay, FailedSendStays
  <2>2. FailingForCause(a)'
    BY <1>1, MoveFailsForCause
  <2> QED BY <1>a, <2>1, <2>2 DEF FailInv, FailingForCause, OthersStay
<1>2. CASE Next /\ (Tick \/ (WorldMoves /\ UNCHANGED engineVars))
  <2>1. UNCHANGED callVars /\ (send = "failed" => send' = "failed")
    BY <1>2, FailedSendStays DEF Tick, engineVars
  <2> QED BY <1>a, <2>1 DEF FailInv, FailingForCause, callVars
<1>3. CASE UNCHANGED vars
  BY <1>a, <1>3 DEF FailInv, FailingForCause, vars, worldVars, engineVars, callVars
<1> QED BY <1>1, <1>2, <1>3 DEF Next, MovesOf

LEMMA FailingStep == FailInv /\ [Next]_vars => [FailsForCause]_vars
<1> SUFFICES ASSUME FailInv, Next, status # Failed, status' = Failed
             PROVE  status = ManualReview \/ (status = PayoutSubmitted /\ send = "failed")
  BY DEF FailsForCause
<1>a. CallsOK /\ Failed \notin NonTerminal
  BY DEF FailInv, TypeInv, NonTerminal, PipelineStates, BeforeBurn, Observing, Initiated,
     Preflight, BurnSubmitted, BurnConfirmed, AttestationRequested, AttestationConfirmed,
     ReleaseUnobserved, ReleaseObserved, ReleaseConfirmed, PayoutSubmitted,
     PayoutConfirmed, Failed, ManualReview
<1>1. PICK a \in Callers : ClaimWon(a) \/ Rollback(a) \/ ResetForRetry(a)
  BY StatusWriters
<1>2. CASE ClaimWon(a)
  <2>1. /\ pc[a] = "claim" /\ target[a] = Failed /\ seen[a].id = "row"
        /\ status = seen[a].status
    BY <1>2 DEF ClaimWon, ClaimMatches
  <2> QED BY <2>1 DEF FailInv, FailingForCause
<1>3. CASE Rollback(a)
  <2>1. seen[a].status \in NonTerminal
    BY <1>a, <1>3, EdgeEnds DEF Rollback, CallsOK, HoldsEdge, InTransition
  <2> QED BY <1>3, <1>a, <2>1 DEF Rollback
<1>4. CASE ResetForRetry(a)
  BY <1>4, <1>a DEF ResetForRetry, CallsOK, HoldsEdge
<1> QED BY <1>1, <1>2, <1>3, <1>4

(* Whatever a tick of reconciliation scanned and however late it acts, a   *)
(* row becomes failed only from manual review or when the provider failed  *)
(* the payout that was submitted (FailedBacked).                           *)
THEOREM FailedForCause == Spec => FailedBacked
<1>1. Init => FailInv
  BY InitTypeInv DEF FailInv, FailingForCause, Init, EngineInit
<1>2. Spec => []FailInv
  BY <1>1, NextKeepsFailInv, PTL DEF Spec
<1>3. FailInv /\ [Next]_vars => [FailsForCause]_vars
  BY FailingStep
<1> QED BY <1>2, <1>3, PTL DEF Spec, FailedBacked
=============================================================================
