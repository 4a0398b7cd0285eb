----------------------- MODULE IntakeAndRoutingProofs -----------------------
(***************************************************************************)
(* The two ends of a disbursement: its creation, and the payout leg over   *)
(* its providers.                                                          *)
(***************************************************************************)
EXTENDS Intake, PayoutRouting, TLAPS, FiniteSetTheorems

----------------------------------------------------------------------------
(* Creating disbursements, for any number of requests, workers and keys:   *)
(* the type invariant, that a row has one preflight at a time, and that    *)
(* Intake implements KeyedCreate.                                          *)

(* A request is answered when it ends, not before.                         *)
AnsweredAtTheEnd == \A r \in Requests : step[r] # "done" => reply[r] = NoReply

(* While a preflight is under way its row is not to be started.            *)
NotInitiatedMeanwhile ==
  \A k \in Keys \ again : Preflighting(k) # {} => row[k] \in {Preflight, Later}

IntakeTyped == IntakeTypeOK /\ AnsweredAtTheEnd
PreflightInv == NotInitiatedMeanwhile /\ OnePreflightAtATime
IntakeInv == IntakeTyped /\ PreflightInv

(* The statuses of a row are apart from one another, and the key of a      *)
(* request is a key.                                                       *)
LEMMA RowFacts ==
  /\ NoRecord \notin {Initiated, Preflight, Left, Later}
  /\ Initiated \notin {Preflight, Left, Later}
  /\ Preflight \notin {Left, Later} /\ Left # Later
  /\ \A r \in Requests : KeyOf[r] \in Keys
  BY IntakeAssumption DEF NoRecord, Initiated, Preflight, Left, Later

LEMMA IntakeInitInv == IntakeInit => IntakeInv
  <1> SUFFICES ASSUME IntakeInit PROVE IntakeInv
    OBVIOUS
  <1>1. IntakeTyped
    BY RowFacts, IntakeAssumption
    DEF IntakeInit, IntakeTyped, IntakeTypeOK, AnsweredAtTheEnd, NoReply, Refused
  <1>2. \A k \in Keys : Preflighting(k) = {}
    BY DEF IntakeInit, Preflighting
  <1> QED BY <1>1, <1>2
          DEF IntakeInv, PreflightInv, NotInitiatedMeanwhile, OnePreflightAtATime

----------------------------------------------------------------------------
(* Types: the steps of a request that leave the rows alone, those that do  *)
(* not, and the steps of the workers and of the row.                       *)

LEMMA QuietStepTyped ==
  ASSUME IntakeTyped, NEW r \in Requests,
         \/ Validate(r) \/ Lookup(r) \/ Announce(r) \/ Refetch(r)
         \/ RunPreflight(r) \/ Reply(r) \/ Crash(r)
  PROVE  IntakeTyped'
  <1>1. /\ step[r] \notin {"done"} /\ reply[r] = NoReply
    BY DEF IntakeTyped, AnsweredAtTheEnd, Validate, Lookup, Announce, Refetch,
           RunPreflight, Reply, Crash
  <1>2. UNCHANGED <<row, maker, workerAt, again>>
    BY DEF Validate, Lookup, Announce, Refetch, RunPreflight, Reply, Crash
  <1>3. CASE Validate(r)
    BY <1>1, <1>2, <1>3, RowFacts, IntakeAssumption
    DEF IntakeTyped, IntakeTypeOK, AnsweredAtTheEnd, Validate, Proceed, Finish,
        NoReply, Refused
  <1>4. CASE Lookup(r)
    BY <1>1, <1>2, <1>4, RowFacts, IntakeAssumption
    DEF IntakeTyped, IntakeTypeOK, AnsweredAtTheEnd, Lookup, Proceed, Finish,
        NoReply, Refused
  <1>5. CASE Announce(r)
    BY <1>1, <1>2, <1>5, RowFacts, IntakeAssumption
    DEF IntakeTyped, IntakeTypeOK, AnsweredAtTheEnd, Announce, Proceed,
        NoReply, Refused
  <1>6. CASE Refetch(r)
    BY <1>1, <1>2, <1>6, RowFacts, IntakeAssumption
    DEF IntakeTyped, IntakeTypeOK, AnsweredAtTheEnd, Refetch, Proceed,
        NoReply, Refused
  <1>7. CASE RunPreflight(r)
    BY <1>1, <1>2, <1>7, RowFacts, IntakeAssumption
    DEF IntakeTyped, IntakeTypeOK, AnsweredAtTheEnd, RunPreflight, Proceed,
        NoReply, Refused
  <1>8. CASE Reply(r)
    BY <1>1, <1>2, <1>8, RowFacts, IntakeAssumption
    DEF IntakeTyped, IntakeTypeOK, AnsweredAtTheEnd, Reply, Finish,
        NoReply, Refused
  <1>9. CASE Crash(r)
    BY <1>1, <1>2, <1>9, RowFacts, IntakeAssumption
    DEF IntakeTyped, IntakeTypeOK, AnsweredAtTheEnd, Crash, Finish,
        NoReply, Refused
  <1> QED BY <1>3, <1>4, <1>5, <1>6, <1>7, <1>8, <1>9

LEMMA InsertTyped ==
  ASSUME IntakeTyped, NEW r \in Requests, Insert(r)
  PROVE  IntakeTyped'
  <1>1. CASE row[KeyOf[r]] = NoRecord
    <2>1. /\ step' = [step EXCEPT ![r] = "announce"]
          /\ row' = [row EXCEPT ![KeyOf[r]] = Initiated]
          /\ maker' = [maker EXCEPT ![KeyOf[r]] = r]
          /\ step[r] = "insert" /\ KeyOf[r] \in Keys
          /\ UNCHANGED <<rate, announced, reply, workerAt, again>>
      BY <1>1, RowFacts DEF Insert, Proceed
    <2>2. AnsweredAtTheEnd'
      BY <2>1 DEF IntakeTyped, IntakeTypeOK, AnsweredAtTheEnd
    <2>3. \A k \in Keys : row'[k] = NoRecord <=> maker'[k] = NoMaker
      BY <2>1, RowFacts, IntakeAssumption DEF IntakeTyped, IntakeTypeOK
    <2>4. \A k \in Keys : row[k] # NoRecord => row'[k] # NoRecord
      BY <2>1, RowFacts DEF IntakeTyped, IntakeTypeOK
    <2>5. row'[KeyOf[r]] # NoRecord
      BY <2>1, RowFacts DEF IntakeTyped, IntakeTypeOK
    <2>6. \A q \in Requests :
            \/ reply'[q] \in Keys
            \/ step'[q] \in {"announce", "refetch", "start", "act", "undo", "answer"}
            => row'[KeyOf[q]] # NoRecord
      BY <2>1, <2>4, <2>5, RowFacts DEF IntakeTyped, IntakeTypeOK
    <2> QED BY <2>1, <2>2, <2>3, <2>4, <2>6 DEF IntakeTyped, IntakeTypeOK
  <1>2. CASE row[KeyOf[r]] # NoRecord
    BY <1>2, RowFacts, IntakeAssumption
    DEF IntakeTyped, IntakeTypeOK, AnsweredAtTheEnd, Insert, Finish,
        NoReply, Refused
  <1> QED BY <1>1, <1>2

LEMMA StartFirstTyped ==
  ASSUME IntakeTyped, NEW r \in Requests, StartFirst(r)
  PROVE  IntakeTyped'
  BY RowFacts, IntakeAssumption
  DEF IntakeTyped, IntakeTypeOK, AnsweredAtTheEnd, StartFirst, StartRow, Proceed

LEMMA UndoFirstTyped ==
  ASSUME IntakeTyped, NEW r \in Requests, UndoFirst(r)
  PROVE  IntakeTyped'
  BY RowFacts, IntakeAssumption
  DEF IntakeTyped, IntakeTypeOK, AnsweredAtTheEnd, UndoFirst, PutBack, Proceed

(* A step that only takes rows that are there from one status to another.  *)
LEMMA RowMoveTyped ==
  ASSUME IntakeTyped, NEW k \in Keys, row[k] # NoRecord,
         NEW s \in {Initiated, Preflight, Left, Later},
         row' = [row EXCEPT ![k] = s],
         UNCHANGED <<rate, maker, announced, step, reply>>,
         workerAt' \in [Workers -> [Keys -> {"idle", "act", "undo"}]],
         again' \subseteq Keys
  PROVE  IntakeTyped'
  BY RowFacts, IntakeAssumption DEF IntakeTyped, IntakeTypeOK, AnsweredAtTheEnd

LEMMA WorkerTyped ==
  ASSUME IntakeTyped, NEW w \in Workers, NEW k \in Keys,
         WorkerStep(w, k) \/ WorkerStops(w, k)
  PROVE  IntakeTyped'
  <1>1. /\ workerAt' \in [Workers -> [Keys -> {"idle", "act", "undo"}]]
        /\ again' \subseteq Keys
    BY DEF IntakeTyped, IntakeTypeOK, WorkerStep, WorkerStarts,
           WorkerRunsPreflight, WorkerUndoes, WorkerStops, WorkerTo
  <1>2. CASE WorkerStarts(w, k)
    BY <1>1, <1>2, RowFacts, RowMoveTyped DEF WorkerStarts, StartRow, WorkerTo
  <1>3. CASE WorkerUndoes(w, k) /\ row[k] = Preflight
    BY <1>1, <1>3, RowFacts, RowMoveTyped DEF WorkerUndoes, PutBack, WorkerTo
  <1>4. CASE row' = row /\ UNCHANGED <<rate, maker, announced, step, reply>>
    BY <1>1, <1>4 DEF IntakeTyped, IntakeTypeOK, AnsweredAtTheEnd
  <1>5. CASE WorkerUndoes(w, k) /\ row[k] # Preflight
    <2>1. row' = row
      BY <1>5 DEF WorkerUndoes, PutBack, IntakeTyped, IntakeTypeOK
    <2> QED BY <2>1, <1>4, <1>5 DEF WorkerUndoes, WorkerTo
  <1> QED BY <1>2, <1>3, <1>4, <1>5
          DEF WorkerStep, WorkerRunsPreflight, WorkerStops, WorkerTo

LEMMA RowStepTyped ==
  ASSUME IntakeTyped, NEW k \in Keys, MoveOn(k) \/ MoveBack(k) \/ RetryRow(k)
  PROVE  IntakeTyped'
  <1>1. /\ workerAt' \in [Workers -> [Keys -> {"idle", "act", "undo"}]]
        /\ again' \subseteq Keys
    BY DEF IntakeTyped, IntakeTypeOK, MoveOn, MoveBack, RetryRow, RowOnly
  <1>2. /\ row[k] # NoRecord /\ UNCHANGED <<rate, maker, announced, step, reply>>
        /\ \E s \in {Initiated, Preflight, Left, Later} :
             row' = [row EXCEPT ![k] = s]
    BY RowFacts DEF MoveOn, MoveBack, RetryRow, RowOnly
  <1> QED BY <1>1, <1>2, RowMoveTyped

----------------------------------------------------------------------------
(* Preflights, by what a step does to those who run one: it adds nobody,   *)
(* it starts one on a row that is initiated, or it ends one and puts the   *)
(* row back.                                                               *)

LEMMA NobodyEnters ==
  ASSUME PreflightInv, again \subseteq again',
         \A k \in Keys : Preflighting(k)' \subseteq Preflighting(k),
         \A k \in Keys \ again' :
           row[k] \in {Preflight, Later} => row'[k] \in {Preflight, Later}
  PROVE  PreflightInv'
  <1>1. NotInitiatedMeanwhile'
    BY DEF PreflightInv, NotInitiatedMeanwhile
  <1>2. OnePreflightAtATime'
    BY DEF PreflightInv, OnePreflightAtATime
  <1> QED BY <1>1, <1>2 DEF PreflightInv

LEMMA OneEnters ==
  ASSUME IntakeTyped, PreflightInv, NEW c, NEW k \in Keys, StartRow(k),
         UNCHANGED again,
         \A l \in Keys : Preflighting(l)' \subseteq
                           IF l = k THEN Preflighting(l) \cup {c}
                                    ELSE Preflighting(l)
  PROVE  PreflightInv'
  <1>1. k \notin again => Preflighting(k) = {}
    BY RowFacts DEF StartRow, PreflightInv, NotInitiatedMeanwhile
  <1>2. row'[k] = Preflight /\ \A l \in Keys \ {k} : row'[l] = row[l]
    BY DEF StartRow, IntakeTyped, IntakeTypeOK
  <1>3. NotInitiatedMeanwhile'
    BY <1>1, <1>2 DEF PreflightInv, NotInitiatedMeanwhile
  <1>4. OnePreflightAtATime'
    BY <1>1 DEF PreflightInv, OnePreflightAtATime
  <1> QED BY <1>3, <1>4 DEF PreflightInv

LEMMA OnePutsBack ==
  ASSUME IntakeTyped, PreflightInv, NEW k \in Keys, NEW c \in Preflighting(k),
         PutBack(k), UNCHANGED again,
         \A l \in Keys : Preflighting(l)' \subseteq Preflighting(l),
         c \notin Preflighting(k)'
  PROVE  PreflightInv'
  <1>1. k \notin again => Preflighting(k)' = {}
    BY DEF PreflightInv, OnePreflightAtATime
  <1>2. \A l \in Keys \ {k} : row'[l] = row[l]
    BY DEF PutBack, IntakeTyped, IntakeTypeOK
  <1>3. NotInitiatedMeanwhile'
    BY <1>1, <1>2 DEF PreflightInv, NotInitiatedMeanwhile
  <1>4. OnePreflightAtATime'
    BY DEF PreflightInv, OnePreflightAtATime
  <1> QED BY <1>3, <1>4 DEF PreflightInv

LEMMA RequestKeepsPreflights ==
  ASSUME IntakeInv, NEW r \in Requests, Validate(r) \/ RequestStep(r) \/ Crash(r)
  PROVE  PreflightInv'
  <1>1. IntakeTyped /\ PreflightInv /\ KeyOf[r] \in Keys
    BY RowFacts DEF IntakeInv
  <1>2. UNCHANGED <<workerAt, again>>
    BY DEF Validate, RequestStep, Lookup, Insert, Announce, Refetch, StartFirst,
           RunPreflight, UndoFirst, Reply, Crash
  <1>3. ASSUME NEW next, step' = [step EXCEPT ![r] = next],
               next \notin {"act", "undo"} \/ step[r] \in {"act", "undo"}
        PROVE  \A k \in Keys : Preflighting(k)' \subseteq Preflighting(k)
    BY <1>1, <1>2, <1>3 DEF Preflighting, IntakeTyped, IntakeTypeOK
  <1>4. CASE Validate(r) \/ Lookup(r) \/ Announce(r) \/ Refetch(r)
             \/ RunPreflight(r) \/ Reply(r) \/ Crash(r)
    <2>1. row' = row
      BY <1>4 DEF Validate, Lookup, Announce, Refetch, RunPreflight, Reply, Crash
    <2>2. \A k \in Keys : Preflighting(k)' \subseteq Preflighting(k)
      BY <1>3, <1>4
      DEF Validate, Lookup, Announce, Refetch, RunPreflight, Reply, Crash,
          Proceed, Finish
    <2> QED BY <1>1, <1>2, <2>1, <2>2, NobodyEnters
  <1>5. CASE Insert(r)
    <2>1. \A k \in Keys : Preflighting(k)' \subseteq Preflighting(k)
      BY <1>3, <1>5 DEF Insert, Proceed, Finish
    <2>2. \A k \in Keys : row[k] \in {Preflight, Later} => row'[k] = row[k]
      BY <1>1, <1>5, RowFacts DEF Insert, IntakeTyped, IntakeTypeOK
    <2> QED BY <1>1, <1>2, <2>1, <2>2, NobodyEnters
  <1>6. CASE StartFirst(r) /\ StartRow(KeyOf[r])
    <2>1. step' = [step EXCEPT ![r] = "act"]
      BY <1>6, RowFacts DEF StartFirst, StartRow, Proceed
    <2>2. \A l \in Keys : Preflighting(l)' \subseteq
                            IF l = KeyOf[r] THEN Preflighting(l) \cup {r}
                                            ELSE Preflighting(l)
      BY <1>1, <1>2, <2>1 DEF Preflighting, IntakeTyped, IntakeTypeOK
    <2> QED BY <1>1, <1>2, <1>6, <2>2, OneEnters
  <1>7. CASE StartFirst(r) /\ ~StartRow(KeyOf[r])
    <2>1. row' = row /\ \A k \in Keys : Preflighting(k)' \subseteq Preflighting(k)
      BY <1>3, <1>7 DEF StartFirst, Proceed
    <2> QED BY <1>1, <1>2, <2>1, NobodyEnters
  <1>8. CASE UndoFirst(r)
    <2>1. r \in Preflighting(KeyOf[r])
      BY <1>8 DEF UndoFirst, Preflighting
    <2>2. r \notin Preflighting(KeyOf[r])'
      BY <1>1, <1>8, IntakeAssumption
      DEF UndoFirst, Proceed, Preflighting, IntakeTyped, IntakeTypeOK
    <2>3. \A k \in Keys : Preflighting(k)' \subseteq Preflighting(k)
      BY <1>3, <1>8 DEF UndoFirst, Proceed
    <2> QED BY <1>1, <1>2, <1>8, <2>1, <2>2, <2>3, OnePutsBack DEF UndoFirst
  <1> QED BY <1>4, <1>5, <1>6, <1>7, <1>8 DEF RequestStep

LEMMA WorkerKeepsPreflights ==
  ASSUME IntakeInv, NEW w \in Workers, NEW k \in Keys,
         WorkerStep(w, k) \/ WorkerStops(w, k)
  PROVE  PreflightInv'
  <1>1. IntakeTyped /\ PreflightInv
    BY DEF IntakeInv
  <1>2. UNCHANGED <<step, again>>
    BY DEF WorkerStep, WorkerStarts, WorkerRunsPreflight, WorkerUndoes,
           WorkerStops, WorkerTo
  <1>3. ASSUME NEW next, workerAt' = [workerAt EXCEPT ![w][k] = next],
               next = "idle" \/ workerAt[w][k] # "idle"
        PROVE  \A l \in Keys : Preflighting(l)' \subseteq Preflighting(l)
    BY <1>1, <1>2, <1>3 DEF Preflighting, IntakeTyped, IntakeTypeOK
  <1>4. CASE WorkerRunsPreflight(w, k) \/ WorkerStops(w, k)
    <2>1. row' = row /\ \A l \in Keys : Preflighting(l)' \subseteq Preflighting(l)
      BY <1>3, <1>4 DEF WorkerRunsPreflight, WorkerStops, WorkerTo
    <2> QED BY <1>1, <1>2, <2>1, NobodyEnters
  <1>5. CASE WorkerStarts(w, k)
    <2>1. \A l \in Keys : Preflighting(l)' \subseteq
                            IF l = k THEN Preflighting(l) \cup {w}
                                     ELSE Preflighting(l)
      BY <1>1, <1>2, <1>5
      DEF Preflighting, WorkerStarts, WorkerTo, IntakeTyped, IntakeTypeOK
    <2> QED BY <1>1, <1>2, <1>5, <2>1, OneEnters DEF WorkerStarts
  <1>6. CASE WorkerUndoes(w, k)
    <2>1. w \in Preflighting(k)
      BY <1>6 DEF WorkerUndoes, Preflighting
    <2>2. w \notin Preflighting(k)'
      BY <1>1, <1>6, IntakeAssumption
      DEF WorkerUndoes, WorkerTo, Preflighting, IntakeTyped, IntakeTypeOK
    <2>3. \A l \in Keys : Preflighting(l)' \subseteq Preflighting(l)
      BY <1>3, <1>6 DEF WorkerUndoes, WorkerTo
    <2> QED BY <1>1, <1>2, <1>6, <2>1, <2>2, <2>3, OnePutsBack DEF WorkerUndoes
  <1> QED BY <1>4, <1>5, <1>6 DEF WorkerStep

LEMMA RowKeepsPreflights ==
  ASSUME IntakeInv, NEW k \in Keys, MoveOn(k) \/ MoveBack(k) \/ RetryRow(k)
  PROVE  PreflightInv'
  <1>1. IntakeTyped /\ PreflightInv
    BY DEF IntakeInv
  <1>2. again \subseteq again'
        /\ \A l \in Keys : Preflighting(l)' \subseteq Preflighting(l)
    BY DEF MoveOn, MoveBack, RetryRow, RowOnly, Preflighting
  <1>3. \A l \in Keys \ again' :
          row[l] \in {Preflight, Later} => row'[l] \in {Preflight, Later}
    BY <1>1, RowFacts DEF MoveOn, MoveBack, RetryRow, IntakeTyped, IntakeTypeOK
  <1> QED BY <1>1, <1>2, <1>3, NobodyEnters

----------------------------------------------------------------------------

LEMMA IntakeStepKeepsInv == IntakeInv /\ [IntakeNext]_intakeVars => IntakeInv'
  <1> SUFFICES ASSUME IntakeInv, [IntakeNext]_intakeVars PROVE IntakeInv'
    OBVIOUS
  <1>1. IntakeTyped
    BY DEF IntakeInv
  <1>2. ASSUME NEW r \in Requests, Validate(r) \/ RequestStep(r) \/ Crash(r)
        PROVE  IntakeInv'
    BY <1>1, <1>2, QuietStepTyped, InsertTyped, StartFirstTyped, UndoFirstTyped,
       RequestKeepsPreflights
    DEF RequestStep, IntakeInv
  <1>3. ASSUME NEW w \in Workers, NEW k \in Keys,
               WorkerStep(w, k) \/ WorkerStops(w, k)
        PROVE  IntakeInv'
    BY <1>1, <1>3, WorkerTyped, WorkerKeepsPreflights DEF IntakeInv
  <1>4. ASSUME NEW k \in Keys, MoveOn(k) \/ MoveBack(k) \/ RetryRow(k)
        PROVE  IntakeInv'
    BY <1>1, <1>4, RowStepTyped, RowKeepsPreflights DEF IntakeInv
  <1>5. CASE SeedRate \/ UNCHANGED intakeVars
    <2>1. UNCHANGED <<row, maker, announced, step, reply, workerAt, again>>
          /\ rate' \in BOOLEAN
      BY <1>1, <1>5 DEF SeedRate, intakeVars, IntakeTyped, IntakeTypeOK
    <2>2. IntakeTyped'
      BY <1>1, <2>1 DEF IntakeTyped, IntakeTypeOK, AnsweredAtTheEnd
    <2>3. \A k \in Keys : Preflighting(k)' = Preflighting(k)
      BY <2>1 DEF Preflighting
    <2> QED BY <2>1, <2>2, <2>3, NobodyEnters DEF IntakeInv
  <1> QED BY <1>2, <1>3, <1>4, <1>5 DEF IntakeNext

LEMMA IntakeInvariant == IntakeSpec => []IntakeInv
  BY IntakeInitInv, IntakeStepKeepsInv, PTL DEF IntakeSpec

(* A row has a maker, and a call is answered with a row that is there      *)
(* (initiateDisbursement).                                                 *)
THEOREM IntakeTypeCorrect == IntakeSpec => []IntakeTypeOK
  BY IntakeInvariant, PTL DEF IntakeInv, IntakeTyped

(* However many requests and workers try, and however often a preflight    *)
(* throws and its row is put back: no row has two preflights under way,    *)
(* but for rows that a retry put back (executeTransition).                 *)
THEOREM OnePreflightPerRow == IntakeSpec => []OnePreflightAtATime
  BY IntakeInvariant, PTL DEF IntakeInv, PreflightInv

----------------------------------------------------------------------------
(* The refinement.                                                         *)

AnsweredWithRow == {r \in Requests : reply[r] \notin {NoReply, Refused}}

LEMMA CreateInitially == IntakeInit => Create!CreateInit
  BY IntakeAssumption
  DEF IntakeInit, Create!CreateInit, NoMaker, Create!NoMaker, NoReply, Refused

(* A request that ends with its row is an Answer of KeyedCreate.           *)
LEMMA FinishAnswers ==
  ASSUME IntakeInv, NEW r \in Requests, step[r] # "done",
         Finish(r, KeyOf[r]), UNCHANGED maker, row[KeyOf[r]] # NoRecord
  PROVE  Create!Answer(r)
  <1>1. KeyOf[r] \in Keys /\ KeyOf[r] \notin {NoReply, Refused}
    BY IntakeAssumption, RowFacts
  <1>2. maker[KeyOf[r]] # NoMaker
    BY <1>1 DEF IntakeInv, IntakeTyped, IntakeTypeOK
  <1>3. AnsweredWithRow' = AnsweredWithRow \cup {r}
    BY <1>1 DEF AnsweredWithRow, Finish, IntakeInv, IntakeTyped, IntakeTypeOK
  <1> QED BY <1>2, <1>3 DEF Create!Answer, NoMaker, Create!NoMaker, AnsweredWithRow

(* One that ends with an error, or does not end, answers nobody.           *)
LEMMA NoAnswerYet ==
  ASSUME IntakeInv, NEW r \in Requests, step[r] # "done",
         Finish(r, Refused) \/ UNCHANGED reply
  PROVE  AnsweredWithRow' = AnsweredWithRow
  BY DEF AnsweredWithRow, Finish, IntakeInv, IntakeTyped, IntakeTypeOK,
         AnsweredAtTheEnd, NoReply, Refused

LEMMA CreateStepwise ==
  IntakeInv /\ [IntakeNext]_intakeVars => [Create!CreateNext]_Create!createVars
  <1> SUFFICES ASSUME IntakeInv, [IntakeNext]_intakeVars
               PROVE  \/ \E r \in Requests : Create!Make(r) \/ Create!Answer(r)
                      \/ UNCHANGED <<maker, AnsweredWithRow>>
    BY DEF Create!CreateNext, Create!createVars, AnsweredWithRow
  <1>1. ASSUME NEW r \in Requests, Lookup(r), row[KeyOf[r]] # NoRecord
        PROVE  Create!Answer(r)
    BY <1>1, FinishAnswers DEF Lookup
  <1>2. ASSUME NEW r \in Requests, Reply(r)
        PROVE  Create!Answer(r)
    <2>1. row[KeyOf[r]] # NoRecord
      BY <1>2 DEF Reply, IntakeInv, IntakeTyped, IntakeTypeOK
    <2> QED BY <1>2, <2>1, FinishAnswers DEF Reply
  <1>3. ASSUME NEW r \in Requests, Insert(r), row[KeyOf[r]] = NoRecord
        PROVE  Create!Make(r)
    <2>1. maker[KeyOf[r]] = NoMaker
      BY <1>3, RowFacts DEF IntakeInv, IntakeTyped, IntakeTypeOK
    <2>2. AnsweredWithRow' = AnsweredWithRow
      BY <1>3, NoAnswerYet DEF Insert, Proceed
    <2> QED BY <1>3, <2>1, <2>2
            DEF Insert, Create!Make, NoMaker, Create!NoMaker, AnsweredWithRow
  <1>4. ASSUME NEW r \in Requests,
               \/ Validate(r)
               \/ Lookup(r) /\ row[KeyOf[r]] = NoRecord
               \/ Insert(r) /\ row[KeyOf[r]] # NoRecord
               \/ Announce(r) \/ Refetch(r) \/ StartFirst(r)
               \/ RunPreflight(r) \/ UndoFirst(r) \/ Crash(r)
        PROVE  UNCHANGED <<maker, AnsweredWithRow>>
    <2>1. step[r] # "done" /\ UNCHANGED maker
          /\ (Finish(r, Refused) \/ UNCHANGED reply)
      BY <1>4 DEF Validate, Lookup, Insert, Announce, Refetch, StartFirst,
                  RunPreflight, UndoFirst, Crash, Proceed
    <2> QED BY <2>1, NoAnswerYet
  <1>5. ASSUME NEW w \in Workers, NEW k \in Keys,
               WorkerStep(w, k) \/ WorkerStops(w, k)
        PROVE  UNCHANGED <<maker, AnsweredWithRow>>
    BY <1>5 DEF WorkerStep, WorkerStarts, WorkerRunsPreflight, WorkerUndoes,
                WorkerStops, WorkerTo, AnsweredWithRow
  <1>6. ASSUME NEW k \in Keys, MoveOn(k) \/ MoveBack(k) \/ RetryRow(k)
        PROVE  UNCHANGED <<maker, AnsweredWithRow>>
    BY <1>6 DEF MoveOn, MoveBack, RetryRow, RowOnly, AnsweredWithRow
  <1>7. CASE SeedRate \/ UNCHANGED intakeVars
    BY <1>7 DEF SeedRate, intakeVars, AnsweredWithRow
  <1> QED BY <1>1, <1>2, <1>3, <1>4, <1>5, <1>6, <1>7 DEF IntakeNext, RequestStep

(* initiateDisbursement implements the keyed create, for any number of     *)
(* requests that repeat and race one another.                              *)
THEOREM IntakeImplementsKeyedCreate == IntakeSpec => ImplementsKeyedCreate
  BY CreateInitially, CreateStepwise, IntakeInvariant, PTL
  DEF IntakeSpec, ImplementsKeyedCreate, Create!CreateSpec

----------------------------------------------------------------------------
(* The payout leg, for any number of processes, settings, restarts and     *)
(* failing calls.                                                          *)

Sent == {v \in Providers : sends[v] # "none"}

InSubmit == {"send", "write", "undo"}

(* One call at a time is in the submission of the payout, and none while   *)
(* the row waits for one.                                                  *)
OneSubmits ==
  /\ \A p \in Processes : at[p] \in InSubmit => leg # ReleaseConfirmed
  /\ \A p, q \in Processes : at[p] \in InSubmit /\ at[q] \in InSubmit => p = q

(* Before a send, and after one that was lost, every send is a lost one.   *)
BeforeSend == leg = ReleaseConfirmed \/ \E p \in Processes : at[p] \in {"send", "undo"}
SendsAccountedFor ==
  /\ BeforeSend => Cardinality(Sent) <= lost
  /\ Cardinality(Sent) <= 1 + lost

(* A process runs under a setting that is on record.                       *)
SettingsUsed == \A p \in Processes : env[p] = Down \/ env[p] \in used

(* Whoever found the payout confirmed found a send that completed.         *)
Completed ==
  \E v \in Providers :
    sends[v] = "completed" /\ (used \subseteq Canonical => ref[v] # NoRef)
ConfirmersSawIt ==
  (leg = PayoutConfirmed \/ \E p \in Processes : at[p] \in {"claim", "confirm"})
    => Completed

RoutingInv ==
  /\ RoutingTypeOK /\ OneSubmits /\ SendsAccountedFor
  /\ SettingsUsed /\ RefNamesItsIssuer /\ ConfirmersSawIt

----------------------------------------------------------------------------
(* Names, adapters and counts.                                             *)

LEMMA LegStates ==
  /\ ReleaseConfirmed # PayoutSubmitted /\ ReleaseConfirmed # PayoutConfirmed
  /\ PayoutSubmitted # PayoutConfirmed
  BY DEF ReleaseConfirmed, PayoutSubmitted, PayoutConfirmed

(* The adapter of a setting that may serve the leg serves it.              *)
LEMMA ServingNames ==
  ASSUME NEW s, Serves(NameFor(s))
  PROVE  /\ NameFor(s) \in Providers /\ AdapterFor(s) \in Providers
         /\ s \in Canonical => NameFor(s) = AdapterFor(s)
  BY DEF Serves, NameFor, AdapterFor, Providers, Canonical

LEMMA RunningServes ==
  ASSUME RoutingTypeOK, NEW p \in Processes, at[p] # "idle" \/ env[p] # Down
  PROVE  env[p] # Down /\ Serves(NameFor(env[p]))
  BY DEF RoutingTypeOK

LEMMA SentIsFinite ==
  /\ IsFiniteSet(Sent) /\ Cardinality(Sent) \in Nat
  /\ IsFiniteSet(Sent') /\ Cardinality(Sent') \in Nat
  <1>1. IsFiniteSet(Providers)
    <2>1. Providers = ({} \cup {"yellowcard"}) \cup {"breet"}
      BY DEF Providers
    <2> QED BY <2>1, FS_EmptySet, FS_AddElement
  <1>2. Sent \subseteq Providers /\ Sent' \subseteq Providers
    BY DEF Sent
  <1> QED BY <1>1, <1>2, FS_Subset, FS_CardinalityType

(* A send adds one provider at most to those that were asked.              *)
LEMMA OneMoreSend ==
  ASSUME RoutingTypeOK, NEW p \in Processes, SendOf(p)
  PROVE  Cardinality(Sent') <= Cardinality(Sent) + 1
  <1>1. Sent' = Sent \/ Sent' = Sent \cup {AdapterFor(env[p])}
    BY DEF Sent, SendOf, RoutingTypeOK
  <1> QED BY <1>1, SentIsFinite, FS_AddElement

(* What a poll that confirms has seen.                                     *)
LEMMA PollSawIt ==
  ASSUME RoutingInv, NEW p \in Processes, env[p] # Down, PollConfirms(env[p])
  PROVE  Completed
  <1>1. Serves(NameFor(env[p])) /\ env[p] \in used
    BY RunningServes DEF RoutingInv, SettingsUsed
  <1>2. NameFor(env[p]) \in Providers /\ AdapterFor(env[p]) \in Providers
        /\ (env[p] \in Canonical => NameFor(env[p]) = AdapterFor(env[p]))
    BY <1>1, ServingNames
  <1>3. CASE ref[NameFor(env[p])] # NoRef
             /\ AnswersCompleted(AdapterFor(env[p]), ref[NameFor(env[p])])
    BY <1>1, <1>2, <1>3 DEF Completed, AnswersCompleted
  <1>4. CASE ref["yellowcard"] # NoRef
             /\ AnswersCompleted("yellowcard", ref["yellowcard"])
    BY <1>4 DEF Completed, AnswersCompleted, Providers
  <1> QED BY <1>3, <1>4 DEF PollConfirms

----------------------------------------------------------------------------

LEMMA RoutingInitInv == RoutingInit => RoutingInv
  <1> SUFFICES ASSUME RoutingInit PROVE RoutingInv
    OBVIOUS
  <1>1. Sent = {}
    BY DEF RoutingInit, Sent
  <1>2. Cardinality(Sent) = 0
    BY <1>1, FS_EmptySet
  <1>3. SendsAccountedFor
    BY <1>2 DEF RoutingInit, SendsAccountedFor
  <1> QED BY <1>3, LegStates, RoutingAssumption
          DEF RoutingInit, RoutingInv, RoutingTypeOK, OneSubmits, InSubmit,
              SettingsUsed, RefNamesItsIssuer, ConfirmersSawIt

(* A step that gives no id, sends nothing and loses nothing needs to keep  *)
(* the type and the single submission.                                     *)
LEMMA UnsentKeepsInv ==
  ASSUME RoutingInv, RoutingTypeOK', OneSubmits', SettingsUsed',
         sends' = sends, lost' = lost, ref' = ref, used \subseteq used',
         BeforeSend' => BeforeSend,
         leg' = PayoutConfirmed \/ (\E p \in Processes : at'[p] \in {"claim", "confirm"})
           => Completed
  PROVE  RoutingInv'
  <1>1. Sent' = Sent
    BY DEF Sent
  <1>2. SendsAccountedFor'
    BY <1>1 DEF RoutingInv, SendsAccountedFor
  <1>3. RefNamesItsIssuer'
    BY DEF RoutingInv, RefNamesItsIssuer
  <1>4. Completed => Completed'
    BY DEF Completed
  <1>5. ConfirmersSawIt'
    BY <1>4 DEF ConfirmersSawIt
  <1> QED BY <1>2, <1>3, <1>5 DEF RoutingInv

LEMMA BootKeepsInv ==
  ASSUME RoutingInv, NEW p \in Processes, NEW s \in Settings, Boot(p, s)
  PROVE  RoutingInv'
  <1>1. RoutingTypeOK'
    BY RoutingAssumption DEF RoutingInv, RoutingTypeOK, Boot, StepTo, legVars
  <1>2. OneSubmits' /\ SettingsUsed'
    BY DEF RoutingInv, RoutingTypeOK, OneSubmits, SettingsUsed, InSubmit, Boot,
           StepTo, legVars
  <1>3. BeforeSend' => BeforeSend
    BY DEF BeforeSend, Boot, StepTo, legVars, RoutingInv, RoutingTypeOK
  <1>4. leg' = PayoutConfirmed
          \/ (\E q \in Processes : at'[q] \in {"claim", "confirm"}) => Completed
    BY DEF RoutingInv, RoutingTypeOK, ConfirmersSawIt, Boot, StepTo, legVars
  <1> QED BY <1>1, <1>2, <1>3, <1>4, UnsentKeepsInv DEF Boot, legVars

LEMMA ClaimKeepsInv ==
  ASSUME RoutingInv, NEW p \in Processes, ClaimLeg(p)
  PROVE  RoutingInv'
  <1>1. RoutingTypeOK' /\ OneSubmits' /\ SettingsUsed'
    BY LegStates
    DEF RoutingInv, RoutingTypeOK, OneSubmits, SettingsUsed, InSubmit, ClaimLeg,
        Free, StepTo, processVars
  <1>2. BeforeSend
    BY DEF BeforeSend, ClaimLeg
  <1>3. leg' = PayoutConfirmed
          \/ (\E q \in Processes : at'[q] \in {"claim", "confirm"}) => Completed
    BY LegStates
    DEF RoutingInv, RoutingTypeOK, ConfirmersSawIt, ClaimLeg, StepTo
  <1> QED BY <1>1, <1>2, <1>3, UnsentKeepsInv DEF ClaimLeg, processVars

LEMMA PollKeepsInv ==
  ASSUME RoutingInv, NEW p \in Processes,
         PollLeg(p) \/ ClaimConfirmation(p) \/ ConfirmLegThrows(p) \/ UndoConfirm(p)
  PROVE  RoutingInv'
  <1>1. RoutingTypeOK' /\ OneSubmits' /\ SettingsUsed'
    <2>1. CASE PollLeg(p)
      BY <2>1 DEF RoutingInv, RoutingTypeOK, OneSubmits, SettingsUsed, InSubmit,
                  PollLeg, Free, StepTo, processVars, legVars
    <2>2. CASE ClaimConfirmation(p)
      BY <2>2, LegStates
      DEF RoutingInv, RoutingTypeOK, OneSubmits, SettingsUsed, InSubmit,
          ClaimConfirmation, StepTo, processVars
    <2>3. CASE ConfirmLegThrows(p)
      BY <2>3, RoutingAssumption
      DEF RoutingInv, RoutingTypeOK, OneSubmits, SettingsUsed, InSubmit,
          ConfirmLegThrows, LegFault, StepTo, processVars, legVars
    <2>4. CASE UndoConfirm(p)
      BY <2>4, LegStates
      DEF RoutingInv, RoutingTypeOK, OneSubmits, SettingsUsed, InSubmit,
          UndoConfirm, StepTo, processVars
    <2> QED BY <2>1, <2>2, <2>3, <2>4
  <1>2. sends' = sends /\ lost' = lost /\ ref' = ref /\ used' = used
    BY DEF PollLeg, ClaimConfirmation, ConfirmLegThrows, UndoConfirm, legVars,
           processVars
  <1>3. BeforeSend' => BeforeSend
    BY LegStates
    DEF BeforeSend, PollLeg, ClaimConfirmation, ConfirmLegThrows, UndoConfirm,
        StepTo, legVars, RoutingInv, RoutingTypeOK
  <1>4. CASE PollLeg(p)
    BY <1>1, <1>2, <1>3, <1>4, PollSawIt, UnsentKeepsInv DEF PollLeg, Free
  <1>5. CASE ~PollLeg(p)
    <2>1. leg' = PayoutConfirmed
            \/ (\E q \in Processes : at'[q] \in {"claim", "confirm"}) => Completed
      BY <1>5, LegStates
      DEF RoutingInv, RoutingTypeOK, ConfirmersSawIt, ClaimConfirmation,
          ConfirmLegThrows, UndoConfirm, StepTo, legVars
    <2> QED BY <1>1, <1>2, <1>3, <2>1, UnsentKeepsInv
  <1> QED BY <1>4, <1>5

LEMMA UndoKeepsInv ==
  ASSUME RoutingInv, NEW p \in Processes, UndoLeg(p)
  PROVE  RoutingInv'
  <1>1. RoutingTypeOK' /\ OneSubmits' /\ SettingsUsed'
    BY LegStates
    DEF RoutingInv, RoutingTypeOK, OneSubmits, SettingsUsed, InSubmit, UndoLeg,
        StepTo, processVars
  <1>2. BeforeSend
    BY DEF BeforeSend, UndoLeg
  <1>3. leg' = PayoutConfirmed
          \/ (\E q \in Processes : at'[q] \in {"claim", "confirm"}) => Completed
    BY LegStates
    DEF RoutingInv, RoutingTypeOK, ConfirmersSawIt, UndoLeg, StepTo
  <1> QED BY <1>1, <1>2, <1>3, UnsentKeepsInv DEF UndoLeg, processVars

----------------------------------------------------------------------------
(* The steps that send, keep an id, or lose a call.                        *)

LEMMA SendKeepsInv ==
  ASSUME RoutingInv, NEW p \in Processes, SendLeg(p) \/ SendLegThrows(p)
  PROVE  RoutingInv'
  <1>1. AdapterFor(env[p]) \in Providers /\ at[p] = "send"
    BY RunningServes, ServingNames DEF RoutingInv, SendLeg, SendLegThrows
  <1>2. leg' = leg /\ ref' = ref /\ env' = env /\ used' = used /\ boots' = boots
    BY DEF SendLeg, SendLegThrows, processVars
  <1>3. RoutingTypeOK' /\ OneSubmits' /\ SettingsUsed'
    BY <1>1, <1>2, RoutingAssumption
    DEF RoutingInv, RoutingTypeOK, OneSubmits, SettingsUsed, InSubmit, SendLeg,
        SendLegThrows, SendOf, LegFault, StepTo
  <1>4. Cardinality(Sent) <= lost
    BY <1>1 DEF RoutingInv, SendsAccountedFor, BeforeSend
  <1>5. SendsAccountedFor'
    <2>1. CASE SendLeg(p)
      <3>1. ~BeforeSend'
        BY <2>1, <1>1, <1>2
        DEF BeforeSend, SendLeg, StepTo, RoutingInv, RoutingTypeOK, OneSubmits,
            InSubmit
      <3> QED BY <2>1, <3>1, <1>4, OneMoreSend, SentIsFinite
              DEF SendsAccountedFor, SendLeg, RoutingInv, RoutingTypeOK
    <2>2. CASE SendLegThrows(p) /\ sends' = sends /\ lost' = lost
      BY <2>2, <1>4, SentIsFinite DEF SendsAccountedFor, Sent, RoutingInv, RoutingTypeOK
    <2>3. CASE SendLegThrows(p) /\ SendOf(p) /\ lost' = lost + 1
      BY <2>3, <1>4, OneMoreSend, SentIsFinite
      DEF SendsAccountedFor, RoutingInv, RoutingTypeOK
    <2> QED BY <2>1, <2>2, <2>3 DEF SendLegThrows
  <1>6. RefNamesItsIssuer'
    BY <1>2 DEF RoutingInv, RefNamesItsIssuer
  <1>7. Completed => Completed'
    <2>1. \A v \in Providers : sends[v] = "completed" => sends'[v] = "completed"
      BY DEF SendLeg, SendLegThrows, SendOf, RoutingInv, RoutingTypeOK
    <2> QED BY <2>1, <1>2 DEF Completed
  <1>8. ConfirmersSawIt'
    BY <1>2, <1>7
    DEF RoutingInv, RoutingTypeOK, ConfirmersSawIt, SendLeg, SendLegThrows, StepTo
  <1> QED BY <1>3, <1>5, <1>6, <1>8 DEF RoutingInv

(* An id that is kept under the name of a running process.                 *)
LEMMA RecordedRef ==
  ASSUME RoutingInv, NEW p \in Processes, at[p] = "write", RecordRef(p), used' = used
  PROVE  /\ ref' \in [Providers -> {NoRef} \cup {Ref(v) : v \in Providers}]
         /\ RefNamesItsIssuer'
         /\ \A v \in Providers : ref[v] # NoRef => ref'[v] # NoRef
  <1>1. env[p] \in used /\ Serves(NameFor(env[p]))
    BY RunningServes DEF RoutingInv, SettingsUsed
  <1>2. NameFor(env[p]) \in Providers /\ AdapterFor(env[p]) \in Providers
        /\ (env[p] \in Canonical => NameFor(env[p]) = AdapterFor(env[p]))
    BY <1>1, ServingNames
  <1>3. Ref(AdapterFor(env[p])) # NoRef
    BY <1>2 DEF Ref, NoRef, Providers
  <1> QED BY <1>1, <1>2, <1>3
          DEF RecordRef, RoutingInv, RoutingTypeOK, RefNamesItsIssuer, Ref

LEMMA WriteKeepsInv ==
  ASSUME RoutingInv, NEW p \in Processes, WriteLegRef(p) \/ WriteLegRefThrows(p)
  PROVE  RoutingInv'
  <1>1. leg' = leg /\ sends' = sends /\ env' = env /\ used' = used /\ boots' = boots
        /\ at[p] = "write"
    BY DEF WriteLegRef, WriteLegRefThrows, processVars
  <1>2. /\ ref' \in [Providers -> {NoRef} \cup {Ref(v) : v \in Providers}]
        /\ RefNamesItsIssuer'
        /\ \A v \in Providers : ref[v] # NoRef => ref'[v] # NoRef
    <2>1. CASE RecordRef(p)
      BY <2>1, <1>1, RecordedRef
    <2>2. CASE ref' = ref
      BY <2>2, <1>1 DEF RoutingInv, RoutingTypeOK, RefNamesItsIssuer
    <2> QED BY <2>1, <2>2 DEF WriteLegRef, WriteLegRefThrows
  <1>3. RoutingTypeOK' /\ OneSubmits' /\ SettingsUsed'
    BY <1>1, <1>2, RoutingAssumption
    DEF RoutingInv, RoutingTypeOK, OneSubmits, SettingsUsed, InSubmit, WriteLegRef,
        WriteLegRefThrows, LegFault, StepTo
  <1>4. Sent' = Sent
    BY <1>1 DEF Sent
  <1>5. SendsAccountedFor'
    <2>1. CASE WriteLegRef(p)
      <3>1. BeforeSend' => BeforeSend
        BY <2>1, <1>1 DEF BeforeSend, WriteLegRef, StepTo, RoutingInv, RoutingTypeOK
      <3> QED BY <2>1, <3>1, <1>4 DEF SendsAccountedFor, WriteLegRef, RoutingInv
    <2>2. CASE WriteLegRefThrows(p)
      BY <2>2, <1>4, SentIsFinite
      DEF SendsAccountedFor, WriteLegRefThrows, RoutingInv, RoutingTypeOK
    <2> QED BY <2>1, <2>2
  <1>6. Completed => Completed'
    BY <1>1, <1>2 DEF Completed
  <1>7. ConfirmersSawIt'
    BY <1>1, <1>6
    DEF RoutingInv, RoutingTypeOK, ConfirmersSawIt, WriteLegRef, WriteLegRefThrows,
        StepTo
  <1> QED BY <1>2, <1>3, <1>5, <1>7 DEF RoutingInv

LEMMA ConfirmKeepsInv ==
  ASSUME RoutingInv, NEW p \in Processes, ConfirmLeg(p)
  PROVE  RoutingInv'
  <1> DEFINE name == NameFor(env[p])
  <1>1. leg' = leg /\ sends' = sends /\ env' = env /\ used' = used /\ lost' = lost
    BY DEF ConfirmLeg, processVars
  <1>2. env[p] \in used /\ name \in Providers /\ AdapterFor(env[p]) \in Providers
        /\ (env[p] \in Canonical => name = AdapterFor(env[p]))
    BY RunningServes, ServingNames DEF RoutingInv, SettingsUsed, ConfirmLeg
  <1>3. RefFor(name) \in {NoRef} \cup {Ref(v) : v \in Providers}
    BY <1>2 DEF RefFor, RoutingInv, RoutingTypeOK, Providers
  <1>4. RefFor(name) # NoRef /\ RefFor(name).issuer = AdapterFor(env[p])
    BY <1>2 DEF ConfirmLeg, NoRef, Providers
  <1>5. /\ ref' \in [Providers -> {NoRef} \cup {Ref(v) : v \in Providers}]
        /\ RefNamesItsIssuer'
        /\ \A v \in Providers : ref[v] # NoRef => ref'[v] # NoRef
    BY <1>1, <1>2, <1>3, <1>4
    DEF ConfirmLeg, RoutingInv, RoutingTypeOK, RefNamesItsIssuer
  <1>6. RoutingTypeOK' /\ OneSubmits' /\ SettingsUsed'
    BY <1>5
    DEF RoutingInv, RoutingTypeOK, OneSubmits, SettingsUsed, InSubmit, ConfirmLeg,
        StepTo, processVars
  <1>7. Sent' = Sent /\ (BeforeSend' => BeforeSend)
    BY <1>1 DEF Sent, BeforeSend, ConfirmLeg, StepTo, RoutingInv, RoutingTypeOK
  <1>8. SendsAccountedFor'
    BY <1>1, <1>7 DEF SendsAccountedFor, RoutingInv
  <1>9. Completed => Completed'
    BY <1>1, <1>5 DEF Completed
  <1>10. ConfirmersSawIt'
    BY <1>1, <1>9 DEF RoutingInv, RoutingTypeOK, ConfirmersSawIt, ConfirmLeg, StepTo
  <1> QED BY <1>5, <1>6, <1>8, <1>10 DEF RoutingInv

LEMMA FinishKeepsInv ==
  ASSUME RoutingInv, NEW v \in Providers, FinishLegSend(v)
  PROVE  RoutingInv'
  <1>1. leg' = leg /\ ref' = ref /\ env' = env /\ used' = used /\ at' = at
        /\ lost' = lost /\ boots' = boots /\ legFaults' = legFaults
    BY DEF FinishLegSend, processVars
  <1>2. RoutingTypeOK' /\ OneSubmits' /\ SettingsUsed' /\ RefNamesItsIssuer'
    BY <1>1
    DEF RoutingInv, RoutingTypeOK, OneSubmits, SettingsUsed, RefNamesItsIssuer,
        FinishLegSend
  <1>3. Sent' = Sent
    BY DEF Sent, FinishLegSend, RoutingInv, RoutingTypeOK
  <1>4. SendsAccountedFor'
    BY <1>1, <1>3 DEF SendsAccountedFor, BeforeSend, RoutingInv
  <1>5. \A u \in Providers : sends[u] = "completed" => sends'[u] = "completed"
    BY DEF FinishLegSend, RoutingInv, RoutingTypeOK
  <1>6. ConfirmersSawIt'
    BY <1>1, <1>5 DEF ConfirmersSawIt, Completed, RoutingInv
  <1> QED BY <1>2, <1>4, <1>6 DEF RoutingInv

----------------------------------------------------------------------------

LEMMA RoutingStepKeepsInv == RoutingInv /\ [RoutingNext]_routingVars => RoutingInv'
  <1> SUFFICES ASSUME RoutingInv, [RoutingNext]_routingVars PROVE RoutingInv'
    OBVIOUS
  <1>1. ASSUME NEW p \in Processes, LegStep(p) PROVE RoutingInv'
    BY <1>1, ClaimKeepsInv, SendKeepsInv, WriteKeepsInv, UndoKeepsInv, PollKeepsInv,
       ConfirmKeepsInv
    DEF LegStep
  <1>2. ASSUME NEW p \in Processes, NEW s \in Settings, Boot(p, s) PROVE RoutingInv'
    BY <1>2, BootKeepsInv
  <1>3. ASSUME NEW v \in Providers, FinishLegSend(v) PROVE RoutingInv'
    BY <1>3, FinishKeepsInv
  <1>4. CASE UNCHANGED routingVars
    BY <1>4
    DEF routingVars, legVars, processVars, RoutingInv, RoutingTypeOK, OneSubmits,
        SendsAccountedFor, BeforeSend, Sent, SettingsUsed, RefNamesItsIssuer,
        ConfirmersSawIt, Completed
  <1> QED BY <1>1, <1>2, <1>3, <1>4 DEF RoutingNext

LEMMA RoutingInvariant == RoutingSpec => []RoutingInv
  BY RoutingInitInv, RoutingStepKeepsInv, PTL DEF RoutingSpec

(* No process runs on a provider that cannot serve the payout leg          *)
(* (ensureInit, assertPayoutProviderCapable).                              *)
THEOREM RoutingTypeCorrect == RoutingSpec => []RoutingTypeOK
  BY RoutingInvariant, PTL DEF RoutingInv

(* However many processes run under whatever providers, each send beyond   *)
(* the first follows one whose call threw after it (submitPayout).         *)
THEOREM OnePayoutButForLosses == RoutingSpec => []PaidOnceButForLosses
  <1>1. RoutingInv => PaidOnceButForLosses
    BY DEF RoutingInv, SendsAccountedFor, Sent, PaidOnceButForLosses
  <1> QED BY <1>1, RoutingInvariant, PTL

(* An id under a provider's name is that provider's (getPayoutProvider,    *)
(* getPayoutAdapter).                                                      *)
THEOREM RefsNameTheirIssuer == RoutingSpec => []RefNamesItsIssuer
  BY RoutingInvariant, PTL DEF RoutingInv

(* A confirmed payout was completed by a provider whose id is on record    *)
(* (isPayoutConfirmed).                                                    *)
THEOREM ConfirmationIsBacked == RoutingSpec => []ConfirmedByIssuer
  <1>1. RoutingInv => ConfirmedByIssuer
    BY DEF RoutingInv, ConfirmersSawIt, Completed, ConfirmedByIssuer
  <1> QED BY <1>1, RoutingInvariant, PTL
=============================================================================
