------------------------------- MODULE Intake -------------------------------
(***************************************************************************)
(* Creating disbursements (initiateDisbursement): requests, some of them   *)
(* repeats of one another, that run at the same time, against the unique   *)
(* key of the table and the pipeline worker, which may find a new row      *)
(* before its creator starts it.  A preflight that throws puts its row     *)
(* back, to be started again.  What becomes of a row that is taken on from *)
(* its first two states is only Left or Later, until a roll back or a      *)
(* retry puts it back.                                                     *)
(***************************************************************************)
EXTENDS Lifecycle, Integers, FiniteSets

CONSTANTS Requests,
          Keys,
          KeyOf,       \* deriveDisbursementIdempotencyKey: reference,
                       \* application, amount and account, not the bank code
          Complete,    \* requests with both bank details
          Workers      \* processes whose pipeline worker is on

NoRecord == "none"
NoMaker == "nobody"
NoReply == "none"
Refused == "error"
Left == "left"     \* taken on from disbursement_initiated by another claim
Later == "later"   \* taken on from preflight_check

ASSUME IntakeAssumption ==
  /\ KeyOf \in [Requests -> Keys]
  /\ Complete \subseteq Requests
  /\ NoMaker \notin Requests /\ {NoReply, Refused} \cap Keys = {}
  /\ Workers \cap Requests = {}

VARIABLES
  rate,       \* a valid USDCx/NGN rate is on file
  row,        \* status of the row of each key, NoRecord before its insert
  maker,      \* the request that made it
  announced,  \* keys with a disbursement_created event
  step,       \* where each request is
  reply,      \* what it was answered: a row's key, or an error
  workerAt,   \* where each worker's call on each row is
  again       \* history: rows that a retry put back

intakeVars == <<rate, row, maker, announced, step, reply, workerAt, again>>

IntakeInit ==
  /\ rate \in BOOLEAN
  /\ row = [k \in Keys |-> NoRecord]
  /\ maker = [k \in Keys |-> NoMaker]
  /\ announced = {}
  /\ step = [r \in Requests |-> "new"]
  /\ reply = [r \in Requests |-> NoReply]
  /\ workerAt = [w \in Workers |-> [k \in Keys |-> "idle"]]
  /\ again = {}

----------------------------------------------------------------------------

Proceed(r, next) == step' = [step EXCEPT ![r] = next] /\ UNCHANGED reply

Finish(r, answer) ==
  /\ step' = [step EXCEPT ![r] = "done"]
  /\ reply' = [reply EXCEPT ![r] = answer]

(* init seeds a default rate when a process starts on a table without one. *)
SeedRate ==
  /\ ~rate
  /\ rate' = TRUE
  /\ UNCHANGED <<row, maker, announced, step, reply, workerAt, again>>

(* Bank details and rate: fail closed.                                     *)
Validate(r) ==
  /\ step[r] = "new"
  /\ IF r \in Complete /\ rate THEN Proceed(r, "lookup")
                               ELSE Finish(r, Refused)
  /\ UNCHANGED <<rate, row, maker, announced, workerAt, again>>

(* SELECT by idempotency_key.                                              *)
Lookup(r) ==
  /\ step[r] = "lookup"
  /\ IF row[KeyOf[r]] # NoRecord THEN Finish(r, KeyOf[r])
                                 ELSE Proceed(r, "insert")
  /\ UNCHANGED <<rate, row, maker, announced, workerAt, again>>

(* Slip: no unique key on the table.                                       *)
InsertAnyway(r) ==
  /\ step[r] = "insert"
  /\ Proceed(r, "announce")
  /\ row' = [row EXCEPT ![KeyOf[r]] = Initiated]
  /\ maker' = [maker EXCEPT ![KeyOf[r]] = r]
  /\ UNCHANGED <<rate, announced, workerAt, again>>

(* UNIQUE (idempotency_key): the later insert throws.                      *)
Insert(r) ==
  /\ step[r] = "insert"
  /\ IF row[KeyOf[r]] = NoRecord
       THEN /\ Proceed(r, "announce")
            /\ row' = [row EXCEPT ![KeyOf[r]] = Initiated]
            /\ maker' = [maker EXCEPT ![KeyOf[r]] = r]
       ELSE Finish(r, Refused) /\ UNCHANGED <<row, maker>>
  /\ UNCHANGED <<rate, announced, workerAt, again>>

(* emitEvent logs its own failures.                                        *)
Announce(r) ==
  /\ step[r] = "announce"
  /\ announced' \in {announced, announced \cup {KeyOf[r]}}
  /\ Proceed(r, "refetch")
  /\ UNCHANGED <<rate, row, maker, workerAt, again>>

(* A row the worker has moved on has no transition to preflight_check, or  *)
(* the one it has does not match the row read here.                        *)
Refetch(r) ==
  /\ step[r] = "refetch"
  /\ Proceed(r, IF row[KeyOf[r]] = Initiated THEN "start" ELSE "answer")
  /\ UNCHANGED <<rate, row, maker, announced, workerAt, again>>

(* The claim of executeTransition, by the request or by the worker.        *)
StartRow(k) ==
  /\ row[k] = Initiated
  /\ row' = [row EXCEPT ![k] = Preflight]

(* Its roll back after an action that threw, if the claim still stands.    *)
PutBack(k) == row' = [row EXCEPT ![k] = IF @ = Preflight THEN Initiated ELSE @]

(* Slip: the claim without AND status = $2.                                *)
StartAnyway(r) ==
  /\ step[r] = "start"
  /\ row' = [row EXCEPT ![KeyOf[r]] = Preflight]
  /\ Proceed(r, "act")
  /\ UNCHANGED <<rate, maker, announced, workerAt, again>>

StartFirst(r) ==
  /\ step[r] = "start"
  /\ \/ StartRow(KeyOf[r]) /\ Proceed(r, "act")
     \/ row[KeyOf[r]] # Initiated /\ Proceed(r, "answer") /\ UNCHANGED row
  /\ UNCHANGED <<rate, maker, announced, workerAt, again>>

(* runPreflightCheck returns its verdict, or throws: an import, a gate's   *)
(* query or the insert of a gate row failed.                               *)
RunPreflight(r) ==
  /\ step[r] = "act"
  /\ \E next \in {"answer", "undo"} : Proceed(r, next)
  /\ UNCHANGED <<rate, row, maker, announced, workerAt, again>>

(* The creator's call is answered with the row all the same.               *)
UndoFirst(r) ==
  /\ step[r] = "undo"
  /\ PutBack(KeyOf[r])
  /\ Proceed(r, "answer")
  /\ UNCHANGED <<rate, maker, announced, workerAt, again>>

Reply(r) ==
  /\ step[r] = "answer"
  /\ Finish(r, KeyOf[r])
  /\ UNCHANGED <<rate, row, maker, announced, workerAt, again>>

(* A statement fails, or the process stops: the caller gets no row.        *)
Crash(r) ==
  /\ step[r] \notin {"new", "done"}
  /\ Finish(r, Refused)
  /\ UNCHANGED <<rate, row, maker, announced, workerAt, again>>

----------------------------------------------------------------------------
(* The pipeline workers.                                                   *)

WorkerTo(w, k, next) == /\ workerAt' = [workerAt EXCEPT ![w][k] = next]
                        /\ UNCHANGED <<rate, maker, announced, step, reply, again>>

(* Slip: the worker's scan leaves out rows nobody announced.               *)
WorkerStartsAnnounced(w, k) ==
  /\ k \in announced
  /\ workerAt[w][k] = "idle"
  /\ StartRow(k)
  /\ WorkerTo(w, k, "act")

(* Slip: the worker starts a key it has no row of.                         *)
WorkerInvents(w, k) ==
  /\ workerAt[w][k] = "idle"
  /\ row' = [row EXCEPT ![k] = Preflight]
  /\ WorkerTo(w, k, "act")

(* It scans disbursement_initiated like any other state.                   *)
WorkerStarts(w, k) ==
  /\ workerAt[w][k] = "idle"
  /\ StartRow(k)
  /\ WorkerTo(w, k, "act")

WorkerRunsPreflight(w, k) ==
  /\ workerAt[w][k] = "act"
  /\ \E next \in {"idle", "undo"} : WorkerTo(w, k, next)
  /\ UNCHANGED row

WorkerUndoes(w, k) ==
  /\ workerAt[w][k] = "undo"
  /\ PutBack(k)
  /\ WorkerTo(w, k, "idle")

(* A statement of the call fails, or the process stops.                    *)
WorkerStops(w, k) ==
  /\ workerAt[w][k] # "idle"
  /\ WorkerTo(w, k, "idle")
  /\ UNCHANGED row

----------------------------------------------------------------------------
(* The row's further life, which does not wait for the preflight: another  *)
(* claim takes it on, and puts it back where it was when its action        *)
(* throws; and a row that failed is retried.                               *)

RowOnly == UNCHANGED <<rate, maker, announced, step, reply, workerAt>>

MoveOn(k) ==
  /\ row[k] \in {Initiated, Preflight}
  /\ row' = [row EXCEPT ![k] = IF @ = Initiated THEN Left ELSE Later]
  /\ RowOnly /\ UNCHANGED again

MoveBack(k) ==
  /\ row[k] \in {Left, Later}
  /\ row' = [row EXCEPT ![k] = IF @ = Left THEN Initiated ELSE Preflight]
  /\ RowOnly /\ UNCHANGED again

RetryRow(k) ==
  /\ row[k] \in {Left, Later}
  /\ \E last \in {Initiated, Preflight} : row' = [row EXCEPT ![k] = last]
  /\ again' = again \cup {k}
  /\ RowOnly

----------------------------------------------------------------------------

RequestStep(r) ==
  \/ Lookup(r) \/ Insert(r) \/ Announce(r)
  \/ Refetch(r) \/ StartFirst(r) \/ RunPreflight(r) \/ UndoFirst(r) \/ Reply(r)

WorkerStep(w, k) ==
  WorkerStarts(w, k) \/ WorkerRunsPreflight(w, k) \/ WorkerUndoes(w, k)

IntakeNext ==
  \/ \E r \in Requests : Validate(r) \/ RequestStep(r) \/ Crash(r)
  \/ \E w \in Workers, k \in Keys : WorkerStep(w, k) \/ WorkerStops(w, k)
  \/ \E k \in Keys : MoveOn(k) \/ MoveBack(k) \/ RetryRow(k)
  \/ SeedRate

IntakeSpec == IntakeInit /\ [][IntakeNext]_intakeVars

(* A request that was received goes on to its end; a worker scans every    *)
(* row.                                                                    *)
IntakeFairness ==
  /\ \A r \in Requests : WF_intakeVars(RequestStep(r))
  /\ \A w \in Workers, k \in Keys : WF_intakeVars(WorkerStep(w, k))

----------------------------------------------------------------------------

(* A row has a maker, its event is not emitted before it is there, and so  *)
(* with the answers and the calls that are past its insert.                *)
IntakeTypeOK ==
  /\ rate \in BOOLEAN
  /\ row \in [Keys -> {NoRecord, Initiated, Preflight, Left, Later}]
  /\ maker \in [Keys -> Requests \cup {NoMaker}]
  /\ announced \subseteq Keys
  /\ step \in [Requests -> {"new", "lookup", "insert", "announce", "refetch",
                            "start", "act", "undo", "answer", "done"}]
  /\ reply \in [Requests -> Keys \cup {NoReply, Refused}]
  /\ workerAt \in [Workers -> [Keys -> {"idle", "act", "undo"}]]
  /\ again \subseteq Keys
  /\ \A k \in Keys : row[k] = NoRecord <=> maker[k] = NoMaker
  /\ \A k \in announced : row[k] # NoRecord
  /\ \A r \in Requests :
       \/ reply[r] \in Keys
       \/ step[r] \in {"announce", "refetch", "start", "act", "undo", "answer"}
       => row[KeyOf[r]] # NoRecord

(* Who runs the preflight of a row, or has it still to put back.           *)
Preflighting(k) ==
  {r \in Requests : KeyOf[r] = k /\ step[r] \in {"act", "undo"}}
    \cup {w \in Workers : workerAt[w][k] # "idle"}

(* However often a preflight throws and is started again, by its creator   *)
(* or by a worker, and whatever else moves the row on and back meanwhile:  *)
(* no row has two preflights under way, nor one that is started while      *)
(* another has still to put the row back, unless a retry put it back in    *)
(* between (executeTransition: claim and roll back).                       *)
OnePreflightAtATime ==
  \A k \in Keys \ again : \A c, d \in Preflighting(k) : c = d

Create == INSTANCE KeyedCreate
            WITH answered <- {r \in Requests : reply[r] \notin {NoReply, Refused}}

(* initiateDisbursement implements the keyed create: repeats and races     *)
(* never make a second row for a key, and no call is answered with a row   *)
(* that is not there.                                                      *)
ImplementsKeyedCreate == Create!CreateSpec

(* A row whose creator stopped before its first transition, or whose       *)
(* preflight threw, is started all the same, whether or not it was         *)
(* announced (initiateDisbursement, pipelineWorker's scan).                *)
NewRowsStart == \A k \in Keys : []<>(row[k] # Initiated)
=============================================================================
