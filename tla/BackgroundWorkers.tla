-------------------------- MODULE BackgroundWorkers --------------------------
(***************************************************************************)
(* The two loops that drive every disbursement: the pipeline worker and    *)
(* the stuck-state reaper.  Each first selects rows by status and          *)
(* heartbeat and only later, row by row, calls the service, which reads    *)
(* the row again.                                                          *)
(***************************************************************************)
EXTENDS DisbursementService

(* WHERE status = ANY(PIPELINE_STATES) AND last_heartbeat_at older than 5s *)
PipelineSelect(a) ==
  /\ a \in Workers /\ Idle(a)
  /\ status \in PipelineStates
  /\ age >= 1
  /\ Goto(a, "listed")
  /\ UNCHANGED <<worldVars, rowVars, sideVars, bookVars>>

(* WHERE status = $1 AND last_heartbeat_at older than twice the SLA.       *)
ReaperSelect(a) ==
  /\ a \in Reapers /\ Idle(a)
  /\ status \in SlaStates
  /\ age = 2
  /\ Goto(a, "listed")
  /\ UNCHANGED <<worldVars, rowVars, sideVars, bookVars>>

(* Time passes and the heartbeat grows old.                                *)
Tick ==
  /\ age < Oldest
  /\ age' = age + 1
  /\ UNCHANGED <<worldVars, status, retries, verdict, tx, release, sideVars,
                 callVars, bookVars>>
=============================================================================
