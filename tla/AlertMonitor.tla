---------------------------- MODULE AlertMonitor ----------------------------
(***************************************************************************)
(* The monitor job (monitorJob.js, alertDeduplicator.js): a run starts all *)
(* its checks at once; each holds a connection of the process's pool while *)
(* it asks for a second one to look up and to record every alert it        *)
(* raises; what the checks return is sent when all of them have settled.   *)
(*                                                                         *)
(* A query on a connection is one step.  What a check looks for is left    *)
(* open: any of its alert keys may be due.                                 *)
(***************************************************************************)
EXTENDS Integers, FiniteSets

CONSTANTS Monitors,       \* server processes, each with a pool of its own
          Checks,
          AlertKeys,
          KeysOf,         \* the alert keys each check may raise
          PoolSize,
          ConnectTimeout, \* waiting for a connection gives up: TRUE with the
                          \* pg driver, FALSE with the serverless one
          MaxMishaps      \* bound: failed queries, lost sends and crashes

ASSUME MonitorAssumption ==
  /\ IsFiniteSet(Monitors) /\ IsFiniteSet(Checks)
  /\ KeysOf \in [Checks -> SUBSET AlertKeys]
  /\ \A c, d \in Checks : c # d => KeysOf[c] \cap KeysOf[d] = {}
  /\ PoolSize \in Nat \ {0} /\ ConnectTimeout \in BOOLEAN /\ MaxMishaps \in Nat

VARIABLES
  due,      \* the keys whose condition holds
  recent,   \* rows of bos_alerts per key inside the dedup window
  told,     \* keys sent to people since their window last moved
  on,       \* monitors whose interval is set
  run,      \* of each monitor: "off", "checking" or "sending"
  checkAt,  \* where each check of a run is
  todo,     \* keys it has still to record, the first of them looked up
  raised,   \* keys it recorded
  outbox,   \* keys still to be sent, and the checks that failed
  mishaps

alertVars == <<due, recent, told>>
checkVars == <<checkAt, todo, raised>>
monitorVars == <<alertVars, on, run, checkVars, outbox, mishaps>>

Idle == [c \in Checks |-> "idle"]
Nothing == [c \in Checks |-> {}]

MonitorInit ==
  /\ due = {}
  /\ recent = [k \in AlertKeys |-> 0]
  /\ told = {}
  /\ on = {}
  /\ run = [m \in Monitors |-> "off"]
  /\ checkAt = [m \in Monitors |-> Idle]
  /\ todo = [m \in Monitors |-> Nothing]
  /\ raised = [m \in Monitors |-> Nothing]
  /\ outbox = [m \in Monitors |-> {}]
  /\ mishaps = 0

Mishap == mishaps < MaxMishaps /\ mishaps' = mishaps + 1

----------------------------------------------------------------------------
(* The pool.                                                               *)

Holding == {"query", "select", "insert"}
Waiting == {"connect", "select", "insert"}

Held(m) == Cardinality({c \in Checks : checkAt[m][c] \in Holding})

(* Slip: one connection more than the pool has.                            *)
OneToSpare(m) == Held(m) <= PoolSize

ConnectionFree(m) == Held(m) < PoolSize

(* Slip: whoever waits waits for good.                                     *)
WaitsForGood(m) == FALSE

(* Queries end long before the ten seconds are over, so a wait gives up    *)
(* only when every connection is held by a check that waits itself.        *)
GivesUp(m) ==
  /\ ConnectTimeout
  /\ ~ConnectionFree(m)
  /\ \A c \in Checks : checkAt[m][c] # "query"

----------------------------------------------------------------------------

CheckTo(m, c, next) == checkAt' = [checkAt EXCEPT ![m][c] = next]

(* start sets the interval; stop clears it, and the run goes on.           *)
Start(m) ==
  /\ m \notin on
  /\ on' = on \cup {m}
  /\ UNCHANGED <<alertVars, run, checkVars, outbox, mishaps>>

Stop(m) ==
  /\ m \in on
  /\ on' = on \ {m}
  /\ UNCHANGED <<alertVars, run, checkVars, outbox, mishaps>>

(* The interval is due; the running flag turns away a second run.          *)
StartRun(m) ==
  /\ m \in on /\ run[m] = "off"
  /\ run' = [run EXCEPT ![m] = "checking"]
  /\ checkAt' = [checkAt EXCEPT ![m] = [c \in Checks |-> "connect"]]
  /\ UNCHANGED <<alertVars, on, todo, raised, outbox, mishaps>>

Connect(m, c) ==
  /\ checkAt[m][c] = "connect"
  /\ ConnectionFree(m)
  /\ CheckTo(m, c, "query")
  /\ UNCHANGED <<alertVars, on, run, todo, raised, outbox, mishaps>>

AfterKeys(keys) == IF keys = {} THEN "done" ELSE "select"

Query(m, c) ==
  /\ checkAt[m][c] = "query"
  /\ LET keys == due \cap KeysOf[c]
     IN  /\ todo' = [todo EXCEPT ![m][c] = keys]
         /\ CheckTo(m, c, AfterKeys(keys))
  /\ UNCHANGED <<alertVars, on, run, raised, outbox, mishaps>>

NextKey(m, c) == CHOOSE k \in todo[m][c] : TRUE

(* Slip: nothing is suppressed.                                            *)
SuppressNothing(m, c) ==
  /\ checkAt[m][c] = "select"
  /\ ConnectionFree(m)
  /\ CheckTo(m, c, "insert")
  /\ UNCHANGED <<alertVars, on, run, todo, raised, outbox, mishaps>>

(* recordAlert's first half, on a second connection.                       *)
ShouldSuppress(m, c) ==
  /\ checkAt[m][c] = "select"
  /\ ConnectionFree(m)
  /\ IF recent[NextKey(m, c)] > 0
       THEN LET keys == todo[m][c] \ {NextKey(m, c)}
            IN  /\ todo' = [todo EXCEPT ![m][c] = keys]
                /\ CheckTo(m, c, AfterKeys(keys))
       ELSE CheckTo(m, c, "insert") /\ UNCHANGED todo
  /\ UNCHANGED <<alertVars, on, run, raised, outbox, mishaps>>

(* Slip: the alert is recorded but not returned to be sent.                *)
RecordSilently(m, c) ==
  /\ checkAt[m][c] = "insert"
  /\ ConnectionFree(m)
  /\ LET k    == NextKey(m, c)
         keys == todo[m][c] \ {k}
     IN  /\ recent' = [recent EXCEPT ![k] = @ + 1]
         /\ todo' = [todo EXCEPT ![m][c] = keys]
         /\ CheckTo(m, c, AfterKeys(keys))
  /\ UNCHANGED <<due, told, on, run, raised, outbox, mishaps>>

(* Its second half, on a third; the unique index on (alert_key,            *)
(* created_at) lets any two inserts of different instants pass.            *)
InsertAlert(m, c) ==
  /\ checkAt[m][c] = "insert"
  /\ ConnectionFree(m)
  /\ LET k    == NextKey(m, c)
         keys == todo[m][c] \ {k}
     IN  /\ recent' = [recent EXCEPT ![k] = @ + 1]
         /\ raised' = [raised EXCEPT ![m][c] = @ \cup {k}]
         /\ todo' = [todo EXCEPT ![m][c] = keys]
         /\ CheckTo(m, c, AfterKeys(keys))
  /\ UNCHANGED <<due, told, on, run, outbox, mishaps>>

(* Slip: the run waits for a check that threw.                             *)
ThrowUnsettled(m, c) ==
  /\ checkAt[m][c] \in Holding \cup Waiting
  /\ \/ Mishap
     \/ checkAt[m][c] \in Waiting /\ GivesUp(m) /\ UNCHANGED mishaps
  /\ CheckTo(m, c, "idle")
  /\ todo' = [todo EXCEPT ![m][c] = {}]
  /\ raised' = [raised EXCEPT ![m][c] = {}]
  /\ UNCHANGED <<alertVars, on, run, outbox>>

(* A check that throws gives its connection back and returns none of the   *)
(* alerts it recorded.                                                     *)
CheckThrows(m, c) ==
  /\ checkAt[m][c] \in Holding \cup Waiting
  /\ \/ Mishap
     \/ checkAt[m][c] \in Waiting /\ GivesUp(m) /\ UNCHANGED mishaps
  /\ CheckTo(m, c, "failed")
  /\ todo' = [todo EXCEPT ![m][c] = {}]
  /\ raised' = [raised EXCEPT ![m][c] = {}]
  /\ UNCHANGED <<alertVars, on, run, outbox>>

AllSettled(m) == \A c \in Checks : checkAt[m][c] \in {"done", "failed"}

(* Promise.allSettled.  A check that failed is an alert of its own, which  *)
(* is sent without being recorded.                                         *)
Collect(m) ==
  /\ run[m] = "checking"
  /\ AllSettled(m)
  /\ run' = [run EXCEPT ![m] = "sending"]
  /\ outbox' = [outbox EXCEPT ![m] =
                  (UNION {raised[m][c] : c \in Checks})
                    \cup {c \in Checks : checkAt[m][c] = "failed"}]
  /\ checkAt' = [checkAt EXCEPT ![m] = Idle]
  /\ raised' = [raised EXCEPT ![m] = Nothing]
  /\ UNCHANGED <<alertVars, on, todo, mishaps>>

(* The notifier logs its own failures: a lost send is not repeated.        *)
SendAlerts(m) ==
  /\ run[m] = "sending"
  /\ \E k \in outbox[m] :
       /\ outbox' = [outbox EXCEPT ![m] = @ \ {k}]
       /\ \/ told' = told \cup ({k} \cap AlertKeys) /\ UNCHANGED mishaps
          \/ Mishap /\ UNCHANGED told
  /\ UNCHANGED <<due, recent, on, run, checkVars>>

EndRun(m) ==
  /\ run[m] = "sending"
  /\ outbox[m] = {}
  /\ run' = [run EXCEPT ![m] = "off"]
  /\ UNCHANGED <<alertVars, on, checkVars, outbox, mishaps>>

(* The process dies.                                                       *)
Die(m) ==
  /\ m \in on
  /\ Mishap
  /\ on' = on \ {m}
  /\ run' = [run EXCEPT ![m] = "off"]
  /\ checkAt' = [checkAt EXCEPT ![m] = Idle]
  /\ todo' = [todo EXCEPT ![m] = Nothing]
  /\ raised' = [raised EXCEPT ![m] = Nothing]
  /\ outbox' = [outbox EXCEPT ![m] = {}]
  /\ UNCHANGED alertVars

----------------------------------------------------------------------------
(* The system that is watched, and the dedup window that moves on.         *)

Turn(k) ==
  /\ due' = IF k \in due THEN due \ {k} ELSE due \cup {k}
  /\ UNCHANGED <<recent, told, on, run, checkVars, outbox, mishaps>>

LeaveWindow(k) ==
  /\ recent[k] > 0
  /\ recent' = [recent EXCEPT ![k] = @ - 1]
  /\ told' = told \ {k}
  /\ UNCHANGED <<due, on, run, checkVars, outbox, mishaps>>

----------------------------------------------------------------------------

CheckStep(m, c) ==
  \/ Connect(m, c) \/ Query(m, c) \/ ShouldSuppress(m, c)
  \/ InsertAlert(m, c) \/ CheckThrows(m, c)

RunStep(m) == StartRun(m) \/ Collect(m) \/ SendAlerts(m) \/ EndRun(m)

MonitorNext ==
  \/ \E m \in Monitors :
       RunStep(m) \/ Start(m) \/ Stop(m) \/ Die(m) \/ \E c \in Checks : CheckStep(m, c)
  \/ \E k \in AlertKeys : Turn(k) \/ LeaveWindow(k)

MonitorSpec == MonitorInit /\ [][MonitorNext]_monitorVars

(* A set interval goes on, queries end, waits time out where they do, and  *)
(* the window moves on with the clock.                                     *)
MonitorFairness ==
  /\ \A m \in Monitors :
       /\ WF_monitorVars(RunStep(m))
       /\ \A c \in Checks : WF_monitorVars(CheckStep(m, c))
  /\ \A k \in AlertKeys : WF_monitorVars(LeaveWindow(k))

----------------------------------------------------------------------------

(* No more connections are held than there are.                            *)
MonitorTypeOK ==
  /\ \A m \in Monitors : Held(m) <= PoolSize
  /\ due \subseteq AlertKeys /\ told \subseteq AlertKeys
  /\ recent \in [AlertKeys -> Nat]
  /\ on \subseteq Monitors
  /\ run \in [Monitors -> {"off", "checking", "sending"}]
  /\ checkAt \in [Monitors -> [Checks -> {"idle", "connect", "query", "select",
                                          "insert", "done", "failed"}]]
  /\ todo \in [Monitors -> [Checks -> SUBSET AlertKeys]]
  /\ raised \in [Monitors -> [Checks -> SUBSET AlertKeys]]
  /\ outbox \in [Monitors -> SUBSET (AlertKeys \cup Checks)]
  /\ mishaps \in 0 .. MaxMishaps

(* Looking an alert up and recording it are separate statements, and still *)
(* no key has more alerts in its window than there are processes           *)
(* (recordAlert, and the running flag of runChecks).                       *)
NoAlertStorm == \A k \in AlertKeys : recent[k] <= Cardinality(Monitors)

Recording(m) == {c \in Checks : todo[m][c] # {}}

(* Checks that hold a connection while they wait for another never come to *)
(* a stand together while fewer of them have alerts to record than the     *)
(* pool has connections: one of them can go on, no wait timing out, or all *)
(* of them have settled (runChecks, createPool).                           *)
RunsMoveOn ==
  \A m \in Monitors :
    run[m] = "checking" /\ Cardinality(Recording(m)) < PoolSize =>
      \/ AllSettled(m)
      \/ \E c \in Checks : checkAt[m][c] = "query"
      \/ ConnectionFree(m) /\ \E c \in Checks : checkAt[m][c] \in Waiting

(* A run ends, also when its checks hold all the connections that they     *)
(* wait for (runChecks, createPool).                                       *)
RunsEnd == \A m \in Monitors : (run[m] # "off") ~> (run[m] = "off")

FewerThanPool == Cardinality({c \in Checks : due \cap KeysOf[c] # {}}) < PoolSize

(* While a monitor runs, what stays due is told to people, again in every  *)
(* window, whatever failed or crashed between recording an alert and       *)
(* sending it, and whichever other monitors start, record and stop, unless *)
(* so many checks raise alerts at once that the pool runs dry (runChecks). *)
DueIsTold ==
  \A m \in Monitors, k \in AlertKeys :
    <>[](m \in on /\ k \in due /\ FewerThanPool) => []<>(k \in told)
=============================================================================
