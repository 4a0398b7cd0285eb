---------------------------- MODULE LifecycleSpec ----------------------------
(***************************************************************************)
(* What the state machine promises about the status column of one row,     *)
(* however many callers work on it at once:                                *)
(*                                                                         *)
(*   - the status moves forward only along an edge of the table, and the   *)
(*     caller that moved it is the only one to run the edge's action;      *)
(*   - it moves back only along an edge that some caller still holds, and  *)
(*     only by that caller;                                                *)
(*   - it is set to anything else only by a retry whose caller saw the row *)
(*     failed.                                                             *)
(*                                                                         *)
(* It does not promise that the row is still failed when the retry resets  *)
(* it: the reset carries no condition on the status.                       *)
(***************************************************************************)
EXTENDS Lifecycle

CONSTANT Callers

VARIABLES status,   \* disbursements.status
          held,     \* the edge each caller claimed and whose action it runs
          noticed   \* the callers that saw the row failed and mean to retry

vars == <<status, held, noticed>>

NoEdge == <<>>

TypeOK == /\ status \in States
          /\ held \in [Callers -> Edges \cup {NoEdge}]
          /\ noticed \subseteq Callers

Init == /\ status = Initiated
        /\ held = [a \in Callers |-> NoEdge]
        /\ noticed = {}

(* The compare-and-swap of executeTransition succeeds.                     *)
Claim(a) ==
  /\ <<status, status'>> \in Edges
  /\ held[a] = NoEdge
  /\ held' = [held EXCEPT ![a] = <<status, status'>>]
  /\ UNCHANGED noticed

(* The action of the edge is over, well or by a crash.                     *)
Release(a) ==
  /\ held[a] # NoEdge
  /\ held' = [held EXCEPT ![a] = NoEdge]
  /\ UNCHANGED <<status, noticed>>

(* The action threw: the claim is undone, unless the row has moved on.     *)
Undo(a) ==
  /\ held[a] # NoEdge
  /\ status' = IF status = held[a][2] THEN held[a][1] ELSE status
  /\ held' = [held EXCEPT ![a] = NoEdge]
  /\ UNCHANGED noticed

Notice(a) ==
  /\ status = Failed
  /\ noticed' = noticed \cup {a}
  /\ UNCHANGED <<status, held>>

Reset(a) ==
  /\ a \in noticed
  /\ status' \in NonTerminal
  /\ noticed' = noticed \ {a}
  /\ UNCHANGED held

Forget(a) ==
  /\ a \in noticed
  /\ noticed' = noticed \ {a}
  /\ UNCHANGED <<status, held>>

Next == \E a \in Callers :
          \/ Claim(a) \/ Release(a) \/ Undo(a)
          \/ Notice(a) \/ Reset(a) \/ Forget(a)

Spec == Init /\ [][Next]_vars
=============================================================================
