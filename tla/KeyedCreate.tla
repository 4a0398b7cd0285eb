----------------------------- MODULE KeyedCreate -----------------------------
(***************************************************************************)
(* What creating a disbursement promises, however often and by however     *)
(* many calls a create is repeated: of the calls with one idempotency key  *)
(* one makes the row, for good, and a call is answered only with the row   *)
(* of its own key.                                                         *)
(***************************************************************************)
CONSTANTS Requests, Keys,
          KeyOf      \* idempotency key of each request

VARIABLES maker,     \* the request that made the row of each key, or Nobody
          answered   \* the requests answered with a row

createVars == <<maker, answered>>

NoMaker == "nobody"

CreateInit == maker = [k \in Keys |-> NoMaker] /\ answered = {}

Make(r) ==
  /\ maker[KeyOf[r]] = NoMaker
  /\ maker' = [maker EXCEPT ![KeyOf[r]] = r]
  /\ UNCHANGED answered

Answer(r) ==
  /\ maker[KeyOf[r]] # NoMaker
  /\ answered' = answered \cup {r}
  /\ UNCHANGED maker

CreateNext == \E r \in Requests : Make(r) \/ Answer(r)

CreateSpec == CreateInit /\ [][CreateNext]_createVars
=============================================================================
