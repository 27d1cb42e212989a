------------------------------ MODULE TaskPool ------------------------------
(***************************************************************************)
(* What SAAC's worker pool promises the requests it accepts, and all that  *)
(* Session assumes of it: a request is either refused or accepted, and one *)
(* accepted is called back once.                                           *)
(***************************************************************************)
CONSTANTS Request

VARIABLES pending,  \* accepted, not called back
          called    \* called back

tpvars == <<pending, called>>

TPInit == pending = {} /\ called = {}

Submit(r) == /\ r \notin pending \union called
             /\ pending' = pending \union {r}
             /\ UNCHANGED called

CallBack(r) == /\ r \in pending
               /\ pending' = pending \ {r}
               /\ called' = called \union {r}

TPNext == \E r \in Request : Submit(r) \/ CallBack(r)

TPSpec == TPInit /\ [][TPNext]_tpvars
=============================================================================
