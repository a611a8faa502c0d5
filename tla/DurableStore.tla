----------------------------- MODULE DurableStore -----------------------------
(***************************************************************************)
(* What the clients of a published store rely on, whatever the store does  *)
(* inside: a set of writes becomes durable in one step and never leaves;   *)
(* only durable writes are acknowledged; a write reported as refused or    *)
(* rolled back is not durable and never becomes so.                        *)
(***************************************************************************)
CONSTANT Write

VARIABLES
  committed,  \* writes in the published store
  confirmed,  \* writes acknowledged to a client
  denied      \* writes reported as refused or rolled back

dsVars == <<committed, confirmed, denied>>

DSInit == committed = {} /\ confirmed = {} /\ denied = {}

Commit(ws) ==
  /\ ws \subseteq Write \ (committed \cup denied)
  /\ committed' = committed \cup ws
  /\ UNCHANGED <<confirmed, denied>>

Confirm(ws) ==
  /\ ws \subseteq committed
  /\ confirmed' = confirmed \cup ws
  /\ UNCHANGED <<committed, denied>>

Deny(ws) ==
  /\ ws \subseteq Write \ committed
  /\ denied' = denied \cup ws
  /\ UNCHANGED <<committed, confirmed>>

DSNext == \E ws \in SUBSET Write : Commit(ws) \/ Confirm(ws) \/ Deny(ws)

DSSpec == DSInit /\ [][DSNext]_dsVars
===============================================================================
