------------------------------ MODULE Delivery ------------------------------
(***************************************************************************)
(* The delivery marks of a stored message (store/mod.rs, enum Delivery):   *)
(* their ranks and the two ways a row's mark is written.                   *)
(***************************************************************************)
EXTENDS Naturals

Mark == {"queued", "sent", "relayed", "gateway", "failed", "delivered", "all"}

\* The rank each mark has.  [gw] sits above an RF echo and below giving up;
\* [no] sits below a real receipt.
Rank == [m \in Mark |-> CASE m = "queued"    -> 0
                          [] m = "sent"      -> 1
                          [] m = "relayed"   -> 2
                          [] m = "gateway"   -> 3
                          [] m = "failed"    -> 4
                          [] m = "delivered" -> 5
                          [] m = "all"       -> 6]

CanAdvance(cur, next) == Rank[next] >= Rank[cur]

\* advance_delivery writes only a different mark that is not behind.
\* Mutant: any other mark is written.
Overwrites(cur, next) == cur # next
Advances(cur, next) == CanAdvance(cur, next) /\ cur # next

\* set_delivery writes anything, except [tx] over [gw].
SetAllowed(cur, next) == ~(next = "sent" /\ cur = "gateway")

\* The marks under which a line still asks for its receipt.
Unanswered == {"queued", "sent", "relayed", "gateway"}

\* The marks retry_due and ack_wait_due look at.
Retried == {"sent", "relayed", "gateway", "delivered"}

\* The marks fail_outbound (the age limit, the operator's flush) turns to [no].
\* Mutant: a line that has its receipt fails with the rest.
FailableReceipted == {"queued", "sent", "relayed", "gateway", "delivered"}
Failable == {"queued", "sent", "relayed"}
=============================================================================
