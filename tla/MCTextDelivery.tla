--------------------------- MODULE MCTextDelivery ---------------------------
(* TextDelivery on two dictations.                                         *)
EXTENDS TextDelivery

CONSTANTS d1, d2

(* d1 is first: the other behaviours are these with the names swapped.     *)
InOrder == worker[d2] # "idle" => worker[d1] # "idle"
(* The first text has landed, or will not, when the session of the second  *)
(* begins: its session is over by then, and a write of its that lands later*)
(* reads and changes nothing that the second session does.                 *)
Landed ==
    step[d2] \notin {"none", "queued"} =>
        \A way \in Way : <<d1, way>> \notin inflight
(* For the liveness run: whether the first text landed makes no difference *)
(* to the second session.                                                  *)
Settled ==
    worker[d2] # "idle" =>
        inserted[d1] = 0 /\ \A way \in Way : <<d1, way>> \notin inflight
=============================================================================
