---------------------------- MODULE MCAdvisoryQueue ----------------------------
(* AdvisoryQueue on a small instance: two deliveries of one and two tasks.  *)
EXTENDS AdvisoryQueue

CONSTANTS d1, d2

MCJobs == 1 .. 3
MCDeliveryOf == [j \in MCJobs |-> IF j = 2 THEN d1 ELSE d2]
=============================================================================
