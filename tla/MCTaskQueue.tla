----------------------------- MODULE MCTaskQueue -----------------------------
(* Three envelopes, three workers, capacity 2: refusals, several queued items *)
(* with several sleepers, and a close in the middle of all of them.           *)
EXTENDS TaskQueue, TLC
==============================================================================
