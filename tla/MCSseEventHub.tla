---------------------------- MODULE MCSseEventHub ----------------------------
(* Small instances of SseEventHub: a client that reconnects over more         *)
(* connections than the hub admits subscribers, and more events than its      *)
(* buffers hold.                                                              *)
EXTENDS SseEventHub

CONSTANTS ann, c1, c2
==============================================================================
