-------------------------- MODULE MCElevatedWorker --------------------------
(* Small instances of ElevatedWorker.  One unit of time stands for the 30 s  *)
(* of HEARTBEAT_STALE_MS and of the envelope lifetime.                       *)
EXTENDS ElevatedWorker, TLC

CONSTANTS c1, c2, s1, s2

TwoCalls == {c1, c2}
OneSession == {s1}
TwoSessions == {s1, s2}

\* Calls and sessions are interchangeable; used by the runs without liveness.
Symmetry == Permutations(Calls) \cup Permutations(Sessions)

QueueFaults == {"commandRead", "resultRead", "delete", "crash"}
SessionFaults == {"proof", "heartbeatRead", "commandRead", "actionStart", "crash", "restart"}
=============================================================================
