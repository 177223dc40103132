-------------------------- MODULE ElevatedDispatch --------------------------
(***************************************************************************)
(* What dispatchCommand (src/main/elevatedWorker.ts) promises its callers, *)
(* serviceMutate and processMutate: a privileged action is asked for once  *)
(* and runs at most once; the worker commits to running it only while its  *)
(* caller was not answered, and an answer that says what the action did is *)
(* true.  The answers that leave its effect open (a timeout, an unusable   *)
(* result, a worker that never became ready) are "unknown": an action that *)
(* was accepted before may then still start.                               *)
(***************************************************************************)
CONSTANT Calls

VARIABLES
  request,  \* what the caller of each dispatch knows
  run       \* what the action of each dispatch has done
vars == <<request, run>>

Answers == {"success", "actionError", "rejected", "unknown", "lost"}

Init ==
  /\ request = [c \in Calls |-> "none"]
  /\ run = [c \in Calls |-> "none"]

Ask(c)    == request[c] = "none" /\ request'[c] = "asked" /\ run'[c] = run[c]
\* The launch or its proofs fail before the caller had to wait.
Refuse(c) == request[c] = "none" /\ request'[c] = "unknown" /\ run'[c] = run[c]

\* A caller that quit was not answered: its command may still be picked up.
Accept(c) ==
  /\ run[c] = "none" /\ run'[c] = "accepted"
  /\ request[c] \in {"asked", "lost"} /\ request'[c] = request[c]

\* The caller may have timed out since, but was told neither of an effect nor of a refusal.
Start(c) ==
  /\ run[c] = "accepted" /\ run'[c] = "running"
  /\ request[c] \in {"asked", "lost", "unknown"} /\ request'[c] = request[c]

\* The action ends, or could not be started.
Finish(c) ==
  /\ \/ run[c] = "running" /\ run'[c] \in {"ok", "failed"}
     \/ run[c] = "accepted" /\ run'[c] = "failed"
  /\ request'[c] = request[c]

Answer(c) ==
  /\ request[c] = "asked" /\ request'[c] \in Answers
  /\ request'[c] = "success" => run[c] = "ok"
  /\ request'[c] = "actionError" => run[c] = "failed"
  /\ request'[c] = "rejected" => run[c] = "none"
  /\ run'[c] = run[c]

Stay(c) == request'[c] = request[c] /\ run'[c] = run[c]

\* Several dispatches share one worker launch, so one step may answer them all.
Next ==
  /\ DOMAIN request' = Calls /\ DOMAIN run' = Calls
  /\ \A c \in Calls :
       \/ Ask(c) \/ Refuse(c) \/ Accept(c) \/ Start(c) \/ Finish(c) \/ Answer(c) \/ Stay(c)

Spec == Init /\ [][Next]_vars
=============================================================================
