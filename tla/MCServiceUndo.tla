---------------------------- MODULE MCServiceUndo ----------------------------
(* Small instances of ServiceUndo: one mutation of each kind is asked for, and *)
(* the other rows are undos, of it or of each other.                           *)
EXTENDS ServiceUndo

MCAsked == {[action |-> a, target |-> "none"] : a \in {"stop", "start", "process"}}
             \cup {[action |-> "startup", target |-> "Disabled"]}
=============================================================================
