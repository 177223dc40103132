----------------------- MODULE MCAutopilotLogIngestor -----------------------
(* Small instances of AutopilotLogIngestor. *)
EXTENDS AutopilotLogIngestor, TLC

CONSTANTS p1, p2

OneCaller == {p1}
TwoCallers == {p1, p2}

\* The callers are the two timers of the module and are interchangeable.
Symmetry == Permutations(Passes)
=============================================================================
