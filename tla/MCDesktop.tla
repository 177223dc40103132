------------------------------ MODULE MCDesktop ------------------------------
(* A small instance of Desktop: one task with a script and one without, one    *)
(* system process, whose pid is used again by a process of the user.          *)
EXTENDS Desktop

MCTaskScript == [t \in Tasks |-> IF t = "daily-quick-report" THEN "Invoke-PCDoctor.ps1"
                                                             ELSE "none"]
MCCritical == {<<1, 1>>}
=============================================================================
