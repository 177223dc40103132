--------------------------- MODULE MCActionLedger ---------------------------
(* A small instance of ActionLedger.  The actions are those of               *)
(* src/shared/actions.ts, one of each kind: one that snapshots the hosts     *)
(* file, one with a restore point and one without rollback.                  *)
EXTENDS ActionLedger

CONSTANTS r1, r2, hosts

TwoRuns == {r1, r2}
OneFile == {hosts}

ResetHosts == [tier |-> "B", files |-> {hosts}, admin |-> TRUE]
RunSfc == [tier |-> "A", files |-> {}, admin |-> TRUE]
FlushDns == [tier |-> "none", files |-> {}, admin |-> FALSE]
OneFileKinds == {ResetHosts, RunSfc, FlushDns}
=============================================================================
