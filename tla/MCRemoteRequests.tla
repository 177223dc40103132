-------------------------- MODULE MCRemoteRequests --------------------------
(* A small instance of RemoteRequests; two commands carry the same id.       *)
EXTENDS RemoteRequests

MCIdOf == [c \in Commands |-> IF c = "c2" THEN "c1" ELSE c]
=============================================================================
