------------------------------- MODULE MCJob -------------------------------
(* An invoice that is sent again, next to one that is not.                 *)
EXTENDS Job

MCEditions == [n \in Names |-> IF n = "a" THEN 2 ELSE 1]
MCRows == [n \in Names |-> IF n = "a" THEN 2 ELSE 1]
=============================================================================
