------------------------ MODULE MCConnectionSupervisor ------------------------
(* Constants of the run of ConnectionSupervisor: the connection in use, one    *)
(* that could not be closed, and the next.                                     *)
EXTENDS ConnectionSupervisor

Retries == {0, 2}
=============================================================================
