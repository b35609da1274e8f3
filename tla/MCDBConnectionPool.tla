------------------------ MODULE MCDBConnectionPool --------------------------
(* Two requests on two workers: a running worker meets a statement that is   *)
(* not its task's, and a task is queued behind the latch.                    *)
EXTENDS DBConnectionPool
=============================================================================
