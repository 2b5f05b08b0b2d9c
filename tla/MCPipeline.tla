------------------------------ MODULE MCPipeline ------------------------------
(***************************************************************************)
(* Pipeline on a small instance: more requests than either queue holds,    *)
(* two workers, and two threads that stop the server.                      *)
(***************************************************************************)
EXTENDS Pipeline

===============================================================================
