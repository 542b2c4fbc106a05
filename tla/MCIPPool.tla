------------------------------ MODULE MCIPPool ------------------------------
(* The pool on its own, with callers that allocate and free in any order.  *)
EXTENDS IPPool
=============================================================================
