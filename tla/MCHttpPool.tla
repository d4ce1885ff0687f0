----------------------------- MODULE MCHttpPool -----------------------------
(* Instances of HttpPool for TLC. *)
EXTENDS HttpPool
=============================================================================
