---------------------------- MODULE MCLoopThread ----------------------------
(* Instances of LoopThread for TLC. *)
EXTENDS LoopThread
=============================================================================
