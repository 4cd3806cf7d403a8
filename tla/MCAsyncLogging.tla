--------------------------- MODULE MCAsyncLogging ---------------------------
(* Instances of AsyncLogging for TLC: what the .cfg files need is there. *)
EXTENDS AsyncLogging

=============================================================================
