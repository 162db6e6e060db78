------------------------------ MODULE MCFlusher ------------------------------
(* Instances of Flusher, and of the engine that starts it, for the model
   checker. *)
EXTENDS Engine

=============================================================================
