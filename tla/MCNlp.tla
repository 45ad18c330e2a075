-------------------------------- MODULE MCNlp --------------------------------
(* A small instance of Nlp for TLC. *)
EXTENDS Nlp
=============================================================================
