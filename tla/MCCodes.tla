----------------------------- MODULE MCCodes -----------------------------
(* A small instance of Codes for TLC. *)
EXTENDS Codes
=============================================================================
