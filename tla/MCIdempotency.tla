----------------------------- MODULE MCIdempotency -----------------------------
(* A small instance of Idempotency for TLC. *)
EXTENDS Idempotency
=============================================================================
