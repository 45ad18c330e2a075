----------------------------- MODULE MCScraps -----------------------------
(* A small instance of Scraps for TLC. *)
EXTENDS Scraps
=============================================================================
