----------------------------- MODULE MCSessions -----------------------------
(* Small instances of Sessions for TLC. *)
EXTENDS Sessions, TLC

Slots == Permutations(Req)

(* Requests are interchangeable, and so are pairs not drawn yet. *)
SlotsAndFresh == {p @@ q : p \in Slots, q \in Permutations(Token \ Initial)}
=============================================================================
