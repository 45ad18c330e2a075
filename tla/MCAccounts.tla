----------------------------- MODULE MCAccounts -----------------------------
(* A small instance of Accounts for TLC. *)
EXTENDS Accounts, TLC

(* Every e-mail belongs to the same identity. *)
OwnerOfAll == [e \in Email |-> CHOOSE s \in Sub : TRUE]

Symmetric == {p @@ q @@ s : p \in Permutations(Req), q \in Permutations(Account),
                            s \in Permutations(Email)}
=============================================================================
