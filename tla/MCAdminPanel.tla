----------------------------- MODULE MCAdminPanel -----------------------------
(* AdminPanel for TLC: two rows, which may be exchanged. *)
EXTENDS AdminPanel, TLC

Interchangeable == Permutations(Row)
=============================================================================
