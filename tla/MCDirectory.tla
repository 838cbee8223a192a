----------------------------- MODULE MCDirectory -----------------------------
(* Directory for TLC: the two seeded users and one more id, the two seeded   *)
(* roles and one more, and a handful of interchangeable requests.            *)
EXTENDS Directory, TLC

Requests == Permutations(Call)
=============================================================================
