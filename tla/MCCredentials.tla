---------------------------- MODULE MCCredentials ----------------------------
(* Requests are interchangeable, and so are passwords. *)
EXTENDS Credentials, TLC

Interchangeable == Permutations(Call) \cup Permutations(Password)
=============================================================================
