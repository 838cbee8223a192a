------------------------------ MODULE MCStartup ------------------------------
(* The ids of rows are interchangeable, and so are usernames and emails.  *)
EXTENDS Startup, TLC

Rows ==
  Permutations(UserId) \cup Permutations(RoleId) \cup Permutations(Username) \cup Permutations(Mail)
=============================================================================
