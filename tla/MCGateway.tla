------------------------------ MODULE MCGateway ------------------------------
(* Gateway for TLC: a route of each kind, public or not, with and without    *)
(* parameters, changing something or nothing; one caller, whom other clients *)
(* delete and bring back, and whose roles they give, take and rename; four   *)
(* rows written before; limits below, above and not given.                   *)
EXTENDS Gateway, TLC

CONSTANTS p1, p2, p3, p4

Past(p, name, time) == [by |-> p, rpc |-> name, at |-> time]

PastRows == {Past(p1, "login", 0), Past(p2, "listUsers", 0),
             Past(p3, "listUsers", -1), Past(p4, "login", 1)}

Query(filter, search, needle, limit) ==
  [filter |-> filter, search |-> search, needle |-> needle, limit |-> limit]

Asked == {Query({"login", "listUsers"}, FALSE, {}, {9}), Query(Served, TRUE, {"listUsers"}, {}),
          Query(Served, TRUE, {"login"}, {0})}

Interchangeable == Permutations(Call) \cup Permutations(User) \cup Permutations(Role)
=============================================================================
