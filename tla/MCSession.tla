------------------------------ MODULE MCSession ------------------------------
(* Session for TLC: two tokens, of two users; the first may be there already. *)
EXTENDS Session, TLC

CONSTANTS k1, k2, alice, bob

OwnerOf == k1 :> alice @@ k2 :> bob

AtStart == {NoToken, k1}
=============================================================================
