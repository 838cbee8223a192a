------------------------------ MODULE MCPublish ------------------------------
(* c1 stands for the handlers that read their row back and c2 for the others, *)
(* among them those that may miss and the one that may be idle: which of them *)
(* a request was shows in the step it takes.                                  *)
EXTENDS Publish
=============================================================================
