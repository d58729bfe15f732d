---------------------------- MODULE MCKeyHandler ----------------------------
(* An instance of KeyHandler: two screenshots, so that the second can meet *)
(* what is left of the first.                                              *)
EXTENDS KeyHandler
==============================================================================
