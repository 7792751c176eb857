---------------------------- MODULE MCKeyBroker ----------------------------
(* A broker with two keys, of one identity.                                 *)
EXTENDS KeyBroker
=============================================================================
