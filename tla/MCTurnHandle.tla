---------------------------- MODULE MCTurnHandle ----------------------------
(* A model turn with one executor row and two tokens, for TLC.             *)
EXTENDS TurnHandle

MCScript == <<"row", "silent", "delta", "delta", "drain", "done">>
=============================================================================
