---------------------------- MODULE MCTurnRunner ----------------------------
(* One turn with up to two tool calls, for TLC.                            *)
EXTENDS TurnRunner

CONSTANTS th, t1, c1, c2

MCOneTurn == {t1}
MCOneThreadOf == [t \in MCOneTurn |-> th]
MCCalls == {c1, c2}
=============================================================================
