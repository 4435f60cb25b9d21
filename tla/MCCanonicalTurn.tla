--------------------------- MODULE MCCanonicalTurn ---------------------------
(* Two iterations of one loop for TLC.                                     *)
EXTENDS CanonicalTurn

CONSTANTS th, t1, t2

MCTurns == {t1, t2}
MCThreadOf == [t \in MCTurns |-> th]
=============================================================================
