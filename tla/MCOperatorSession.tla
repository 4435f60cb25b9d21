-------------------------- MODULE MCOperatorSession --------------------------
(* Small instances of OperatorSession for TLC.                             *)
EXTENDS OperatorSession, TLC

CONSTANTS p1, p2, th, th2, t1, t2, c1, m1, m2, w1, ask, other

MCProcs == {p1, p2}
MCThreads == {th}
MCTwoThreads == {th, th2}
MCTurns == {t1, t2}
MCThreadOf == [t \in MCTurns |-> th]
MCOneTurn == {t1}
MCOneThreadOf == [t \in MCOneTurn |-> th]

\* The same request with its model list spelled in two ways, and a second
\* prompt under the same request id.
MCRequests ==
    {[prompt |-> ask, models |-> <<m1, m2>>, work |-> None],
     [prompt |-> ask, models |-> <<m2, m1, m2>>, work |-> None],
     [prompt |-> other, models |-> <<m1, m2>>, work |-> None]}

\* One request under a Work scope and without it.
MCWorkRequests ==
    {[prompt |-> ask, models |-> <<m1>>, work |-> w] : w \in {None, w1}}

MCSymmetry == Permutations(MCProcs)
=============================================================================
