-------------------------- MODULE MCMaterializedView --------------------------
(* Constants of the MaterializedView runs.                                 *)
EXTENDS MaterializedView

CONSTANTS a, b

MCEvents == {a, b}

\* b is long: torn, it covers a later short row.
MCSize == [e \in MCEvents |-> IF e = b THEN 2 ELSE 1]
=============================================================================
