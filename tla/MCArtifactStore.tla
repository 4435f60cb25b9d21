--------------------------- MODULE MCArtifactStore ---------------------------
(* Two artifacts of one runner process, for TLC.                           *)
EXTENDS ArtifactStore

CONSTANTS p1, a1, a2

MCOneProc == {p1}
MCArtifacts == {a1, a2}
=============================================================================
