---------------------------- MODULE MCWorkerMesh ----------------------------
(* WorkerMesh on one socket at a time, two sessions and one task.          *)
EXTENDS WorkerMesh

CONSTANTS c1, s1, s2, t1

MCConns == {c1}
MCSessions == {s1, s2}
MCTasks == {t1}
=============================================================================
