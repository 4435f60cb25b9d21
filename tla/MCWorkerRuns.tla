---------------------------- MODULE MCWorkerRuns ----------------------------
(* Small instances of WorkerRuns and Workspace for TLC.                    *)
EXTENDS WorkerRuns

CONSTANTS w1, w2, a1, a2, r1, r2

MCWorks == {w1, w2}
MCLeases == {a1, a2}
MCRuns == {r1, r2}
MCOneRun == {r1}

\* Two Works race for the repository before a run is launched; a run goes on
\* beside one Work that has taken one lease.
Within == \/ \A r \in Runs : run[r].at = "new"
          \/ /\ Cardinality({a \in Leases : rows[a] # "none"}) <= 1
             /\ Cardinality({w \in Works : prep[w].at # "idle"}) <= 1

MCSpec == Init /\ [][Next /\ Within']_vars /\ WF_vars(RecoveryNext)
=============================================================================
