-------------------------- MODULE WorkerRuns_proofs --------------------------
(* What WorkerRuns and Workspace promise, proved for any number of Works,  *)
(* leases, runs, faults, deaths and restarts.                              *)
EXTENDS WorkerRuns, TLAPS

Kinds == {"launched", "opened", "closed", "stale"} \cup Beats \cup Exits

\* The pane of a run that is over shows that.
Shown(row) == row.pane # "none" /\ row.state \in Exits \cup {"stale"}
                  => row.pane = PaneFor[row.state]

-----------------------------------------------------------------------------
(* What RunFold::apply does to a run.                                      *)

\* The fold of a row is a run again.
LEMMA ApplyType ==
    ASSUME NEW row \in Row, NEW kind \in Kinds
    PROVE  Apply(row, kind) \in Row
<1>1. /\ row.state \in States /\ row.id \in Beats \cup {"none"}
      /\ row.pane \in {"none"} \cup {PaneFor[x] : x \in DOMAIN PaneFor}
  BY DEF Row
<1>2. DOMAIN PaneFor = States \ {"none"}
  BY DEF PaneFor, States, Exits
<1>3. ASSUME NEW state \in States \ {"none"}
      PROVE  Rebound(row, state) \in Row
  BY <1>1, <1>2, <1>3 DEF Rebound, Row
<1>4. CASE kind = "launched"
  BY <1>1, <1>4 DEF Apply, Row, States
<1>5. CASE kind # "launched" /\ row.state = "none"
  BY <1>5 DEF Apply
<1>6. CASE row.state # "none" /\ kind \in Beats
  <2>1. Apply(row, kind) = [row EXCEPT !.state = IF @ = "starting" THEN "live" ELSE @,
                                       !.id = IF @ = "none" THEN kind ELSE @]
    BY <1>6 DEF Apply, Beats, Exits
  <2> QED
    BY <1>1, <1>6, <2>1 DEF Row, States
<1>7. CASE row.state # "none" /\ kind \in Exits
  <2>1. Apply(row, kind) = Rebound(row, kind)
    BY <1>7 DEF Apply, Beats, Exits
  <2> QED
    BY <1>3, <1>7, <2>1 DEF Exits, States
<1>8. CASE row.state # "none" /\ kind \in {"opened", "closed"}
  <2>1. Apply(row, kind) = [row EXCEPT !.pane = PaneFor[row.state]]
    BY <1>8 DEF Apply, Beats, Exits
  <2> QED
    BY <1>1, <1>2, <1>8, <2>1 DEF Row
<1>9. CASE row.state # "none" /\ kind = "stale"
  <2>1. Apply(row, kind) \in {Rebound(row, "stale"), row}
    BY <1>9 DEF Apply, Beats, Exits
  <2> QED
    BY <1>3, <2>1 DEF States
<1> QED
  BY <1>4, <1>5, <1>6, <1>7, <1>8, <1>9 DEF Kinds

\* A row of any kind leaves a pane that shows the end of its run.
LEMMA ApplyShows ==
    ASSUME NEW row \in Row, NEW kind \in Kinds, Shown(row)
    PROVE  Shown(Apply(row, kind))
<1>1. CASE kind = "launched"
  BY <1>1 DEF Apply, Shown, Row, Exits
<1>2. CASE kind # "launched" /\ row.state = "none"
  BY <1>2 DEF Apply
<1>3. CASE row.state # "none" /\ kind \in Beats
  <2>1. Apply(row, kind) = [row EXCEPT !.state = IF @ = "starting" THEN "live" ELSE @,
                                       !.id = IF @ = "none" THEN kind ELSE @]
    BY <1>3 DEF Apply, Beats, Exits
  <2> QED
    BY <2>1 DEF Row, Shown, Exits
<1>4. ASSUME NEW state \in States
      PROVE  Shown(Rebound(row, state))
  BY DEF Shown, Rebound, Row
<1>5. CASE row.state # "none" /\ kind \in Exits
  <2>1. Apply(row, kind) = Rebound(row, kind)
    BY <1>5 DEF Apply, Beats, Exits
  <2> QED
    BY <1>4, <1>5, <2>1 DEF Exits, States
<1>6. CASE row.state # "none" /\ kind \in {"opened", "closed"}
  <2>1. Apply(row, kind) = [row EXCEPT !.pane = PaneFor[row.state]]
    BY <1>6 DEF Apply, Beats, Exits
  <2> QED
    BY <2>1 DEF Row, Shown
<1>7. CASE row.state # "none" /\ kind = "stale"
  <2>1. Apply(row, kind) \in {Rebound(row, "stale"), row}
    BY <1>7 DEF Apply, Beats, Exits
  <2> QED
    BY <1>4, <2>1 DEF States
<1> QED
  BY <1>1, <1>2, <1>3, <1>5, <1>6, <1>7 DEF Kinds

\* A supervisor's rows but the last keep its run supervised.
LEMMA ApplySupervised ==
    ASSUME NEW row \in Row, row.state \in {"starting", "live"},
           NEW kind \in Beats \cup {"opened", "closed"}
    PROVE  Apply(row, kind).state \in {"starting", "live"}
BY DEF Apply, Row, Beats, Exits

\* A marker makes no run and ends none.
LEMMA ApplyMarker ==
    ASSUME NEW row \in Row
    PROVE  /\ row.state = "none" => Apply(row, "stale") = row
           /\ row.state \in {"starting", "live", "stale"} =>
                  Apply(row, "stale").state = "stale"
BY DEF Apply, Rebound, Row, Beats, Exits

\* The launch makes the run.
LEMMA ApplyLaunch ==
    ASSUME NEW row \in Row, row.state = "none"
    PROVE  Apply(row, "launched").state = "starting"
BY DEF Apply, Row

-----------------------------------------------------------------------------
(* Types.                                                                  *)

LEMMA FaultType ==
    ASSUME WorkspaceTypeOK, Fault
    PROVE  budget' \in [faults : 0 .. MaxFaults, deaths : 0 .. MaxDeaths,
                        restarts : 0 .. MaxRestarts]
BY WorkspaceAssumption DEF WorkspaceTypeOK, Fault

\* A step of a preparation, the clock or a restarting core keeps the types.
LEMMA WorkspaceTypeStep ==
    ASSUME WorkspaceTypeOK, WorkspaceNext
    PROVE  WorkspaceTypeOK'
<1> USE DEF WorkspaceTypeOK
<1>1. ASSUME NEW w \in Works, NEW stage \in Stages, To(w, stage)
      PROVE  prep' \in [Works -> [at : Stages, lease : Leases \cup {None},
                                  mine : BOOLEAN]]
  BY <1>1 DEF To
<1>2. ASSUME NEW status \in {"revoked"}, NEW set, AppendRows(status, set)
      PROVE  /\ rows' \in [Leases -> {"none", "issued", "revoked", "expired"}]
             /\ tail' \in {"whole", "torn", "sealed"}
  BY <1>2 DEF AppendRows
<1>3. ASSUME NEW w \in Works, NEW a \in Leases, Acquire(w, a)
      PROVE  WorkspaceTypeOK'
  <2>1. rows' \in [Leases -> {"none", "issued", "revoked", "expired"}]
    BY <1>3 DEF Acquire
  <2>2. prep' \in [Works -> [at : Stages, lease : Leases \cup {None},
                             mine : BOOLEAN]]
    <3>1. CASE prep' = [prep EXCEPT ![w].at = "refused"]
      BY <3>1 DEF Stages
    <3>2. CASE prep' = [prep EXCEPT ![w] = [at |-> "leased", lease |-> a,
                                           mine |-> FALSE]]
      BY <3>2 DEF Stages
    <3> QED
      BY <1>3, <3>1, <3>2 DEF Acquire
  <2> QED
    BY <1>3, <2>1, <2>2, FaultType DEF Acquire
<1>4. ASSUME NEW w \in Works, MakeHolding(w)
      PROVE  WorkspaceTypeOK'
  BY <1>1, <1>4, FaultType DEF MakeHolding, Stages
<1>5. ASSUME NEW w \in Works, MakeTree(w)
      PROVE  WorkspaceTypeOK'
  <2>1. prep' \in [Works -> [at : Stages, lease : Leases \cup {None},
                             mine : BOOLEAN]]
    <3>1. CASE prep' = [prep EXCEPT ![w] = [@ EXCEPT !.at = "tree", !.mine = TRUE]]
      <4>1. prep[w] \in [at : Stages, lease : Leases \cup {None}, mine : BOOLEAN]
        OBVIOUS
      <4>2. [prep[w] EXCEPT !.at = "tree", !.mine = TRUE]
                \in [at : Stages, lease : Leases \cup {None}, mine : BOOLEAN]
        BY <4>1 DEF Stages
      <4> QED
        BY <3>1, <4>2
    <3>2. CASE To(w, "revoke")
      BY <1>1, <3>2 DEF Stages
    <3> QED
      BY <1>5, <3>1, <3>2 DEF MakeTree
  <2> QED
    BY <1>5, <2>1, FaultType DEF MakeTree
<1>6. ASSUME NEW w \in Works, CheckDiff(w)
      PROVE  WorkspaceTypeOK'
  BY <1>1, <1>6, FaultType DEF CheckDiff, Stages
<1>7. ASSUME NEW w \in Works, Record(w)
      PROVE  WorkspaceTypeOK'
  BY <1>1, <1>7, FaultType DEF Record, Stages
<1>8. ASSUME NEW w \in Works, RemoveTree(w)
      PROVE  WorkspaceTypeOK'
  BY <1>1, <1>8, FaultType DEF RemoveTree, Stages
<1>9. ASSUME NEW w \in Works, RevokeLease(w)
      PROVE  WorkspaceTypeOK'
  BY <1>1, <1>2, <1>9, FaultType DEF RevokeLease, Stages
<1>10. ASSUME NEW w \in Works, PrepareDies(w)
       PROVE  WorkspaceTypeOK'
  BY <1>1, <1>10, WorkspaceAssumption DEF PrepareDies, Stages
<1>11. ASSUME NEW w \in Works, PrepareAgain(w)
       PROVE  WorkspaceTypeOK'
  BY <1>1, <1>11 DEF PrepareAgain, Stages
<1>12. ASSUME NEW a \in Leases, Expire(a) \/ RestartRevokes(a)
       PROVE  WorkspaceTypeOK'
  BY <1>2, <1>12 DEF Expire, RestartRevokes
<1>13. CASE RestartCore
  BY <1>13, WorkspaceAssumption DEF RestartCore, Held
<1> QED
  BY <1>3, <1>4, <1>5, <1>6, <1>7, <1>8, <1>9, <1>10, <1>11, <1>12, <1>13
     DEF WorkspaceNext, Prepare

\* An append, whether it is reported or not, keeps the types.
LEMMA AppendType ==
    ASSUME TypeOK, NEW r \in Runs, NEW kind \in Kinds,
           Appends(r, kind) \/ AppendFails(r, kind)
    PROVE  /\ folded' \in [Runs -> Row]
           /\ torn' \in BOOLEAN
           /\ budget' \in [faults : 0 .. MaxFaults, deaths : 0 .. MaxDeaths,
                           restarts : 0 .. MaxRestarts]
<1>1. folded[r] \in Row
  BY DEF TypeOK
<1>2. Apply(folded[r], kind) \in Row
  BY <1>1, ApplyType
<1>3. CASE Appends(r, kind)
  BY <1>2, <1>3 DEF TypeOK, WorkspaceTypeOK, Appends
<1>4. CASE AppendFails(r, kind)
  <2>1. torn' \in BOOLEAN
    BY <1>4, Zenon DEF AppendFails
  <2> QED
    BY <1>2, <1>4, <2>1, FaultType DEF TypeOK, AppendFails
<1> QED
  BY <1>3, <1>4

\* Every variable keeps its type, whatever fails, dies or restarts.
LEMMA TypeStep ==
    ASSUME TypeOK, [Next]_vars
    PROVE  TypeOK'
<1> USE DEF TypeOK
<1> DEFINE RunType == run' \in [Runs -> [at : Supervising \cup {"new", "ended", "dead"},
                                        work : Works]]
<1>1. ASSUME NEW r \in Runs, NEW stage \in Supervising \cup {"ended", "dead"},
             At(r, stage)
      PROVE  RunType
  BY <1>1 DEF At
<1>2. Beats \subseteq Kinds /\ Exits \subseteq Kinds
      /\ {"launched", "opened", "closed", "stale"} \subseteq Kinds
  BY DEF Kinds
<1>3. ASSUME NEW r \in Runs, NEW w \in Works, Launch(r, w)
      PROVE  TypeOK'
  <2>1. RunType
    BY <1>3 DEF Launch, Supervising
  <2>2. Appends(r, "launched") \/ AppendFails(r, "launched")
    BY <1>3 DEF Launch
  <2> QED
    BY <1>2, <1>3, <2>1, <2>2, AppendType DEF Launch, Elsewhere, WorkspaceTypeOK
<1>4. ASSUME NEW r \in Runs, OpenPane(r)
      PROVE  TypeOK'
  <2>1. RunType
    BY <1>1, <1>4 DEF OpenPane, Supervising
  <2>2. Appends(r, "opened") \/ AppendFails(r, "opened")
    BY <1>4 DEF OpenPane
  <2> QED
    BY <1>2, <1>4, <2>1, <2>2, AppendType DEF OpenPane, Elsewhere, WorkspaceTypeOK
<1>5. ASSUME NEW r \in Runs, Spawn(r)
      PROVE  TypeOK'
  <2>1. RunType
    BY <1>1, <1>5 DEF Spawn, Supervising
  <2>2. CASE Appends(r, "failed") \/ AppendFails(r, "failed")
    <3>1. "failed" \in Kinds
      BY <1>2 DEF Exits
    <3>2. child' \in [Runs -> Children]
      BY <1>5 DEF Spawn, Children
    <3> QED
      BY <1>5, <2>1, <2>2, <3>1, <3>2, AppendType DEF Spawn, Elsewhere, WorkspaceTypeOK
  <2>3. CASE UNCHANGED <<folded, torn, budget>> /\ child' = [child EXCEPT ![r] = "alive"]
    BY <1>5, <2>1, <2>3 DEF Spawn, Elsewhere, WorkspaceTypeOK, Children
  <2> QED
    BY <1>5, <2>2, <2>3 DEF Spawn
<1>6. ASSUME NEW r \in Runs, Heartbeat(r)
      PROVE  TypeOK'
  <2>1. RunType
    BY <1>1, <1>6 DEF Heartbeat, Supervising
  <2>2. PICK kind \in Beats : Appends(r, kind) \/ AppendFails(r, kind)
    BY <1>6 DEF Heartbeat
  <2>3. child' \in [Runs -> Children]
    BY <1>6 DEF Heartbeat, Children
  <2> QED
    BY <1>2, <1>6, <2>1, <2>2, <2>3, AppendType DEF Heartbeat, Elsewhere, WorkspaceTypeOK
<1>7. ASSUME NEW r \in Runs, ClosePane(r)
      PROVE  TypeOK'
  <2>1. RunType
    BY <1>1, <1>7 DEF ClosePane, Supervising
  <2> QED
    BY <1>2, <1>7, <2>1, AppendType DEF ClosePane, Elsewhere, WorkspaceTypeOK
<1>8. ASSUME NEW r \in Runs, Exit(r)
      PROVE  TypeOK'
  <2>1. RunType
    BY <1>1, <1>8 DEF Exit
  <2>2. PICK kind \in Exits : Appends(r, kind) \/ AppendFails(r, kind)
    BY <1>8 DEF Exit
  <2> QED
    BY <1>2, <1>8, <2>1, <2>2, AppendType DEF Exit, Elsewhere, WorkspaceTypeOK
<1>9. ASSUME NEW r \in Runs, Reap(r)
      PROVE  TypeOK'
  <2>1. RunType
    BY <1>1, <1>9 DEF Reap, Supervising
  <2> QED
    BY <1>9, <2>1 DEF Reap, Elsewhere, WorkspaceTypeOK
<1>10. ASSUME NEW r \in Runs, SupervisorDies(r)
       PROVE  TypeOK'
  <2>1. RunType
    BY <1>1, <1>10 DEF SupervisorDies
  <2> QED
    <3>1. torn' \in BOOLEAN
      BY <1>10, Zenon DEF SupervisorDies
    <3>2. budget' \in [faults : 0 .. MaxFaults, deaths : 0 .. MaxDeaths,
                       restarts : 0 .. MaxRestarts]
      BY <1>10, WorkspaceAssumption DEF SupervisorDies, WorkspaceTypeOK
    <3> QED
      BY <1>10, <2>1, <3>1, <3>2 DEF SupervisorDies, Elsewhere, WorkspaceTypeOK
<1>11. ASSUME NEW r \in Runs, ChildExits(r) \/ PidReused(r)
       PROVE  TypeOK'
  BY <1>11, SMTT(30) DEF ChildExits, PidReused, workspaceVars, WorkspaceTypeOK, Children
<1>12. ASSUME NEW r \in Runs, Mark(r)
       PROVE  TypeOK'
  <2>1. recovery' \in [on : BOOLEAN, marks : SUBSET (Runs \X Seen)]
    BY <1>12, SMTT(30) DEF Mark
  <2>2. Appends(r, "stale")
    BY <1>12 DEF Mark
  <2> QED
    BY <1>2, <1>12, <2>1, <2>2, AppendType DEF Mark, WorkspaceTypeOK
<1>13. ASSUME NEW r \in Runs, MarkFails(r)
       PROVE  TypeOK'
  <2>1. recovery' \in [on : BOOLEAN, marks : SUBSET (Runs \X Seen)]
    BY <1>13 DEF MarkFails, NoRecovery
  <2>2. AppendFails(r, "stale")
    BY <1>13 DEF MarkFails
  <2> QED
    BY <1>2, <1>13, <2>1, <2>2, AppendType DEF MarkFails, WorkspaceTypeOK
<1>14. CASE Recover
  <2>1. recovery' \in [on : BOOLEAN, marks : SUBSET (Runs \X Seen)]
    BY <1>14 DEF Recover, Unfinished
  <2> QED
    BY <1>14, <2>1 DEF Recover, workspaceVars, WorkspaceTypeOK
<1>15. CASE WorkspaceNext /\ UNCHANGED runVars
  BY <1>15, WorkspaceTypeStep DEF runVars
<1>16. CASE UNCHANGED vars
  BY <1>16 DEF vars, workspaceVars, runVars, WorkspaceTypeOK
<1> QED
  BY <1>3, <1>4, <1>5, <1>6, <1>7, <1>8, <1>9, <1>10, <1>11, <1>12, <1>13,
     <1>14, <1>15, <1>16, Zenon DEF Next, Supervise, RecoveryNext

\* Every variable of a preparation, a run and a recovery keeps its type.
THEOREM RunTypesCorrect == Spec => []TypeOK
<1>1. Init => TypeOK
  <2>1. Init => WorkspaceTypeOK
    BY WorkspaceAssumption DEF Init, WorkspaceInit, WorkspaceTypeOK, Stages
  <2>2. (CHOOSE w \in Works : TRUE) \in Works
    BY WorksAssumption
  <2> QED
    <3>1. NoRun \in Row
      BY DEF NoRun, Row, States
    <3>2. Init => /\ run \in [Runs -> [at : Supervising \cup {"new", "ended", "dead"},
                                       work : Works]]
                  /\ child \in [Runs -> Children]
                  /\ folded \in [Runs -> Row]
                  /\ recovery \in [on : BOOLEAN, marks : SUBSET (Runs \X Seen)]
      BY <2>2, <3>1 DEF Init, Children, NoRecovery
    <3>3. Init => torn \in BOOLEAN
      BY Zenon DEF Init
    <3> QED
      BY <2>1, <3>2, <3>3, Zenon DEF TypeOK
<1> QED
  BY <1>1, TypeStep, PTL DEF Spec

-----------------------------------------------------------------------------
(* The writer lease.                                                       *)

\* One lease at a time: it is issued only when none is live and in time,
\* and time and revocations only take live leases away.
LEMMA OneHolderStep ==
    ASSUME TypeOK, OneHolder, [Next]_vars
    PROVE  OneHolder'
<1> USE DEF TypeOK, WorkspaceTypeOK
<1>1. ASSUME NEW status \in {"revoked", "expired"}, NEW set, AppendRows(status, set)
      PROVE  Held' \subseteq Held
  BY <1>1 DEF AppendRows, Held
<1>2. ASSUME Held' \subseteq Held, late \subseteq late'
      PROVE  OneHolder'
  BY <1>2 DEF OneHolder
<1>3. ASSUME NEW w \in Works, NEW a \in Leases, Acquire(w, a)
      PROVE  OneHolder'
  <2>1. CASE UNCHANGED rows
    BY <1>2, <1>3, <2>1 DEF Acquire, Held
  <2>2. CASE /\ Blocking(w) = {}
             /\ rows' = [x \in Leases |-> IF x = a THEN "issued"
                            ELSE IF x \in Held \cap late THEN "expired" ELSE rows[x]]
    <3>1. Held \subseteq late
      BY <2>2 DEF Blocking
    <3>2. Held' \subseteq {a}
      BY <2>2, <3>1 DEF Held
    <3> QED
      BY <3>2 DEF OneHolder
  <2>3. CASE \E closed \in SUBSET (Held \cap late) :
                rows' = [x \in Leases |-> IF x \in closed THEN "expired" ELSE rows[x]]
    BY <1>2, <1>3, <2>3 DEF Acquire, Held
  <2> QED
    BY <1>3, <2>1, <2>2, <2>3 DEF Acquire
<1>4. CASE UNCHANGED <<rows, late>>
  BY <1>4 DEF OneHolder, Held
<1>5. ASSUME NEW w \in Works, RevokeLease(w)
      PROVE  OneHolder'
  BY <1>1, <1>2, <1>5 DEF RevokeLease, Held
<1>6. ASSUME NEW a \in Leases, Expire(a)
      PROVE  OneHolder'
  BY <1>2, <1>6 DEF Expire, Held
<1>7. ASSUME NEW a \in Leases, RestartRevokes(a)
      PROVE  OneHolder'
  BY <1>1, <1>2, <1>7 DEF RestartRevokes
<1>8. CASE WorkspaceNext
  BY <1>3, <1>4, <1>5, <1>6, <1>7, <1>8, Zenon
     DEF WorkspaceNext, Prepare, MakeHolding, MakeTree, CheckDiff, Record,
         RemoveTree, PrepareDies, PrepareAgain, RestartCore
<1> QED
  BY <1>4, <1>8, Zenon
     DEF Next, Supervise, RecoveryNext, Launch, OpenPane, Spawn, Heartbeat, Reap,
         ClosePane, Exit, SupervisorDies, ChildExits, PidReused, Recover, Mark,
         MarkFails, Elsewhere, vars, workspaceVars

\* At most one lease of the repository is live and in time, for any number
\* of Works and whatever dies or fails (try_acquire_worker_lease).
THEOREM OneHolderHolds == Spec => []OneHolder
<1>1. Init => OneHolder
  BY DEF Init, WorkspaceInit, OneHolder, Held
<1> QED
  BY <1>1, OneHolderStep, RunTypesCorrect, PTL DEF Spec

\* Where a preparation is with its lease and its worktree.
PrepInv ==
    \A w \in Works :
        LET p == prep[w] IN
        /\ p.at \in Working \cup {"compensated"} =>
               p.lease \in Leases /\ rows[p.lease] # "none"
        /\ p.at = "compensated" /\ tail = "whole" => rows[p.lease] # "issued"
        /\ p.at \in {"leased", "dir"} => ~p.mine
        /\ p.at \in {"revoke", "compensated"} /\ p.mine => tree[w] = "none"

\* The rows of a lease that was issued are never forgotten, a lease that is
\* over is not issued again, and damage to the stream stays.
LEMMA RowsStep ==
    ASSUME TypeOK, [Next]_vars, NEW b \in Leases, rows[b] # "none"
    PROVE  /\ rows'[b] # "none"
           /\ rows[b] # "issued" => rows'[b] # "issued"
           /\ tail' = "whole" => tail = "whole"
<1> USE DEF TypeOK, WorkspaceTypeOK
<1>1. CASE UNCHANGED <<rows, tail>>
  BY <1>1
<1>2. ASSUME NEW set, AppendRows("revoked", set)
      PROVE  /\ rows'[b] # "none"
             /\ rows[b] # "issued" => rows'[b] # "issued"
             /\ tail' = "whole" => tail = "whole"
  BY <1>2 DEF AppendRows
<1>3. ASSUME NEW w \in Works, NEW a \in Leases, Acquire(w, a)
      PROVE  /\ rows'[b] # "none"
             /\ rows[b] # "issued" => rows'[b] # "issued"
             /\ tail' = "whole" => tail = "whole"
  BY <1>3 DEF Acquire
<1>4. ASSUME NEW w \in Works, PrepareDies(w)
      PROVE  UNCHANGED rows /\ (tail' = "whole" => tail = "whole")
  BY <1>4 DEF PrepareDies
<1>5. CASE WorkspaceNext
  BY <1>1, <1>2, <1>3, <1>4, <1>5
     DEF WorkspaceNext, Prepare, MakeHolding, MakeTree, CheckDiff, Record,
         RemoveTree, RevokeLease, PrepareAgain, RestartCore, Expire, RestartRevokes
<1> QED
  BY <1>1, <1>5, Zenon
     DEF Next, Supervise, RecoveryNext, Launch, OpenPane, Spawn, Heartbeat, Reap,
         ClosePane, Exit, SupervisorDies, ChildExits, PidReused, Recover, Mark,
         MarkFails, Elsewhere, vars, workspaceVars

\* What PrepInv says of a preparation that does not move.
LEMMA PrepStays ==
    ASSUME TypeOK, PrepInv, [Next]_vars, NEW w \in Works,
           prep'[w] = prep[w], tree'[w] = tree[w]
    PROVE  PrepInv!(w)'
<1>1. PrepInv!(w)
  BY DEF PrepInv
<1>2. CASE prep[w].at \in Working \cup {"compensated"}
  <2>1. prep[w].lease \in Leases /\ rows[prep[w].lease] # "none"
    BY <1>1, <1>2
  <2> QED
    BY <1>1, <2>1, RowsStep
<1>3. CASE prep[w].at \notin Working \cup {"compensated"}
  BY <1>1, <1>3 DEF Working
<1> QED
  BY <1>2, <1>3

LEMMA PrepStep ==
    ASSUME TypeOK, PrepInv, [Next]_vars
    PROVE  PrepInv'
<1> SUFFICES ASSUME NEW w \in Works PROVE PrepInv!(w)'
  BY DEF PrepInv
<1> USE DEF TypeOK, WorkspaceTypeOK
<1>1. PrepInv!(w)
  BY DEF PrepInv
<1>2. CASE prep'[w] = prep[w] /\ tree'[w] = tree[w]
  BY <1>2, PrepStays
<1>3. ASSUME NEW v \in Works, v # w, Prepare(v) \/ PrepareDies(v) \/ PrepareAgain(v)
      PROVE  prep'[w] = prep[w] /\ tree'[w] = tree[w]
  BY <1>3 DEF Prepare, Acquire, MakeHolding, MakeTree, CheckDiff, Record,
              RemoveTree, RevokeLease, PrepareDies, PrepareAgain, To
<1>4. ASSUME NEW a \in Leases, Acquire(w, a)
      PROVE  PrepInv!(w)'
  <2>1. CASE prep' = [prep EXCEPT ![w].at = "refused"]
    BY <2>1 DEF Working
  <2>2. CASE /\ prep' = [prep EXCEPT ![w] = [at |-> "leased", lease |-> a,
                                            mine |-> FALSE]]
             /\ rows'[a] = "issued"
    BY <2>2 DEF Working
  <2> QED
    BY <1>4, <2>1, <2>2 DEF Acquire
<1>5. CASE MakeHolding(w)
  <2>1. /\ prep'[w].at \in {"dir", "failed"}
        /\ prep'[w].lease = prep[w].lease /\ prep'[w].mine = prep[w].mine
    BY <1>5 DEF MakeHolding, To
  <2>2. ~prep[w].mine
    BY <1>1, <1>5 DEF MakeHolding
  <2>3. prep[w].lease \in Leases /\ rows'[prep[w].lease] # "none"
    BY <1>1, <1>5 DEF MakeHolding, Working
  <2> QED
    BY <2>1, <2>2, <2>3 DEF Working
<1>6. CASE MakeTree(w)
  <2>1. prep[w].lease \in Leases /\ rows'[prep[w].lease] # "none"
    BY <1>1, <1>6 DEF MakeTree, Working
  <2>2. ~prep[w].mine
    BY <1>1, <1>6 DEF MakeTree
  <2>3. CASE To(w, "revoke")
    <3>1. /\ prep'[w].at = "revoke"
          /\ prep'[w].lease = prep[w].lease /\ prep'[w].mine = prep[w].mine
      BY <2>3 DEF To
    <3> QED
      BY <2>1, <2>2, <3>1 DEF Working
  <2>4. CASE prep' = [prep EXCEPT ![w] = [@ EXCEPT !.at = "tree", !.mine = TRUE]]
    <3>1. prep'[w].at = "tree" /\ prep'[w].lease = prep[w].lease
      BY <2>4
    <3> QED
      BY <2>1, <3>1 DEF Working
  <2> QED
    BY <1>6, <2>3, <2>4 DEF MakeTree
<1>7. CASE CheckDiff(w)
  BY <1>1, <1>7 DEF CheckDiff, To, Working
<1>8. CASE Record(w)
  BY <1>1, <1>8 DEF Record, To, Working
<1>9. CASE RemoveTree(w)
  BY <1>1, <1>9 DEF RemoveTree, To, Working
<1>10. CASE RevokeLease(w)
  BY <1>1, <1>10 DEF RevokeLease, AppendRows, To, Working
<1>11. CASE PrepareDies(w) \/ PrepareAgain(w)
  BY <1>11 DEF PrepareDies, PrepareAgain, To, Working
<1>12. CASE WorkspaceNext
  <2>1. CASE \E v \in Works : Prepare(v) \/ PrepareDies(v) \/ PrepareAgain(v)
    <3> HIDE DEF TypeOK, WorkspaceTypeOK
    <3>1. PICK v \in Works : Prepare(v) \/ PrepareDies(v) \/ PrepareAgain(v)
      BY <2>1, Zenon
    <3>2. CASE v # w
      BY <1>2, <1>3, <3>1, <3>2
    <3>3. CASE v = w
      BY <1>4, <1>5, <1>6, <1>7, <1>8, <1>9, <1>10, <1>11, <3>1, <3>3 DEF Prepare
    <3> QED
      BY <3>2, <3>3
  <2>2. CASE RestartCore \/ \E a \in Leases : Expire(a) \/ RestartRevokes(a)
    BY <1>2, <2>2 DEF RestartCore, Expire, RestartRevokes
  <2> QED
    BY <1>12, <2>1, <2>2 DEF WorkspaceNext
<1>13. CASE UNCHANGED <<prep, tree>>
  BY <1>2, <1>13
<1> QED
  BY <1>12, <1>13, Zenon
     DEF Next, Supervise, RecoveryNext, Launch, OpenPane, Spawn, Heartbeat, Reap,
         ClosePane, Exit, SupervisorDies, ChildExits, PidReused, Recover, Mark,
         MarkFails, Elsewhere, vars, workspaceVars

\* compensate_failed_prepare gives back what the preparation took: the
\* worktree it made, and the lease unless the stream was damaged.
THEOREM CompensationHolds == Spec => []CompensationIsComplete
<1>1. Init => PrepInv
  BY DEF Init, WorkspaceInit, PrepInv, Working
<1>2. PrepInv => CompensationIsComplete
  BY DEF PrepInv, CompensationIsComplete
<1> QED
  BY <1>1, <1>2, PrepStep, RunTypesCorrect, PTL DEF Spec

-----------------------------------------------------------------------------
(* Runs and recovery.                                                      *)

\* Where a supervisor is, what its run folds to and what became of the
\* worker process.
RunInv ==
    \A r \in Runs :
        /\ run[r].at = "new" => folded[r].state = "none" /\ child[r] = "none"
        /\ run[r].at \in Supervising => folded[r].state \in {"starting", "live"}
        /\ run[r].at \in {"launched", "opened"} => child[r] = "none"
        /\ run[r].at \in {"reaped", "closed"} => child[r] # "alive"
        /\ child[r] = "alive" => /\ run[r].at \in {"spawned", "live", "dead"}
                                 /\ folded[r].state \in {"starting", "live", "stale"}
        /\ Shown(folded[r])

\* Recovery has the activity lease for itself as long as it has markers.
RecoveryInv ==
    /\ recovery.marks # {} => recovery.on
    /\ recovery.on => Exclusive

\* A run nobody touches keeps what RunInv says of it.
LEMMA RunStays ==
    ASSUME RunInv, NEW r \in Runs,
           run'[r] = run[r], child'[r] = child[r], folded'[r] = folded[r]
    PROVE  RunInv!(r)'
BY DEF RunInv, Shown

LEMMA RunStep ==
    ASSUME TypeOK, RunInv, RecoveryInv, [Next]_vars
    PROVE  RunInv'
<1> SUFFICES ASSUME NEW r \in Runs PROVE RunInv!(r)'
  BY DEF RunInv
<1> USE DEF TypeOK
<1>1. RunInv!(r) /\ folded[r] \in Row
  BY DEF RunInv
<1>2. ASSUME NEW kind \in Kinds, Appends(r, kind) \/ AppendFails(r, kind)
      PROVE  /\ folded'[r] \in {folded[r], Apply(folded[r], kind)}
             /\ Shown(folded'[r])
  <2>1. folded'[r] \in {folded[r], Apply(folded[r], kind)}
    BY <1>2 DEF Appends, AppendFails
  <2>2. Shown(folded[r]) /\ Shown(Apply(folded[r], kind))
    BY <1>1, ApplyShows
  <2> QED
    BY <2>1, <2>2
<1>3. ASSUME NEW q \in Runs, q # r,
             \/ \E w \in Works : Launch(q, w)
             \/ Supervise(q) \/ SupervisorDies(q) \/ ChildExits(q)
             \/ PidReused(q) \/ MarkFails(q) \/ Mark(q)
      PROVE  RunInv!(r)'
  <2>1. run'[r] = run[r]
    BY <1>3 DEF Launch, Supervise, OpenPane, Spawn, Heartbeat, Reap, ClosePane,
                Exit, SupervisorDies, ChildExits, PidReused, MarkFails, Mark, At
  <2>2. child'[r] = child[r]
    BY <1>3 DEF Launch, Supervise, OpenPane, Spawn, Heartbeat, Reap, ClosePane,
                Exit, SupervisorDies, ChildExits, PidReused, MarkFails, Mark
  <2>3. folded'[r] = folded[r]
    BY <1>3 DEF Launch, Supervise, OpenPane, Spawn, Heartbeat, Reap, ClosePane,
                Exit, SupervisorDies, ChildExits, PidReused, MarkFails, Mark,
                Appends, AppendFails
  <2> QED
    BY <2>1, <2>2, <2>3, RunStays
<1>4. ASSUME NEW w \in Works, Launch(r, w)
      PROVE  RunInv!(r)'
  <2>1. /\ folded'[r] \in {folded[r], Apply(folded[r], "launched")}
        /\ Shown(folded'[r])
    BY <1>2, <1>4 DEF Launch, Kinds
  <2>2. run[r].at = "new" /\ UNCHANGED child
    BY <1>4 DEF Launch
  <2>3. CASE Appends(r, "launched") /\ run'[r].at = "launched"
    <3>1. folded'[r].state = "starting"
      BY <1>1, <2>2, <2>3, ApplyLaunch DEF Appends
    <3> QED
      BY <1>1, <2>1, <2>2, <2>3, <3>1 DEF Supervising
  <2>4. CASE run'[r].at = "ended"
    BY <1>1, <2>1, <2>2, <2>4 DEF Supervising
  <2> QED
    BY <1>4, <2>3, <2>4, SMTT(30) DEF Launch
<1>5. CASE OpenPane(r)
  <2>1. /\ folded'[r] \in {folded[r], Apply(folded[r], "opened")}
        /\ Shown(folded'[r])
    BY <1>2, <1>5 DEF OpenPane, Kinds
  <2>2. folded'[r].state \in {"starting", "live"}
    BY <1>1, <1>5, <2>1, ApplySupervised DEF OpenPane, Supervising
  <2>3. run'[r].at \in {"opened", "ended"} /\ child'[r] = "none"
    BY <1>1, <1>5 DEF OpenPane, At
  <2> QED
    BY <2>1, <2>2, <2>3 DEF Supervising
<1>6. CASE Spawn(r)
  <2>1. CASE /\ child' = [child EXCEPT ![r] = "alive"]
             /\ At(r, "spawned") /\ UNCHANGED folded
    BY <1>1, <1>6, <2>1 DEF Spawn, At, Supervising, Shown
  <2>2. CASE /\ Appends(r, "failed") \/ AppendFails(r, "failed")
             /\ At(r, "ended") /\ UNCHANGED child
    <3>1. Shown(folded'[r])
      BY <1>2, <2>2 DEF Kinds, Exits
    <3> QED
      BY <1>1, <1>6, <2>2, <3>1 DEF Spawn, At, Supervising
  <2> QED
    BY <1>6, <2>1, <2>2 DEF Spawn
<1>7. CASE Heartbeat(r)
  <2>1. PICK kind \in Beats :
            \/ Appends(r, kind) /\ At(r, "live") /\ UNCHANGED child
            \/ /\ AppendFails(r, kind) /\ At(r, "ended")
               /\ child' = [child EXCEPT ![r] = "gone"]
    BY <1>7 DEF Heartbeat
  <2>2. /\ folded'[r] \in {folded[r], Apply(folded[r], kind)}
        /\ Shown(folded'[r])
    BY <1>2, <2>1 DEF Kinds
  <2>3. folded'[r].state \in {"starting", "live"}
    BY <1>1, <1>7, <2>2, ApplySupervised DEF Heartbeat, Supervising
  <2> QED
    BY <2>1, <2>2, <2>3 DEF At, Supervising
<1>8. CASE Reap(r)
  BY <1>1, <1>8 DEF Reap, At, Supervising, Shown
<1>9. CASE ClosePane(r)
  <2>1. /\ folded'[r] \in {folded[r], Apply(folded[r], "closed")}
        /\ Shown(folded'[r])
    BY <1>2, <1>9 DEF ClosePane, Kinds
  <2>2. folded'[r].state \in {"starting", "live"}
    BY <1>1, <1>9, <2>1, ApplySupervised DEF ClosePane, Supervising
  <2> QED
    BY <1>1, <1>9, <2>1, <2>2 DEF ClosePane, At, Supervising
<1>10. CASE Exit(r)
  <2>1. PICK kind \in Exits : Appends(r, kind) \/ AppendFails(r, kind)
    BY <1>10 DEF Exit
  <2>2. Shown(folded'[r])
    BY <1>2, <2>1 DEF Kinds
  <2> QED
    BY <1>1, <1>10, <2>2 DEF Exit, At, Supervising
<1>11. CASE SupervisorDies(r)
  BY <1>1, <1>11 DEF SupervisorDies, At, Supervising, Shown
<1>12. CASE ChildExits(r) \/ PidReused(r)
  BY <1>1, <1>12 DEF ChildExits, PidReused, Shown
<1>13. CASE Mark(r) \/ MarkFails(r)
  <2>1. /\ folded'[r] \in {folded[r], Apply(folded[r], "stale")}
        /\ Shown(folded'[r])
    BY <1>2, <1>13 DEF Mark, MarkFails, Kinds
  <2>2. recovery.marks # {} /\ UNCHANGED <<run, child>>
    BY <1>13 DEF Mark, MarkFails
  <2>3. run[r].at \notin Supervising
    BY <2>2 DEF RecoveryInv, Exclusive
  <2> QED
    BY <1>1, <2>1, <2>2, <2>3, ApplyMarker
<1>14. CASE UNCHANGED <<run, child, folded>>
  BY <1>14, RunStays
<1> QED
  BY <1>3, <1>4, <1>5, <1>6, <1>7, <1>8, <1>9, <1>10, <1>11, <1>12, <1>13, <1>14,
     Zenon DEF Next, Supervise, RecoveryNext, Recover, vars, runVars

LEMMA RecoveryStep ==
    ASSUME TypeOK, RecoveryInv, [Next]_vars
    PROVE  RecoveryInv'
<1> USE DEF TypeOK
<1>2. ASSUME NEW r \in Runs, Supervise(r) \/ SupervisorDies(r)
      PROVE  RecoveryInv'
  <2>1. run[r].at \in Supervising /\ UNCHANGED recovery
    BY <1>2 DEF Supervise, OpenPane, Spawn, Heartbeat, Reap, ClosePane, Exit,
                SupervisorDies, Elsewhere, Supervising
  <2> QED
    BY <2>1 DEF RecoveryInv, Exclusive
<1>3. ASSUME NEW r \in Runs, NEW w \in Works, Launch(r, w)
      PROVE  RecoveryInv'
  BY <1>3 DEF RecoveryInv, Launch, Elsewhere
<1>4. CASE UNCHANGED <<run, recovery>>
  BY <1>4 DEF RecoveryInv, Exclusive
<1>5. ASSUME NEW r \in Runs, Mark(r) \/ MarkFails(r)
      PROVE  RecoveryInv'
  <2>1. recovery.on /\ UNCHANGED run
    BY <1>5 DEF Mark, MarkFails, RecoveryInv
  <2>2. recovery'.marks # {} => recovery'.on
    <3>1. CASE Mark(r)
      <4>1. PICK x \in Seen :
              recovery' = [on |-> recovery.marks # {<<r, x>>},
                           marks |-> recovery.marks \ {<<r, x>>}]
        BY <3>1 DEF Mark
      <4>2. recovery'.marks # {} => recovery.marks # {<<r, x>>}
        BY <4>1
      <4> QED
        BY <4>1, <4>2
    <3>2. CASE MarkFails(r)
      BY <3>2 DEF MarkFails, NoRecovery
    <3> QED
      BY <1>5, <3>1, <3>2
  <2> QED
    BY <2>1, <2>2 DEF RecoveryInv, Exclusive
<1>6. CASE Recover
  <2>1. recovery'.on /\ Exclusive /\ UNCHANGED run
    BY <1>6 DEF Recover
  <2> QED
    BY <2>1 DEF RecoveryInv, Exclusive
<1> QED
  BY <1>2, <1>3, <1>4, <1>5, <1>6, Zenon
     DEF Next, RecoveryNext, ChildExits, PidReused, vars, runVars

\* The inductive invariant of runs, worker processes and recoveries.
THEOREM RunsAreConsistent == Spec => [](RunInv /\ RecoveryInv)
<1>1. Init => RunInv /\ RecoveryInv
  BY DEF Init, RunInv, RecoveryInv, Exclusive, NoRun, NoRecovery, Supervising,
         Shown, Exits
<1> QED
  BY <1>1, RunStep, RecoveryStep, RunTypesCorrect, PTL DEF Spec

\* The journal knows every worker process: it has its launch and no ending,
\* and a supervisor that returned left none behind (heartbeat_or_reap).
THEOREM ChildIsKnownHolds == Spec => []ChildIsKnown
<1>1. RunInv => ChildIsKnown
  BY DEF RunInv, ChildIsKnown, Exits
<1> QED
  BY <1>1, RunsAreConsistent, PTL

\* Recovery never marks a run that is supervised, whatever the order of its
\* rows and those of the supervisor.
THEOREM HealthyIsNotStaleHolds == Spec => []HealthyIsNotStale
<1>1. RunInv => HealthyIsNotStale
  BY DEF RunInv, HealthyIsNotStale
<1> QED
  BY <1>1, RunsAreConsistent, PTL

\* The pane of a run that is over shows it, whichever rows were refused.
THEOREM PaneShowsEndHolds == Spec => []PaneShowsEnd
<1>1. RunInv => PaneShowsEnd
  BY DEF RunInv, PaneShowsEnd, Shown
<1> QED
  BY <1>1, RunsAreConsistent, PTL

\* A marker says only what observe_process could see of the recorded
\* process: another process with its pid is never taken for it.
THEOREM MarkerIsHonestHolds == Spec => MarkerIsHonest
<1> DEFINE Honest ==
        \A r \in Runs :
            /\ <<r, "alive">> \in recovery'.marks \ recovery.marks => child[r] = "alive"
            /\ <<r, "gone">> \in recovery'.marks \ recovery.marks => child[r] # "alive"
<1>1. ASSUME TypeOK, [Next]_vars
      PROVE  Honest
  <2>1. CASE recovery'.marks \subseteq recovery.marks
    BY <2>1
  <2>2. CASE Recover
    <3>1. PICK seen \in [Unfinished -> Seen] :
            /\ \A r \in Unfinished : seen[r] \in Observe(r)
            /\ recovery' = [on |-> TRUE, marks |-> {<<r, seen[r]>> : r \in Unfinished}]
      BY <2>2 DEF Recover
    <3>2. ASSUME NEW r \in Runs, NEW x, <<r, x>> \in recovery'.marks
          PROVE  x \in Observe(r)
      BY <3>1, <3>2
    <3>3. ASSUME NEW r \in Runs
          PROVE  /\ "alive" \in Observe(r) => child[r] = "alive"
                 /\ "gone" \in Observe(r) => child[r] # "alive"
      BY DEF Observe
    <3> QED
      BY <3>2, <3>3
  <2>3. ASSUME NEW r \in Runs, Mark(r) \/ MarkFails(r)
        PROVE  recovery'.marks \subseteq recovery.marks
    <3>1. CASE Mark(r)
      <4>1. PICK x \in Seen :
              recovery' = [on |-> recovery.marks # {<<r, x>>},
                           marks |-> recovery.marks \ {<<r, x>>}]
        BY <3>1 DEF Mark
      <4> QED
        BY <4>1
    <3>2. CASE MarkFails(r)
      BY <3>2 DEF MarkFails, NoRecovery
    <3> QED
      BY <2>3, <3>1, <3>2
  <2>4. CASE UNCHANGED recovery
    BY <2>1, <2>4
  <2> QED
    BY <1>1, <2>1, <2>2, <2>3, <2>4, Zenon
       DEF Next, Supervise, RecoveryNext, Launch, OpenPane, Spawn, Heartbeat, Reap,
           ClosePane, Exit, SupervisorDies, ChildExits, PidReused, Elsewhere,
           vars, runVars
<1> QED
  BY <1>1, RunTypesCorrect, PTL DEF Spec, MarkerIsHonest
=============================================================================
