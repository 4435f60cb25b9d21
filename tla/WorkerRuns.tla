----------------------------- MODULE WorkerRuns -----------------------------
(***************************************************************************)
(* heiwa work run (apps/heiwa_shell/src/cmd/worker.rs): a worker process   *)
(* in the worktree Workspace prepared, supervised by the heiwa process     *)
(* that spawned it and recorded row by row in the operator journal; the    *)
(* fold of those rows to a run (crates/heiwa_worker), and the restart      *)
(* recovery that marks the runs whose supervisor is gone                   *)
(* (apps/heiwa_shell/src/cmd/recover.rs).                                  *)
(*                                                                         *)
(* A supervisor holds the shared activity lease from its first row until   *)
(* it ends; recovery needs it exclusively.                                 *)
(*                                                                         *)
(* Abstractions.  The rows of a run are kept as the run they fold to: the  *)
(* fold looks at one run at a time.  A process has a start identity; its   *)
(* pid may be taken by another process once it is gone.  Of the evidence   *)
(* recovery does not interpret, the torn line is modelled that a death or  *)
(* a failure in an append leaves, and that the next append removes; rows   *)
(* of other schemas or scopes have no writer here.                         *)
(***************************************************************************)
EXTENDS Workspace

CONSTANTS
    Runs         \* run ids

ASSUME WorksAssumption == Works # {}

VARIABLES
    run,         \* per run: its supervisor
    child,       \* per run: the worker process, and who holds its pid
    folded,      \* per run: what its rows in the operator journal fold to
    torn,        \* the journal ends in a torn line
    recovery     \* the markers a recovery still appends

runVars == <<run, child, folded, torn, recovery>>
vars == <<workspaceVars, runVars>>

Supervising == {"launched", "opened", "spawned", "live", "reaped", "closed"}
Children == {"none", "alive", "gone", "reused"}
Seen == {"alive", "gone", "unknown"}
Beats == {"beat", "beatNoId"}
Exits == {"exited", "failed"}
States == {"none", "starting", "live", "stale"} \cup Exits

\* PaneState::for_worker.
PaneFor == [starting |-> "unverified", live |-> "working", exited |-> "done",
            failed |-> "failed", stale |-> "stale"]

Row == [state : States, id : Beats \cup {"none"},
        pane : {"none"} \cup {PaneFor[x] : x \in DOMAIN PaneFor}]

NoRun == [state |-> "none", id |-> "none", pane |-> "none"]

NoRecovery == [on |-> FALSE, marks |-> {}]

TypeOK ==
    /\ WorkspaceTypeOK
    /\ run \in [Runs -> [at : Supervising \cup {"new", "ended", "dead"},
                         work : Works]]
    /\ child \in [Runs -> Children]
    /\ folded \in [Runs -> Row]
    /\ torn \in BOOLEAN
    /\ recovery \in [on : BOOLEAN, marks : SUBSET (Runs \X Seen)]

Init ==
    /\ WorkspaceInit
    /\ run = [r \in Runs |-> [at |-> "new", work |-> CHOOSE w \in Works : TRUE]]
    /\ child = [r \in Runs |-> "none"]
    /\ folded = [r \in Runs |-> NoRun]
    /\ torn = FALSE
    /\ recovery = NoRecovery

-----------------------------------------------------------------------------
(* RunFold::apply, on the rows of one run.                                 *)

\* An ending or a marker is shown by the pane as well, if there is one.
Rebound(row, state) ==
    [row EXCEPT !.state = state, !.pane = IF @ = "none" THEN @ ELSE PaneFor[state]]

\* Mutant of Apply: an ending leaves the pane as it is.
ApplyKeepsPane(row, kind) ==
    IF kind = "launched" THEN [row EXCEPT !.state = IF @ = "none" THEN "starting" ELSE @]
    ELSE IF row.state = "none" THEN row
    ELSE CASE kind \in Beats ->
                [row EXCEPT !.state = IF @ = "starting" THEN "live" ELSE @,
                            !.id = IF @ = "none" THEN kind ELSE @]
           [] kind \in Exits -> [row EXCEPT !.state = kind]
           [] kind \in {"opened", "closed"} -> [row EXCEPT !.pane = PaneFor[row.state]]
           [] OTHER -> IF row.state \in {"starting", "live"}
                       THEN Rebound(row, "stale") ELSE row

\* A row that is not a launch never makes a run; a marker changes only a run
\* that has neither an ending nor a marker.
Apply(row, kind) ==
    IF kind = "launched" THEN [row EXCEPT !.state = IF @ = "none" THEN "starting" ELSE @]
    ELSE IF row.state = "none" THEN row
    ELSE CASE kind \in Beats ->
                [row EXCEPT !.state = IF @ = "starting" THEN "live" ELSE @,
                            !.id = IF @ = "none" THEN kind ELSE @]
           [] kind \in Exits -> Rebound(row, kind)
           [] kind \in {"opened", "closed"} -> [row EXCEPT !.pane = PaneFor[row.state]]
           [] OTHER -> IF row.state \in {"starting", "live"}
                       THEN Rebound(row, "stale") ELSE row

\* Mutant of Unfinished: a run without a heartbeat is not looked at.
UnfinishedLive == {r \in Runs : folded[r].state = "live"}

\* unfinished_runs.
Unfinished == {r \in Runs : folded[r].state \in {"starting", "live"}}

-----------------------------------------------------------------------------
(* run_in_prepared_workspace_with_output.                                  *)

\* OperatorJournal::append removes a torn line before it writes.
Appends(r, kind) ==
    /\ folded' = [folded EXCEPT ![r] = Apply(@, kind)]
    /\ torn' = FALSE
    /\ UNCHANGED budget

\* An append that reports an error may have written the row, a part of it
\* or nothing.
AppendFails(r, kind) ==
    /\ Fault
    /\ \/ folded' = [folded EXCEPT ![r] = Apply(@, kind)] /\ torn' = FALSE
       \/ folded' = folded /\ torn' \in BOOLEAN

At(r, stage) == run' = [run EXCEPT ![r].at = stage]

Elsewhere == <<rows, tail, late, prep, tree, prepared, restart, recovery>>

\* The latest prepared workspace is looked up, and its worktree; not its
\* lease.  The append takes the shared activity lease, which a recovery
\* refuses.
Launch(r, w) ==
    /\ run[r].at = "new" /\ ~recovery.on
    /\ prepared[w] # None /\ tree[w] = "made"
    /\ \/ /\ Appends(r, "launched")
          /\ run' = [run EXCEPT ![r] = [at |-> "launched", work |-> w]]
       \/ /\ AppendFails(r, "launched")
          /\ run' = [run EXCEPT ![r] = [at |-> "ended", work |-> w]]
    /\ UNCHANGED <<Elsewhere, child>>

OpenPane(r) ==
    /\ run[r].at = "launched"
    /\ \/ Appends(r, "opened") /\ At(r, "opened")
       \/ AppendFails(r, "opened") /\ At(r, "ended")
    /\ UNCHANGED <<Elsewhere, child>>

\* A process that cannot be started ends the run, if that row is written.
Spawn(r) ==
    /\ run[r].at = "opened"
    /\ \/ /\ child' = [child EXCEPT ![r] = "alive"]
          /\ At(r, "spawned")
          /\ UNCHANGED <<folded, torn, budget>>
       \/ /\ Appends(r, "failed") \/ AppendFails(r, "failed")
          /\ At(r, "ended")
          /\ UNCHANGED child
    /\ UNCHANGED Elsewhere

\* heartbeat_or_reap.  The start identity cannot always be read.
Heartbeat(r) ==
    /\ run[r].at = "spawned"
    /\ \E kind \in Beats :
        \/ Appends(r, kind) /\ At(r, "live") /\ UNCHANGED child
        \/ /\ AppendFails(r, kind) /\ At(r, "ended")
           /\ child' = [child EXCEPT ![r] = "gone"]
    /\ UNCHANGED Elsewhere

ChildExits(r) ==
    /\ child[r] = "alive"
    /\ child' = [child EXCEPT ![r] = "gone"]
    /\ UNCHANGED <<workspaceVars, run, folded, torn, recovery>>

\* The pid is free only after the child is waited for.
PidReused(r) ==
    /\ child[r] = "gone" /\ run[r].at \notin {"spawned", "live"}
    /\ child' = [child EXCEPT ![r] = "reused"]
    /\ UNCHANGED <<workspaceVars, run, folded, torn, recovery>>

\* Mutant of Reap: both pipes are closed, the child is not waited for.
ReapEarly(r) ==
    /\ run[r].at = "live"
    /\ At(r, "reaped")
    /\ UNCHANGED <<Elsewhere, child, folded, torn, budget>>

\* stream_and_reap.
Reap(r) ==
    /\ run[r].at = "live" /\ child[r] # "alive"
    /\ At(r, "reaped")
    /\ UNCHANGED <<Elsewhere, child, folded, torn, budget>>

\* A refused pane tail is held back until the exit is recorded.
ClosePane(r) ==
    /\ run[r].at = "reaped"
    /\ At(r, "closed")
    /\ Appends(r, "closed") \/ AppendFails(r, "closed")
    /\ UNCHANGED <<Elsewhere, child>>

Exit(r) ==
    /\ run[r].at = "closed"
    /\ At(r, "ended")
    /\ \E kind \in Exits : Appends(r, kind) \/ AppendFails(r, kind)
    /\ UNCHANGED <<Elsewhere, child>>

\* The supervisor dies, perhaps with a line half written; the worker
\* process goes on.
SupervisorDies(r) ==
    /\ run[r].at \in Supervising
    /\ budget.deaths < MaxDeaths
    /\ budget' = [budget EXCEPT !.deaths = @ + 1]
    /\ At(r, "dead")
    /\ torn' \in {torn, TRUE}
    /\ UNCHANGED <<Elsewhere, child, folded>>

-----------------------------------------------------------------------------
(* recover_interrupted_with(RunRecovery).                                  *)

\* Mutant of Observe: whoever holds the pid is the recorded process.
ObserveByPid(r) ==
    IF folded[r].id = "none" THEN {"unknown"}
    ELSE IF child[r] \in {"alive", "reused"} THEN {"alive", "unknown"}
    ELSE {"gone", "unknown"}

\* What observe_process may say.  The process may not be inspectable, and a
\* pid in use proves nothing without both start identities.
Observe(r) ==
    LET id == folded[r].id
    IN IF id = "none" THEN {"unknown"}
       ELSE IF id = "beatNoId" /\ child[r] \in {"alive", "reused"} THEN {"unknown"}
       ELSE IF child[r] = "alive" THEN {"alive", "unknown"}
       ELSE {"gone", "unknown"}

\* Mutant of Exclusive: the lease is not asked for.
ExclusiveUnasked == TRUE

\* The exclusive activity lease: no supervisor is left.
Exclusive == \A r \in Runs : run[r].at \notin Supervising

\* The plan: a marker for every unfinished run, or for none of them when a
\* line of the journal is unreadable.
Recover ==
    /\ ~recovery.on /\ Exclusive
    /\ Unfinished # {} /\ ~torn
    /\ \E seen \in [Unfinished -> Seen] :
        /\ \A r \in Unfinished : seen[r] \in Observe(r)
        /\ recovery' = [on |-> TRUE, marks |-> {<<r, seen[r]>> : r \in Unfinished}]
    /\ UNCHANGED <<workspaceVars, run, child, folded, torn>>

Mark(r) ==
    /\ \E x \in Seen :
        /\ <<r, x>> \in recovery.marks
        /\ recovery' = [on |-> recovery.marks # {<<r, x>>},
                        marks |-> recovery.marks \ {<<r, x>>}]
        /\ Appends(r, "stale")
    /\ UNCHANGED <<rows, tail, late, prep, tree, prepared, restart, run, child>>

\* A marker is not written: the section ends.
MarkFails(r) ==
    /\ \E x \in Seen : <<r, x>> \in recovery.marks /\ AppendFails(r, "stale")
    /\ recovery' = NoRecovery
    /\ UNCHANGED <<rows, tail, late, prep, tree, prepared, restart, run, child>>

-----------------------------------------------------------------------------

Supervise(r) ==
    \/ OpenPane(r) \/ Spawn(r) \/ Heartbeat(r) \/ Reap(r) \/ ClosePane(r)
    \/ Exit(r)

RecoveryNext == Recover \/ \E r \in Runs : Mark(r)

Next ==
    \/ WorkspaceNext /\ UNCHANGED runVars
    \/ \E r \in Runs : \/ \E w \in Works : Launch(r, w)
                       \/ Supervise(r) \/ SupervisorDies(r)
                       \/ ChildExits(r) \/ PidReused(r) \/ MarkFails(r)
    \/ RecoveryNext

Spec == Init /\ [][Next]_vars

\* Recovery is run whenever the app runtime starts.
FairSpec == Spec /\ WF_vars(RecoveryNext)

-----------------------------------------------------------------------------
(* Properties.                                                             *)

\* "the reverse order would leave a running process no replay knows about"
\* (worker.rs): a worker process is only there when the journal has its
\* launch and no ending of it, and unless its supervisor died it is gone
\* when that returns.
ChildIsKnown ==
    \A r \in Runs : child[r] = "alive" =>
        folded[r].state \notin {"none"} \cup Exits /\ run[r].at # "ended"

\* A run is stale only when its supervisor is gone, whatever the order of
\* its rows and those of a recovery in another process.
HealthyIsNotStale ==
    \A r \in Runs : run[r].at \in Supervising => folded[r].state # "stale"

\* Once a run has ended or is stale its pane shows that, also when the row
\* that closes the pane was refused or the supervisor died behind it.  (The
\* pane of a live run stays "unverified": a heartbeat does not change it.)
PaneShowsEnd ==
    \A r \in Runs : LET row == folded[r]
                    IN row.pane # "none" /\ row.state \in Exits \cup {"stale"}
                          => row.pane = PaneFor[row.state]

\* What a recovery says of a process was so when it looked: it never takes
\* another process that has the pid for the worker.
MarkerIsHonest ==
    [][\A r \in Runs :
        /\ <<r, "alive">> \in recovery'.marks \ recovery.marks => child[r] = "alive"
        /\ <<r, "gone">> \in recovery'.marks \ recovery.marks => child[r] # "alive"]_vars

\* When the last supervisor is gone and the journal is whole, recovery
\* leaves no run that shows as supervised.
RunsSettle ==
    <>[](~torn /\ \A r \in Runs : run[r].at \notin Supervising)
        => <>[](\A r \in Runs : folded[r].state \notin {"starting", "live"})

\* "Exclusive permission for one Work to mutate one repository." (lease.rs):
\* no two Works have a worker process in the repository.
OneWriter ==
    \A r, q \in Runs :
        child[r] = "alive" /\ child[q] = "alive" => run[r].work = run[q].work
=============================================================================
