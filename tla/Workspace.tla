------------------------------ MODULE Workspace ------------------------------
(***************************************************************************)
(* heiwa workspace prepare (apps/heiwa_shell/src/cmd/workspace.rs): one    *)
(* Work takes the writer lease of a repository (crates/heiwa_workspace) in *)
(* the worker_leases stream (crates/heiwa_evidence), makes its worktree    *)
(* and records both on the Work; a failure is compensated.  The processes  *)
(* of two Works run at the same time, may die anywhere, and share the      *)
(* stream with the core, whose restart revokes what it finds live.         *)
(*                                                                         *)
(* Abstractions.  One repository.  A lease is the id its preparation mints *)
(* and belongs to the Work that minted it; late is the set of leases past  *)
(* their eight hours.  A worktree is there with its branch, is gone but    *)
(* for the branch, or is not there.  Nothing releases a workspace:         *)
(* release_writer_lease and workspace_released_event have no caller.       *)
(***************************************************************************)
EXTENDS Naturals, FiniteSets

CONSTANTS
    Works,       \* Works that prepare the repository
    Leases,      \* lease ids
    None,        \* no lease
    MaxFaults,   \* bound on failing operations
    MaxDeaths,   \* bound on processes that die
    MaxRestarts  \* bound on restarts of the core

ASSUME WorkspaceAssumption ==
    None \notin Leases /\ {MaxFaults, MaxDeaths, MaxRestarts} \subseteq Nat

VARIABLES
    rows,      \* the latest row of every lease in the stream
    tail,      \* the end of the stream: "whole", "torn", or "sealed" damage
    late,      \* leases past their expiry
    prep,      \* per Work: its heiwa workspace prepare
    tree,      \* per Work: "none", "made" or "branch"
    prepared,  \* per Work: the lease of its latest workspace_prepared row
    restart,   \* leases a starting core still revokes
    budget     \* faults, deaths and restarts so far

workspaceVars == <<rows, tail, late, prep, tree, prepared, restart, budget>>

Stages == {"idle", "leased", "dir", "tree", "checked", "undo", "revoke",
           "dirty", "refused", "failed", "compensated", "prepared", "dead"}
Working == {"leased", "dir", "tree", "checked", "undo", "revoke", "dirty"}

WorkspaceTypeOK ==
    /\ rows \in [Leases -> {"none", "issued", "revoked", "expired"}]
    /\ tail \in {"whole", "torn", "sealed"}
    /\ late \subseteq Leases
    /\ prep \in [Works -> [at : Stages, lease : Leases \cup {None}, mine : BOOLEAN]]
    /\ tree \in [Works -> {"none", "made", "branch"}]
    /\ prepared \in [Works -> Leases \cup {None}]
    /\ restart \subseteq Leases
    /\ budget \in [faults : 0 .. MaxFaults, deaths : 0 .. MaxDeaths,
                   restarts : 0 .. MaxRestarts]

\* mine says that the worktree is the one this preparation made.
WorkspaceInit ==
    /\ rows = [a \in Leases |-> "none"]
    /\ tail = "whole" /\ late = {} /\ restart = {}
    /\ prep = [w \in Works |-> [at |-> "idle", lease |-> None, mine |-> FALSE]]
    /\ tree = [w \in Works |-> "none"]
    /\ prepared = [w \in Works |-> None]
    /\ budget = [faults |-> 0, deaths |-> 0, restarts |-> 0]

Fault == /\ budget.faults < MaxFaults
         /\ budget' = [budget EXCEPT !.faults = @ + 1]

-----------------------------------------------------------------------------
(* The worker_leases stream.                                               *)

\* append_locked writes behind a torn line without ending it: the two are
\* one unreadable line.
AppendRows(status, set) ==
    /\ rows' = IF tail = "torn" THEN rows
               ELSE [a \in Leases |-> IF a \in set THEN status ELSE rows[a]]
    /\ tail' = IF tail = "torn" THEN "sealed" ELSE tail

Held == {a \in Leases : rows[a] = "issued"}

\* Mutant of Blocking: a lease blocks only its own Work.
BlockingOwn(w) == {a \in Held \ late : a = prep[w].lease}

\* The leases that make try_acquire_worker_lease refuse w.
Blocking(w) == Held \ late

\* try_acquire_worker_lease, all under the stream lock: refused on a damaged
\* stream and when a live lease holds the repository; else the expired ones
\* are closed and the new one is issued.
Acquire(w, a) ==
    /\ prep[w].at = "idle" /\ rows[a] = "none"
    /\ \/ /\ tail # "whole" \/ Blocking(w) # {}
          /\ prep' = [prep EXCEPT ![w].at = "refused"]
          /\ UNCHANGED <<rows, budget>>
       \/ /\ tail = "whole" /\ Blocking(w) = {}
          /\ rows' = [x \in Leases |-> IF x = a THEN "issued"
                                      ELSE IF x \in Held \cap late THEN "expired" ELSE rows[x]]
          /\ prep' = [prep EXCEPT ![w] = [at |-> "leased", lease |-> a, mine |-> FALSE]]
          /\ UNCHANGED budget
       \/ \* an append fails: some expired leases may have been closed
          /\ tail = "whole" /\ Blocking(w) = {}
          /\ Fault
          /\ \E closed \in SUBSET (Held \cap late) :
                rows' = [x \in Leases |-> IF x \in closed THEN "expired" ELSE rows[x]]
          /\ prep' = [prep EXCEPT ![w].at = "refused"]
    /\ UNCHANGED <<tail, late, tree, prepared, restart>>

-----------------------------------------------------------------------------
(* prepare_for behind the lease.                                           *)

To(w, stage) == prep' = [prep EXCEPT ![w].at = stage]

\* The holding directory; an error returns without giving the lease back.
MakeHolding(w) ==
    /\ prep[w].at = "leased"
    /\ \/ To(w, "dir") /\ UNCHANGED budget
       \/ To(w, "failed") /\ Fault
    /\ UNCHANGED <<rows, tail, late, tree, prepared, restart>>

\* create_worktree_in refuses a Work whose worktree or branch is there.
MakeTree(w) ==
    /\ prep[w].at = "dir"
    /\ \/ /\ tree[w] = "none"
          /\ tree' = [tree EXCEPT ![w] = "made"]
          /\ prep' = [prep EXCEPT ![w] = [@ EXCEPT !.at = "tree", !.mine = TRUE]]
          /\ UNCHANGED budget
       \/ /\ tree[w] # "none"
          /\ To(w, "revoke")
          /\ UNCHANGED <<tree, budget>>
       \/ /\ Fault
          /\ To(w, "revoke")
          /\ UNCHANGED tree
    /\ UNCHANGED <<rows, tail, late, prepared, restart>>

\* The diff of the new worktree.
CheckDiff(w) ==
    /\ prep[w].at = "tree"
    /\ \/ To(w, "checked") /\ UNCHANGED budget
       \/ To(w, "undo") /\ Fault
    /\ UNCHANGED <<rows, tail, late, tree, prepared, restart>>

\* The workspace_prepared row.  The journal that cannot be opened returns
\* at once; an append that reports an error may have written the row.
Record(w) ==
    /\ prep[w].at = "checked"
    /\ \/ /\ prepared' = [prepared EXCEPT ![w] = prep[w].lease]
          /\ To(w, "prepared") /\ UNCHANGED budget
       \/ /\ Fault /\ To(w, "failed")
          /\ UNCHANGED prepared
       \/ /\ Fault /\ To(w, "undo")
          /\ prepared' \in {prepared, [prepared EXCEPT ![w] = prep[w].lease]}
    /\ UNCHANGED <<rows, tail, late, tree, restart>>

\* compensate_failed_prepare: the worktree and its branch, ...
RemoveTree(w) ==
    /\ prep[w].at = "undo"
    /\ \/ /\ tree' = [tree EXCEPT ![w] = "none"]
          /\ To(w, "revoke") /\ UNCHANGED budget
       \/ /\ tree' \in {tree, [tree EXCEPT ![w] = "branch"]}
          /\ To(w, "dirty") /\ Fault
    /\ UNCHANGED <<rows, tail, late, prepared, restart>>

\* Mutant of RevokeLease: given back only while it is not yet late.
RevokeInTime(w) ==
    /\ prep[w].at = "revoke"
    /\ IF prep[w].lease \in late THEN UNCHANGED <<rows, tail>>
       ELSE AppendRows("revoked", {prep[w].lease})
    /\ To(w, "compensated")
    /\ UNCHANGED <<late, tree, prepared, restart, budget>>

\* ... then the lease.
RevokeLease(w) ==
    /\ prep[w].at \in {"revoke", "dirty"}
    /\ \/ /\ AppendRows("revoked", {prep[w].lease})
          /\ To(w, IF prep[w].at = "dirty" THEN "failed" ELSE "compensated")
          /\ UNCHANGED budget
       \/ /\ Fault /\ To(w, "failed")
          /\ UNCHANGED <<rows, tail>>
    /\ UNCHANGED <<late, tree, prepared, restart>>

\* The process dies, in an append with the line half written.
PrepareDies(w) ==
    /\ prep[w].at \in Working \cup {"idle"}
    /\ budget.deaths < MaxDeaths
    /\ budget' = [budget EXCEPT !.deaths = @ + 1]
    /\ To(w, "dead")
    /\ \/ UNCHANGED tail
       \/ prep[w].at \in {"idle", "revoke", "dirty"} /\ tail = "whole" /\ tail' = "torn"
    /\ UNCHANGED <<rows, late, tree, prepared, restart>>

\* heiwa workspace prepare is called again.
PrepareAgain(w) ==
    /\ prep[w].at \in {"refused", "failed", "compensated", "prepared", "dead"}
    /\ \E a \in Leases : rows[a] = "none"
    /\ To(w, "idle")
    /\ UNCHANGED <<rows, tail, late, tree, prepared, restart, budget>>

Expire(a) ==
    /\ rows[a] = "issued" /\ a \notin late
    /\ late' = late \cup {a}
    /\ UNCHANGED <<rows, tail, prep, tree, prepared, restart, budget>>

-----------------------------------------------------------------------------
(* recover_interrupted of a starting core: a snapshot, then row by row.    *)

RestartCore ==
    /\ restart = {} /\ budget.restarts < MaxRestarts
    /\ budget' = [budget EXCEPT !.restarts = @ + 1]
    /\ restart' = Held
    /\ UNCHANGED <<rows, tail, late, prep, tree, prepared>>

RestartRevokes(a) ==
    /\ a \in restart
    /\ restart' = restart \ {a}
    /\ AppendRows("revoked", {a})
    /\ UNCHANGED <<late, prep, tree, prepared, budget>>

Prepare(w) ==
    \/ \E a \in Leases : Acquire(w, a)
    \/ MakeHolding(w) \/ MakeTree(w) \/ CheckDiff(w) \/ Record(w)
    \/ RemoveTree(w) \/ RevokeLease(w)

WorkspaceNext ==
    \/ \E w \in Works : Prepare(w) \/ PrepareDies(w) \/ PrepareAgain(w)
    \/ \E a \in Leases : Expire(a) \/ RestartRevokes(a)
    \/ RestartCore

-----------------------------------------------------------------------------
(* Properties.                                                             *)

\* "two processes cannot both observe the capability as free": at most one
\* lease of the repository is live and in time, whatever died or failed.
OneHolder == \A a, b \in Held \ late : a = b

\* A preparation that reports a plain failure, with its compensation done,
\* left neither the lease live nor the worktree it made.
CompensationIsComplete ==
    \A w \in Works : prep[w].at = "compensated" /\ tail = "whole" =>
        /\ rows[prep[w].lease] # "issued"
        /\ prep[w].mine => tree[w] = "none"
=============================================================================
