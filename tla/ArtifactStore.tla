---------------------------- MODULE ArtifactStore ----------------------------
(***************************************************************************)
(* Large tool outputs (apps/heiwa_shell/src/operator.rs): the raw output   *)
(* is a file, its artifact_created row in the operator journal is what     *)
(* makes it durable, and LocalArtifactStore keeps the two together.        *)
(*                                                                         *)
(* persist_large_tool_output writes a pending manifest, then the raw file  *)
(* (each as a temporary that is renamed), appends the link and removes the *)
(* manifest.  A runner reconciles the directory with the journal's links   *)
(* before its first submission.  Every file operation and the append is a  *)
(* step of its own: turns of one process interleave, a second process may  *)
(* reconcile at any moment, and a process may die anywhere.                *)
(*                                                                         *)
(* Abstractions.  An artifact is its id, which is a fresh UUID; it stands  *)
(* for the pair (thread, artifact) of its link.  Files of invalid name or  *)
(* contents are not modelled: no writer makes them.                        *)
(***************************************************************************)
EXTENDS Naturals, FiniteSets

CONSTANTS
    Procs,      \* runner processes on one journal root
    Artifacts,  \* artifact ids
    None,       \* no process
    MaxFaults,  \* bound on failing file operations and appends
    MaxCrashes  \* bound on the processes that die

ASSUME ArtifactAssumption ==
    None \notin Procs /\ MaxFaults \in Nat /\ MaxCrashes \in Nat

VARIABLES
    files,      \* the files of an artifact in operator_artifacts
    links,      \* artifacts with an artifact_created row in the journal
    persist,    \* where the persist call of an artifact is
    owner,      \* the process that runs it
    reported,   \* artifacts whose link the append reported as durable
    scan,       \* per process: the reconciliation of its runner
    faults,
    crashes

storeVars == <<files, links, persist, owner, reported, scan, faults, crashes>>

\* The pending manifest and the raw file, and their temporaries.
Temps == {"pendingTemp", "rawTemp"}
FileKinds == Temps \cup {"pending", "raw"}

Calls == {"new", "pendingTemp", "pending", "rawTemp", "committed", "linked",
          "rollback", "rollbackPending", "done", "failed", "dead"}

Passes == {"due", "temps", "pendings", "raws", "done"}

StoreTypeOK ==
    /\ files \in [Artifacts -> SUBSET FileKinds]
    /\ links \subseteq Artifacts
    /\ persist \in [Artifacts -> Calls]
    /\ owner \in [Artifacts -> Procs \cup {None}]
    /\ reported \subseteq links
    /\ scan \in [Procs -> [pass : Passes, links : SUBSET Artifacts,
                           todo : SUBSET Artifacts, cut : SUBSET Artifacts,
                           dead : SUBSET Artifacts]]
    /\ faults \in 0 .. MaxFaults
    /\ crashes \in 0 .. MaxCrashes

\* Nothing of the directory has been reconciled yet in a new process.
Due == [pass |-> "due", links |-> {}, todo |-> {}, cut |-> {}, dead |-> {}]

\* Some raw files may predate the manifests: a version without them died
\* before it linked them.
StoreInit ==
    /\ \E old \in SUBSET Artifacts :
        /\ files = [a \in Artifacts |-> IF a \in old THEN {"raw"} ELSE {}]
        /\ persist = [a \in Artifacts |-> IF a \in old THEN "dead" ELSE "new"]
    /\ links = {} /\ reported = {}
    /\ owner = [a \in Artifacts |-> None]
    /\ scan = [p \in Procs |-> Due]
    /\ faults = 0 /\ crashes = 0

Fault == faults < MaxFaults /\ faults' = faults + 1

-----------------------------------------------------------------------------
(* persist_large_tool_output: commit, link, finalize or roll back.         *)

\* A turn runs only after its runner reconciled the directory.
Begin(p, a) ==
    /\ persist[a] = "new" /\ scan[p].pass = "done"
    /\ owner' = [owner EXCEPT ![a] = p]
    /\ files' = [files EXCEPT ![a] = {"pendingTemp"}]
    /\ persist' = [persist EXCEPT ![a] = "pendingTemp"]
    /\ UNCHANGED <<links, reported, scan, faults, crashes>>

\* The renames need the temporary that another runner may have removed.
Rename(a, temp, final, next) ==
    /\ persist[a] = temp /\ temp \in files[a]
    /\ files' = [files EXCEPT ![a] = (@ \ {temp}) \cup {final}]
    /\ persist' = [persist EXCEPT ![a] = next]
    /\ UNCHANGED <<links, owner, reported, scan, faults, crashes>>

RenamePending(a) == Rename(a, "pendingTemp", "pending", "pending")

WriteRaw(a) ==
    /\ persist[a] = "pending"
    /\ files' = [files EXCEPT ![a] = @ \cup {"rawTemp"}]
    /\ persist' = [persist EXCEPT ![a] = "rawTemp"]
    /\ UNCHANGED <<links, owner, reported, scan, faults, crashes>>

RenameRaw(a) == Rename(a, "rawTemp", "raw", "committed")

\* commit fails: a file operation reports an error, or the temporary is
\* gone.  What it wrote is removed as far as that works.
CommitFails(a) ==
    /\ persist[a] \in {"pendingTemp", "pending", "rawTemp"}
    /\ \/ /\ Fault
          /\ \E left \in SUBSET (files[a] \ {"raw"}) :
                files' = [files EXCEPT ![a] = (@ \cap {"raw"}) \cup left]
       \/ /\ persist[a] \in Temps /\ persist[a] \notin files[a]
          /\ files' = [files EXCEPT ![a] = @ \cap {"raw"}]
          /\ UNCHANGED faults
    /\ persist' = [persist EXCEPT ![a] = "failed"]
    /\ UNCHANGED <<links, owner, reported, scan, crashes>>

\* The link lands in the journal and the append says so.
Link(a) ==
    /\ persist[a] = "committed"
    /\ links' = links \cup {a}
    /\ reported' = reported \cup {a}
    /\ persist' = [persist EXCEPT ![a] = "linked"]
    /\ UNCHANGED <<files, owner, scan, faults, crashes>>

\* The append reports an error, with or without the row in the journal: the
\* raw file is rolled back.
LinkFails(a) ==
    /\ persist[a] = "committed"
    /\ Fault
    /\ \E landed \in BOOLEAN : links' = IF landed THEN links \cup {a} ELSE links
    /\ persist' = [persist EXCEPT ![a] = "rollback"]
    /\ UNCHANGED <<files, owner, reported, scan, crashes>>

\* rollback: the raw file, then the manifest.
RollBack(a) ==
    /\ persist[a] \in {"rollback", "rollbackPending"}
    /\ LET first == persist[a] = "rollback" IN
       /\ files' = [files EXCEPT ![a] = @ \ IF first THEN {"raw"} ELSE {"pending"}]
       /\ persist' = [persist EXCEPT
            ![a] = IF first THEN "rollbackPending" ELSE "failed"]
    /\ UNCHANGED <<links, owner, reported, scan, faults, crashes>>

RollBackFails(a) ==
    /\ persist[a] \in {"rollback", "rollbackPending"}
    /\ Fault
    /\ persist' = [persist EXCEPT ![a] = "failed"]
    /\ UNCHANGED <<files, links, owner, reported, scan, crashes>>

\* finalize removes the manifest.  If that fails the call reports an error
\* although the artifact is linked.
Finalize(a) ==
    /\ persist[a] = "linked"
    /\ \/ /\ files' = [files EXCEPT ![a] = @ \ {"pending"}]
          /\ persist' = [persist EXCEPT ![a] = "done"]
          /\ UNCHANGED faults
       \/ /\ Fault
          /\ persist' = [persist EXCEPT ![a] = "failed"]
          /\ UNCHANGED files
    /\ UNCHANGED <<links, owner, reported, scan, crashes>>

-----------------------------------------------------------------------------
(* reconcile, before the first submission of a runner.                     *)

\* The links are read once, ahead of the three walks over the directory.
ReadLinks(p) ==
    /\ scan[p].pass = "due"
    /\ scan' = [scan EXCEPT ![p] =
        [pass |-> "temps", links |-> links, todo |-> Artifacts, cut |-> {},
         dead |-> {a \in Artifacts : persist[a] = "dead"}]]
    /\ UNCHANGED <<files, links, persist, owner, reported, faults, crashes>>

NextPass == [temps |-> "pendings", pendings |-> "raws", raws |-> "done"]

\* A walk is over when every file was looked at.
EndPass(p) ==
    /\ scan[p].pass \in DOMAIN NextPass /\ scan[p].todo = {}
    /\ LET next == NextPass[scan[p].pass] IN
       scan' = [scan EXCEPT ![p].pass = next,
                            ![p].todo = IF next = "done" THEN {} ELSE Artifacts]
    /\ UNCHANGED <<files, links, persist, owner, reported, faults, crashes>>

\* Looking at an artifact's files in one walk, in any order.  gone is what
\* is removed, and more says that this artifact needs another step.
Visit(p, a, gone, more) ==
    /\ files' = [files EXCEPT ![a] = @ \ gone]
    /\ scan' = [scan EXCEPT ![p].todo = IF more THEN @ ELSE @ \ {a},
                            ![p].cut = IF more THEN @ \cup {a} ELSE @]
    /\ UNCHANGED <<links, persist, owner, reported, faults, crashes>>

\* Mutant of VisitPending: the manifest of a linked artifact stays.
VisitPendingKeepsLinked(p, a) ==
    /\ scan[p].pass = "pendings" /\ a \in scan[p].todo
    /\ \/ "pending" \notin files[a] /\ Visit(p, a, {}, FALSE)
       \/ "pending" \in files[a] /\ a \in scan[p].links /\ Visit(p, a, {}, FALSE)
       \/ /\ "pending" \in files[a]
          /\ a \notin scan[p].links
          /\ Visit(p, a, IF a \in scan[p].cut THEN {"pending"} ELSE {"raw"},
                   a \notin scan[p].cut)

VisitTemps(p, a) ==
    /\ scan[p].pass = "temps" /\ a \in scan[p].todo
    /\ Visit(p, a, Temps, FALSE)

\* Mutant of VisitPending: the manifest alone decides.
VisitPendingUnread(p, a) ==
    /\ scan[p].pass = "pendings" /\ a \in scan[p].todo
    /\ \/ "pending" \notin files[a] /\ Visit(p, a, {}, FALSE)
       \/ "pending" \in files[a] /\ a \notin scan[p].cut
            /\ Visit(p, a, {"raw"}, TRUE)
       \/ "pending" \in files[a] /\ a \in scan[p].cut
            /\ Visit(p, a, {"pending"}, FALSE)

\* A manifest without a link: the raw file goes first, then the manifest.
VisitPending(p, a) ==
    /\ scan[p].pass = "pendings" /\ a \in scan[p].todo
    /\ \/ "pending" \notin files[a] /\ Visit(p, a, {}, FALSE)
       \/ /\ "pending" \in files[a]
          /\ a \in scan[p].links \cup scan[p].cut
          /\ Visit(p, a, {"pending"}, FALSE)
       \/ /\ "pending" \in files[a]
          /\ a \notin scan[p].links \cup scan[p].cut
          /\ Visit(p, a, {"raw"}, TRUE)

\* Mutant of VisitRaw: files without a manifest are left alone.
VisitRawTrusting(p, a) ==
    /\ scan[p].pass = "raws" /\ a \in scan[p].todo
    /\ Visit(p, a, {}, FALSE)

VisitRaw(p, a) ==
    /\ scan[p].pass = "raws" /\ a \in scan[p].todo
    /\ Visit(p, a, IF a \in scan[p].links THEN {} ELSE {"raw"}, FALSE)

\* Any error ends the reconciliation; the next submission starts it again.
ReconcileFails(p) ==
    /\ scan[p].pass \in DOMAIN NextPass
    /\ Fault
    /\ scan' = [scan EXCEPT ![p] = Due]
    /\ UNCHANGED <<files, links, persist, owner, reported, crashes>>

-----------------------------------------------------------------------------

\* A process dies and is started again.
Crash(p) ==
    /\ crashes < MaxCrashes
    /\ crashes' = crashes + 1
    /\ scan' = [scan EXCEPT ![p] = Due]
    /\ persist' = [a \in Artifacts |->
                    IF owner[a] = p /\ persist[a] # "done" THEN "dead"
                                                           ELSE persist[a]]
    /\ UNCHANGED <<files, links, owner, reported, faults>>

Persist(a) ==
    \/ RenamePending(a) \/ WriteRaw(a) \/ RenameRaw(a) \/ CommitFails(a)
    \/ Link(a) \/ LinkFails(a) \/ RollBack(a) \/ RollBackFails(a)
    \/ Finalize(a)

Reconcile(p) ==
    \/ ReadLinks(p) \/ EndPass(p)
    \/ \E a \in Artifacts : \/ VisitTemps(p, a) \/ VisitPending(p, a)
                            \/ VisitRaw(p, a)

StoreNext ==
    \/ \E a \in Artifacts : Persist(a)
    \/ \E p \in Procs : \/ \E a \in Artifacts : Begin(p, a)
                        \/ Reconcile(p) \/ ReconcileFails(p) \/ Crash(p)

StoreSpec == StoreInit /\ [][StoreNext]_storeVars

\* A restarted process submits again, and a reconciliation that began runs
\* to its end; a persist call is never cut short but by a crash.
StoreFairSpec == /\ StoreSpec
                 /\ \A p \in Procs : WF_storeVars(Reconcile(p))
                 /\ \A a \in Artifacts : WF_storeVars(Persist(a))

-----------------------------------------------------------------------------
(* Properties.                                                             *)

\* "links make them durable": an artifact whose link was reported durable
\* keeps its raw file through failures, crashes and reconciliations.
ReportedIsStored == \A a \in reported : "raw" \in files[a]

\* A reconciliation that finished has removed every file that a process
\* which died before it left behind without a link.
ReconcileCleansUp ==
    \A p \in Procs : scan[p].pass = "done" =>
        \A a \in scan[p].dead :
            a \notin scan[p].links => files[a] = {}

\* Leftovers of a dead call go away in the end; of a linked one the raw
\* file alone stays.
LeftoversGo ==
    \A a \in Artifacts :
        persist[a] = "dead" ~>
            files[a] \subseteq (IF a \in links THEN {"raw"} ELSE {})
=============================================================================
