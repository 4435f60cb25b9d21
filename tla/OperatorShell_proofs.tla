------------------------ MODULE OperatorShell_proofs ------------------------
(***************************************************************************)
(* What the shell's operator promises: the artifact store, for any number  *)
(* of artifacts, faults and crashes; and the handle of a turn, for every   *)
(* script of its task, channel capacity and page size.                     *)
(***************************************************************************)
EXTENDS ArtifactStore, HandleSteps_proofs

-----------------------------------------------------------------------------
(* The artifact store.                                                     *)

\* A persist call that is under way.
Active == {"pendingTemp", "pending", "rawTemp", "committed", "linked",
           "rollback", "rollbackPending"}

\* One runner process on the journal root.
OneProcess == \A p, q \in Procs : p = q

Scanning == {"temps", "pendings", "raws"}

-----------------------------------------------------------------------------
(* Types.                                                                  *)

ScanType == [pass : Passes, links : SUBSET Artifacts, todo : SUBSET Artifacts,
             cut : SUBSET Artifacts, dead : SUBSET Artifacts]

\* A step of a walk over the directory keeps the types.
LEMMA VisitType ==
    ASSUME StoreTypeOK, NEW p \in Procs, NEW a \in Artifacts, NEW gone,
           NEW more \in BOOLEAN, Visit(p, a, gone, more)
    PROVE  StoreTypeOK'
<1> USE DEF StoreTypeOK
<1>1. scan[p] \in ScanType
  BY DEF ScanType
<1>2. [scan[p] EXCEPT !.todo = IF more THEN @ ELSE @ \ {a},
                      !.cut = IF more THEN @ \cup {a} ELSE @] \in ScanType
  BY <1>1 DEF ScanType
<1>3. scan' \in [Procs -> ScanType]
  BY <1>2 DEF Visit, ScanType
<1>4. files' \in [Artifacts -> SUBSET FileKinds]
  BY DEF Visit
<1> QED
  BY <1>3, <1>4 DEF Visit, ScanType

LEMMA TypeStep ==
    ASSUME StoreTypeOK, [StoreNext]_storeVars
    PROVE  StoreTypeOK'
<1> USE DEF StoreTypeOK
<1>1. ASSUME Fault PROVE faults' \in 0 .. MaxFaults
  BY <1>1, ArtifactAssumption DEF Fault
<1>2. ASSUME NEW a \in Artifacts, RenamePending(a) \/ RenameRaw(a)
      PROVE  StoreTypeOK'
  BY <1>2 DEF RenamePending, RenameRaw, Rename, FileKinds, Temps, Calls
<1>3. ASSUME NEW a \in Artifacts, WriteRaw(a)
      PROVE  StoreTypeOK'
  BY <1>3 DEF WriteRaw, FileKinds, Temps, Calls
<1>4. ASSUME NEW a \in Artifacts, CommitFails(a)
      PROVE  StoreTypeOK'
  <2>1. files' \in [Artifacts -> SUBSET FileKinds]
    BY <1>4 DEF CommitFails
  <2>2. persist' \in [Artifacts -> Calls]
    BY <1>4 DEF CommitFails, Calls
  <2> QED
    BY <1>1, <1>4, <2>1, <2>2 DEF CommitFails
<1>5. ASSUME NEW a \in Artifacts, Link(a) \/ LinkFails(a)
      PROVE  StoreTypeOK'
  BY <1>1, <1>5 DEF Link, LinkFails, Calls
<1>6. ASSUME NEW a \in Artifacts, RollBack(a) \/ RollBackFails(a)
      PROVE  StoreTypeOK'
  BY <1>1, <1>6 DEF RollBack, RollBackFails, Calls
<1>7. ASSUME NEW a \in Artifacts, Finalize(a)
      PROVE  StoreTypeOK'
  BY <1>1, <1>7 DEF Finalize, Calls
<1>8. ASSUME NEW p \in Procs, NEW a \in Artifacts, Begin(p, a)
      PROVE  StoreTypeOK'
  BY <1>8 DEF Begin, FileKinds, Temps, Calls
<1>9. ASSUME NEW p \in Procs, ReadLinks(p)
      PROVE  StoreTypeOK'
  BY <1>9 DEF ReadLinks, Passes
<1>10. ASSUME NEW p \in Procs, EndPass(p)
       PROVE  StoreTypeOK'
  <2>1. scan[p] \in ScanType
    BY DEF ScanType
  <2>2. NextPass[scan[p].pass] \in Passes
    BY <1>10 DEF EndPass, NextPass, Passes
  <2>3. [scan[p] EXCEPT !.pass = NextPass[scan[p].pass],
             !.todo = IF NextPass[scan[p].pass] = "done" THEN {} ELSE Artifacts]
            \in ScanType
    BY <2>1, <2>2 DEF ScanType
  <2>4. scan' \in [Procs -> ScanType]
    BY <1>10, <2>3 DEF EndPass, ScanType
  <2> QED
    BY <1>10, <2>4 DEF EndPass, ScanType
<1>11. ASSUME NEW p \in Procs, NEW a \in Artifacts,
              VisitTemps(p, a) \/ VisitPending(p, a) \/ VisitRaw(p, a)
       PROVE  StoreTypeOK'
  <2>1. \E gone \in SUBSET FileKinds : Visit(p, a, gone, FALSE) \/ Visit(p, a, gone, TRUE)
    BY <1>11 DEF VisitTemps, VisitPending, VisitRaw, FileKinds, Temps
  <2> QED
    BY <2>1, VisitType
<1>12. ASSUME NEW p \in Procs, ReconcileFails(p)
       PROVE  StoreTypeOK'
  BY <1>1, <1>12 DEF ReconcileFails, Due, Passes
<1>13. ASSUME NEW p \in Procs, Crash(p)
       PROVE  StoreTypeOK'
  BY <1>13, ArtifactAssumption DEF Crash, Due, Passes, Calls
<1>14. CASE UNCHANGED storeVars
  BY <1>14 DEF storeVars
<1> QED
  BY <1>2, <1>3, <1>4, <1>5, <1>6, <1>7, <1>8, <1>9, <1>10, <1>11, <1>12,
     <1>13, <1>14 DEF StoreNext, Persist, Reconcile

\* Every variable keeps its type.
THEOREM ArtifactTypesCorrect == StoreSpec => []StoreTypeOK
<1>1. StoreInit => StoreTypeOK
  BY ArtifactAssumption DEF StoreInit, StoreTypeOK, Due, Passes, Calls, FileKinds, Temps
<1> QED
  BY <1>1, TypeStep, PTL DEF StoreSpec

-----------------------------------------------------------------------------
(* A reconciliation cleans up.  This holds for any number of processes.    *)

\* What a reconciliation has done to the files a dead call left unlinked:
\* each walk leaves its kind of file to none of those it has looked at.
SweptInv ==
    \A p \in Procs : \A a \in scan[p].dead :
        /\ persist[a] = "dead"
        /\ scan[p].pass # "due"
        /\ a \notin scan[p].links =>
            /\ scan[p].pass = "temps" /\ a \notin scan[p].todo => files[a] \cap Temps = {}
            /\ scan[p].pass \in {"pendings", "raws", "done"} => files[a] \cap Temps = {}
            /\ scan[p].pass = "pendings" /\ a \notin scan[p].todo => "pending" \notin files[a]
            /\ scan[p].pass \in {"raws", "done"} => "pending" \notin files[a]
            /\ scan[p].pass = "raws" /\ a \notin scan[p].todo => "raw" \notin files[a]
            /\ scan[p].pass = "done" => "raw" \notin files[a]

\* The files of a dead call only become fewer.
LEMMA DeadShrinks ==
    ASSUME StoreTypeOK, [StoreNext]_storeVars, NEW a \in Artifacts, persist[a] = "dead"
    PROVE  persist'[a] = "dead" /\ files'[a] \subseteq files[a]
<1> USE DEF StoreTypeOK
<1>1. ASSUME NEW b \in Artifacts, Persist(b)
      PROVE  persist'[a] = "dead" /\ files'[a] \subseteq files[a]
  <2>1. b # a
    BY <1>1 DEF Persist, RenamePending, RenameRaw, Rename, WriteRaw, CommitFails,
                Link, LinkFails, RollBack, RollBackFails, Finalize
  <2>2. persist'[a] = persist[a]
    BY <1>1, <2>1 DEF Persist, RenamePending, RenameRaw, Rename, WriteRaw,
                      CommitFails, Link, LinkFails, RollBack, RollBackFails, Finalize
  <2>3. CASE CommitFails(b)
    BY <2>1, <2>3 DEF CommitFails
  <2>4. CASE ~CommitFails(b)
    BY <1>1, <2>1, <2>4 DEF Persist, RenamePending, RenameRaw, Rename, WriteRaw,
                            Link, LinkFails, RollBack, RollBackFails, Finalize
  <2> QED
    BY <2>1, <2>2, <2>3, <2>4
<1>2. ASSUME NEW p \in Procs, NEW b \in Artifacts, Begin(p, b)
      PROVE  persist'[a] = "dead" /\ files'[a] \subseteq files[a]
  BY <1>2 DEF Begin
<1>3. ASSUME NEW p \in Procs, Reconcile(p) \/ ReconcileFails(p)
      PROVE  persist'[a] = "dead" /\ files'[a] \subseteq files[a]
  <2>1. UNCHANGED persist
    BY <1>3 DEF Reconcile, ReconcileFails, ReadLinks, EndPass, VisitTemps,
                VisitPending, VisitRaw, Visit
  <2>2. CASE ReconcileFails(p) \/ ReadLinks(p) \/ EndPass(p)
    BY <2>1, <2>2 DEF ReconcileFails, ReadLinks, EndPass
  <2>3. ASSUME NEW b \in Artifacts, NEW gone, NEW more, Visit(p, b, gone, more)
        PROVE  files'[a] \subseteq files[a]
    BY <2>3 DEF Visit
  <2>4. ASSUME NEW b \in Artifacts,
               VisitTemps(p, b) \/ VisitPending(p, b) \/ VisitRaw(p, b)
        PROVE  files'[a] \subseteq files[a]
    BY <2>3, <2>4, Zenon DEF VisitTemps, VisitPending, VisitRaw
  <2> QED
    BY <1>3, <2>1, <2>2, <2>4 DEF Reconcile
<1>4. ASSUME NEW p \in Procs, Crash(p)
      PROVE  persist'[a] = "dead" /\ files'[a] \subseteq files[a]
  BY <1>4 DEF Crash
<1>5. CASE UNCHANGED storeVars
  BY <1>5 DEF storeVars
<1> QED
  BY <1>1, <1>2, <1>3, <1>4, <1>5 DEF StoreNext

\* What SweptInv says to a walk that does not move.
LEMMA SweptStays ==
    ASSUME StoreTypeOK, SweptInv, [StoreNext]_storeVars, NEW p \in Procs, scan'[p] = scan[p]
    PROVE  SweptInv!(p)'
<1> SUFFICES ASSUME NEW a \in scan[p].dead PROVE SweptInv!(p)!(a)'
  OBVIOUS
<1>1. a \in Artifacts /\ persist[a] = "dead" /\ SweptInv!(p)!(a)
  BY DEF StoreTypeOK, SweptInv
<1>2. persist'[a] = "dead" /\ files'[a] \subseteq files[a]
  BY <1>1, DeadShrinks
<1> QED
  BY <1>1, <1>2

LEMMA SweptStep ==
    ASSUME StoreTypeOK, SweptInv, [StoreNext]_storeVars
    PROVE  SweptInv'
<1> SUFFICES ASSUME NEW p \in Procs PROVE SweptInv!(p)'
  BY DEF SweptInv
<1> USE DEF StoreTypeOK
<1>1. CASE scan'[p] = scan[p]
  BY <1>1, SweptStays
<1>2. ASSUME NEW a \in scan[p].dead
      PROVE  /\ a \in Artifacts /\ persist[a] = "dead" /\ persist'[a] = "dead"
             /\ files'[a] \subseteq files[a] /\ files[a] \subseteq FileKinds
             /\ SweptInv!(p)!(a)
  <2>1. a \in Artifacts /\ persist[a] = "dead"
    BY DEF SweptInv
  <2> QED
    BY <2>1, DeadShrinks DEF SweptInv
<1>3. ASSUME NEW q \in Procs, q # p, Reconcile(q) \/ ReconcileFails(q) \/ Crash(q)
      PROVE  scan'[p] = scan[p]
  BY <1>3 DEF Reconcile, ReconcileFails, ReadLinks, EndPass, VisitTemps,
              VisitPending, VisitRaw, Visit, Crash
<1>4. CASE ReadLinks(p)
  <2>1. /\ scan'[p].pass = "temps" /\ scan'[p].todo = Artifacts
        /\ scan'[p].dead = {a \in Artifacts : persist[a] = "dead"}
        /\ UNCHANGED persist
    BY <1>4 DEF ReadLinks
  <2> QED
    BY <2>1
<1>5. CASE EndPass(p)
  <2>1. /\ scan'[p].pass = NextPass[scan[p].pass]
        /\ scan'[p].dead = scan[p].dead /\ scan'[p].links = scan[p].links
        /\ scan[p].todo = {} /\ scan[p].pass \in {"temps", "pendings", "raws"}
        /\ scan[p].pass = "temps" => scan'[p].todo = Artifacts
        /\ scan[p].pass = "pendings" => scan'[p].todo = Artifacts
        /\ UNCHANGED files
    BY <1>5 DEF EndPass, NextPass
  <2> SUFFICES ASSUME NEW a \in scan[p].dead PROVE SweptInv!(p)!(a)'
    BY <2>1
  <2> QED
    BY <1>2, <2>1 DEF NextPass
<1>6. ASSUME NEW a \in Artifacts, VisitTemps(p, a) \/ VisitPending(p, a) \/ VisitRaw(p, a)
      PROVE  SweptInv!(p)'
  <2>1. /\ scan'[p].pass = scan[p].pass /\ scan'[p].dead = scan[p].dead
        /\ scan'[p].links = scan[p].links
        /\ scan'[p].todo \in {scan[p].todo, scan[p].todo \ {a}}
    BY <1>6 DEF VisitTemps, VisitPending, VisitRaw, Visit
  <2> SUFFICES ASSUME NEW b \in scan[p].dead PROVE SweptInv!(p)!(b)'
    BY <2>1
  <2>2. CASE b # a \/ scan'[p].todo = scan[p].todo
    <3>1. b \notin scan'[p].todo => b \notin scan[p].todo
      BY <2>1, <2>2
    <3> QED
      BY <1>2, <2>1, <3>1
  <2>3. CASE b = a /\ b \notin scan[p].links /\ scan'[p].todo # scan[p].todo
    <3>1. CASE VisitTemps(p, a)
      <4>1. files'[a] \cap Temps = {} /\ scan[p].pass = "temps"
        BY <3>1 DEF VisitTemps, Visit
      <4> QED
        BY <1>2, <2>1, <2>3, <4>1
    <3>2. CASE VisitPending(p, a)
      <4>1. "pending" \notin files'[a] /\ scan[p].pass = "pendings"
        BY <2>3, <3>2 DEF VisitPending, Visit
      <4> QED
        BY <1>2, <2>1, <2>3, <4>1
    <3>3. CASE VisitRaw(p, a)
      <4>1. "raw" \notin files'[a] /\ scan[p].pass = "raws"
        BY <2>3, <3>3 DEF VisitRaw, Visit
      <4> QED
        BY <1>2, <2>1, <2>3, <4>1
    <3> QED
      BY <1>6, <3>1, <3>2, <3>3
  <2>4. CASE b \in scan[p].links
    BY <1>2, <2>1, <2>4
  <2> QED
    BY <2>2, <2>3, <2>4
<1>7. CASE ReconcileFails(p) \/ Crash(p)
  BY <1>7 DEF ReconcileFails, Crash, Due
<1>8. CASE \E a \in Artifacts : Persist(a) \/ \E q \in Procs : Begin(q, a)
  <2>1. UNCHANGED scan
    BY <1>8, Zenon DEF Persist, RenamePending, RenameRaw, Rename, WriteRaw, CommitFails,
                Link, LinkFails, RollBack, RollBackFails, Finalize, Begin
  <2> QED
    BY <1>1, <2>1
<1>9. CASE UNCHANGED storeVars
  BY <1>1, <1>9 DEF storeVars
<1> QED
  BY <1>1, <1>3, <1>4, <1>5, <1>6, <1>7, <1>8, <1>9 DEF StoreNext, Reconcile

\* A reconciliation that finished has removed every file that a process which
\* died before it left without a link, for any number of processes and
\* whatever the others do meanwhile (LocalArtifactStore::reconcile).
THEOREM ReconcileCleansUpHolds == StoreSpec => []ReconcileCleansUp
<1>1. StoreInit => SweptInv
  BY DEF StoreInit, SweptInv, Due
<1>2. StoreTypeOK /\ SweptInv => ReconcileCleansUp
  BY DEF StoreTypeOK, SweptInv, ReconcileCleansUp, FileKinds, Temps
<1> QED
  BY <1>1, <1>2, SweptStep, ArtifactTypesCorrect, PTL DEF StoreSpec

-----------------------------------------------------------------------------
(* What was reported stays, as long as one process has the directory.      *)

\* Calls are under way only in a reconciled runner, a reconciliation sees
\* every link there is, and the raw file is there from its rename on.
StoredInv ==
    /\ \A a \in Artifacts : persist[a] \in Active =>
            owner[a] \in Procs /\ scan[owner[a]].pass = "done"
    /\ \A p \in Procs : scan[p].pass \in Scanning => scan[p].links = links
    /\ \A a \in Artifacts : persist[a] \in {"committed", "linked"} => "raw" \in files[a]
    /\ \A a \in Artifacts : persist[a] \in {"rollback", "rollbackPending", "committed"}
            => a \notin reported
    /\ \A a \in reported : persist[a] \in {"linked", "done", "failed", "dead"}
    /\ ReportedIsStored

LEMMA StoredStep ==
    ASSUME OneProcess, StoreTypeOK, StoredInv, [StoreNext]_storeVars
    PROVE  StoredInv'
<1> USE DEF StoreTypeOK, StoredInv, ReportedIsStored
<1>1. ASSUME NEW a \in Artifacts, RenamePending(a) \/ RenameRaw(a)
      PROVE  StoredInv'
  BY <1>1 DEF RenamePending, RenameRaw, Rename, Active
<1>2. ASSUME NEW a \in Artifacts, WriteRaw(a)
      PROVE  StoredInv'
  BY <1>2 DEF WriteRaw, Active
<1>3. ASSUME NEW a \in Artifacts, CommitFails(a)
      PROVE  StoredInv'
  <2>1. a \notin reported
    BY <1>3 DEF CommitFails
  <2> QED
    BY <1>3, <2>1 DEF CommitFails, Active
<1>4. ASSUME NEW a \in Artifacts, Link(a) \/ LinkFails(a)
      PROVE  StoredInv'
  <2>1. persist[a] = "committed" /\ UNCHANGED <<files, owner, scan>>
    BY <1>4 DEF Link, LinkFails
  <2>2. \A p \in Procs : scan[p].pass = "done"
    BY <2>1 DEF OneProcess, Active
  <2> QED
    BY <1>4, <2>1, <2>2 DEF Link, LinkFails, Active, Scanning
<1>5. ASSUME NEW a \in Artifacts, RollBack(a) \/ RollBackFails(a)
      PROVE  StoredInv'
  <2>1. /\ a \notin reported /\ persist[a] \in Active
        /\ UNCHANGED <<links, owner, reported, scan>>
    BY <1>5 DEF RollBack, RollBackFails, Active
  <2>2. persist'[a] \in {"rollbackPending", "failed"}
    BY <1>5 DEF RollBack, RollBackFails
  <2>3. \A b \in Artifacts : b # a => persist'[b] = persist[b] /\ files'[b] = files[b]
    BY <1>5 DEF RollBack, RollBackFails
  <2> QED
    BY <2>1, <2>2, <2>3 DEF Active
<1>6. ASSUME NEW a \in Artifacts, Finalize(a)
      PROVE  StoredInv'
  BY <1>6 DEF Finalize, Active
<1>7. ASSUME NEW p \in Procs, NEW a \in Artifacts, Begin(p, a)
      PROVE  StoredInv'
  BY <1>7 DEF Begin, Active
<1>8. ASSUME NEW p \in Procs, scan[p].pass # "done"
      PROVE  \A a \in Artifacts : persist[a] \notin Active
  BY <1>8 DEF OneProcess
<1>9. ASSUME NEW p \in Procs, ReadLinks(p)
      PROVE  StoredInv'
  BY <1>8, <1>9 DEF ReadLinks
<1>10. ASSUME NEW p \in Procs, EndPass(p)
       PROVE  StoredInv'
  <2>1. scan[p].pass # "done" /\ scan[p].pass \in Scanning
        /\ scan'[p].links = scan[p].links
    BY <1>10 DEF EndPass, NextPass, Scanning
  <2> QED
    BY <1>8, <1>10, <2>1 DEF EndPass
<1>11. ASSUME NEW p \in Procs, NEW a \in Artifacts,
              VisitTemps(p, a) \/ VisitPending(p, a) \/ VisitRaw(p, a)
       PROVE  StoredInv'
  <2>1. /\ scan[p].pass \in Scanning /\ scan'[p].links = scan[p].links
        /\ scan'[p].pass = scan[p].pass
        /\ UNCHANGED <<links, persist, owner, reported>>
    BY <1>11 DEF VisitTemps, VisitPending, VisitRaw, Visit, Scanning
  <2>2. \A b \in Artifacts : persist[b] \notin Active
    BY <1>8, <2>1 DEF Scanning
  <2>3. \A q \in Procs : q # p => scan'[q] = scan[q]
    BY DEF OneProcess
  <2>4. \A b \in reported : "raw" \in files'[b]
    <3>1. a \in reported => a \in scan[p].links
      BY <2>1
    <3>2. \A b \in Artifacts : b # a => files'[b] = files[b]
      BY <1>11 DEF VisitTemps, VisitPending, VisitRaw, Visit
    <3>3. a \in reported => "raw" \in files'[a]
      BY <1>11, <3>1 DEF VisitTemps, VisitPending, VisitRaw, Visit, Temps
    <3> QED
      BY <3>2, <3>3
  <2> QED
    BY <2>1, <2>2, <2>3, <2>4 DEF Active
<1>12. ASSUME NEW p \in Procs, ReconcileFails(p)
       PROVE  StoredInv'
  <2>1. scan[p].pass # "done"
    BY <1>12 DEF ReconcileFails, NextPass
  <2> QED
    BY <1>8, <1>12, <2>1 DEF ReconcileFails, Due, Scanning
<1>13. ASSUME NEW p \in Procs, Crash(p)
       PROVE  StoredInv'
  <2>1. \A a \in Artifacts : persist'[a] \notin Active
    BY <1>13 DEF Crash, OneProcess, Active
  <2> QED
    BY <1>13, <2>1 DEF Crash, Due, Scanning, Active, OneProcess
<1>14. CASE UNCHANGED storeVars
  BY <1>14 DEF storeVars
<1> QED
  BY <1>1, <1>2, <1>3, <1>4, <1>5, <1>6, <1>7, <1>9, <1>10, <1>11, <1>12,
     <1>13, <1>14 DEF StoreNext, Persist, Reconcile

\* With one runner process on the journal root, an artifact whose link was
\* reported durable keeps its raw file through failures, crashes and
\* reconciliations, for any number of artifacts.
THEOREM ReportedIsStoredHolds ==
    ASSUME OneProcess
    PROVE  StoreSpec => []ReportedIsStored
<1>1. StoreInit => StoredInv
  BY DEF StoreInit, StoredInv, ReportedIsStored, Due, Active, Scanning
<1>2. StoreTypeOK /\ StoredInv /\ [StoreNext]_storeVars => StoredInv'
  BY StoredStep
<1>3. StoredInv => ReportedIsStored
  BY DEF StoredInv
<1> QED
  BY <1>1, <1>2, <1>3, ArtifactTypesCorrect, PTL DEF StoreSpec

-----------------------------------------------------------------------------
(* The handle of a turn: the order of tokens.                              *)

USE ZenonT(30)

\* The client of the private channel heard a beginning of the tokens.
GotInv ==
    handle.private =>
        /\ Rising(got, "delta")
        /\ \A n \in Numbers(got, "delta"), k \in Tokens :
            k < n => k \in Numbers(got, "delta")

BoxInv == /\ Rising(task.outbox, "delta")
          /\ Numbers(task.outbox, "delta") \subseteq 1 .. Streamed

\* The other tokens streamed so far wait in the private channel or to be put
\* there, in that order.
ChannelInv ==
    direct.held =>
        /\ Rising(direct.queue, "delta") /\ Below(direct.queue, Left, "delta")
        /\ Below(got, direct.queue, "delta") /\ Below(got, Left, "delta")
        /\ Numbers(direct.queue, "delta") \subseteq 1 .. Streamed
        /\ Numbers(got, "delta") \subseteq 1 .. Streamed
        /\ \A k \in Tokens : k <= Streamed =>
            k \in Numbers(got, "delta") \cup Numbers(direct.queue, "delta")
                  \cup Numbers(Left, "delta")

\* A task that goes on to the next step of its script, or ends.
Proceeds == \/ AppendRow /\ ~CancelIsDurable
            \/ SilentRow /\ ~CancelIsDurable
            \/ Stream \/ Interrupt \/ CloseFails

LEMMA StreamedIs ==
    ASSUME HandleTypeOK, ControlInv
    PROVE  Streamed \in Nat /\ (~task.ends => Streamed = task.at - 1)
<1>1. task.at \in Nat /\ task.ends \in BOOLEAN
  BY TypesAre DEF TaskType
<1>2. task.at >= 1 /\ (task.ends => task.at >= 2)
  BY DEF ControlInv
<1>3. task.at - 1 \in Nat /\ (task.ends => task.at - 2 \in Nat)
  BY SMTT(30), <1>1, <1>2
<1> QED
  BY <1>1, <1>3 DEF Streamed

LEMMA ProceedIs ==
    ASSUME HandleTypeOK, ControlInv, SoundInv, Proceeds
    PROVE  /\ task.outbox = <<>> /\ ~task.sent /\ ~task'.sent
           /\ Streamed <= Streamed' /\ Streamed' \in Nat
           /\ Rising(task'.outbox, "delta")
           /\ Numbers(task'.outbox, "delta") =
                {k \in Tokens : Streamed < k /\ k <= Streamed'}
           /\ direct' = direct /\ handle' = handle /\ got' = got
<1>0. /\ task.at \in Nat /\ task.cursor \in Nat /\ task.cursor <= Len(journal)
      /\ task.at >= 1 /\ Tokens \subseteq Nat
  <2>1. Tokens \subseteq Nat
    BY SMTT(30), ScriptAssumption DEF Tokens
  <2> QED
    BY <2>1, TypesAre DEF TaskType, SoundInv, ControlInv
<1> DEFINE a == task.at
<1>1. /\ direct' = direct /\ handle' = handle /\ got' = got
      /\ task.phase \in {"work", "close"} /\ task'.at = a + 1
      /\ task'.sent = task.sent
  BY <1>0, AppendRowIs, SilentRowIs, StreamIs, InterruptIs, CloseFailsIs
     DEF Proceeds
<1>2. task.outbox = <<>> /\ ~task.sent /\ ~task.ends /\ ~task'.sent
  BY <1>1 DEF ControlInv
<1>3. Streamed = a - 1
  BY <1>2, StreamedIs
<1>4. ASSUME task'.ends = task.ends, a \in DOMAIN Script
      PROVE  /\ Streamed' = a /\ Streamed <= Streamed'
             /\ {k \in Tokens : Streamed < k /\ k <= Streamed'} =
                    IF Script[a] = "delta" THEN {a} ELSE {}
  <2>1. Streamed' = (a + 1) - 1
    BY <1>1, <1>2, <1>4 DEF Streamed
  <2> HIDE DEF a
  <2>2. (a + 1) - 1 = a /\ a - 1 <= a /\ \A k \in Nat : a - 1 < k /\ k <= a <=> k = a
    BY SMTT(30), <1>0 DEF a
  <2>3. \A k \in Tokens : Streamed < k /\ k <= Streamed' <=> k = a
    BY <1>0, <1>3, <2>1, <2>2
  <2>4. a \in Tokens <=> Script[a] = "delta"
    BY <1>4 DEF Tokens
  <2>5. Streamed' = a /\ Streamed <= Streamed'
    BY <1>3, <2>1, <2>2
  <2>6. CASE Script[a] = "delta"
    BY <2>3, <2>4, <2>5, <2>6
  <2>7. CASE Script[a] # "delta"
    BY <2>3, <2>4, <2>5, <2>7
  <2> QED
    BY <2>6, <2>7
<1>5. ASSUME task'.ends = TRUE
      PROVE  /\ Streamed' = Streamed /\ Streamed <= Streamed'
             /\ {k \in Tokens : Streamed < k /\ k <= Streamed'} = {}
  <2>1. Streamed' = (a + 1) - 2
    BY <1>1, <1>5 DEF Streamed
  <2> HIDE DEF a
  <2>2. (a + 1) - 2 = a - 1 /\ a - 1 <= a - 1
        /\ \A k \in Nat : ~(a - 1 < k /\ k <= a - 1)
    BY SMTT(30), <1>0 DEF a
  <2> QED
    BY <1>0, <1>3, <2>1, <2>2
<1>6. Streamed \in Nat
  BY StreamedIs
<1>7. ASSUME NEW f \in Frames, task'.outbox = <<f>>, f.frame # "delta"
      PROVE  Rising(task'.outbox, "delta") /\ Numbers(task'.outbox, "delta") = {}
  BY <1>7, OneFrame
<1>8. CASE AppendRow /\ ~CancelIsDurable
  <2>1. /\ task'.outbox = <<Row(Len(journal) + 1)>> /\ Len(journal) + 1 \in Nat
        /\ a \in DOMAIN Script /\ Script[a] # "delta" /\ task'.ends = task.ends
    BY <1>8, AppendRowIs
  <2>2. Rising(task'.outbox, "delta") /\ Numbers(task'.outbox, "delta") = {}
    BY <1>7, <2>1, FramesAre
  <2> QED
    BY <1>0, <1>1, <1>2, <1>4, <2>1, <2>2
<1>9. CASE SilentRow /\ ~CancelIsDurable
  <2>1. /\ task'.outbox = <<>> /\ a \in DOMAIN Script /\ Script[a] # "delta"
        /\ task'.ends = task.ends
    BY <1>2, <1>9, SilentRowIs
  <2> QED
    BY <1>0, <1>1, <1>2, <1>4, <2>1, NoNumbers
<1>10. CASE Stream
  <2> DEFINE page == Page(task.cursor)
  <2>1. /\ page \in Seq(Frames) /\ a \in DOMAIN Script
        /\ \/ Script[a] = "delta" /\ task'.outbox = Append(page, Delta(a))
           \/ Script[a] = "drain" /\ task'.outbox = page
        /\ task'.ends = task.ends
    BY <1>0, <1>10, StreamIs
  <2>2. Numbers(page, "delta") = {} /\ Rising(page, "delta")
    BY <1>0, PageNumbers
  <2>3. Delta(a) \in Frames /\ Delta(a).frame = "delta" /\ Delta(a).n = a
    BY <1>0, FramesAre
  <2> HIDE DEF page
  <2>4. /\ Numbers(Append(page, Delta(a)), "delta") =
            Numbers(page, "delta") \cup (IF Delta(a).frame = "delta"
                                         THEN {Delta(a).n} ELSE {})
        /\ Rising(Append(page, Delta(a)), "delta")
    BY <2>1, <2>2, <2>3, AppendNumbers
  <2>5. Numbers(Append(page, Delta(a)), "delta") = {a}
    BY <2>2, <2>3, <2>4
  <2> HIDE DEF a
  <2>6. /\ Streamed' = a /\ Streamed <= Streamed'
        /\ {k \in Tokens : Streamed < k /\ k <= Streamed'} =
                    IF Script[a] = "delta" THEN {a} ELSE {}
    BY <1>4, <2>1 DEF a
  <2>7. CASE Script[a] = "delta"
    BY <1>0, <1>1, <1>2, <2>1, <2>4, <2>5, <2>6, <2>7 DEF a
  <2>8. CASE Script[a] = "drain"
    BY <1>0, <1>1, <1>2, <2>1, <2>2, <2>6, <2>8 DEF a
  <2> QED
    BY <2>1, <2>7, <2>8
<1>11. CASE Interrupt
  <2>1. /\ task'.outbox = <<Row(Len(journal) + 1)>> /\ Len(journal) + 1 \in Nat
        /\ task'.ends = TRUE
    BY <1>11, InterruptIs
  <2>2. Rising(task'.outbox, "delta") /\ Numbers(task'.outbox, "delta") = {}
    BY <1>7, <2>1, FramesAre
  <2> QED
    BY <1>1, <1>2, <1>5, <1>6, <2>1, <2>2
<1>12. CASE CloseFails
  <2>1. task'.outbox = <<Error>> /\ task'.ends = TRUE
    BY <1>12, CloseFailsIs
  <2>2. Rising(task'.outbox, "delta") /\ Numbers(task'.outbox, "delta") = {}
    BY <1>7, <2>1, FramesAre
  <2> QED
    BY <1>1, <1>2, <1>5, <1>6, <2>1, <2>2
<1> QED
  BY <1>8, <1>9, <1>10, <1>11, <1>12 DEF Proceeds

\* All other steps leave the script where it is.
LEMMA WaitIs ==
    ASSUME HandleTypeOK, ControlInv, SoundInv, [HandleNext]_handleVars, ~Proceeds
    PROVE  /\ Streamed' = Streamed
           /\ \/ Broadcast
              \/ task'.outbox = task.outbox /\ (SendDirect \/ task'.sent = task.sent)
<1>0. task.cursor <= Len(journal) /\ handle.cursor <= Len(journal)
  BY DEF SoundInv
<1>1. \/ QuietSteps \/ SendDirect \/ Broadcast \/ CancelAppends
      \/ CancelBroadcasts \/ OtherTurnBroadcasts \/ Join \/ Abandon \/ TakeReplay
      \/ RefillReplay \/ ReadLagged \/ ReadGlobal \/ ReadDirect
  BY StepCases DEF Proceeds
<1>2. ASSUME task' = task \/ /\ task'.outbox = task.outbox
                             /\ task'.at = task.at /\ task'.ends = task.ends
                             /\ SendDirect \/ task'.sent = task.sent
      PROVE  /\ Streamed' = Streamed
             /\ task'.outbox = task.outbox /\ (SendDirect \/ task'.sent = task.sent)
  BY <1>2 DEF Streamed
<1>3. CASE QuietSteps
  BY <1>2, <1>3, QuietStep DEF Quiet
<1>4. CASE SendDirect
  BY <1>2, <1>4, SendDirectIs
<1>5. CASE Broadcast
  BY <1>5, BroadcastIs DEF Streamed
<1>6. CASE CancelAppends \/ CancelBroadcasts \/ OtherTurnBroadcasts
  BY <1>2, <1>6, CancelAppendsIs, OthersBroadcastIs
<1>7. CASE Join \/ Abandon \/ TakeReplay
  BY <1>2, <1>7, JoinIs, AbandonIs, TakeReplayIs
<1>8. CASE RefillReplay \/ ReadLagged \/ ReadGlobal \/ ReadDirect
  BY <1>0, <1>2, <1>8, RefillStepIs, ReadGlobalIs, ReadDirectIs
<1> QED
  BY <1>1, <1>3, <1>4, <1>5, <1>6, <1>7, <1>8

LEMMA GotTook ==
    ASSUME HandleTypeOK, NEW replay, NEW f \in Frames, Took(replay, f)
    PROVE  /\ handle'.private = handle.private
           /\ Numbers(got', "delta") = Numbers(got, "delta")
                \cup (IF f.frame = "delta" THEN {f.n} ELSE {})
           /\ Rising(got, "delta")
              /\ (f.frame = "delta" => \A x \in Numbers(got, "delta") : x < f.n)
              => Rising(got', "delta")
<1>1. got \in Seq(Frames)
  BY TypesAre
<1>2. CASE got' = got /\ f.frame # "delta"
  BY <1>2 DEF Took
<1>3. CASE got' = Append(got, f)
  BY <1>1, <1>3, AppendNumbers DEF Took
<1> QED
  BY <1>2, <1>3 DEF Took

\* Tokens reach the client of the private channel through it only.
LEMMA OnlyDirectSpeaks ==
    ASSUME HandleTypeOK, ControlInv, SoundInv, [HandleNext]_handleVars,
           handle'.private, ~ReadDirect
    PROVE  /\ handle.private
           /\ Numbers(got', "delta") = Numbers(got, "delta")
           /\ Rising(got, "delta") => Rising(got', "delta")
<1>0. task.cursor <= Len(journal) /\ handle.cursor <= Len(journal)
  BY DEF SoundInv
<1>a. ASSUME got' = got, handle'.private = handle.private
      PROVE  /\ handle.private
             /\ Numbers(got', "delta") = Numbers(got, "delta")
             /\ Rising(got, "delta") => Rising(got', "delta")
  BY <1>a
<1>1. CASE TakeReplay
  <2> DEFINE q == handle.replay
             f == Head(q)
  <2>1. q \in Seq(Frames) /\ q # <<>> /\ f \in Frames /\ Took(Tail(q), f)
    BY <1>1, TakeReplayIs
  <2>2. Numbers(q, "delta") = Numbers(Tail(q), "delta")
                \cup (IF f.frame = "delta" THEN {f.n} ELSE {})
    BY <2>1, TailNumbers
  <2>3. f.frame # "delta"
    BY <2>2 DEF SoundInv
  <2> HIDE DEF f
  <2> QED
    BY <2>1, <2>3, GotTook
<1>2. CASE ReadGlobal
  <2> DEFINE f == Head(feed.queue)
  <2>1. /\ f \in Frames
        /\ \/ handle' = handle /\ got' = got
           \/ /\ ~handle.private \/ f.frame = "row"
              /\ Took(<<>>, f)
    BY <1>2, ReadGlobalIs
  <2>2. CASE handle' = handle /\ got' = got
    BY <1>a, <2>2
  <2>3. CASE /\ ~handle.private \/ f.frame = "row"
             /\ Took(<<>>, f)
    <3> HIDE DEF f
    <3>1. /\ handle'.private = handle.private
          /\ Numbers(got', "delta") = Numbers(got, "delta")
                \cup (IF f.frame = "delta" THEN {f.n} ELSE {})
          /\ Rising(got, "delta")
              /\ (f.frame = "delta" => \A x \in Numbers(got, "delta") : x < f.n)
              => Rising(got', "delta")
      BY <2>1, <2>3, GotTook
    <3> QED
      BY <2>3, <3>1
  <2> QED
    BY <2>1, <2>2, <2>3
<1>3. CASE QuietSteps
  BY <1>3, <1>a, QuietStep DEF Quiet
<1>4. CASE Proceeds
  BY <1>4, <1>a, ProceedIs
<1>5. CASE SendDirect \/ Broadcast \/ CancelAppends
  BY <1>5, <1>a, SendDirectIs, BroadcastIs, CancelAppendsIs
<1>6. CASE CancelBroadcasts \/ OtherTurnBroadcasts
  BY <1>6, <1>a, OthersBroadcastIs
<1>7. CASE Join \/ Abandon
  BY <1>7, <1>a, JoinIs, AbandonIs
<1>8. CASE RefillReplay \/ ReadLagged
  BY <1>0, <1>8, <1>a, RefillStepIs
<1> QED
  BY StepCases, <1>1, <1>2, <1>3, <1>4, <1>5, <1>6, <1>7, <1>8 DEF Proceeds

LEMMA BoxStep ==
    ASSUME HandleTypeOK, ControlInv, SoundInv, BoxInv, [HandleNext]_handleVars
    PROVE  BoxInv'
<1>0. Streamed \in Nat
  BY StreamedIs
<1>1. CASE Proceeds
  <2>1. /\ Rising(task'.outbox, "delta") /\ Streamed' \in Nat
        /\ Numbers(task'.outbox, "delta") =
                {k \in Tokens : Streamed < k /\ k <= Streamed'}
    BY <1>1, ProceedIs
  <2>2. Tokens \subseteq Nat
    BY SMTT(30), ScriptAssumption DEF Tokens
  <2>3. \A k \in Nat : Streamed < k /\ k <= Streamed' => k \in 1 .. Streamed'
    BY SMTT(30), <1>0, <2>1
  <2> QED
    BY <2>1, <2>2, <2>3 DEF BoxInv
<1>2. CASE ~Proceeds
  <2>1. /\ Streamed' = Streamed
        /\ Broadcast \/ task'.outbox = task.outbox
    BY <1>2, WaitIs
  <2>2. CASE task'.outbox = task.outbox
    BY <2>1, <2>2 DEF BoxInv
  <2>3. CASE Broadcast
    <3>1. /\ task.outbox \in Seq(Frames) /\ task.outbox # <<>>
          /\ task'.outbox = Tail(task.outbox)
      BY <2>3, BroadcastIs
    <3>2. /\ Numbers(task.outbox, "delta") = Numbers(Tail(task.outbox), "delta")
                \cup (IF Head(task.outbox).frame = "delta"
                      THEN {Head(task.outbox).n} ELSE {})
          /\ Rising(Tail(task.outbox), "delta")
      BY <3>1, TailNumbers DEF BoxInv
    <3> QED
      BY <2>1, <3>1, <3>2 DEF BoxInv
  <2> QED
    BY <2>1, <2>2, <2>3
<1> QED
  BY <1>1, <1>2

\* The private channel goes on being held only by steps that leave it alone,
\* put a frame into it, or take one out of it.
LEMMA HeldIs ==
    ASSUME HandleTypeOK, ControlInv, SoundInv, [HandleNext]_handleVars, direct'.held
    PROVE  /\ direct.held /\ handle'.private
           /\ \/ SendDirect \/ ReadDirect
              \/ direct'.queue = direct.queue
<1>0. task.cursor <= Len(journal) /\ handle.cursor <= Len(journal)
  BY DEF SoundInv
<1>1. handle'.private
  BY <1>0, ControlStep DEF ControlInv
<1>2. ASSUME direct' = direct \/ /\ direct'.held = direct.held
                                 /\ direct'.queue = direct.queue
      PROVE  direct.held /\ direct'.queue = direct.queue
  BY <1>2
<1>3. CASE TakeReplay \/ ReadGlobal
  <2>1. /\ handle'.pc = "over" => Gone
        /\ handle'.pc # "over" => direct' = direct
    BY <1>3, TakeReplayIs, ReadGlobalIs
  <2> QED
    BY <1>1, <1>2, <2>1 DEF Gone
<1>4. CASE ReadDirect
  <2>1. /\ handle'.pc = "over" => Gone
        /\ handle'.pc # "over" => direct'.held = direct.held
    BY <1>4, ReadDirectIs
  <2> QED
    BY <1>1, <1>4, <2>1 DEF Gone
<1>5. CASE QuietSteps
  BY <1>1, <1>2, <1>5, QuietStep DEF Quiet
<1>6. CASE Proceeds
  BY <1>1, <1>2, <1>6, ProceedIs
<1>7. CASE SendDirect
  BY <1>1, <1>7, SendDirectIs
<1>8. CASE Broadcast \/ CancelAppends
  BY <1>1, <1>2, <1>8, BroadcastIs, CancelAppendsIs
<1>9. CASE CancelBroadcasts \/ OtherTurnBroadcasts
  BY <1>1, <1>2, <1>9, OthersBroadcastIs
<1>10. CASE Join \/ Abandon
  BY <1>1, <1>2, <1>10, JoinIs, AbandonIs DEF Gone
<1>11. CASE RefillReplay \/ ReadLagged
  BY <1>0, <1>1, <1>2, <1>11, RefillStepIs
<1> QED
  BY StepCases, <1>3, <1>4, <1>5, <1>6, <1>7, <1>8, <1>9, <1>10, <1>11
     DEF Proceeds

LEMMA ChannelStep ==
    ASSUME HandleTypeOK, ControlInv, SoundInv, BoxInv, ChannelInv,
           [HandleNext]_handleVars
    PROVE  ChannelInv'
<1>0. /\ Streamed \in Nat /\ direct.queue \in Seq(Frames) /\ got \in Seq(Frames)
      /\ Tokens \subseteq Nat
  <2>1. Tokens \subseteq Nat
    BY SMTT(30), ScriptAssumption DEF Tokens
  <2> QED
    BY <2>1, StreamedIs, TypesAre DEF DirectType
<1>1. SUFFICES ASSUME direct'.held PROVE ChannelInv'
  BY DEF ChannelInv
<1> DEFINE Got == Numbers(got, "delta")
           Chan == Numbers(direct.queue, "delta")
           Rest == Numbers(Left, "delta")
<1>2. /\ direct.held /\ handle'.private
      /\ \/ SendDirect \/ ReadDirect
         \/ direct'.queue = direct.queue
  BY <1>1, HeldIs
<1>3. /\ Rising(direct.queue, "delta")
      /\ \A x \in Chan, y \in Rest : x < y
      /\ \A x \in Got, y \in Chan : x < y
      /\ \A x \in Got, y \in Rest : x < y
      /\ Chan \subseteq 1 .. Streamed /\ Got \subseteq 1 .. Streamed
      /\ \A k \in Tokens : k <= Streamed => k \in Got \cup Chan \cup Rest
  BY <1>2 DEF ChannelInv, Below
<1>4. ~ReadDirect => Numbers(got', "delta") = Got
  BY <1>2, OnlyDirectSpeaks
<1>5. CASE Proceeds
  <2> DEFINE Box == Numbers(task'.outbox, "delta")
  <2>1. /\ task.outbox = <<>> /\ ~task.sent /\ ~task'.sent
        /\ Streamed <= Streamed' /\ Streamed' \in Nat
        /\ Box = {k \in Tokens : Streamed < k /\ k <= Streamed'}
        /\ direct' = direct /\ handle' = handle /\ got' = got
    BY <1>5, ProceedIs
  <2>2. Left = <<>> /\ Left' = task'.outbox /\ Rest = {}
    BY <2>1, NoNumbers DEF Left
  <2>3. 1 .. Streamed \subseteq 1 .. Streamed'
    BY SMTT(30), <1>0, <2>1
  <2>4. ASSUME NEW x \in 1 .. Streamed, NEW y \in Box
        PROVE  x < y
    <3>1. y \in Nat /\ Streamed < y
      BY <1>0, <2>1, <2>4
    <3> HIDE DEF Box
    <3> QED
      BY SMTT(30), <1>0, <2>4, <3>1
  <2>5. ASSUME NEW k \in Tokens, k <= Streamed'
        PROVE  k \in Got \cup Chan \cup Box
    <3>1. k <= Streamed \/ Streamed < k
      BY SMTT(30), <1>0, <2>5
    <3> QED
      BY <1>3, <2>1, <2>2, <2>5, <3>1
  <2>6. \A x \in Chan, y \in Box : x < y
    BY <1>3, <2>4
  <2>7. \A x \in Got, y \in Box : x < y
    BY <1>3, <2>4
  <2>8. Chan \subseteq 1 .. Streamed' /\ Got \subseteq 1 .. Streamed'
    BY <1>3, <2>3
  <2> QED
    BY <1>3, <2>1, <2>2, <2>5, <2>6, <2>7, <2>8 DEF ChannelInv, Below
<1>6. CASE ~Proceeds /\ SendDirect
  <2> DEFINE q == task.outbox
             f == Head(q)
             mine == IF f.frame = "delta" THEN {f.n} ELSE {}
  <2>1. /\ q \in Seq(Frames) /\ q # <<>> /\ ~task.sent /\ task'.sent
        /\ task'.outbox = q /\ got' = got
        /\ direct'.queue = Append(direct.queue, f)
    BY <1>2, <1>6, SendDirectIs
  <2>2. Left = q /\ Left' = Tail(q) /\ Streamed' = Streamed
    BY <1>6, <2>1, WaitIs DEF Left
  <2>3. Rising(q, "delta") /\ Numbers(q, "delta") \subseteq 1 .. Streamed
    BY DEF BoxInv
  <2>4. /\ f \in Frames
        /\ Numbers(q, "delta") = Numbers(Tail(q), "delta") \cup mine
        /\ f.frame = "delta" => \A x \in Numbers(Tail(q), "delta") : f.n < x
    BY <2>1, <2>3, TailNumbers
  <2>5. Rest = Numbers(Tail(q), "delta") \cup mine
    BY <2>2, <2>4
  <2> HIDE DEF f, q
  <2>6. f.frame = "delta" => \A x \in Chan : x < f.n
    BY <1>3, <2>5
  <2>7. /\ Numbers(Append(direct.queue, f), "delta") = Chan \cup mine
        /\ Rising(Append(direct.queue, f), "delta")
    BY <1>0, <1>3, <2>4, <2>6, AppendNumbers
  <2>8. /\ \A x \in Chan \cup mine, y \in Numbers(Tail(q), "delta") : x < y
        /\ \A x \in Got, y \in Chan \cup mine : x < y
        /\ \A x \in Got, y \in Numbers(Tail(q), "delta") : x < y
    BY <1>3, <2>4, <2>5
  <2>9. Chan \cup mine \subseteq 1 .. Streamed
    BY <1>3, <2>2, <2>3, <2>4
  <2>10. \A k \in Tokens : k <= Streamed =>
            k \in Got \cup (Chan \cup mine) \cup Numbers(Tail(q), "delta")
    BY <1>3, <2>5
  <2> HIDE DEF mine
  <2> QED
    BY <1>3, <2>1, <2>2, <2>7, <2>8, <2>9, <2>10 DEF ChannelInv, Below
<1>7. CASE ~Proceeds /\ ReadDirect
  <2> DEFINE q == direct.queue
             f == Head(q)
             mine == IF f.frame = "delta" THEN {f.n} ELSE {}
  <2>1. /\ q # <<>> /\ f \in Frames /\ Took(<<>>, f) /\ task' = task
        /\ handle'.pc = "over" => Gone
        /\ handle'.pc # "over" => direct'.queue = Tail(q)
    BY <1>7, ReadDirectIs
  <2>2. direct'.queue = Tail(q) /\ Left' = Left /\ Streamed' = Streamed
    BY <1>1, <1>7, <2>1, WaitIs DEF Gone, Left
  <2>3. Numbers(got', "delta") = Got \cup mine
    BY <2>1, GotTook
  <2>4. /\ Chan = Numbers(Tail(q), "delta") \cup mine
        /\ Rising(Tail(q), "delta")
        /\ f.frame = "delta" => \A x \in Numbers(Tail(q), "delta") : f.n < x
    BY <1>0, <1>3, <2>1, TailNumbers
  <2> HIDE DEF f, q
  <2>5. /\ \A x \in Numbers(Tail(q), "delta"), y \in Rest : x < y
        /\ \A x \in Got \cup mine, y \in Numbers(Tail(q), "delta") : x < y
        /\ \A x \in Got \cup mine, y \in Rest : x < y
    BY <1>3, <2>4
  <2>6. /\ Numbers(Tail(q), "delta") \subseteq 1 .. Streamed
        /\ Got \cup mine \subseteq 1 .. Streamed
    BY <1>3, <2>4
  <2>7. \A k \in Tokens : k <= Streamed =>
            k \in (Got \cup mine) \cup Numbers(Tail(q), "delta") \cup Rest
    BY <1>3, <2>4
  <2> HIDE DEF mine
  <2> QED
    BY <2>2, <2>3, <2>4, <2>5, <2>6, <2>7 DEF ChannelInv, Below
<1>8. CASE ~Proceeds /\ ~SendDirect /\ ~ReadDirect
  <2>1. direct'.queue = direct.queue /\ Streamed' = Streamed
    BY <1>2, <1>8, WaitIs
  <2>2. Left' = Left
    <3>1. CASE Broadcast
      BY <3>1, BroadcastIs DEF Left
    <3>2. CASE task'.outbox = task.outbox /\ task'.sent = task.sent
      BY <3>2 DEF Left
    <3> QED
      BY <1>8, <3>1, <3>2, WaitIs
  <2> QED
    BY <1>3, <1>4, <1>8, <2>1, <2>2 DEF ChannelInv, Below
<1> QED
  BY <1>5, <1>6, <1>7, <1>8

LEMMA GotStep ==
    ASSUME HandleTypeOK, ControlInv, SoundInv, ChannelInv, GotInv,
           [HandleNext]_handleVars
    PROVE  GotInv'
<1>1. SUFFICES ASSUME handle'.private
               PROVE  /\ Rising(got', "delta")
                      /\ \A n \in Numbers(got', "delta"), k \in Tokens :
                            k < n => k \in Numbers(got', "delta")
  BY DEF GotInv
<1>2. CASE ~ReadDirect
  BY <1>1, <1>2, OnlyDirectSpeaks DEF GotInv
<1>3. CASE ReadDirect
  <2> DEFINE q == direct.queue
             f == Head(q)
             Got == Numbers(got, "delta")
             Chan == Numbers(q, "delta")
             Rest == Numbers(Left, "delta")
  <2>1. /\ q \in Seq(Frames) /\ q # <<>> /\ f \in Frames /\ Took(<<>>, f)
        /\ handle.pc = "direct"
    BY <1>3, ReadDirectIs
  <2>2. direct.held /\ handle.private
    BY <2>1 DEF ControlInv, Subscribed
  <2>3. /\ Rising(q, "delta")
        /\ \A x \in Chan, y \in Rest : x < y
        /\ \A x \in Got, y \in Chan : x < y
        /\ Chan \subseteq 1 .. Streamed
        /\ \A k \in Tokens : k <= Streamed => k \in Got \cup Chan \cup Rest
    BY <2>2 DEF ChannelInv, Below
  <2>4. /\ Chan = Numbers(Tail(q), "delta")
                \cup (IF f.frame = "delta" THEN {f.n} ELSE {})
        /\ f.frame = "delta" => \A x \in Numbers(Tail(q), "delta") : f.n < x
    BY <2>1, <2>3, TailNumbers
  <2>5. /\ Numbers(got', "delta") = Got
                \cup (IF f.frame = "delta" THEN {f.n} ELSE {})
        /\ Rising(got, "delta")
              /\ (f.frame = "delta" => \A x \in Got : x < f.n)
              => Rising(got', "delta")
    BY <2>1, GotTook
  <2>6. /\ Rising(got, "delta")
        /\ \A n \in Got, k \in Tokens : k < n => k \in Got
    BY <2>2 DEF GotInv
  <2> HIDE DEF f, q
  <2>7. f.frame = "delta" => \A x \in Got : x < f.n
    BY <2>3, <2>4
  <2>8. ASSUME f.frame = "delta", NEW k \in Tokens, k < f.n
        PROVE  k \in Got
    <3>1. f.n \in 1 .. Streamed /\ f.n \in Chan
      BY <2>3, <2>4, <2>8
    <3>2. Streamed \in Nat /\ Tokens \subseteq Nat
      <4>1. Tokens \subseteq Nat
        BY SMTT(30), ScriptAssumption DEF Tokens
      <4> QED
        BY <4>1, StreamedIs
    <3>3. k <= Streamed /\ ~(f.n < k) /\ k # f.n
      <4> DEFINE s == Streamed
                 m == f.n
      <4>1. s \in Nat /\ m \in 1 .. s /\ k \in Nat /\ k < m
        BY <2>8, <3>1, <3>2
      <4> HIDE DEF s, m
      <4>2. k <= s /\ ~(m < k) /\ k # m
        BY ONLY SMTT(30), <4>1
      <4> QED
        BY <4>2 DEF s, m
    <3>4. k \in Got \cup Chan \cup Rest
      BY <2>3, <3>3
    <3>5. k \notin Rest
      BY <2>3, <3>1, <3>3
    <3>6. k \notin Chan
      BY <2>4, <2>8, <3>3
    <3> QED
      BY <3>4, <3>5, <3>6
  <2> QED
    BY <2>5, <2>6, <2>7, <2>8
<1> QED
  BY <1>2, <1>3

-----------------------------------------------------------------------------
(* The end of the stream.                                                  *)

Final(f) == f.frame = "row" /\ journal[f.n] = "completed"

\* Nothing follows turn_completed.
Lasts(q) == \A i \in DOMAIN q : Final(q[i]) => i = Len(q)

EndInv ==
    /\ Lasts(task.outbox)
    /\ direct.held =>
        /\ Lasts(direct.queue)
        /\ \A i \in DOMAIN direct.queue : Final(direct.queue[i]) => Left = <<>>
    /\ handle.private /\ ~handle.lagged =>
        \A n \in handle.seen :
            journal[n] = "completed" => Tokens \subseteq Numbers(got, "delta")

OverInv == handle.pc = "over" => got # <<>>

LEMMA FinalTail ==
    ASSUME NEW q \in Seq(Frames), q # <<>>, Lasts(q)
    PROVE  /\ Lasts(Tail(q))
           /\ Final(Head(q)) => Tail(q) = <<>>
           /\ \A i \in DOMAIN Tail(q) : \E j \in DOMAIN q : Tail(q)[i] = q[j]
<1>1. /\ Tail(q) \in Seq(Frames) /\ Len(Tail(q)) = Len(q) - 1 /\ Len(q) \in Nat
      /\ Head(q) = q[1] /\ 1 \in DOMAIN q /\ Len(Tail(q)) \in Nat
      /\ \A i \in 1 .. Len(Tail(q)) :
            i + 1 \in DOMAIN q /\ Tail(q)[i] = q[i + 1]
      /\ DOMAIN Tail(q) = 1 .. Len(Tail(q))
      /\ Len(q) = 1 => Tail(q) = <<>>
  BY SMTT(30)
<1>2. Final(Head(q)) => Tail(q) = <<>>
  BY <1>1 DEF Lasts
<1>3. ASSUME NEW i \in DOMAIN Tail(q), Final(Tail(q)[i])
      PROVE  i = Len(Tail(q))
  <2>1. i \in 1 .. Len(Tail(q)) /\ Final(q[i + 1]) /\ i + 1 \in DOMAIN q
    BY <1>1, <1>3
  <2>2. i + 1 = Len(q)
    BY <2>1 DEF Lasts
  <2> DEFINE l == Len(q)
             t == Len(Tail(q))
  <2>3. l \in Nat /\ t = l - 1 /\ i + 1 = l /\ t \in Nat /\ i \in 1 .. t
    BY <1>1, <2>1, <2>2
  <2> HIDE DEF l, t
  <2>4. i = t
    BY ONLY SMTT(30), <2>3
  <2> QED
    BY <2>4 DEF t
<1> QED
  BY <1>1, <1>2, <1>3 DEF Lasts

LEMMA FinalAppend ==
    ASSUME NEW q \in Seq(Frames), NEW f \in Frames,
           \A i \in DOMAIN q : ~Final(q[i])
    PROVE  /\ Lasts(Append(q, f))
           /\ \A i \in DOMAIN Append(q, f) : Final(Append(q, f)[i]) => Final(f)
<1>1. /\ Len(Append(q, f)) = Len(q) + 1 /\ Append(q, f)[Len(q) + 1] = f
      /\ \A i \in DOMAIN Append(q, f) :
            \/ i = Len(q) + 1
            \/ i \in DOMAIN q /\ Append(q, f)[i] = q[i]
  BY SMTT(30)
<1> QED
  BY <1>1 DEF Lasts

\* Frames of rows known to exist, none of which completes the turn.
LEMMA NoneFinal ==
    ASSUME NEW q \in Seq(Frames), NEW rows, NEW j,
           Numbers(q, "row") \subseteq rows,
           \A n \in rows : j[n] # "completed"
    PROVE  \A i \in DOMAIN q : ~(q[i].frame = "row" /\ j[q[i].n] = "completed")
BY DEF Numbers

LEMMA OpenEnd ==
    ASSUME HandleTypeOK', SoundInv', SeenInv',
           \A n \in DOMAIN journal' : journal'[n] # "completed"
    PROVE  EndInv'
<1>1. /\ task'.outbox \in Seq(Frames) /\ direct'.queue \in Seq(Frames)
  BY DEF HandleTypeOK
<1>2. /\ Numbers(task'.outbox, "row") \subseteq DOMAIN journal'
      /\ Numbers(direct'.queue, "row") \subseteq DOMAIN journal'
      /\ handle'.seen \subseteq DOMAIN journal'
  BY DEF SoundInv, Sound, SeenInv
<1>3. \A i \in DOMAIN task'.outbox : ~Final(task.outbox[i])'
  BY <1>1, <1>2, NoneFinal DEF Final
<1>4. \A i \in DOMAIN direct'.queue : ~Final(direct.queue[i])'
  BY <1>1, <1>2, NoneFinal DEF Final
<1> QED
  BY <1>2, <1>3, <1>4 DEF EndInv, Lasts

\* turn_completed is appended: no frame tells of it but the one to publish.
LEMMA EndAppends ==
    ASSUME HandleTypeOK, SoundInv, SeenInv, CompletedInv, AppendRow,
           ~CancelIsDurable
    PROVE  EndInv'
<1>1. PICK kind \in {"row", "completed"} :
            /\ journal' = Append(journal, kind) /\ task.at \in DOMAIN Script
            /\ task'.outbox = <<Row(Len(journal) + 1)>>
            /\ Len(journal) + 1 \in Nat
            /\ direct' = direct /\ handle' = handle /\ got' = got
  BY AppendRowIs
<1>2. kind \in RowKinds
  BY DEF RowKinds, Terminals
<1>3. \A n \in DOMAIN journal : journal[n] # "completed"
  BY <1>1, BusyIsOpen DEF Busy
<1>4. \A n \in DOMAIN journal : journal'[n] # "completed"
  BY <1>1, <1>2, <1>3, JournalGrows
<1>5. /\ Numbers(direct.queue, "row") \subseteq DOMAIN journal
      /\ handle.seen \subseteq DOMAIN journal
      /\ direct.queue \in Seq(Frames)
  BY TypesAre DEF SoundInv, Sound, SeenInv, DirectType
<1>6. \A i \in DOMAIN direct'.queue : ~Final(direct.queue[i])'
  BY <1>1, <1>4, <1>5, NoneFinal DEF Final
<1>7. DOMAIN task'.outbox = {1} /\ Len(task'.outbox) = 1
  BY SMTT(30), <1>1
<1> QED
  BY <1>1, <1>4, <1>5, <1>6, <1>7 DEF EndInv, Lasts

LEMMA EndReads ==
    ASSUME HandleTypeOK, ControlInv, SoundInv, CompletedInv, ChannelInv, EndInv,
           ReadDirect
    PROVE  EndInv'
<1> DEFINE q == direct.queue
           f == Head(q)
<1>1. /\ handle.pc = "direct" /\ q \in Seq(Frames) /\ q # <<>> /\ f \in Frames
      /\ Took(<<>>, f) /\ task' = task /\ journal' = journal
      /\ handle'.pc = "over" => Gone
      /\ handle'.pc # "over" => direct'.queue = Tail(q)
  BY ReadDirectIs
<1>2. direct.held /\ handle.private
  BY <1>1 DEF ControlInv, Subscribed
<1>3. /\ Lasts(q)
      /\ \A i \in DOMAIN q : Final(q[i]) => Left = <<>>
  BY <1>2 DEF EndInv
<1>4. /\ Lasts(Tail(q))
      /\ Final(f) => Tail(q) = <<>>
      /\ \A i \in DOMAIN Tail(q) : \E j \in DOMAIN q : Tail(q)[i] = q[j]
  BY <1>1, <1>3, FinalTail
<1>5. 1 \in DOMAIN q /\ f = q[1]
  BY SMTT(30), <1>1
<1>6. Left' = Left /\ \A x : Final(x)' <=> Final(x)
  BY <1>1 DEF Left, Final
<1>7. Lasts(task.outbox)'
  BY <1>1 DEF EndInv, Lasts, Final
<1>8. direct'.held =>
        /\ Lasts(direct.queue)'
        /\ \A i \in DOMAIN direct'.queue : Final(direct.queue[i])' => Left' = <<>>
  <2>1. SUFFICES ASSUME direct'.held
                 PROVE  /\ Lasts(direct.queue)'
                        /\ \A i \in DOMAIN direct'.queue :
                              Final(direct.queue[i])' => Left' = <<>>
    OBVIOUS
  <2>2. direct'.queue = Tail(q)
    BY <1>1, <2>1 DEF Gone
  <2>3. Lasts(direct.queue)'
    BY <1>4, <1>1, <2>2 DEF Lasts, Final
  <2>4. ASSUME NEW i \in DOMAIN Tail(q), Final(Tail(q)[i])
        PROVE  Left = <<>>
    BY <1>3, <1>4, <2>4
  <2>5. ASSUME NEW i \in DOMAIN direct'.queue, Final(direct.queue[i])'
        PROVE  Final(Tail(q)[i])
    BY <1>1, <2>2, <2>5 DEF Final
  <2> QED
    BY <1>6, <2>2, <2>3, <2>4, <2>5
<1>9. Numbers(got', "delta") = Numbers(got, "delta")
                \cup (IF f.frame = "delta" THEN {f.n} ELSE {})
  BY <1>1, GotTook
<1>10. ASSUME handle'.private, ~handle'.lagged, NEW n \in handle'.seen,
              journal'[n] = "completed"
       PROVE  Tokens \subseteq Numbers(got', "delta")
  <2>1. ~handle.lagged /\ (n \in handle.seen \/ (f.frame = "row" /\ n = f.n))
    BY <1>1, <1>10 DEF Took
  <2>2. CASE n \in handle.seen
    BY <1>1, <1>2, <1>9, <1>10, <2>1, <2>2 DEF EndInv
  <2>3. CASE f.frame = "row" /\ n = f.n
    <3>1. Final(f)
      BY <1>1, <1>10, <2>3 DEF Final
    <3>2. Tail(q) = <<>> /\ Left = <<>>
      BY <1>3, <1>4, <1>5, <3>1
    <3>3. Numbers(q, "delta") = {} /\ Numbers(Left, "delta") = {}
      <4>1. Numbers(q, "delta") = Numbers(Tail(q), "delta")
                \cup (IF f.frame = "delta" THEN {f.n} ELSE {})
        BY <1>1, TailNumbers
      <4> HIDE DEF q, f
      <4> QED
        BY <2>3, <3>2, <4>1, NoNumbers
    <3>4. f.n \in DOMAIN journal
      BY <1>1, <2>3, SoundTail DEF SoundInv, SoundFrame
    <3>5. task.at = Len(Script) + 1 /\ ~task.ends
      BY <3>1, <3>4 DEF CompletedInv, Final
    <3>6. Streamed = Len(Script)
      <4>1. Streamed = (Len(Script) + 1) - 1
        BY <3>5, StreamedIs
      <4>2. (Len(Script) + 1) - 1 = Len(Script)
        BY SMTT(30), ScriptAssumption
      <4> QED
        BY <4>1, <4>2
    <3>7. \A k \in Tokens : k <= Len(Script)
      BY SMTT(30), ScriptAssumption DEF Tokens
    <3>8. \A k \in Tokens : k <= Streamed =>
            k \in Numbers(got, "delta") \cup Numbers(q, "delta")
                  \cup Numbers(Left, "delta")
      BY <1>2 DEF ChannelInv
    <3> QED
      BY <1>9, <3>3, <3>6, <3>7, <3>8
  <2> QED
    BY <2>1, <2>2, <2>3
<1> QED
  BY <1>7, <1>8, <1>10 DEF EndInv

LEMMA EndStep ==
    ASSUME HandleTypeOK, ControlInv, SoundInv, CompletedInv, SeenInv, ChannelInv,
           EndInv, HandleTypeOK', SoundInv', SeenInv', [HandleNext]_handleVars
    PROVE  EndInv'
<1>0. task.cursor <= Len(journal) /\ handle.cursor <= Len(journal)
  BY DEF SoundInv
<1>1. ASSUME \A n \in DOMAIN journal' : journal'[n] # "completed"
      PROVE  EndInv'
  BY <1>1, OpenEnd
<1>2. ASSUME NEW kind \in RowKinds \ {"completed"},
             journal' = Append(journal, kind), Busy \/ TurnIsOpen
      PROVE  EndInv'
  <2>1. \A n \in DOMAIN journal : journal[n] # "completed"
    BY <1>2, BusyIsOpen DEF TurnIsOpen, Terminals
  <2>2. /\ DOMAIN journal' = 1 .. Len(journal) + 1
        /\ DOMAIN journal = 1 .. Len(journal) /\ Len(journal) \in Nat
        /\ journal'[Len(journal) + 1] = kind
        /\ \A n \in DOMAIN journal : journal'[n] = journal[n]
    BY <1>2, JournalGrows
  <2>3. \A n \in 1 .. Len(journal) + 1 :
            n \in 1 .. Len(journal) \/ n = Len(journal) + 1
    BY SMTT(30), <2>2
  <2>4. \A n \in DOMAIN journal' : journal'[n] # "completed"
    BY <1>2, <2>1, <2>2, <2>3
  <2> QED
    BY <1>1, <2>4
<1>3. ASSUME journal' = journal, Busy
      PROVE  EndInv'
  BY <1>1, <1>3, BusyIsOpen
<1>4. ASSUME journal' = journal, Lasts(task'.outbox), Left' = Left,
             direct'.held => direct.held /\ direct'.queue = direct.queue,
             ~ReadDirect, ~handle'.lagged => ~handle.lagged,
             handle'.private =>
                \A n \in handle'.seen :
                    journal[n] = "completed" => n \in handle.seen \/ handle'.lagged
      PROVE  EndInv'
  <2>1. handle'.private => /\ handle.private
                           /\ Numbers(got', "delta") = Numbers(got, "delta")
    BY <1>4, OnlyDirectSpeaks
  <2>2. \A x : Final(x)' <=> Final(x)
    BY <1>4 DEF Final
  <2>3. handle'.private /\ ~handle'.lagged =>
            \A n \in handle'.seen : journal'[n] = "completed" =>
                Tokens \subseteq Numbers(got', "delta")
    BY <1>4, <2>1 DEF EndInv
  <2>4. Lasts(task.outbox)'
    BY <1>4 DEF Lasts, Final
  <2>5. direct'.held =>
            /\ Lasts(direct.queue)'
            /\ \A i \in DOMAIN direct'.queue :
                    Final(direct.queue[i])' => Left' = <<>>
    BY <1>4 DEF EndInv, Lasts, Final
  <2> QED
    BY <2>3, <2>4, <2>5 DEF EndInv
<1>5. Lasts(task.outbox)
  BY DEF EndInv
<1>6. ASSUME task' = task \/ /\ task'.outbox = task.outbox
                             /\ task'.sent = task.sent
      PROVE  Lasts(task'.outbox) /\ Left' = Left
  BY <1>5, <1>6 DEF Left
<1>7. CASE AppendRow /\ ~CancelIsDurable
  BY <1>7, EndAppends
<1>8. CASE SilentRow /\ ~CancelIsDurable
  <2>1. "row" \in RowKinds \ {"completed"}
    BY DEF RowKinds, Terminals
  <2> QED
    BY <1>2, <1>8, <2>1, SilentRowIs DEF Busy
<1>9. CASE Stream
  BY <1>0, <1>3, <1>9, StreamIs DEF Busy
<1>10. CASE Interrupt
  <2>1. "interrupted" \in RowKinds \ {"completed"}
    BY DEF RowKinds, Terminals
  <2> QED
    BY <1>2, <1>10, <2>1, InterruptIs DEF Busy
<1>11. CASE CloseFails
  BY <1>3, <1>11, CloseFailsIs DEF Busy
<1>12. CASE CancelAppends
  <2>1. "intent" \in RowKinds \ {"completed"}
    BY DEF RowKinds, Terminals
  <2> QED
    BY <1>2, <1>12, <2>1, CancelAppendsIs
<1>13. CASE Join
  <2>1. "interrupted" \in RowKinds \ {"completed"}
    BY DEF RowKinds, Terminals
  <2>2. CASE journal' = Append(journal, "interrupted") /\ TurnIsOpen
    BY <1>2, <2>1, <2>2
  <2>3. CASE journal' = journal
    <3>1. /\ direct' = direct /\ task' = task /\ handle'.seen = handle.seen
          /\ handle'.lagged = handle.lagged /\ handle.pc = "unborn"
      BY <1>13, JoinIs
    <3>2. Lasts(task'.outbox) /\ Left' = Left
      BY <1>6, <3>1
    <3>3. ~ReadDirect
      BY <3>1, ReadDirectIs
    <3> QED
      BY <1>4, <2>3, <3>1, <3>2, <3>3
  <2> QED
    BY <1>13, <2>2, <2>3, JoinIs
<1>14. CASE ReadDirect
  BY <1>14, EndReads
<1>15. CASE SendDirect
  <2> DEFINE q == task.outbox
             f == Head(q)
  <2>1. /\ q \in Seq(Frames) /\ q # <<>> /\ direct.queue \in Seq(Frames)
        /\ ~task.sent /\ task'.sent /\ task'.outbox = q
        /\ direct'.held = direct.held /\ journal' = journal
        /\ handle' = handle /\ got' = got
        /\ direct'.queue = IF direct.held THEN Append(direct.queue, f)
                                          ELSE direct.queue
    BY <1>15, SendDirectIs
  <2>2. Left = q /\ Left' = Tail(q)
    BY <2>1 DEF Left
  <2>3. Final(f) => Tail(q) = <<>>
    BY <1>5, <2>1, FinalTail
  <2>4. f \in Frames
    BY <2>1, TailNumbers
  <2>5. Lasts(task.outbox)'
    BY <1>5, <2>1 DEF Lasts, Final
  <2>6. handle'.private /\ ~handle'.lagged =>
            \A n \in handle'.seen : journal'[n] = "completed" =>
                Tokens \subseteq Numbers(got', "delta")
    BY <2>1 DEF EndInv
  <2>7. ASSUME direct'.held
        PROVE  /\ Lasts(direct.queue)'
               /\ \A i \in DOMAIN direct'.queue :
                    Final(direct.queue[i])' => Left' = <<>>
    <3> DEFINE more == Append(direct.queue, f)
    <3>1. \A i \in DOMAIN direct.queue : ~Final(direct.queue[i])
      BY <2>1, <2>2, <2>7 DEF EndInv
    <3>2. /\ Lasts(more)
          /\ \A i \in DOMAIN more : Final(more[i]) => Final(f)
      BY <2>1, <2>4, <3>1, FinalAppend
    <3>3. direct'.queue = more
      BY <2>1, <2>7
    <3> HIDE DEF more, f
    <3>4. Lasts(direct.queue)'
      BY <2>1, <3>2, <3>3 DEF Lasts, Final
    <3>5. \A i \in DOMAIN direct'.queue : Final(direct.queue[i])' => Final(more[i])
      BY <2>1, <3>3 DEF Final
    <3> QED
      BY <2>2, <2>3, <3>2, <3>3, <3>4, <3>5
  <2> QED
    BY <2>5, <2>6, <2>7 DEF EndInv
<1>16. CASE Broadcast
  <2>1. /\ task.outbox \in Seq(Frames) /\ task.outbox # <<>> /\ task.sent
        /\ task'.outbox = Tail(task.outbox) /\ ~task'.sent
        /\ journal' = journal /\ direct' = direct /\ handle' = handle
        /\ got' = got
    BY <1>16, BroadcastIs
  <2>2. Left' = Left
    BY <2>1 DEF Left
  <2>3. Lasts(Tail(task.outbox))
    BY <1>5, <2>1, FinalTail
  <2>4. Lasts(task.outbox)'
    BY <2>1, <2>3 DEF Lasts, Final
  <2> QED
    BY <2>1, <2>2, <2>4 DEF EndInv, Lasts, Final
<1>17. CASE TakeReplay
  <2>1. /\ handle.pc = "recv" /\ handle.replay # <<>> /\ journal' = journal
        /\ task' = task
        /\ handle'.pc = "over" => Gone
        /\ handle'.pc # "over" => direct' = direct
        /\ \E replay : \E f : Took(replay, f)
    BY <1>17, TakeReplayIs
  <2>2. ~ReadDirect
    BY <2>1, ReadDirectIs
  <2>3. handle'.lagged = handle.lagged /\ handle'.private = handle.private
    BY <2>1 DEF Took
  <2>4. handle.private => handle.lagged
    BY <2>1 DEF ControlInv
  <2> QED
    BY <1>4, <1>6, <2>1, <2>2, <2>3, <2>4 DEF Gone
<1>18. CASE ReadGlobal
  <2> DEFINE f == Head(feed.queue)
  <2>1. /\ Ready /\ journal' = journal /\ task' = task
        /\ handle'.pc = "over" => Gone
        /\ handle'.pc # "over" => direct' = direct
        /\ \/ handle' = handle
           \/ /\ ~handle.private \/ (f.frame = "row" /\ ~IsTerminalFrame(f))
              /\ Took(<<>>, f)
    BY <1>18, ReadGlobalIs
  <2>2. ~ReadDirect
    BY <2>1, ReadDirectIs DEF Ready
  <2>3. handle'.lagged = handle.lagged /\ handle'.private = handle.private
    BY <2>1 DEF Took
  <2>4. ASSUME handle'.private, NEW n \in handle'.seen, journal[n] = "completed"
        PROVE  n \in handle.seen
    BY <2>1, <2>3, <2>4 DEF Took, IsTerminalFrame, Terminals
  <2> QED
    BY <1>4, <1>6, <2>1, <2>2, <2>3, <2>4 DEF Gone
<1>19. CASE RefillReplay \/ ReadLagged
  <2>1. /\ handle.pc = "recv" /\ journal' = journal /\ task' = task
        /\ direct' = direct /\ handle'.seen = handle.seen
        /\ handle'.lagged \/ handle'.lagged = handle.lagged
    BY <1>0, <1>19, RefillStepIs
  <2>2. ~ReadDirect
    BY <2>1, ReadDirectIs
  <2> QED
    BY <1>4, <1>6, <2>1, <2>2
<1>20. CASE QuietSteps
  <2>1. ReadDirect => EndInv'
    BY <1>14
  <2> QED
    BY <1>4, <1>6, <1>20, <2>1, QuietStep DEF Quiet
<1>21. CASE CancelBroadcasts \/ OtherTurnBroadcasts
  BY <1>4, <1>6, <1>14, <1>21, OthersBroadcastIs
<1>22. CASE Abandon
  BY <1>4, <1>6, <1>14, <1>22, AbandonIs DEF Gone
<1> QED
  BY StepCases, <1>7, <1>8, <1>9, <1>10, <1>11, <1>12, <1>13, <1>14, <1>15,
     <1>16, <1>17, <1>18, <1>19, <1>20, <1>21, <1>22

LEMMA OverStep ==
    ASSUME HandleTypeOK, ControlInv, SoundInv, OverInv, [HandleNext]_handleVars
    PROVE  OverInv'
<1>0. task.cursor <= Len(journal) /\ handle.cursor <= Len(journal)
  BY DEF SoundInv
<1>1. \A f \in Frames : Append(got, f) # <<>>
  <2>1. got \in Seq(Frames)
    BY TypesAre
  <2>2. ASSUME NEW f \in Frames PROVE Append(got, f) # <<>>
    <3>1. Len(Append(got, f)) = Len(got) + 1 /\ Len(got) \in Nat
      BY ONLY SMTT(30), <2>1, f \in Frames
    <3>2. Len(<<>>) = 0
      BY SMTT(30)
    <3> QED
      BY SMTT(30), <3>1, <3>2
  <2> QED
    BY <2>2
<1>2. ASSUME NEW replay, NEW f \in Frames, Took(replay, f)
      PROVE  OverInv'
  BY <1>1, <1>2 DEF Took, OverInv
<1>3. ASSUME got' = got, handle'.pc = handle.pc \/ handle'.pc # "over"
      PROVE  OverInv'
  BY <1>3 DEF OverInv
<1>4. CASE TakeReplay
  BY <1>2, <1>4, TakeReplayIs
<1>5. CASE ReadDirect
  BY <1>2, <1>5, ReadDirectIs
<1>6. CASE ReadGlobal
  BY <1>2, <1>3, <1>6, ReadGlobalIs
<1>7. CASE QuietSteps
  <2>1. got' = got /\ (Subscribed' <=> Subscribed)
    BY <1>7, QuietStep DEF Quiet
  <2>2. handle'.pc = handle.pc \/ handle'.pc \in {"recv", "direct"}
    BY <1>7, QuietStep
  <2> QED
    BY <1>3, <2>1, <2>2
<1>8. CASE Proceeds
  BY <1>3, <1>8, ProceedIs
<1>9. CASE SendDirect \/ Broadcast \/ CancelAppends
  BY <1>3, <1>9, SendDirectIs, BroadcastIs, CancelAppendsIs
<1>10. CASE CancelBroadcasts \/ OtherTurnBroadcasts
  BY <1>3, <1>10, OthersBroadcastIs
<1>11. CASE Join \/ Abandon
  BY <1>3, <1>11, JoinIs, AbandonIs
<1>12. CASE RefillReplay \/ ReadLagged
  BY <1>0, <1>3, <1>12, RefillStepIs
<1> QED
  BY StepCases, <1>4, <1>5, <1>6, <1>7, <1>8, <1>9, <1>10, <1>11, <1>12
     DEF Proceeds

TokenInv == GotInv /\ BoxInv /\ ChannelInv /\ EndInv /\ OverInv

HandleInv == HandleTypeOK /\ ControlInv /\ SoundInv /\ RowInv /\ TokenInv

LEMMA InitHandle == HandleInit => HandleInv
<1> SUFFICES ASSUME HandleInit PROVE HandleInv
  OBVIOUS
<1>1. /\ journal = <<>> /\ got = <<>> /\ noise = 0 /\ feed = NoFrames
      /\ direct = [queue |-> <<>>, open |-> TRUE, held |-> handle.private]
      /\ task = [at |-> 1, phase |-> "work", outbox |-> <<>>, sent |-> FALSE,
                 cursor |-> 0, ends |-> FALSE]
      /\ cancel = "none"
  BY DEF HandleInit
<1>2. /\ handle.replay = <<>> /\ handle.cursor = 0 /\ handle.seen = {}
      /\ ~handle.lagged
      /\ \/ handle.pc = "recv" /\ handle.private = TRUE /\ handle.complete
         \/ handle.pc = "unborn" /\ handle.private = FALSE /\ ~handle.complete
  <2>1. CASE handle = OriginalHandle
    BY <2>1 DEF OriginalHandle
  <2>2. CASE handle = DuplicateHandle
    BY <2>2 DEF DuplicateHandle, OriginalHandle
  <2> QED
    BY <2>1, <2>2 DEF HandleInit
<1>3. <<>> \in Seq(Frames) /\ <<>> \in Seq(RowKinds) /\ Len(<<>>) = 0
      /\ DOMAIN <<>> = {} /\ 0 \in 0 .. MaxNoise /\ 0 \in Nat /\ 1 \in Nat
      /\ 0 <= GlobalCap /\ 0 <= DirectCap /\ 1 >= 1
      /\ 1 .. 0 = {} /\ 0 <= 0 /\ 1 - 1 = 0
  BY SMTT(30), ScriptAssumption
<1>4. handle \in HandleType
  <2>1. OriginalHandle \in HandleType
    BY <1>3 DEF OriginalHandle, HandleType
  <2>2. DuplicateHandle \in HandleType
    BY <2>1 DEF DuplicateHandle, HandleType
  <2> QED
    BY <2>1, <2>2 DEF HandleInit
<1>5. handle.private \in BOOLEAN
  BY <1>4 DEF HandleType
<1>6. HandleTypeOK
  <2>1. /\ journal \in Seq(RowKinds) /\ noise \in 0 .. MaxNoise
        /\ got \in Seq(Frames)
        /\ cancel \in {"none", "durable", "announced", "signalled"}
    BY <1>1, <1>3
  <2>2. feed \in FeedType /\ Len(feed.queue) <= GlobalCap
    BY <1>1, <1>3, GoneType
  <2>3. direct \in DirectType /\ Len(direct.queue) <= DirectCap
    BY <1>1, <1>3, <1>5 DEF DirectType
  <2>4. task \in TaskType
    BY <1>1, <1>3 DEF TaskType
  <2> QED
    BY <1>4, <2>1, <2>2, <2>3, <2>4, TypesAre
<1>7. /\ direct.queue = <<>> /\ direct.held = handle.private
      /\ task.at = 1 /\ task.phase = "work" /\ task.outbox = <<>>
      /\ task.sent = FALSE /\ task.cursor = 0 /\ task.ends = FALSE
      /\ feed.queue = <<>>
  BY <1>1, GoneType
<1>8. ControlInv
  BY <1>1, <1>2, <1>3, <1>7 DEF ControlInv, Subscribed
<1>9. /\ Numbers(<<>>, "row") = {} /\ Numbers(<<>>, "delta") = {}
      /\ Rising(<<>>, "row") /\ Rising(<<>>, "delta")
  BY NoNumbers
<1>10. SoundInv
  BY <1>1, <1>2, <1>3, <1>7, <1>9 DEF SoundInv, Sound
<1>11. Left = <<>> /\ Streamed = 0
  BY <1>3, <1>7 DEF Left, Streamed
<1>12. CompletedInv /\ SeenInv /\ ExactInv
  BY <1>1, <1>2, <1>3, <1>9 DEF CompletedInv, SeenInv, Once, ExactInv
<1>13. SilentInv
  <2>1. Len(journal) = 0 /\ task.cursor = 0 /\ task.at = 1
    BY <1>1, <1>3, <1>7
  <2>2. DOMAIN Script \subseteq Nat \ {0} /\ PageSize \in Nat
    BY SMTT(30), ScriptAssumption
  <2>3. 0 - 0 = 0 /\ 0 <= PageSize /\ 0 < 1 /\ \A i \in Nat \ {0} : ~(i < 1)
    BY SMTT(30), <2>2
  <2> QED
    BY <2>1, <2>2, <2>3 DEF SilentInv
<1>14. ReplayInv /\ OutboxInv /\ DirectInv /\ FeedInv
  BY <1>2, <1>3, <1>7, <1>9, <1>11
     DEF ReplayInv, OutboxInv, DirectInv, FeedInv, Below
<1>15. GotInv /\ BoxInv /\ OverInv
  BY <1>1, <1>2, <1>7, <1>9 DEF GotInv, BoxInv, OverInv
<1>16. ChannelInv
  <2>1. \A k \in Tokens : ~(k <= 0)
    BY SMTT(30), ScriptAssumption DEF Tokens
  <2> QED
    BY <1>1, <1>7, <1>9, <1>11, <2>1 DEF ChannelInv, Below
<1>17. EndInv
  BY <1>2, <1>3, <1>7 DEF EndInv, Lasts
<1> QED
  BY <1>6, <1>8, <1>10, <1>12, <1>13, <1>14, <1>15, <1>16, <1>17
     DEF HandleInv, RowInv, TokenInv

LEMMA NextHandle == HandleInv /\ [HandleNext]_handleVars => HandleInv'
<1> SUFFICES ASSUME HandleInv, [HandleNext]_handleVars PROVE HandleInv'
  OBVIOUS
<1>1. /\ HandleTypeOK /\ ControlInv /\ SoundInv /\ RowInv
      /\ GotInv /\ BoxInv /\ ChannelInv /\ EndInv /\ OverInv
      /\ task.cursor <= Len(journal) /\ handle.cursor <= Len(journal)
  BY DEF HandleInv, TokenInv, SoundInv
<1>2. /\ CompletedInv /\ SilentInv /\ SeenInv /\ ReplayInv /\ OutboxInv
      /\ DirectInv /\ FeedInv /\ ExactInv
  BY <1>1 DEF RowInv
<1>3. HandleTypeOK' /\ ControlInv'
  BY <1>1, ControlStep
<1>4. SoundInv'
  BY <1>1, SoundStep
<1>5. CompletedInv' /\ SilentInv' /\ SeenInv' /\ OutboxInv'
  BY <1>1, <1>2, CompletedStep, SilentStep, SeenStep, OutboxStep
<1>6. ReplayInv' /\ DirectInv' /\ FeedInv'
  BY <1>1, ReplayStep, DirectStep, FeedStep
<1>7. ExactInv'
  BY <1>1, <1>4, <1>5, ExactStep
<1>8. GotInv' /\ BoxInv' /\ ChannelInv' /\ OverInv'
  BY <1>1, GotStep, BoxStep, ChannelStep, OverStep
<1>9. EndInv'
  BY <1>1, <1>2, <1>3, <1>4, <1>5, EndStep
<1> QED
  BY <1>3, <1>4, <1>5, <1>6, <1>7, <1>8, <1>9 DEF HandleInv, RowInv, TokenInv

LEMMA HandleInvariant == HandleSpec => []HandleInv
<1>1. HandleInit => HandleInv
  BY InitHandle
<1>2. HandleInv /\ [HandleNext]_handleVars => HandleInv'
  BY NextHandle
<1> QED
  BY <1>1, <1>2, PTL DEF HandleSpec

\* The last frame of a completed stream is one of the client's rows.
LEMMA CompletionIsSeen ==
    ASSUME HandleInv, SawCompletion
    PROVE  \E n \in handle.seen : journal[n] = "completed"
<1>1. got \in Seq(Frames) /\ got # <<>> /\ handle.seen = Numbers(got, "row")
  BY TypesAre DEF HandleInv, RowInv, TokenInv, SeenInv, OverInv, SawCompletion,
                  Ended
<1>2. Len(got) \in DOMAIN got
  BY SMTT(30), <1>1
<1> QED
  BY <1>1, <1>2 DEF SawCompletion, Numbers

\* For every script, channel capacity and page size: recv returns no row
\* twice, and a client that saw turn_completed has seen every row, whichever
\* of private channel, broadcast and replay it came from.
THEOREM RowsAreExactHolds == HandleSpec => []RowsAreExact
<1>1. HandleInv => RowsAreExact
  <2> SUFFICES ASSUME HandleInv PROVE RowsAreExact
    OBVIOUS
  <2>1. SeenInv /\ ExactInv
    BY DEF HandleInv, RowInv
  <2>2. SawCompletion => Numbers(got, "row") = DOMAIN journal
    BY <2>1, CompletionIsSeen DEF ExactInv, SeenInv
  <2> QED
    BY <2>1, <2>2 DEF RowsAreExact, SeenInv, Once
<1> QED
  BY <1>1, HandleInvariant, PTL

\* For every script, channel capacity and page size: the client that
\* submitted the turn hears its tokens in order and without a gap, and all of
\* them before turn_completed unless it lagged behind the broadcast.
THEOREM TokensInOrderHolds == HandleSpec => []TokensInOrder
<1>1. HandleInv => TokensInOrder
  <2> SUFFICES ASSUME HandleInv, handle.private
               PROVE  /\ Rising(got, "delta")
                      /\ \A n \in Numbers(got, "delta") :
                            /\ n \in Tokens
                            /\ \A k \in Tokens : k < n => k \in Numbers(got, "delta")
                      /\ SawCompletion /\ ~handle.lagged =>
                            Numbers(got, "delta") = Tokens
    BY DEF TokensInOrder
  <2>1. GotInv /\ EndInv /\ Numbers(got, "delta") \subseteq Tokens
    BY DEF HandleInv, TokenInv, SoundInv, Sound
  <2>2. SawCompletion /\ ~handle.lagged => Tokens \subseteq Numbers(got, "delta")
    BY <2>1, CompletionIsSeen DEF EndInv
  <2> QED
    BY <2>1, <2>2 DEF GotInv
<1> QED
  BY <1>1, HandleInvariant, PTL
=============================================================================
