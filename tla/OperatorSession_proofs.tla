----------------------- MODULE OperatorSession_proofs -----------------------
(***************************************************************************)
(* Proofs about OperatorSession, for any number of processes, threads,     *)
(* turns, calls, Works and requests and any number of faults: types, the   *)
(* history of turns, the lock files, what a writer decides from its        *)
(* materialized view, the admission of turns, and the refinement of        *)
(* TurnLedger.                                                             *)
(***************************************************************************)
EXTENDS OperatorSession, OperatorTurns_proofs

-----------------------------------------------------------------------------
(* Most leaves are first-order and go to Zenon; those that need records,   *)
(* arithmetic or set enumerations cite SMTT.                               *)

USE ZenonT(30)

-----------------------------------------------------------------------------
(* The fold of one event into one turn.                                    *)

\* Folding an event never breaks the cancellation contract of a turn, even
\* if the write guard was bypassed, as recovery does.
LEMMA FoldContract ==
    ASSUME NEW turn \in Turn, NEW e \in Events, ContractKept(turn)
    PROVE  ContractKept(Fold(turn, e))
<1> USE DEF Events, Turn, TerminalStatuses, ContractKept, IsTerminal, Folds,
            IsCancellationClose
<1>1. CASE ~Folds(turn, e)
  BY <1>1 DEF Fold
<1>2. CASE Folds(turn, e)
  <2>1. CASE e.kind = "turn_started"
    BY <1>2, <2>1, Zenon DEF Fold, AbsentTurn
  <2>2. CASE e.kind \in {"turn_completed", "blocker"}
    BY <1>2, <2>2 DEF Fold, Closed, IsCancellationApprovalAudit,
                      IsCancellationToolAudit
  <2>3. CASE e.kind = "turn_interrupted"
    BY <1>2, <2>3, Zenon DEF Fold, Closed, IsCancellationApprovalAudit,
                      IsCancellationToolAudit
  <2>4. CASE e.kind \in Kinds \ {"turn_started", "turn_completed", "blocker",
                                 "turn_interrupted"}
    <3>1. turn.status = "open"
      BY <1>2, <2>4
    <3>2. Fold(turn, e).status = turn.status
      BY <1>2, <2>4 DEF Fold
    <3> QED
      BY <3>1, <3>2
  <2> QED
    BY <2>1, <2>2, <2>3, <2>4
<1> QED
  BY <1>1, <1>2

\* Folding an event keeps a turn's history: terminal turns are final and
\* open ones keep binding, cancellation intent and user message.
LEMMA FoldHistory ==
    ASSUME NEW turn \in Turn, NEW e \in Events
    PROVE  HistoryKept(turn, Fold(turn, e))
<1> USE DEF Events, Turn, TerminalStatuses, HistoryKept, IsTerminal
<1>1. CASE ~Folds(turn, e)
  BY <1>1 DEF Fold
<1>2. CASE Folds(turn, e)
  <2>1. CASE e.kind = "turn_started"
    BY <1>2, <2>1 DEF Folds
  <2>2. CASE e.kind # "turn_started"
    <3>1. turn.status = "open"
      BY <1>2, <2>2 DEF Folds
    <3>2. /\ Fold(turn, e).status # "absent"
          /\ Fold(turn, e).binding = turn.binding
          /\ turn.cancelRequested => Fold(turn, e).cancelRequested
          /\ turn.userMessage => Fold(turn, e).userMessage
      BY <1>2, <2>2, <3>1 DEF Fold, Closed, Kinds
    <3> QED
      BY <3>1, <3>2
  <2> QED
    BY <2>1, <2>2
<1> QED
  BY <1>1, <1>2

-----------------------------------------------------------------------------
(* The rows writers decide on are events.                                  *)

\* The Work scope a caller of append_event names is a binding.
LEMMA ScopeType ==
    ASSUME NEW w \in Works \cup {None} PROVE Scope(w) \in Bindings
BY DEF Scope, Unbound, Bindings

\* The user message start_turn writes is an event.
LEMMA UserMessageType ==
    ASSUME NEW t \in Turns, NEW b \in Bindings
    PROVE  /\ TurnEvent("turn_started", t, None, None, b) \in Events
           /\ TurnEvent("user_message", t, None, None, b) \in Events
BY ThreadOfAssumption DEF TurnEvent, Events, Kinds, Notes

\* The rows of a new turn are events.
LEMMA IntakeRowsType ==
    ASSUME NEW t \in Turns, NEW r \in Requests
    PROVE  IntakeRows(t, r) \subseteq Events
<1>1. Bind(r) \in Bindings
  BY RequestsAssumption
<1>2. ThreadEvent("thread_created", ThreadOf[t], None) \in Events
  BY ThreadOfAssumption DEF ThreadEvent, Events, Kinds, Notes, Unbound, Bindings
<1> QED
  BY <1>1, <1>2, UserMessageType DEF IntakeRows

\* The rows of a retried submission are events.
LEMMA RetryRowsType ==
    ASSUME turns \in [Turns -> Turn], NEW t \in Turns, NEW r \in Requests
    PROVE  RetryRows(t, r) \subseteq Events
<1>1. turns[t].binding \in Bindings
  BY DEF Turn
<1> QED
  BY <1>1, UserMessageType DEF RetryRows

\* The rows callers of append_event construct are events.
LEMMA CallerRowsType == CallerRows \subseteq Events
<1> SUFFICES ASSUME NEW e \in CallerRows PROVE e \in Events
  OBVIOUS
<1> USE ThreadOfAssumption DEF TurnEvent, Events, Kinds, Notes, Reasons
<1>1. CASE e \in {TurnEvent("turn_started", t, None, None, Unbound) :
                    t \in Imported}
  BY SMTT(30), <1>1, UnboundType, ImportedAssumption
<1>2. CASE e \in {TurnEvent(k, t, None, None, Scope(w)) :
            k \in {"user_message", "touch", "turn_cancel_requested",
                   "turn_completed", "blocker"},
            t \in Turns, w \in Works \cup {None}}
  BY SMTT(30), <1>2, ScopeType
<1>3. CASE e \in {TurnEvent("turn_interrupted", t, None, n, Scope(w)) :
            t \in Turns, n \in {"OPERATOR_CANCELLED", "EXECUTION_FAILED"},
            w \in Works \cup {None}}
  BY SMTT(30), <1>3, ScopeType
<1>4. CASE \/ e \in {TurnEvent("tool_call_started", t, c, None, Scope(w)) :
            t \in Turns, c \in Calls, w \in Works \cup {None}}
           \/ e \in {TurnEvent("tool_call_completed", t, c, n, Scope(w)) :
            t \in Turns, c \in Calls, n \in {"success", "uncertain"},
            w \in Works \cup {None}}
  BY SMTT(30), <1>4, ScopeType
<1>5. CASE \/ e \in {TurnEvent("approval_requested", t, c, None, Scope(w)) :
            t \in Turns, c \in Calls \cup {None}, w \in Works \cup {None}}
           \/ e \in {TurnEvent("approval_decided", t, c, n, Scope(w)) :
            t \in Turns, c \in Calls \cup {None},
            n \in {"auto_approved", "approved", "cancelled"},
            w \in Works \cup {None}}
  BY SMTT(30), <1>5, ScopeType
<1>6. CASE e \in {ThreadEvent(k, x, w) :
            k \in {"work_created", "work_linked"}, x \in Threads, w \in Works}
  <2>1. PICK k \in {"work_created", "work_linked"}, x \in Threads, w \in Works :
            e = ThreadEvent(k, x, w)
    BY SMTT(30), <1>6
  <2> QED
    BY <2>1 DEF ThreadEvent, Unbound, Bindings
<1> QED
  BY SMTT(30), <1>1, <1>2, <1>3, <1>4, <1>5, <1>6 DEF CallerRows

-----------------------------------------------------------------------------
(* Type correctness.                                                       *)

\* A row that lands leaves threads, turns and Work links well formed.
LEMMA LandType ==
    ASSUME TypeOK, NEW e \in Events, Land(e)
    PROVE  /\ threads' \subseteq Threads
           /\ turns' \in [Turns -> Turn]
           /\ workThreads' \in [Works -> SUBSET Threads]
<1>1. threads' \subseteq Threads
  BY DEF TypeOK, Land, Events
<1>2. turns' \in [Turns -> Turn]
  <2>1. CASE e.turn = None
    BY <2>1 DEF TypeOK, Land
  <2>2. CASE e.turn # None
    <3>1. e.turn \in Turns /\ turns[e.turn] \in Turn
      BY <2>2 DEF Events, TypeOK
    <3>2. Fold(turns[e.turn], e) \in Turn
      BY <3>1, FoldType
    <3>3. turns' = [turns EXCEPT ![e.turn] = Fold(turns[e.turn], e)]
      BY <2>2 DEF Land
    <3> QED
      BY <3>1, <3>2, <3>3 DEF TypeOK
  <2> QED
    BY <2>1, <2>2
<1>3. workThreads' \in [Works -> SUBSET Threads]
  <2>1. e.thread \in Threads
    BY DEF Events
  <2> QED
    BY <2>1, Zenon DEF TypeOK, Land
<1> QED
  BY <1>1, <1>2, <1>3

\* Leaving an operation keeps the types of what it resets.
LEMMA LeaveType ==
    ASSUME TypeOK, NEW p \in Procs, Leave(p)
    PROVE  /\ txn' \in Procs \cup {None}
           /\ lease' \in [Procs -> Leases]
           /\ at' \in [Procs -> Locations]
           /\ kind' \in [Procs -> Operations]
           /\ todo' \in [Procs -> SUBSET Events]
           /\ fresh' \in [Procs -> Turns \cup {None}]
BY DEF TypeOK, Leave, Leases, Locations, Operations

\* Every variable of the session service keeps its type.
LEMMA TypeStep == TypeOK /\ [Next]_vars => TypeOK'
<1> SUFFICES ASSUME TypeOK, [Next]_vars PROVE TypeOK'
  OBVIOUS
<1>1. CASE UNCHANGED vars
  BY <1>1 DEF vars, TypeOK
<1>2. CASE Next
  <2>1. PICK p \in Procs :
            \/ \E k \in Operations : BeginWrite(p, k)
            \/ BeginRecovery(p)
            \/ RecoveryDenied(p)
            \/ Step(p)
            \/ StorageError(p)
            \/ \E e \in todo[p] : UnreportedAppend(p, e)
            \/ Crash(p)
            \/ Drop(p)
            \/ \E t \in live[p] : Release(p, t)
    BY <1>2 DEF Next
  <2>2. CASE \E k \in Operations : BeginWrite(p, k)
    BY SMTT(30), <2>2 DEF BeginWrite, TypeOK, Leases, Locations, Operations
  <2>3. CASE BeginRecovery(p)
    BY <2>3 DEF BeginRecovery, TypeOK, Leases, Locations, Operations
  <2>4. CASE RecoveryDenied(p)
    BY <2>4 DEF RecoveryDenied, TypeOK, Leases, Locations, Operations
  <2>5. CASE LockTransaction(p)
    BY <2>5 DEF LockTransaction, TypeOK, Locations
  <2>6. CASE Read(p)
    <3>1. todo' \in [Procs -> SUBSET Events]
          /\ fresh' \in [Procs -> Turns \cup {None}]
      <4>1. CASE \E t \in Turns, r \in Requests : DecideStart(p, t, r)
        BY SMTT(30), <4>1, IntakeRowsType, RetryRowsType
           DEF DecideStart, TypeOK
      <4>2. CASE \E e \in CallerRows : DecideAppend(p, e)
        BY SMTT(30), <4>2, CallerRowsType DEF DecideAppend, TypeOK
      <4>3. CASE DecideRecovery(p)
        <5>1. {RecoveryClose(t, turns[t]) : t \in OpenTurns} \subseteq Events
          BY SMTT(30), RecoveryCloseType DEF OpenTurns, TypeOK
        <5> QED
          BY <4>3, <5>1 DEF DecideRecovery, TypeOK
      <4>4. CASE \E t \in Turns : DecideOrphan(p, t)
        BY SMTT(30), <4>4, RecoveryCloseType DEF DecideOrphan, TypeOK
      <4> QED
        BY <2>6, <4>1, <4>2, <4>3, <4>4 DEF Read
    <3> QED
      BY <2>6, <3>1, Zenon DEF Read, TypeOK, Locations
  <2>7. CASE \E e \in todo[p] : Append(p, e)
    <3>1. PICK e \in todo[p] : Append(p, e)
      BY <2>7
    <3>2. e \in Events /\ Land(e)
      BY <3>1 DEF Append, TypeOK
    <3> QED
      BY <3>1, <3>2, LandType DEF Append, TypeOK
  <2>8. CASE Finish(p)
    <3>1. Leave(p)
      BY <2>8 DEF Finish
    <3>2. live' \in [Procs -> SUBSET Turns] /\ admissions' \in [Turns -> Nat]
      BY SMTT(30), <2>8 DEF Finish, TypeOK
    <3> QED
      BY <2>8, <3>1, <3>2, LeaveType DEF Finish, TypeOK
  <2>9. CASE RestoreShared(p)
    BY <2>9 DEF RestoreShared, TypeOK, Leases, Locations, Operations
  <2>10. CASE StorageError(p)
    <3>1. Leave(p) /\ faults' \in 0..MaxFaults
      BY SMTT(30), <2>10, MaxFaultsAssumption DEF StorageError, TypeOK
    <3> QED
      BY <2>10, <3>1, LeaveType DEF StorageError, TypeOK
  <2>11. CASE \E e \in todo[p] : UnreportedAppend(p, e)
    <3>1. PICK e \in todo[p] : UnreportedAppend(p, e)
      BY <2>11
    <3>2. e \in Events /\ Land(e) /\ Leave(p)
      BY <3>1 DEF UnreportedAppend, TypeOK
    <3>3. faults' \in 0..MaxFaults
      BY SMTT(30), <3>1, MaxFaultsAssumption DEF UnreportedAppend, TypeOK
    <3> QED
      BY <3>1, <3>2, <3>3, LandType, LeaveType DEF UnreportedAppend, TypeOK
  <2>12. CASE Crash(p)
    <3>1. faults' \in 0..MaxFaults
      BY SMTT(30), <2>12, MaxFaultsAssumption DEF Crash, TypeOK
    <3> QED
      BY <2>12, <3>1 DEF Crash, TypeOK, Leases, Locations, Operations
  <2>13. CASE Drop(p)
    BY <2>13 DEF Drop, TypeOK, Leases
  <2>14. CASE \E t \in live[p] : Release(p, t)
    BY SMTT(30), <2>14 DEF Release, TypeOK
  <2> QED
    BY <2>1, <2>2, <2>3, <2>4, <2>5, <2>6, <2>7, <2>8, <2>9, <2>10, <2>11,
       <2>12, <2>13, <2>14 DEF Step
<1> QED
  BY <1>1, <1>2

\* The session service keeps its variables well typed: the folded turns stay
\* turns and every row a writer decides on is an event.
THEOREM TypeCorrect == Spec => []TypeOK
<1>1. Init => TypeOK
  BY MaxFaultsAssumption, UnboundType, SMTT(30)
     DEF Init, TypeOK, AbsentTurn, Turn, Leases, Locations, Operations
<1> QED
  BY <1>1, TypeStep, PTL DEF Spec

-----------------------------------------------------------------------------
(* The journal only changes by rows that land.                             *)

\* Whatever a step does, each turn either stays as it is or takes one event
\* through the fold.
LEMMA TurnStep ==
    ASSUME TypeOK, [Next]_vars, NEW t \in Turns
    PROVE  \/ turns'[t] = turns[t]
           \/ \E e \in Events : turns'[t] = Fold(turns[t], e)
<1>1. CASE turns' = turns
  BY <1>1
<1>2. CASE \E p \in Procs : \E e \in todo[p] : Land(e)
  <2>1. PICK e \in Events : Land(e)
    BY <1>2 DEF TypeOK
  <2> QED
    BY <2>1 DEF Land, TypeOK, Events
<1> QED
  BY <1>1, <1>2, Zenon
     DEF Next, Step, vars, BeginWrite, BeginRecovery, RecoveryDenied,
         LockTransaction, Read, Append, Finish, RestoreShared, StorageError,
         UnreportedAppend, Crash, Drop, Release

\* A turn whose cancellation was requested closes as interrupted by the
\* operator and no other way, and only such a turn does: whichever path
\* (writer, recovery, orphan) closes it, and whatever fails meanwhile.
THEOREM CancellationContractHolds == Spec => []CancellationContract
<1>1. Init => CancellationContract
  BY SMTT(30)
     DEF Init, CancellationContract, ContractKept, IsTerminal, AbsentTurn,
         TerminalStatuses
<1>2. TypeOK /\ CancellationContract /\ [Next]_vars => CancellationContract'
  <2> SUFFICES ASSUME TypeOK, CancellationContract, [Next]_vars,
                      NEW t \in Turns
               PROVE  ContractKept(turns'[t])
    BY DEF CancellationContract, ContractKept, IsTerminal
  <2>1. turns[t] \in Turn /\ ContractKept(turns[t])
    BY DEF TypeOK, CancellationContract
  <2> QED
    BY <2>1, TurnStep, FoldContract
<1> QED
  BY <1>1, <1>2, TypeCorrect, PTL DEF Spec

\* No step of any process changes a closed turn, rebinds an open one, or
\* forgets a cancellation request or a user message.
THEOREM TurnHistoryHolds == Spec => TurnHistoryIsStable
<1>1. TypeOK /\ [Next]_vars
        => [\A t \in Turns : HistoryKept(turns[t], turns'[t])]_vars
  <2> SUFFICES ASSUME TypeOK, [Next]_vars, NEW t \in Turns
               PROVE  HistoryKept(turns[t], turns'[t])
    OBVIOUS
  <2>1. turns[t] \in Turn
    BY DEF TypeOK
  <2>2. HistoryKept(turns[t], turns[t])
    BY DEF HistoryKept
  <2> QED
    BY <2>1, <2>2, TurnStep, FoldHistory
<1> QED
  BY <1>1, TypeCorrect, PTL DEF Spec, TurnHistoryIsStable

-----------------------------------------------------------------------------
(* The locks.                                                              *)

InJournal(p) == at[p] \in {"lock", "read", "append"}

\* What the two lock files guarantee together.  The transaction lock is held
\* exactly between materialization and return; an operation under way holds
\* the activity lease in the mode it asked for; an exclusive lease shuts all
\* others out; and a process that supervises a turn has never let its shared
\* lease go.
LockInv ==
    /\ \A p \in Procs : txn = p <=> at[p] \in {"read", "append"}
    /\ \A p \in Procs : InJournal(p) =>
           kind[p] # "none" /\
           lease[p] = IF kind[p] = "recover_interrupted" THEN "exclusive"
                                                          ELSE "shared"
    /\ \A p \in Procs : lease[p] = "exclusive" =>
           InJournal(p) /\ kind[p] = "recover_interrupted"
    /\ \A p, q \in Procs : lease[p] = "exclusive" /\ q # p =>
           lease[q] = "none"
    /\ \A p \in Procs : live[p] # {} => lease[p] = "shared"
    /\ \A p \in Procs : fresh[p] # None =>
           at[p] = "append" /\ kind[p] = "start_turn"
    /\ \A p \in Procs : todo[p] # {} => at[p] = "append"

\* Every step keeps the discipline of the two lock files.
LEMMA LockStep == TypeOK /\ LockInv /\ [Next]_vars => LockInv'
<1> SUFFICES ASSUME TypeOK, LockInv, [Next]_vars PROVE LockInv'
  OBVIOUS
<1> USE DEF InJournal
<1>1. CASE UNCHANGED vars
  BY <1>1 DEF vars, LockInv
<1>2. CASE Next
  <2>1. PICK p \in Procs :
            \/ \E k \in Operations : BeginWrite(p, k)
            \/ BeginRecovery(p)
            \/ RecoveryDenied(p)
            \/ Step(p)
            \/ StorageError(p)
            \/ \E e \in todo[p] : UnreportedAppend(p, e)
            \/ Crash(p)
            \/ Drop(p)
            \/ \E t \in live[p] : Release(p, t)
    BY <1>2 DEF Next
  <2>2. CASE \E k \in Operations : BeginWrite(p, k)
    BY SMTT(30), <2>2 DEF BeginWrite, TypeOK, LockInv
  <2>3. CASE BeginRecovery(p)
    BY SMTT(30), <2>3 DEF BeginRecovery, TypeOK, LockInv
  <2>4. CASE RecoveryDenied(p)
    BY SMTT(30), <2>4 DEF RecoveryDenied, TypeOK, LockInv
  <2>5. CASE LockTransaction(p)
    BY <2>5, ProcsAssumption, SMTT(30) DEF LockTransaction, TypeOK, LockInv
  <2>6. CASE Read(p)
    <3>1. \A q \in Procs : fresh'[q] # None =>
              fresh[q] # None \/ (q = p /\ kind[p] = "start_turn")
      BY <2>6, SMTT(90) DEF Read, DecideStart, DecideAppend, DecideRecovery,
                  DecideOrphan, TypeOK
    <3>2. \A q \in Procs \ {p} : todo'[q] = todo[q]
      BY <2>6 DEF Read, DecideStart, DecideAppend, DecideRecovery,
                  DecideOrphan, TypeOK
    <3> QED
      BY <2>6, <3>1, <3>2, SMTT(90) DEF Read, TypeOK, LockInv
  <2>7. CASE \E e \in todo[p] : Append(p, e)
    BY SMTT(30), <2>7 DEF Append, TypeOK, LockInv
  <2>8. CASE Finish(p)
    BY SMTT(30), <2>8, ProcsAssumption DEF Finish, Leave, TypeOK, LockInv
  <2>9. CASE RestoreShared(p)
    BY <2>9 DEF RestoreShared, TypeOK, LockInv
  <2>10. CASE StorageError(p)
    BY <2>10, ProcsAssumption, SMTT(30) DEF StorageError, Leave, TypeOK, LockInv
  <2>11. CASE \E e \in todo[p] : UnreportedAppend(p, e)
    BY <2>11, ProcsAssumption, SMTT(30) DEF UnreportedAppend, Leave, TypeOK, LockInv
  <2>12. CASE Crash(p)
    BY SMTT(30), <2>12, ProcsAssumption DEF Crash, TypeOK, LockInv
  <2>13. CASE Drop(p)
    BY <2>13 DEF Drop, TypeOK, LockInv
  <2>14. CASE \E t \in live[p] : Release(p, t)
    BY SMTT(30), <2>14 DEF Release, TypeOK, LockInv
  <2> QED
    BY <2>1, <2>2, <2>3, <2>4, <2>5, <2>6, <2>7, <2>8, <2>9, <2>10, <2>11,
       <2>12, <2>13, <2>14 DEF Step
<1> QED
  BY <1>1, <1>2

\* The lock discipline holds for any number of processes and crashes.
THEOREM LockDiscipline == Spec => []LockInv
<1>1. Init => LockInv
  BY SMTT(30), ProcsAssumption DEF Init, LockInv, InJournal
<1> QED
  BY <1>1, LockStep, TypeCorrect, PTL DEF Spec

\* While restart recovery holds the exclusive lease nobody supervises a turn
\* and no other process is in the journal, so recovery never closes a turn
\* that somebody still runs.
THEOREM RecoveryIsAloneHolds == Spec => []RecoveryIsAlone
<1>1. LockInv => RecoveryIsAlone
  BY DEF LockInv, RecoveryIsAlone, InJournal
<1> QED
  BY <1>1, LockDiscipline, PTL

-----------------------------------------------------------------------------
(* What a writer decides still fits the journal when its rows land.        *)

\* The rows of a new turn that are still to land, and how far they got.
StartRow(t, b) == TurnEvent("turn_started", t, None, None, b)
MessageRow(t, b) == TurnEvent("user_message", t, None, None, b)

IntakeWith(p, t, b) ==
    /\ todo[p] \subseteq {ThreadEvent("thread_created", ThreadOf[t], None),
                         StartRow(t, b), MessageRow(t, b)}
    /\ WorkLinked(workThreads, b.work, ThreadOf[t])
    /\ \/ /\ turns[t].status = "absent"
          /\ StartRow(t, b) \in todo[p] /\ MessageRow(t, b) \in todo[p]
       \/ /\ turns[t].status = "open" /\ ~turns[t].cancelRequested
          /\ StartRow(t, b) \notin todo[p] /\ MessageRow(t, b) \in todo[p]
       \/ /\ turns[t].status = "open" /\ turns[t].userMessage
          /\ StartRow(t, b) \notin todo[p] /\ MessageRow(t, b) \notin todo[p]

Intake(p) == \E b \in Bindings : IntakeWith(p, fresh[p], b)

\* The one row of any other write.
Lone(p) ==
    /\ \A e, f \in todo[p] : e = f
    /\ \A e \in todo[p] : e.turn # None =>
           /\ e.kind \notin {"tool_call_started", "approval_requested"} =>
                  Folds(turns[e.turn], e)
           /\ e.kind = "turn_started" =>
                  WorkLinked(workThreads, e.binding.work, e.thread)

Recovering(p) == todo[p] = {RecoveryClose(t, turns[t]) : t \in OpenTurns}

Decided(p) ==
    at[p] = "append" =>
        /\ fresh[p] # None => Intake(p)
        /\ fresh[p] = None /\ kind[p] = "recover_interrupted" => Recovering(p)
        /\ fresh[p] = None /\ kind[p] # "recover_interrupted" => Lone(p)

DecisionInv == \A p \in Procs : Decided(p)

\* A decision depends on nothing but the journal and the writer's own state.
LEMMA DecidedFrame ==
    ASSUME NEW q \in Procs, Decided(q), at'[q] = at[q], kind'[q] = kind[q],
           todo'[q] = todo[q], fresh'[q] = fresh[q],
           turns' = turns, workThreads' = workThreads
    PROVE  Decided(q)'
BY DEF Decided, Intake, IntakeWith, Lone, Recovering, OpenTurns

\* What a writer decides from its materialized view fits the journal.
LEMMA ReadDecides ==
    ASSUME TypeOK, LockInv, NEW p \in Procs, Read(p)
    PROVE  Decided(p)'
<1>1. /\ at[p] = "read" /\ at'[p] = "append" /\ fresh[p] = None /\ todo[p] = {}
      /\ kind' = kind /\ turns' = turns /\ workThreads' = workThreads
  BY DEF Read, TypeOK, LockInv
<1>2. ASSUME NEW t \in Turns, NEW r \in Requests, DecideStart(p, t, r)
      PROVE  Decided(p)'
  <2>1. CASE turns[t].status # "absent"
    <3>1. todo'[p] = RetryRows(t, r) /\ fresh'[p] = None
      BY <1>1, <1>2, <2>1 DEF DecideStart, TypeOK
    <3>2. \A e \in RetryRows(t, r) :
              /\ e.kind = "user_message" /\ e.turn = t
              /\ turns[t].status = "open" /\ ~turns[t].cancelRequested
      <4> SUFFICES ASSUME NEW e \in RetryRows(t, r)
                   PROVE  /\ e.kind = "user_message" /\ e.turn = t
                          /\ turns[t].status = "open"
                          /\ ~turns[t].cancelRequested
        OBVIOUS
      <4>1. /\ turns[t].status = "open" /\ ~turns[t].cancelRequested
            /\ e = TurnEvent("user_message", t, None, None, turns[t].binding)
        BY DEF RetryRows
      <4> QED
        BY <4>1 DEF TurnEvent
    <3>3. \A e, f \in RetryRows(t, r) : e = f
      BY DEF RetryRows
    <3>4. Lone(p)'
      BY <1>1, <3>1, <3>2, <3>3 DEF Lone, Folds, IsCancellationClose
    <3> QED
      BY <1>1, <1>2, <3>1, <3>4 DEF Decided, DecideStart
  <2>2. CASE /\ turns[t].status = "absent"
             /\ WorkLinked(workThreads, r.work, ThreadOf[t])
    <3>1. todo'[p] = IntakeRows(t, r) /\ fresh'[p] = t
      BY <1>1, <1>2, <2>2 DEF DecideStart, TypeOK
    <3>2. Bind(r) \in Bindings /\ Bind(r).work = r.work
      BY RequestsAssumption DEF Bind
    <3>3. /\ IntakeRows(t, r) \subseteq
                 {ThreadEvent("thread_created", ThreadOf[t], None),
                  StartRow(t, Bind(r)), MessageRow(t, Bind(r))}
          /\ StartRow(t, Bind(r)) \in IntakeRows(t, r)
          /\ MessageRow(t, Bind(r)) \in IntakeRows(t, r)
      BY DEF IntakeRows, StartRow, MessageRow
    <3>4. IntakeWith(p, t, Bind(r))'
      BY <1>1, <2>2, <3>1, <3>2, <3>3 DEF IntakeWith
    <3>5. Intake(p)'
      BY <3>1, <3>2, <3>4 DEF Intake
    <3> QED
      BY <3>1, <3>5, NoneAssumption DEF Decided
  <2>3. CASE /\ turns[t].status = "absent"
             /\ ~WorkLinked(workThreads, r.work, ThreadOf[t])
    BY <1>1, <1>2, <2>3 DEF DecideStart, Decided, Lone
  <2> QED
    BY <2>1, <2>2, <2>3
<1>3. ASSUME NEW e \in CallerRows, DecideAppend(p, e)
      PROVE  Decided(p)'
  <2>1. e \in Events
    BY CallerRowsType
  <2>2. /\ fresh'[p] = None
        /\ todo'[p] = IF e.turn = None \/ Admits(workThreads, turns[e.turn], e)
                      THEN {e} ELSE {}
    BY <1>1, <1>3 DEF DecideAppend, TypeOK
  <2>3. ASSUME e.turn # None, Admits(workThreads, turns[e.turn], e)
        PROVE  /\ e.kind \notin {"tool_call_started", "approval_requested"} =>
                      Folds(turns[e.turn], e)
               /\ e.kind = "turn_started" =>
                      WorkLinked(workThreads, e.binding.work, e.thread)
    <3>1. turns[e.turn] \in Turn
      BY <2>1, <2>3 DEF Events, TypeOK
    <3> QED
      BY <2>1, <2>3, <3>1, AdmitsFolds DEF Admits
  <2>4. Lone(p)'
    BY <1>1, <2>2, <2>3 DEF Lone
  <2> QED
    BY <1>1, <1>3, <2>2, <2>4 DEF Decided, DecideAppend
<1>4. ASSUME DecideRecovery(p) PROVE Decided(p)'
  BY <1>1, <1>4 DEF DecideRecovery, Decided, Recovering, OpenTurns, TypeOK
<1>5. ASSUME NEW t \in Turns, DecideOrphan(p, t) PROVE Decided(p)'
  <2>1. fresh'[p] = None
    BY <1>1, <1>5 DEF DecideOrphan
  <2>2. todo'[p] = IF t \in OpenTurns THEN {RecoveryClose(t, turns[t])} ELSE {}
    BY <1>5 DEF DecideOrphan, TypeOK
  <2>3. RecoveryClose(t, turns[t]).turn = t
        /\ RecoveryClose(t, turns[t]).kind = "turn_interrupted"
    BY DEF RecoveryClose, TurnEvent
  <2>4. t \in OpenTurns => Folds(turns[t], RecoveryClose(t, turns[t]))
    BY RecoveryCloses DEF OpenTurns, TypeOK
  <2>5. Lone(p)'
    BY <1>1, <2>2, <2>3, <2>4 DEF Lone
  <2> QED
    BY <1>1, <1>5, <2>1, <2>5 DEF Decided, DecideOrphan
<1> QED
  BY <1>2, <1>3, <1>4, <1>5 DEF Read

\* The rows of a new turn land in their order, each through the fold.
LEMMA AppendIntake ==
    ASSUME TypeOK, LockInv, NEW p \in Procs, NEW e \in todo[p], Append(p, e),
           fresh[p] # None, Intake(p)
    PROVE  Intake(p)'
<1> DEFINE t == fresh[p]
<1>1. t \in Turns /\ turns[t] \in Turn
  BY DEF TypeOK
<1>2. PICK b \in Bindings : IntakeWith(p, t, b)
  BY DEF Intake
<1>3. /\ todo'[p] = todo[p] \ {e} /\ fresh' = fresh
      /\ e \in NextRows(p) /\ Land(e)
  BY DEF Append, TypeOK
<1> DEFINE tc == ThreadEvent("thread_created", ThreadOf[t], None)
<1>4. /\ tc.kind = "thread_created" /\ tc.turn = None
      /\ StartRow(t, b).kind = "turn_started" /\ StartRow(t, b).turn = t
      /\ StartRow(t, b).binding = b
      /\ MessageRow(t, b).kind = "user_message" /\ MessageRow(t, b).turn = t
  BY DEF ThreadEvent, StartRow, MessageRow, TurnEvent
<1>5. e \in {tc, StartRow(t, b), MessageRow(t, b)}
  BY <1>2 DEF IntakeWith
<1>6. workThreads' = workThreads
  BY <1>3, <1>4, <1>5 DEF Land
<1>7. t # None
  BY <1>1, NoneAssumption
<1>8. IntakeWith(p, t, b)'
  <2>1. CASE e = tc
    <3>1. turns' = turns
      BY <1>3, <1>4, <2>1, Zenon DEF Land
    <3> QED
      BY <1>2, <1>3, <1>4, <1>6, <2>1, <3>1 DEF IntakeWith
  <2>2. CASE e = StartRow(t, b)
    <3>1. turns[t].status = "absent" /\ MessageRow(t, b) \in todo[p]
      BY <1>2, <2>2, SMTT(30) DEF IntakeWith
    <3>2. turns'[t] = Fold(turns[t], e)
      BY <1>1, <1>3, <1>4, <1>7, <2>2 DEF Land, TypeOK
    <3>3. Fold(turns[t], e).status = "open" /\ ~Fold(turns[t], e).cancelRequested
      BY <1>4, <2>2, <3>1, Zenon DEF Fold, Folds, AbsentTurn
    <3> QED
      BY <1>2, <1>3, <1>4, <1>6, <2>2, <3>1, <3>2, <3>3 DEF IntakeWith
  <2>3. CASE e = MessageRow(t, b)
    <3>1. StartRow(t, b) \notin todo[p]
      BY SMTT(30), <1>3, <1>4, <2>3 DEF NextRows, Rank
    <3>2. turns[t].status = "open" /\ ~turns[t].cancelRequested
      BY <1>2, <2>3, <3>1, SMTT(30) DEF IntakeWith
    <3>3. turns'[t] = Fold(turns[t], e)
      BY <1>1, <1>3, <1>4, <1>7, <2>3 DEF Land, TypeOK
    <3>4. Fold(turns[t], e).status = "open" /\ Fold(turns[t], e).userMessage
      BY <1>1, <1>4, <2>3, <3>2, Zenon DEF Fold, Folds, IsCancellationClose, Turn
    <3> QED
      BY <1>2, <1>3, <1>4, <1>6, <2>3, <3>1, <3>3, <3>4 DEF IntakeWith
  <2> QED
    BY <1>5, <2>1, <2>2, <2>3, SMTT(30)
<1> QED
  BY <1>3, <1>8 DEF Intake

\* A recovery row takes its turn, and no other, out of the open turns.
LEMMA AppendRecovering ==
    ASSUME TypeOK, NEW p \in Procs, NEW e \in todo[p], Append(p, e),
           Recovering(p)
    PROVE  Recovering(p)'
<1>1. PICK t \in OpenTurns : e = RecoveryClose(t, turns[t])
  BY DEF Recovering
<1>2. t \in Turns /\ turns[t] \in Turn /\ turns[t].status = "open" /\ t # None
  BY <1>1, NoneAssumption DEF OpenTurns, TypeOK
<1>3. \A u \in Turns : RecoveryClose(u, turns[u]).turn = u
  BY DEF RecoveryClose, TurnEvent
<1>4. turns' = [turns EXCEPT ![t] = Fold(turns[t], e)]
  BY <1>1, <1>2, <1>3, Zenon DEF Append, Land
<1>5. Fold(turns[t], e).status = "interrupted"
  BY <1>1, <1>2, RecoveryCloses
<1>6. OpenTurns' = OpenTurns \ {t}
  BY <1>1, <1>2, <1>4, <1>5 DEF OpenTurns, TypeOK
<1>7. \A u \in OpenTurns \ {t} : turns'[u] = turns[u]
  BY <1>4 DEF OpenTurns, TypeOK
<1>8. todo'[p] = todo[p] \ {e}
  BY DEF Append, TypeOK
<1>9. todo[p] \ {e} = {RecoveryClose(u, turns[u]) : u \in OpenTurns \ {t}}
  BY SMTT(30), <1>1, <1>2, <1>3 DEF Recovering, OpenTurns
<1>10. {RecoveryClose(u, turns[u]) : u \in OpenTurns \ {t}}
         = {RecoveryClose(u, turns'[u]) : u \in OpenTurns \ {t}}
  BY <1>7
<1> QED
  BY <1>6, <1>8, <1>9, <1>10, Zenon DEF Recovering

\* Every step, of this process or another, keeps the decisions valid.
LEMMA DecisionStep ==
    TypeOK /\ LockInv /\ DecisionInv /\ [Next]_vars => DecisionInv'
<1> SUFFICES ASSUME TypeOK, LockInv, DecisionInv, [Next]_vars, NEW q \in Procs
             PROVE  Decided(q)'
  BY DEF DecisionInv
<1>1. Decided(q)
  BY DEF DecisionInv
<1>2. CASE UNCHANGED vars
  BY <1>1, <1>2, DecidedFrame DEF vars
<1>3. CASE Next
  <2>1. PICK p \in Procs :
            \/ \E k \in Operations : BeginWrite(p, k)
            \/ BeginRecovery(p)
            \/ RecoveryDenied(p)
            \/ Step(p)
            \/ StorageError(p)
            \/ \E e \in todo[p] : UnreportedAppend(p, e)
            \/ Crash(p)
            \/ Drop(p)
            \/ \E t \in live[p] : Release(p, t)
    BY <1>3 DEF Next
  <2>2. CASE /\ turns' = turns /\ workThreads' = workThreads
             /\ \A x \in Procs \ {p} :
                   /\ at'[x] = at[x] /\ kind'[x] = kind[x]
                   /\ todo'[x] = todo[x] /\ fresh'[x] = fresh[x]
             /\ at'[p] # "append"
    BY <1>1, <2>2, DecidedFrame DEF Decided
  <2>3. CASE \/ \E k \in Operations : BeginWrite(p, k)
             \/ BeginRecovery(p)
             \/ RecoveryDenied(p)
    BY <2>2, <2>3 DEF BeginWrite, BeginRecovery, RecoveryDenied, TypeOK
  <2>4. CASE LockTransaction(p) \/ RestoreShared(p) \/ Crash(p)
    BY <2>2, <2>4 DEF LockTransaction, RestoreShared, Crash, TypeOK
  <2>5. CASE StorageError(p) \/ Finish(p)
    BY <2>2, <2>5, SMTT(30) DEF StorageError, Finish, Leave, TypeOK
  <2>6. CASE Drop(p) \/ \E t \in live[p] : Release(p, t)
    BY <1>1, <2>6, DecidedFrame DEF Drop, Release
  <2>7. CASE Read(p)
    <3>1. CASE q = p
      BY <2>7, <3>1, ReadDecides
    <3>2. CASE q # p
      BY <2>7, <3>2 DEF Read, TypeOK, LockInv, Decided
    <3> QED
      BY <3>1, <3>2
  <2>8. CASE \E e \in todo[p] : UnreportedAppend(p, e)
    BY SMTT(30), <2>8 DEF UnreportedAppend, Leave, TypeOK, LockInv, Decided
  <2>9. CASE \E e \in todo[p] : Append(p, e)
    <3>1. PICK e \in todo[p] : Append(p, e)
      BY <2>9
    <3>2. /\ at[p] = "append" /\ at' = at /\ kind' = kind /\ fresh' = fresh
          /\ todo'[p] = todo[p] \ {e}
      BY <3>1, SMTT(30) DEF Append, TypeOK
    <3>3. CASE q # p
      BY <3>2, <3>3 DEF LockInv, Decided
    <3>4. CASE q = p /\ fresh[p] # None
      BY <1>1, <3>1, <3>2, <3>4, AppendIntake DEF Decided
    <3>5. CASE q = p /\ fresh[p] = None /\ kind[p] = "recover_interrupted"
      BY <1>1, <3>1, <3>2, <3>5, AppendRecovering DEF Decided
    <3>6. CASE q = p /\ fresh[p] = None /\ kind[p] # "recover_interrupted"
      <4>1. todo'[p] = {}
        BY <1>1, <3>2, <3>6 DEF Decided, Lone
      <4> QED
        BY <3>2, <3>6, <4>1, SMTT(30) DEF Decided, Lone
    <3> QED
      BY <3>3, <3>4, <3>5, <3>6
  <2> QED
    BY <2>1, <2>3, <2>4, <2>5, <2>6, <2>7, <2>8, <2>9 DEF Step
<1> QED
  BY <1>2, <1>3

\* The inductive invariant of the writers: the locks make every decision
\* hold from the read it was made on until the last of its rows.
THEOREM DecisionsHold == Spec => []DecisionInv
<1>1. Init => DecisionInv
  BY DEF Init, DecisionInv, Decided
<1> QED
  BY <1>1, DecisionStep, LockDiscipline, TypeCorrect, PTL DEF Spec

\* The rows a writer decided on are rows the fold takes when they land.
THEOREM DecisionStillValidHolds == Spec => []DecisionStillValid
<1>1. TypeOK /\ DecisionInv => DecisionStillValid
  <2> SUFFICES ASSUME TypeOK, DecisionInv, NEW p \in Procs, at[p] = "append",
                      NEW e \in NextRows(p), e.turn # None,
                      e.kind \notin {"tool_call_started", "approval_requested"}
               PROVE  Folds(turns[e.turn], e)
    BY DEF DecisionStillValid
  <2>1. e \in todo[p] /\ Decided(p)
    BY SMTT(30) DEF NextRows, DecisionInv
  <2>2. CASE fresh[p] # None
    <3> DEFINE t == fresh[p]
    <3>1. PICK b \in Bindings : IntakeWith(p, t, b)
      BY <2>1, <2>2 DEF Decided, Intake
    <3>2. /\ ThreadEvent("thread_created", ThreadOf[t], None).turn = None
          /\ StartRow(t, b).kind = "turn_started" /\ StartRow(t, b).turn = t
          /\ MessageRow(t, b).kind = "user_message" /\ MessageRow(t, b).turn = t
      BY SMTT(30) DEF ThreadEvent, StartRow, MessageRow, TurnEvent
    <3>3. CASE e = StartRow(t, b)
      <4>1. turns[t].status = "absent"
        BY <2>1, <3>1, <3>3 DEF IntakeWith
      <4> QED
        BY <3>2, <3>3, <4>1 DEF Folds
    <3>4. CASE e = MessageRow(t, b)
      <4>1. StartRow(t, b) \notin todo[p]
        BY SMTT(30), <3>2, <3>4 DEF NextRows, Rank
      <4> QED
        BY <2>1, <3>1, <3>2, <3>4, <4>1
           DEF IntakeWith, Folds, IsCancellationClose
    <3> QED
      BY <2>1, <3>1, <3>2, <3>3, <3>4, SMTT(90) DEF IntakeWith
  <2>3. CASE fresh[p] = None /\ kind[p] = "recover_interrupted"
    <3>1. PICK t \in OpenTurns : e = RecoveryClose(t, turns[t])
      BY <2>1, <2>3 DEF Decided, Recovering
    <3>2. RecoveryClose(t, turns[t]).turn = t
      BY DEF RecoveryClose, TurnEvent
    <3> QED
      BY <3>1, <3>2, RecoveryCloses DEF OpenTurns, TypeOK
  <2>4. CASE fresh[p] = None /\ kind[p] # "recover_interrupted"
    BY <2>1, <2>4 DEF Decided, Lone
  <2> QED
    BY <2>2, <2>3, <2>4
<1> QED
  BY <1>1, DecisionsHold, TypeCorrect, PTL

\* Inside its exclusive section recovery has a row for exactly the turns
\* that are still open: it misses none and closes none twice.
THEOREM RecoveryCoversHolds == Spec => []RecoveryCoversOpenTurns
<1>1. TypeOK /\ LockInv /\ DecisionInv => RecoveryCoversOpenTurns
  <2> SUFFICES ASSUME TypeOK, LockInv, DecisionInv, NEW p \in Procs,
                      at[p] = "append", kind[p] = "recover_interrupted"
               PROVE  OpenTurns = {e.turn : e \in todo[p]}
    BY DEF RecoveryCoversOpenTurns
  <2>1. todo[p] = {RecoveryClose(t, turns[t]) : t \in OpenTurns}
    BY DEF LockInv, DecisionInv, Decided, Recovering
  <2>2. \A t \in Turns : RecoveryClose(t, turns[t]).turn = t
    BY DEF RecoveryClose, TurnEvent
  <2> QED
    BY SMTT(30), <2>1, <2>2 DEF OpenTurns
<1> QED
  BY <1>1, DecisionsHold, LockDiscipline, TypeCorrect, PTL

-----------------------------------------------------------------------------
(* Admission.                                                              *)

\* A turn about to be reported as new was never reported before.
FreshInv == \A p \in Procs : fresh[p] # None => admissions[fresh[p]] = 0

\* Every step keeps the link between admissions and the journal.
LEMMA AdmissionStep ==
    TypeOK /\ LockInv /\ DecisionInv /\ FreshInv /\ AdmittedOnce /\ [Next]_vars
        => FreshInv' /\ AdmittedOnce'
<1> SUFFICES ASSUME TypeOK, LockInv, DecisionInv, FreshInv, AdmittedOnce,
                    [Next]_vars
             PROVE  FreshInv' /\ AdmittedOnce'
  OBVIOUS
<1>1. \A t \in Turns : turns[t].status # "absent" /\ turns[t].userMessage
                         => turns'[t].status # "absent" /\ turns'[t].userMessage
  <2> SUFFICES ASSUME NEW t \in Turns
               PROVE  HistoryKept(turns[t], turns'[t])
    BY DEF HistoryKept
  <2>1. turns[t] \in Turn
    BY DEF TypeOK
  <2>2. HistoryKept(turns[t], turns[t])
    BY DEF HistoryKept
  <2> QED
    BY <2>1, <2>2, TurnStep, FoldHistory
<1>2. CASE admissions' = admissions
          /\ \A p \in Procs : fresh'[p] \in {fresh[p], None}
  BY <1>1, <1>2 DEF FreshInv, AdmittedOnce
<1>3. CASE \E p \in Procs : Read(p)
  <2>1. PICK p \in Procs : Read(p)
    BY <1>3
  <2>2. admissions' = admissions
    BY <2>1 DEF Read
  <2>3. CASE fresh' = fresh
    BY <1>2, <2>2, <2>3
  <2>4. CASE \E t \in Turns : turns[t].status = "absent"
                              /\ fresh' = [fresh EXCEPT ![p] = t]
    <3>1. PICK t \in Turns : /\ turns[t].status = "absent"
                             /\ fresh' = [fresh EXCEPT ![p] = t]
      BY <2>4, Zenon
    <3>2. admissions[t] = 0
      BY SMTT(30), <3>1 DEF AdmittedOnce, TypeOK
    <3>3. FreshInv'
      BY <2>2, <3>1, <3>2 DEF FreshInv, TypeOK
    <3> QED
      BY <1>1, <2>2, <3>3 DEF AdmittedOnce
  <2> QED
    BY <2>1, <2>3, <2>4
       DEF Read, DecideStart, DecideAppend, DecideRecovery, DecideOrphan
<1>4. CASE \E p \in Procs : Finish(p)
  <2>1. PICK p \in Procs : Finish(p)
    BY <1>4
  <2>2. CASE fresh[p] = None
    BY <1>2, <2>1, <2>2 DEF Finish, Leave, TypeOK
  <2>3. CASE fresh[p] # None
    <3> DEFINE t == fresh[p]
    <3>1. /\ t \in Turns /\ admissions[t] = 0 /\ turns' = turns
          /\ admissions' = [admissions EXCEPT ![t] = 1]
          /\ fresh' = [fresh EXCEPT ![p] = None]
      BY SMTT(30), <2>1, <2>3 DEF Finish, Leave, FreshInv, TypeOK
    <3>2. PICK b \in Bindings : IntakeWith(p, t, b)
      BY <2>1, <2>3 DEF Finish, DecisionInv, Decided, Intake
    <3>3. turns[t].status # "absent" /\ turns[t].userMessage
      BY <2>1, <3>2 DEF Finish, IntakeWith
    <3>4. \A q \in Procs \ {p} : fresh[q] = None
      BY SMTT(30), <2>1 DEF Finish, LockInv
    <3>5. FreshInv'
      BY <3>1, <3>4 DEF FreshInv, TypeOK
    <3> QED
      BY SMTT(30), <3>1, <3>3, <3>5 DEF AdmittedOnce, TypeOK
  <2> QED
    BY <2>2, <2>3
<1> QED
  BY <1>2, <1>3, <1>4
     DEF Next, Step, vars, BeginWrite, BeginRecovery, RecoveryDenied,
         LockTransaction, Append, RestoreShared, StorageError,
         UnreportedAppend, Leave, Crash, Drop, Release, TypeOK

\* However many processes submit the same request and whatever crashes, at
\* most one submission of a turn is reported as new, and a turn reported as
\* new has its intake rows in the journal.
THEOREM AdmittedOnceHolds == Spec => []AdmittedOnce
<1>1. Init => FreshInv /\ AdmittedOnce
  BY SMTT(30) DEF Init, FreshInv, AdmittedOnce
<1> QED
  BY <1>1, AdmissionStep, DecisionsHold, LockDiscipline, TypeCorrect, PTL
     DEF Spec

-----------------------------------------------------------------------------
(* Work scope.                                                             *)

\* Every step keeps the Work of a turn linked to its thread.
LEMMA WorkScopeStep ==
    TypeOK /\ LockInv /\ DecisionInv /\ WorkScopeLinked /\ [Next]_vars
        => WorkScopeLinked'
<1> SUFFICES ASSUME TypeOK, LockInv, DecisionInv, WorkScopeLinked, [Next]_vars
             PROVE  WorkScopeLinked'
  OBVIOUS
<1>1. CASE turns' = turns /\ workThreads' = workThreads
  BY <1>1 DEF WorkScopeLinked
<1>2. ASSUME NEW p \in Procs, NEW e \in todo[p], at[p] = "append", Land(e)
      PROVE  WorkScopeLinked'
  <2> SUFFICES ASSUME NEW t \in Turns, turns'[t].status # "absent"
               PROVE  WorkLinked(workThreads', turns'[t].binding.work,
                                 ThreadOf[t])
    BY DEF WorkScopeLinked, WorkLinked
  <2>1. e \in Events
    BY DEF TypeOK
  <2>2. turns[t] \in Turn /\ turns[t].binding.work \in Works \cup {None}
    BY DEF TypeOK, Turn, Bindings
  <2>3. \A w \in Works \cup {None} :
            WorkLinked(workThreads, w, ThreadOf[t])
                => WorkLinked(workThreads', w, ThreadOf[t])
    BY <1>2 DEF Land, WorkLinked, TypeOK
  <2>4. \/ turns'[t] = turns[t]
        \/ e.turn = t /\ turns'[t] = Fold(turns[t], e)
    BY <1>2 DEF Land, TypeOK
  <2>5. CASE turns[t].status # "absent"
    <3>1. WorkLinked(workThreads, turns[t].binding.work, ThreadOf[t])
      BY <2>5 DEF WorkScopeLinked
    <3>2. turns'[t].binding = turns[t].binding
      BY <2>1, <2>2, <2>4, <2>5, FoldHistory DEF HistoryKept
    <3> QED
      BY <2>2, <2>3, <3>1, <3>2
  <2>6. CASE turns[t].status = "absent"
    <3>1. e.turn = t /\ Folds(turns[t], e) /\ turns'[t] = Fold(turns[t], e)
      BY <2>4, <2>6 DEF Fold
    <3>2. e.kind = "turn_started"
      BY <2>6, <3>1 DEF Folds
    <3>3. turns'[t].binding = e.binding
      BY <3>1, <3>2, Zenon DEF Fold, AbsentTurn
    <3>4. e.binding.work \in Works \cup {None} /\ t # None
          /\ e.thread = ThreadOf[t]
      BY <2>1, <3>1, NoneAssumption DEF Events, Bindings
    <3>5. WorkLinked(workThreads, e.binding.work, ThreadOf[t])
      <4>1. Decided(p)
        BY DEF DecisionInv
      <4>2. CASE fresh[p] # None
        <5>1. PICK b \in Bindings : IntakeWith(p, fresh[p], b)
          BY <1>2, <4>1, <4>2 DEF Decided, Intake
        <5>2. e = StartRow(fresh[p], b)
          BY SMTT(30), <3>2, <5>1
             DEF IntakeWith, ThreadEvent, MessageRow, TurnEvent
        <5>3. e.turn = fresh[p] /\ e.binding = b
          BY <5>2 DEF StartRow, TurnEvent
        <5> QED
          BY <3>1, <5>1, <5>3 DEF IntakeWith
      <4>3. CASE fresh[p] = None /\ kind[p] = "recover_interrupted"
        BY SMTT(30), <1>2, <3>2, <4>1, <4>3
           DEF Decided, Recovering, RecoveryClose, TurnEvent
      <4>4. CASE fresh[p] = None /\ kind[p] # "recover_interrupted"
        BY <1>2, <3>1, <3>2, <3>4, <4>1, <4>4 DEF Decided, Lone
      <4> QED
        BY <4>2, <4>3, <4>4
    <3> QED
      BY <2>3, <3>3, <3>4, <3>5
  <2> QED
    BY <2>5, <2>6
<1> QED
  BY <1>1, <1>2
     DEF Next, Step, vars, BeginWrite, BeginRecovery, RecoveryDenied,
         LockTransaction, Read, Append, Finish, RestoreShared, StorageError,
         UnreportedAppend, Crash, Drop, Release

\* A turn's Work stays linked to the turn's thread.
THEOREM WorkScopeHolds == Spec => []WorkScopeLinked
<1>1. Init => WorkScopeLinked
  BY SMTT(30) DEF Init, WorkScopeLinked, AbsentTurn
<1> QED
  BY <1>1, WorkScopeStep, DecisionsHold, LockDiscipline, TypeCorrect, PTL
     DEF Spec

-----------------------------------------------------------------------------
(* What one event does to a turn, seen from the ledger.                    *)

Kept(old, new) ==
    Ending(new) = Ending(old) /\ new.cancelRequested = old.cancelRequested

Opens(old, new) ==
    /\ Ending(old) = "absent" /\ Ending(new) = "open"
    /\ new.cancelRequested = old.cancelRequested

Asks(old, new) ==
    Ending(old) = "open" /\ Ending(new) = "open" /\ new.cancelRequested

Closes(old, new) ==
    /\ Ending(old) = "open" /\ Ending(new) \in Ledger!Ends
    /\ new.cancelRequested = old.cancelRequested
    /\ Ending(new) = "OPERATOR_CANCELLED" <=> old.cancelRequested

\* The row that gives a turn up as lost.
GivesUp(e) == e.kind = "turn_interrupted" /\ e.note = "RUNTIME_RESTART"

\* An event the fold takes leaves a turn alone, opens it, asks it to stop or
\* closes it; it is closed as lost only by a row that says so.
LEMMA FoldLedger ==
    ASSUME NEW turn \in Turn, NEW e \in Events,
           turn.status = "absent" => ~turn.cancelRequested
    PROVE  LET new == Fold(turn, e)
           IN \/ Kept(turn, new) \/ Opens(turn, new) \/ Asks(turn, new)
              \/ /\ Closes(turn, new)
                 /\ Ending(new) = "RUNTIME_RESTART" => GivesUp(e)
<1> DEFINE new == Fold(turn, e)
<1> USE DEF Events, Turn, TerminalStatuses, Ending, Folds, IsCancellationClose
<1>1. CASE ~Folds(turn, e)
  BY <1>1 DEF Fold, Kept
<1>2. CASE Folds(turn, e)
  <2>1. CASE e.kind = "turn_started"
    <3>1. new = [AbsentTurn EXCEPT !.status = "open", !.binding = e.binding]
      BY <1>2, <2>1 DEF Fold
    <3>2. new.status = "open" /\ new.cancelRequested = FALSE
      BY <3>1 DEF AbsentTurn
    <3>3. turn.status = "absent" /\ turn.cancelRequested = FALSE
      BY <1>2, <2>1
    <3> QED
      BY <3>2, <3>3 DEF Opens
  <2>2. CASE e.kind = "turn_cancel_requested"
    <3>1. new = [turn EXCEPT !.cancelRequested = TRUE]
      BY <1>2, <2>2 DEF Fold
    <3> QED
      BY <1>2, <2>2, <3>1 DEF Asks
  <2>3. CASE e.kind \in {"turn_completed", "blocker"}
    <3>1. turn.status = "open" /\ ~turn.cancelRequested
      BY <1>2, <2>3 DEF IsCancellationApprovalAudit, IsCancellationToolAudit
    <3>2. new.status \in {"completed", "blocked"}
          /\ new.cancelRequested = turn.cancelRequested
      BY <1>2, <2>3 DEF Fold, Closed
    <3> QED
      BY <3>1, <3>2 DEF Closes, Ledger!Ends
  <2>4. CASE e.kind = "turn_interrupted"
    <3>1. /\ turn.status = "open"
          /\ e.note = "OPERATOR_CANCELLED" <=> turn.cancelRequested
      BY <1>2, <2>4 DEF IsCancellationApprovalAudit, IsCancellationToolAudit
    <3>2. new = [turn EXCEPT !.status = "interrupted", !.reason = e.note]
      BY <1>2, <2>4 DEF Fold, Closed
    <3>3. e.note \in Reasons
      BY <2>4
    <3> QED
      BY <2>4, <3>1, <3>2, <3>3 DEF Closes, Ledger!Ends, Reasons, GivesUp
  <2>5. CASE e.kind \in Kinds \ {"turn_started", "turn_cancel_requested",
                    "turn_completed", "blocker", "turn_interrupted"}
    <3>1. turn.status = "open"
      BY <1>2, <2>5
    <3>2. new.status = turn.status
          /\ new.cancelRequested = turn.cancelRequested
      BY <1>2, <2>5 DEF Fold
    <3> QED
      BY <3>1, <3>2 DEF Kept
  <2> QED
    BY <2>1, <2>2, <2>3, <2>4, <2>5
<1> QED
  BY <1>1, <1>2
-----------------------------------------------------------------------------
(* The invariant of the refinement.                                        *)

\* A turn the fold has not seen has no cancellation request.
AbsentInv ==
    \A t \in Turns : turns[t].status = "absent" => ~turns[t].cancelRequested

\* A turn that a process runs or keeps as an orphan was admitted; it is not
\* run by two processes, and an orphan is not run at all.
HeldInv ==
    /\ \A p \in Procs : \A t \in live[p] \cup orphans[p] : admissions[t] > 0
    /\ \A p, q \in Procs : p # q => live[p] \cap live[q] = {}
    /\ \A p, q \in Procs : orphans[p] \cap live[q] = {}

\* A row that declares a turn lost is one of restart recovery, or about an
\* orphan of its writer.
LostInv ==
    \A p \in Procs : \A e \in todo[p] : GivesUp(e) =>
        kind[p] = "recover_interrupted" \/ e.turn \in orphans[p]

\* The fold gives a request only to a turn it has seen.
LEMMA AbsentStep == TypeOK /\ AbsentInv /\ [Next]_vars => AbsentInv'
<1> SUFFICES ASSUME TypeOK, AbsentInv, [Next]_vars, NEW t \in Turns,
                    turns'[t].status = "absent"
             PROVE  ~turns'[t].cancelRequested
  BY DEF AbsentInv
<1>1. turns[t] \in Turn
  BY DEF TypeOK
<1>2. HistoryKept(turns[t], turns'[t])
  BY <1>1, TurnStep, FoldHistory DEF HistoryKept
<1>3. turns[t].status = "absent"
  BY <1>2 DEF HistoryKept
<1>4. CASE turns'[t] = turns[t]
  BY <1>3, <1>4 DEF AbsentInv
<1>5. CASE \E e \in Events : turns'[t] = Fold(turns[t], e)
  <2>1. PICK e \in Events : turns'[t] = Fold(turns[t], e)
    BY <1>5
  <2>2. CASE Folds(turns[t], e)
    <3>1. Fold(turns[t], e).status = "open"
      BY <1>3, <2>2, Zenon DEF Fold, Folds, AbsentTurn
    <3> QED
      BY <2>1, <3>1
  <2>3. CASE ~Folds(turns[t], e)
    BY <1>3, <2>1, <2>3 DEF Fold, AbsentInv
  <2> QED
    BY <2>2, <2>3
<1> QED
  BY <1>4, <1>5, TurnStep

\* Every step keeps the runs apart.
LEMMA HeldStep ==
    TypeOK /\ FreshInv /\ HeldInv /\ [Next]_vars => HeldInv'
<1> SUFFICES ASSUME TypeOK, FreshInv, HeldInv, [Next]_vars PROVE HeldInv'
  OBVIOUS
<1>1. CASE UNCHANGED <<live, orphans, admissions>>
  BY <1>1 DEF HeldInv
<1>2. CASE \E p \in Procs : Crash(p) \/ Drop(p)
  <2>1. /\ \A q \in Procs : /\ live'[q] \subseteq live[q]
                            /\ orphans'[q] \subseteq orphans[q]
        /\ admissions' = admissions
    BY <1>2 DEF Crash, Drop, TypeOK
  <2> QED
    BY <2>1 DEF HeldInv
<1>3. CASE \E p \in Procs : \E t \in live[p] : Release(p, t)
  <2>1. PICK p \in Procs : \E t \in live[p] : Release(p, t)
    BY <1>3
  <2>2. PICK t \in live[p] : Release(p, t)
    BY <2>1
  <2>3. /\ live' = [live EXCEPT ![p] = live[p] \ {t}]
        /\ orphans' \in {orphans, [orphans EXCEPT ![p] = orphans[p] \cup {t}]}
        /\ admissions' = admissions
    BY <2>2 DEF Release
  <2>4. \A q \in Procs : /\ live'[q] \subseteq live[q]
                         /\ t \notin live'[q]
                         /\ orphans'[q] \subseteq orphans[q] \cup {t}
                         /\ q # p => orphans'[q] = orphans[q]
    BY <2>3 DEF HeldInv, TypeOK
  <2>5. admissions[t] > 0
    BY DEF HeldInv
  <2> QED
    BY SMTT(30), <2>3, <2>4, <2>5 DEF HeldInv
<1>4. CASE \E p \in Procs : Finish(p)
  <2>1. PICK p \in Procs : Finish(p)
    BY <1>4
  <2>2. CASE fresh[p] = None
    BY <1>1, <2>1, <2>2 DEF Finish
  <2>3. CASE fresh[p] # None
    <3> DEFINE t == fresh[p]
    <3>1. /\ t \in Turns /\ admissions[t] = 0
          /\ admissions' = [admissions EXCEPT ![t] = 1]
          /\ live' = [live EXCEPT ![p] = live[p] \cup {t}]
          /\ orphans' = orphans
      BY SMTT(30), <2>1, <2>3 DEF Finish, FreshInv, TypeOK
    <3>2. \A q \in Procs : t \notin live[q] \cup orphans[q]
      BY SMTT(30), <3>1 DEF HeldInv
    <3> HIDE DEF t
    <3> QED
      BY SMTT(30), <3>1, <3>2 DEF HeldInv, TypeOK
  <2> QED
    BY <2>2, <2>3
<1> QED
  BY <1>1, <1>2, <1>3, <1>4, Zenon
     DEF Next, Step, vars, BeginWrite, BeginRecovery, RecoveryDenied,
         LockTransaction, Read, Append, RestoreShared, StorageError,
         UnreportedAppend

\* No caller of append_event declares a turn lost.
LEMMA CallersDoNotGiveUp == \A e \in CallerRows : ~GivesUp(e)
<1> SUFFICES ASSUME NEW e \in CallerRows, e.kind = "turn_interrupted"
             PROVE  e.note # "RUNTIME_RESTART"
  BY DEF GivesUp
<1>1. \A k, t, c, n, b : TurnEvent(k, t, c, n, b).kind = k
                        /\ TurnEvent(k, t, c, n, b).note = n
  BY DEF TurnEvent
<1>2. \A k, x, w : ThreadEvent(k, x, w).kind = k
  BY DEF ThreadEvent
<1>3. e \in {TurnEvent("turn_interrupted", t, None, n, Scope(w)) :
            t \in Turns, n \in {"OPERATOR_CANCELLED", "EXECUTION_FAILED"},
            w \in Works \cup {None}}
  BY SMTT(30), <1>1, <1>2 DEF CallerRows
<1> QED
  BY SMTT(30), <1>1, <1>3

\* Every step keeps the reasons for declaring a turn lost.
LEMMA LostStep ==
    TypeOK /\ LockInv /\ LostInv /\ [Next]_vars => LostInv'
<1> SUFFICES ASSUME TypeOK, LockInv, LostInv, [Next]_vars, NEW q \in Procs,
                    NEW e \in todo'[q], GivesUp(e)
             PROVE  kind'[q] = "recover_interrupted" \/ e.turn \in orphans'[q]
  BY DEF LostInv, GivesUp
<1>1. CASE e \in todo[q] /\ kind'[q] = kind[q] /\ orphans[q] \subseteq orphans'[q]
  BY <1>1 DEF LostInv
<1>2. CASE UNCHANGED vars
  BY <1>1, <1>2 DEF vars
<1>3. CASE Next
  <2>1. PICK p \in Procs :
            \/ \E k \in Operations : BeginWrite(p, k)
            \/ BeginRecovery(p)
            \/ RecoveryDenied(p)
            \/ Step(p)
            \/ StorageError(p)
            \/ \E f \in todo[p] : UnreportedAppend(p, f)
            \/ Crash(p)
            \/ Drop(p)
            \/ \E t \in live[p] : Release(p, t)
    BY <1>3 DEF Next
  <2>2. CASE \/ \E k \in Operations : BeginWrite(p, k)
             \/ BeginRecovery(p)
             \/ RecoveryDenied(p)
             \/ LockTransaction(p)
             \/ RestoreShared(p)
    BY <1>1, <2>2 DEF BeginWrite, BeginRecovery, RecoveryDenied,
                      LockTransaction, RestoreShared, TypeOK, LockInv
  <2>3. CASE \E t \in live[p] : Release(p, t)
    BY SMTT(30), <1>1, <2>3 DEF Release, TypeOK
  <2>4. CASE Crash(p) \/ Drop(p)
    BY <1>1, <2>4, SMTT(30) DEF Crash, Drop, TypeOK, LockInv
  <2>5. CASE \/ StorageError(p) \/ Finish(p)
             \/ \E f \in todo[p] : UnreportedAppend(p, f)
    <3>1. /\ todo' = [todo EXCEPT ![p] = {}] /\ orphans' = orphans
          /\ kind' \in {kind, [kind EXCEPT ![p] = "none"]}
      BY <2>5 DEF StorageError, Finish, UnreportedAppend, Leave
    <3>2. q # p /\ e \in todo[q] /\ kind'[q] = kind[q]
      BY <3>1 DEF TypeOK
    <3> QED
      BY <1>1, <3>1, <3>2
  <2>6. CASE \E f \in todo[p] : Append(p, f)
    BY <1>1, <2>6 DEF Append, TypeOK
  <2>7. CASE Read(p)
    <3>1. CASE q # p
      BY <1>1, <2>7, <3>1 DEF Read, DecideStart, DecideAppend,
                              DecideRecovery, DecideOrphan, TypeOK
    <3>2. CASE q = p
      <4>1. CASE \E t \in Turns, r \in Requests : DecideStart(p, t, r)
        <5>1. todo[p] = {}
          BY <2>7 DEF Read, LockInv
        <5>2. PICK t \in Turns, r \in Requests :
                e \in RetryRows(t, r) \cup IntakeRows(t, r)
          <6>1. todo \in [Procs -> SUBSET Events]
            BY DEF TypeOK
          <6>2. PICK t \in Turns, r \in Requests : DecideStart(p, t, r)
            BY <4>1
          <6>3. todo'[p] \in {RetryRows(t, r), IntakeRows(t, r), todo[p]}
            BY <6>1, <6>2 DEF DecideStart
          <6> QED
            BY <3>2, <5>1, <6>3
        <5>3. e.kind # "turn_interrupted"
          BY SMTT(30), <5>2 DEF RetryRows, IntakeRows, TurnEvent, ThreadEvent
        <5> QED
          BY <5>3 DEF GivesUp
      <4>2. CASE \E f \in CallerRows : DecideAppend(p, f)
        <5>1. e \in CallerRows
          BY SMTT(30), <3>2, <4>2 DEF DecideAppend, TypeOK
        <5> QED
          BY <5>1, CallersDoNotGiveUp
      <4>3. CASE DecideRecovery(p)
        BY <2>7, <3>2, <4>3 DEF DecideRecovery, Read
      <4>4. CASE \E t \in Turns : DecideOrphan(p, t)
        BY SMTT(30), <2>7, <3>2, <4>4
           DEF DecideOrphan, Read, RecoveryClose, TurnEvent, TypeOK
      <4> QED
        BY <2>7, <4>1, <4>2, <4>3, <4>4 DEF Read
    <3> QED
      BY <3>1, <3>2
  <2> QED
    BY <2>1, <2>2, <2>3, <2>4, <2>5, <2>6, <2>7 DEF Step
<1> QED
  BY <1>2, <1>3

-----------------------------------------------------------------------------
(* The simulation.                                                         *)

\* A row that lands is a step of the ledger, or none.
LEMMA LandSimulates ==
    ASSUME TypeOK, LockInv, AbsentInv, HeldInv, LostInv,
           NEW p \in Procs, NEW e \in todo[p], at[p] = "append", Land(e),
           UNCHANGED <<live, admissions>>
    PROVE  [Ledger!Next]_(Ledger!vars)
<1>1. e \in Events
  BY DEF TypeOK
<1>2. Admitted' = Admitted /\ Running' = Running
  BY DEF Admitted, Running
<1>3. CASE turns' = turns
  BY <1>2, <1>3 DEF Ledger!vars, LedgerState, Asked
<1>4. CASE e.turn # None
  <2> DEFINE t == e.turn
             new == Fold(turns[t], e)
  <2>1. t \in Turns /\ turns[t] \in Turn
    BY <1>1, <1>4 DEF Events, TypeOK
  <2>2. turns' = [turns EXCEPT ![t] = new] /\ turns \in [Turns -> Turn]
    BY <1>4 DEF Land, TypeOK
  <2>3. turns[t].status = "absent" => ~turns[t].cancelRequested
    BY <2>1 DEF AbsentInv
  <2>4. \/ Kept(turns[t], new) \/ Opens(turns[t], new) \/ Asks(turns[t], new)
        \/ /\ Closes(turns[t], new)
           /\ Ending(new) = "RUNTIME_RESTART" => GivesUp(e)
    BY <1>1, <2>1, <2>3, FoldLedger
  <2> HIDE DEF new, t
  <2>5. LedgerState' = [LedgerState EXCEPT ![t] = Ending(new)]
    BY <2>1, <2>2 DEF LedgerState, Ending
  <2>6. Asked' = IF new.cancelRequested THEN Asked \cup {t} ELSE Asked \ {t}
    BY <2>1, <2>2 DEF Asked
  <2>7. LedgerState[t] = Ending(turns[t]) /\ (t \in Asked <=> turns[t].cancelRequested)
    BY <2>1 DEF LedgerState, Asked
  <2>8. LedgerState = [LedgerState EXCEPT ![t] = LedgerState[t]]
    BY <2>1 DEF LedgerState
  <2>9. CASE Kept(turns[t], new)
    <3>1. LedgerState' = LedgerState /\ Asked' = Asked
      BY <2>5, <2>6, <2>7, <2>8, <2>9 DEF Kept
    <3> QED
      BY <1>2, <3>1 DEF Ledger!vars
  <2>10. CASE Opens(turns[t], new)
    <3>1. Asked' = Asked
      BY <2>6, <2>7, <2>10 DEF Opens
    <3>2. Ledger!Open(t)
      BY <1>2, <2>5, <2>7, <2>10, <3>1 DEF Opens, Ledger!Open
    <3> QED
      BY <2>1, <3>2 DEF Ledger!Next
  <2>11. CASE Asks(turns[t], new)
    <3>1. Asked' = Asked \cup {t} /\ LedgerState' = LedgerState
      BY <2>5, <2>6, <2>7, <2>8, <2>11 DEF Asks
    <3>2. Ledger!Ask(t)
      BY <1>2, <2>7, <2>11, <3>1 DEF Asks, Ledger!Ask
    <3> QED
      BY <2>1, <3>2 DEF Ledger!Next
  <2>12. CASE /\ Closes(turns[t], new)
              /\ Ending(new) = "RUNTIME_RESTART" => GivesUp(e)
    <3>1. Asked' = Asked
      BY <2>6, <2>7, <2>12 DEF Closes
    <3>2. GivesUp(e) => t \notin Running
      <4>1. CASE kind[p] = "recover_interrupted"
        BY <4>1 DEF LockInv, InJournal, Running
      <4>2. CASE t \in orphans[p]
        BY <4>2 DEF HeldInv, Running
      <4> QED
        BY <4>1, <4>2 DEF LostInv, t
    <3>3. Ledger!Close(t, Ending(new))
      BY <1>2, <2>5, <2>7, <2>12, <3>1, <3>2 DEF Closes, Ledger!Close
    <3> QED
      BY <2>1, <2>12, <3>3 DEF Closes, Ledger!Next
  <2> QED
    BY <2>4, <2>9, <2>10, <2>11, <2>12
<1> QED
  BY <1>3, <1>4 DEF Land

\* A submission that returns as new hands its turn out.
LEMMA FinishSimulates ==
    ASSUME TypeOK, LockInv, DecisionInv, FreshInv, NEW p \in Procs, Finish(p)
    PROVE  [Ledger!Next]_(Ledger!vars)
<1>1. turns' = turns
  BY DEF Finish
<1>2. LedgerState' = LedgerState /\ Asked' = Asked
  BY <1>1 DEF LedgerState, Asked, Ending
<1>3. CASE fresh[p] = None
  BY <1>2, <1>3 DEF Finish, Ledger!vars, Admitted, Running
<1>4. CASE fresh[p] # None
  <2> DEFINE t == fresh[p]
  <2>1. /\ t \in Turns /\ admissions[t] = 0
        /\ admissions' = [admissions EXCEPT ![t] = 1]
        /\ live' = [live EXCEPT ![p] = live[p] \cup {t}]
    BY SMTT(30), <1>4 DEF Finish, FreshInv, TypeOK
  <2>2. PICK b \in Bindings : IntakeWith(p, t, b)
    BY <1>4 DEF Finish, DecisionInv, Decided, Intake
  <2>3. turns[t].status = "open"
    BY <2>2 DEF Finish, IntakeWith
  <2> HIDE DEF t
  <2>4. t \notin Admitted /\ Admitted' = Admitted \cup {t}
    BY SMTT(30), <2>1 DEF Admitted, TypeOK
  <2>5. Running' = Running \cup {t}
    BY SMTT(30), <2>1 DEF Running, TypeOK
  <2>6. LedgerState[t] = "open"
    BY <2>1, <2>3 DEF LedgerState, Ending
  <2>7. Ledger!Admit(t)
    BY <1>2, <2>4, <2>5, <2>6 DEF Ledger!Admit
  <2> QED
    BY <2>1, <2>7 DEF Ledger!Next
<1> QED
  BY <1>3, <1>4

\* Every step of the service is a step of the ledger, or none.
LEMMA StepSimulates ==
    TypeOK /\ LockInv /\ DecisionInv /\ FreshInv /\ AbsentInv /\ HeldInv
    /\ LostInv /\ [Next]_vars => [Ledger!Next]_(Ledger!vars)
<1> SUFFICES ASSUME TypeOK, LockInv, DecisionInv, FreshInv,
                    AbsentInv, HeldInv, LostInv, [Next]_vars
             PROVE  [Ledger!Next]_(Ledger!vars)
  OBVIOUS
<1>1. CASE UNCHANGED <<turns, live, admissions>>
  BY <1>1 DEF Ledger!vars, LedgerState, Asked, Admitted, Running
<1>2. CASE \E p \in Procs : Crash(p) \/ \E t \in live[p] : Release(p, t)
  <2>1. /\ UNCHANGED <<turns, admissions>>
        /\ \A q \in Procs : live'[q] \subseteq live[q]
    BY <1>2 DEF Crash, Release, TypeOK
  <2>2. Running' \in SUBSET Running
    BY <2>1 DEF Running
  <2>3. UNCHANGED <<LedgerState, Asked, Admitted>>
    BY <2>1 DEF LedgerState, Asked, Admitted
  <2> QED
    BY <2>2, <2>3 DEF Ledger!Next, Ledger!Stop
<1>3. CASE \E p \in Procs : Finish(p)
  BY <1>3, FinishSimulates
<1>4. CASE \E p \in Procs : \E e \in todo[p] :
                Append(p, e) \/ UnreportedAppend(p, e)
  BY <1>4, LandSimulates DEF Append, UnreportedAppend
<1> QED
  BY <1>1, <1>2, <1>3, <1>4, Zenon
     DEF Next, Step, vars, BeginWrite, BeginRecovery, RecoveryDenied,
         LockTransaction, Read, RestoreShared, StorageError, Drop

\* The session service implements the ledger of turns, for any number of
\* processes, turns and faults: a turn is handed out once and while open,
\* closed once, as cancelled exactly when that was asked for, and as lost
\* only when no process runs it.
THEOREM LedgerImplemented == Spec => ImplementsLedger
<1>1. Init => AbsentInv /\ HeldInv /\ LostInv
  <2>1. Init => AbsentInv
    BY SMTT(30) DEF Init, AbsentInv, AbsentTurn
  <2>2. Init => HeldInv
    BY SMTT(30) DEF Init, HeldInv
  <2>3. Init => LostInv
    BY SMTT(30) DEF Init, LostInv
  <2> QED
    BY <2>1, <2>2, <2>3
<1>2. Init => Ledger!Init
  BY SMTT(30)
     DEF Init, Ledger!Init, LedgerState, Asked, Admitted, Running, Ending,
         AbsentTurn
<1>3. Spec => [](FreshInv /\ AdmittedOnce)
  <2>1. Init => FreshInv /\ AdmittedOnce
    BY SMTT(30) DEF Init, FreshInv, AdmittedOnce
  <2> QED
    BY <2>1, AdmissionStep, DecisionsHold, LockDiscipline, TypeCorrect, PTL
       DEF Spec
<1>4. Spec => [](AbsentInv /\ HeldInv /\ LostInv)
  BY <1>1, <1>3, AbsentStep, HeldStep, LostStep, LockDiscipline, TypeCorrect,
     PTL DEF Spec
<1> QED
  BY <1>2, <1>3, <1>4, StepSimulates, DecisionsHold, LockDiscipline,
     TypeCorrect, PTL DEF Spec, ImplementsLedger, Ledger!Spec
=============================================================================
