--------------------------- MODULE OperatorSession ---------------------------
(***************************************************************************)
(* OperatorSessionService (crates/heiwa_session/src/operator.rs): several  *)
(* processes (app server, CLI, REPL, loop) write one operator journal.     *)
(*                                                                         *)
(* A process holds the shared activity lease from its first write until it *)
(* exits.  A write takes the root-wide transaction lock, materializes the  *)
(* journal, decides from what it read which rows to append, appends them   *)
(* one by one and unlocks.  Restart recovery needs the activity lease      *)
(* exclusively and closes every open turn.  A process can crash between    *)
(* any two steps (the operating system then drops its locks) and any read  *)
(* or append can fail.                                                     *)
(*                                                                         *)
(* The journal is kept as its fold: threads, turns and workThreads change  *)
(* only when a row reaches the journal.  The arguments of a call are       *)
(* chosen in the step that first looks at them, the read.  A process runs  *)
(* one operation at a time: the service's write_transaction mutex          *)
(* serializes its threads.                                                 *)
(***************************************************************************)
EXTENDS OperatorTurns

CONSTANTS
    Procs,      \* service instances (one per process) on the evidence root
    Requests,   \* start_turn arguments: [prompt, models (a list), work]
    Imported,   \* the turn ids only the transcript import opens
    MaxFaults   \* bound: crashes and storage errors in a behaviour

ASSUME RequestsAssumption == \A r \in Requests : Bind(r) \in Bindings

ASSUME ImportedAssumption == Imported \subseteq Turns

ASSUME MaxFaultsAssumption == MaxFaults \in Nat

ASSUME ProcsAssumption == None \notin Procs

VARIABLES
    threads,     \* threads the fold knows
    turns,       \* the folded turns
    workThreads, \* Work id -> threads linked to it
    txn,         \* holder of .operator_transaction.lock, or None
    lease,       \* each process' hold on .operator_activity.lock
    at,          \* where each process is in its current operation
    kind,        \* the operation
    todo,        \* rows the operation has decided to append
    fresh,       \* the turn the operation will report as not a duplicate
    live,        \* turns a process admitted and runs
    orphans,     \* turns whose task ended without closing them for sure
    admissions,  \* how often a turn was reported as not a duplicate
    faults       \* faults so far

journal == <<threads, turns, workThreads>>
vars == <<threads, turns, workThreads, txn, lease, at, kind, todo, fresh,
          live, orphans, admissions, faults>>

Locations == {"idle", "lock", "read", "append", "restore"}
Operations == {"none", "start_turn", "append_event", "recover_interrupted",
               "recover_proven_orphan"}
Leases == {"none", "shared", "exclusive"}

TypeOK ==
    /\ threads \subseteq Threads
    /\ turns \in [Turns -> Turn]
    /\ workThreads \in [Works -> SUBSET Threads]
    /\ txn \in Procs \cup {None}
    /\ lease \in [Procs -> Leases]
    /\ at \in [Procs -> Locations]
    /\ kind \in [Procs -> Operations]
    /\ todo \in [Procs -> SUBSET Events]
    /\ fresh \in [Procs -> Turns \cup {None}]
    /\ live \in [Procs -> SUBSET Turns]
    /\ orphans \in [Procs -> SUBSET Turns]
    /\ admissions \in [Turns -> Nat]
    /\ faults \in 0..MaxFaults

Init ==
    /\ threads = {}
    /\ turns = [t \in Turns |-> AbsentTurn]
    /\ workThreads = [w \in Works |-> {}]
    /\ txn = None
    /\ lease = [p \in Procs |-> "none"]
    /\ at = [p \in Procs |-> "idle"]
    /\ kind = [p \in Procs |-> "none"]
    /\ todo = [p \in Procs |-> {}]
    /\ fresh = [p \in Procs |-> None]
    /\ live = [p \in Procs |-> {}]
    /\ orphans = [p \in Procs |-> {}]
    /\ admissions = [t \in Turns |-> 0]
    /\ faults = 0

OpenTurns == {t \in Turns : turns[t].status = "open"}

-----------------------------------------------------------------------------
(* Taking the locks.                                                       *)

\* lock_writer_transaction up to the transaction lock: the activity lease
\* is taken shared unless already held; if another process holds it
\* exclusively the call returns an error and nothing changes.
BeginWrite(p, k) ==
    /\ at[p] = "idle"
    /\ k \in {"start_turn", "append_event", "recover_proven_orphan"}
    /\ k = "recover_proven_orphan" => orphans[p] # {}
    /\ \/ lease[p] = "shared"
       \/ \A q \in Procs \ {p} : lease[q] # "exclusive"
    /\ lease' = [lease EXCEPT ![p] = "shared"]
    /\ at' = [at EXCEPT ![p] = "lock"]
    /\ kind' = [kind EXCEPT ![p] = k]
    /\ UNCHANGED <<threads, turns, workThreads, txn, todo, fresh, live,
                   orphans, admissions, faults>>

\* Mutant of BeginRecovery: only another recovery shuts it out.
BeginRecoveryAmongWriters(p) ==
    /\ at[p] = "idle"
    /\ live[p] \cup orphans[p] = {}
    /\ \A q \in Procs \ {p} : lease[q] # "exclusive"
    /\ lease' = [lease EXCEPT ![p] = "exclusive"]
    /\ at' = [at EXCEPT ![p] = "lock"]
    /\ kind' = [kind EXCEPT ![p] = "recover_interrupted"]
    /\ UNCHANGED <<threads, turns, workThreads, txn, todo, fresh, live,
                   orphans, admissions, faults>>

\* recover_interrupted_with: with_exclusive tries the exclusive lease.  The
\* callers (heiwa app serve before it binds its port, heiwa recover) run it
\* on a service that supervises no turn.
BeginRecovery(p) ==
    /\ at[p] = "idle"
    /\ live[p] \cup orphans[p] = {}
    /\ \A q \in Procs \ {p} : lease[q] = "none"
    /\ lease' = [lease EXCEPT ![p] = "exclusive"]
    /\ at' = [at EXCEPT ![p] = "lock"]
    /\ kind' = [kind EXCEPT ![p] = "recover_interrupted"]
    /\ UNCHANGED <<threads, turns, workThreads, txn, todo, fresh, live,
                   orphans, admissions, faults>>

\* The exclusive lease is denied.  flock conversion drops the shared lock
\* first, so the process holds nothing until restore_shared gets it back.
RecoveryDenied(p) ==
    /\ at[p] = "idle"
    /\ live[p] \cup orphans[p] = {}
    /\ \E q \in Procs \ {p} : lease[q] # "none"
    /\ lease' = [lease EXCEPT ![p] = "none"]
    /\ at' = [at EXCEPT ![p] = "restore"]
    /\ kind' = [kind EXCEPT ![p] = "recover_interrupted"]
    /\ UNCHANGED <<threads, turns, workThreads, txn, todo, fresh, live,
                   orphans, admissions, faults>>

\* Mutant of LockTransaction: no lock across processes.
LockTransactionInProcess(p) ==
    /\ at[p] = "lock"
    /\ txn' = p
    /\ at' = [at EXCEPT ![p] = "read"]
    /\ UNCHANGED <<threads, turns, workThreads, lease, kind, todo, fresh,
                   live, orphans, admissions, faults>>

\* lock_cross_process_transaction: blocks until the lock is free.
LockTransaction(p) ==
    /\ at[p] = "lock"
    /\ txn = None
    /\ txn' = p
    /\ at' = [at EXCEPT ![p] = "read"]
    /\ UNCHANGED <<threads, turns, workThreads, lease, kind, todo, fresh,
                   live, orphans, admissions, faults>>

-----------------------------------------------------------------------------
(* Materialize and decide.                                                 *)

\* The rows start_turn appends for turn t under request r.
IntakeRows(t, r) ==
    {TurnEvent("turn_started", t, None, None, Bind(r)),
     TurnEvent("user_message", t, None, None, Bind(r))}
    \cup (IF ThreadOf[t] \in threads THEN {}
          ELSE {ThreadEvent("thread_created", ThreadOf[t], None)})

\* A retry of a turn the fold knows: it must carry the stored binding; only
\* a user message that never landed is appended, and only while the turn
\* still accepts it.
RetryRows(t, r) ==
    IF /\ turns[t].binding = Bind(r)
       /\ ~turns[t].userMessage
       /\ turns[t].status = "open"
       /\ ~turns[t].cancelRequested
    THEN {TurnEvent("user_message", t, None, None, turns[t].binding)}
    ELSE {}

\* Mutant of DecideStart: the Work scope is not checked.
DecideStartAnyScope(p, t, r) ==
    /\ kind[p] = "start_turn"
    /\ t \in Turns \ Imported
    /\ IF turns[t].status # "absent"
       THEN /\ todo' = [todo EXCEPT ![p] = RetryRows(t, r)]
            /\ fresh' = fresh
       ELSE /\ todo' = [todo EXCEPT ![p] = IntakeRows(t, r)]
            /\ fresh' = [fresh EXCEPT ![p] = t]

\* Mutant of DecideStart: a retry is not reported as a duplicate.
DecideStartAllNew(p, t, r) ==
    /\ kind[p] = "start_turn"
    /\ t \in Turns \ Imported
    /\ IF turns[t].status # "absent"
       THEN /\ todo' = [todo EXCEPT ![p] = RetryRows(t, r)]
            /\ fresh' = [fresh EXCEPT ![p] = t]
       ELSE IF WorkLinked(workThreads, r.work, ThreadOf[t])
       THEN /\ todo' = [todo EXCEPT ![p] = IntakeRows(t, r)]
            /\ fresh' = [fresh EXCEPT ![p] = t]
       ELSE UNCHANGED <<todo, fresh>>

\* A turn the fold knows is a duplicate; a new one needs its Work linked.
DecideStart(p, t, r) ==
    /\ kind[p] = "start_turn"
    /\ t \in Turns \ Imported
    /\ IF turns[t].status # "absent"
       THEN /\ todo' = [todo EXCEPT ![p] = RetryRows(t, r)]
            /\ fresh' = fresh
       ELSE IF WorkLinked(workThreads, r.work, ThreadOf[t])
       THEN /\ todo' = [todo EXCEPT ![p] = IntakeRows(t, r)]
            /\ fresh' = [fresh EXCEPT ![p] = t]
       ELSE UNCHANGED <<todo, fresh>>

\* Rows callers of append_event construct: rows about a turn under some
\* Work scope, and the Work rows about a thread.  (The guard and the fold
\* treat a denied approval like an approved one.)
Scope(w) == [Unbound EXCEPT !.work = w]

CallerRows ==
    {TurnEvent("turn_started", t, None, None, Unbound) : t \in Imported}
    \cup {TurnEvent(k, t, None, None, Scope(w)) :
            k \in {"user_message", "touch", "turn_cancel_requested",
                   "turn_completed", "blocker"},
            t \in Turns, w \in Works \cup {None}}
    \cup {TurnEvent("turn_interrupted", t, None, n, Scope(w)) :
            t \in Turns, n \in {"OPERATOR_CANCELLED", "EXECUTION_FAILED"},
            w \in Works \cup {None}}
    \cup {TurnEvent("tool_call_started", t, c, None, Scope(w)) :
            t \in Turns, c \in Calls, w \in Works \cup {None}}
    \cup {TurnEvent("tool_call_completed", t, c, n, Scope(w)) :
            t \in Turns, c \in Calls, n \in {"success", "uncertain"},
            w \in Works \cup {None}}
    \cup {TurnEvent("approval_requested", t, c, None, Scope(w)) :
            t \in Turns, c \in Calls \cup {None}, w \in Works \cup {None}}
    \cup {TurnEvent("approval_decided", t, c, n, Scope(w)) :
            t \in Turns, c \in Calls \cup {None},
            n \in {"auto_approved", "approved", "cancelled"},
            w \in Works \cup {None}}
    \cup {ThreadEvent(k, x, w) :
            k \in {"work_created", "work_linked"}, x \in Threads, w \in Works}

\* A rejected event never reaches the journal.
DecideAppend(p, e) ==
    /\ kind[p] = "append_event"
    /\ e \in CallerRows
    /\ todo' = [todo EXCEPT ![p] =
                  IF e.turn = None \/ Admits(workThreads, turns[e.turn], e)
                  THEN {e} ELSE {}]
    /\ fresh' = fresh

\* Mutant of DecideRecovery: a turn being cancelled is left to its runner.
DecideRecoverySkipsCancelled(p) ==
    /\ kind[p] = "recover_interrupted"
    /\ todo' = [todo EXCEPT ![p] =
                  {RecoveryClose(t, turns[t]) :
                      t \in {u \in OpenTurns : ~turns[u].cancelRequested}}]
    /\ fresh' = fresh

\* recover_interrupted_with: a closing row for every nonterminal turn; the
\* rows bypass validate_event.
DecideRecovery(p) ==
    /\ kind[p] = "recover_interrupted"
    /\ todo' = [todo EXCEPT ![p] =
                  {RecoveryClose(t, turns[t]) : t \in OpenTurns}]
    /\ fresh' = fresh

\* recover_proven_orphan: its caller, the runner that ran the turn, has the
\* proof that nothing runs it any more.  (The runner forgets the orphan when
\* this succeeds; done again it would find the turn closed.)
DecideOrphan(p, t) ==
    /\ kind[p] = "recover_proven_orphan"
    /\ t \in orphans[p]
    /\ todo' = [todo EXCEPT ![p] =
                  IF t \in OpenTurns THEN {RecoveryClose(t, turns[t])}
                  ELSE {}]
    /\ fresh' = fresh

Read(p) ==
    /\ at[p] = "read"
    /\ \/ \E t \in Turns, r \in Requests : DecideStart(p, t, r)
       \/ \E e \in CallerRows : DecideAppend(p, e)
       \/ DecideRecovery(p)
       \/ \E t \in Turns : DecideOrphan(p, t)
    /\ at' = [at EXCEPT ![p] = "append"]
    /\ UNCHANGED <<threads, turns, workThreads, txn, lease, kind, live,
                   orphans, admissions, faults>>

-----------------------------------------------------------------------------
(* Append and unlock.                                                      *)

\* start_turn writes its rows in this order.
Rank(e) == CASE e.kind = "thread_created" -> 1
             [] e.kind = "turn_started" -> 2
             [] OTHER -> 3

NextRows(p) == {e \in todo[p] : \A f \in todo[p] : Rank(e) <= Rank(f)}

\* A row reaches the journal: apply_event folds it.  A Work row counts only
\* on a thread the fold knows; work_linked only for a Work it knows.
Land(e) ==
    /\ threads' = IF e.kind \in {"thread_created", "turn_started"}
                  THEN threads \cup {e.thread} ELSE threads
    /\ turns' = IF e.turn = None THEN turns
                ELSE [turns EXCEPT ![e.turn] = Fold(@, e)]
    /\ workThreads' =
         IF \/ e.thread \notin threads
            \/ e.kind \notin {"work_created", "work_linked"}
            \/ e.kind = "work_created" /\ workThreads[e.binding.work] # {}
            \/ e.kind = "work_linked" /\ workThreads[e.binding.work] = {}
         THEN workThreads
         ELSE [workThreads EXCEPT ![e.binding.work] = @ \cup {e.thread}]

Append(p, e) ==
    /\ at[p] = "append"
    /\ e \in NextRows(p)
    /\ Land(e)
    /\ todo' = [todo EXCEPT ![p] = @ \ {e}]
    /\ UNCHANGED <<txn, lease, at, kind, fresh, live, orphans, admissions,
                   faults>>

\* Mutant of Leave: recovery keeps its exclusive lease.
LeaveExclusive(p) ==
    /\ txn' = None
    /\ todo' = [todo EXCEPT ![p] = {}]
    /\ fresh' = [fresh EXCEPT ![p] = None]
    /\ lease' = lease
    /\ at' = [at EXCEPT ![p] = "idle"]
    /\ kind' = [kind EXCEPT ![p] = "none"]

\* Leaving an operation releases the transaction lock; recovery also gives
\* the exclusive lease up and asks for the shared one again.
Leave(p) ==
    /\ txn' = None
    /\ todo' = [todo EXCEPT ![p] = {}]
    /\ fresh' = [fresh EXCEPT ![p] = None]
    /\ IF kind[p] = "recover_interrupted"
       THEN /\ lease' = [lease EXCEPT ![p] = "none"]
            /\ at' = [at EXCEPT ![p] = "restore"]
            /\ kind' = kind
       ELSE /\ lease' = lease
            /\ at' = [at EXCEPT ![p] = "idle"]
            /\ kind' = [kind EXCEPT ![p] = "none"]

\* Every row is durable: the call returns.  A submission that is not a
\* duplicate is the caller's licence to run the turn.
Finish(p) ==
    /\ at[p] = "append"
    /\ todo[p] = {}
    /\ Leave(p)
    /\ IF fresh[p] = None
       THEN UNCHANGED <<live, admissions>>
       ELSE /\ live' = [live EXCEPT ![p] = @ \cup {fresh[p]}]
            /\ admissions' = [admissions EXCEPT ![fresh[p]] = @ + 1]
    /\ UNCHANGED <<threads, turns, workThreads, orphans, faults>>

\* A read or an append returns a storage error and the call with it.
StorageError(p) ==
    /\ \/ at[p] = "read"
       \/ at[p] = "append" /\ todo[p] # {}
    /\ faults < MaxFaults
    /\ faults' = faults + 1
    /\ Leave(p)
    /\ UNCHANGED <<threads, turns, workThreads, live, orphans, admissions>>

\* An append whose row was written but whose sync_data failed: the caller
\* sees an error, a later fold sees the row.
UnreportedAppend(p, e) ==
    /\ at[p] = "append"
    /\ e \in NextRows(p)
    /\ faults < MaxFaults
    /\ faults' = faults + 1
    /\ Land(e)
    /\ Leave(p)
    /\ UNCHANGED <<live, orphans, admissions>>

\* restore_shared: blocks until no other process holds the lease exclusively.
RestoreShared(p) ==
    /\ at[p] = "restore"
    /\ \A q \in Procs \ {p} : lease[q] # "exclusive"
    /\ lease' = [lease EXCEPT ![p] = "shared"]
    /\ at' = [at EXCEPT ![p] = "idle"]
    /\ kind' = [kind EXCEPT ![p] = "none"]
    /\ UNCHANGED <<threads, turns, workThreads, txn, todo, fresh, live,
                   orphans, admissions, faults>>

\* The process dies, or exits: its locks go, what it supervised is lost.
Crash(p) ==
    /\ lease[p] # "none" \/ at[p] # "idle"
    /\ faults < MaxFaults
    /\ faults' = faults + 1
    /\ txn' = IF txn = p THEN None ELSE txn
    /\ lease' = [lease EXCEPT ![p] = "none"]
    /\ at' = [at EXCEPT ![p] = "idle"]
    /\ kind' = [kind EXCEPT ![p] = "none"]
    /\ todo' = [todo EXCEPT ![p] = {}]
    /\ fresh' = [fresh EXCEPT ![p] = None]
    /\ live' = [live EXCEPT ![p] = {}]
    /\ orphans' = [orphans EXCEPT ![p] = {}]
    /\ UNCHANGED <<threads, turns, workThreads, admissions>>

\* A service that runs no turn is dropped and its lease with it.
Drop(p) ==
    /\ at[p] = "idle"
    /\ lease[p] = "shared"
    /\ live[p] = {}
    /\ lease' = [lease EXCEPT ![p] = "none"]
    /\ orphans' = [orphans EXCEPT ![p] = {}]
    /\ UNCHANGED <<threads, turns, workThreads, txn, at, kind, todo, fresh,
                   live, admissions, faults>>

\* Mutant of Release: a turn is an orphan before its task is over.
ReleaseRunning(p, t) ==
    /\ t \in live[p]
    /\ orphans' = [orphans EXCEPT ![p] = @ \cup {t}]
    /\ UNCHANGED <<threads, turns, workThreads, txn, lease, at, kind, todo,
                   fresh, live, admissions, faults>>

\* The task of a turn is over (run_and_close, or a registration that
\* failed): a turn whose closing row reported an error is kept as an orphan.
Release(p, t) ==
    /\ t \in live[p]
    /\ live' = [live EXCEPT ![p] = @ \ {t}]
    /\ \/ orphans' = [orphans EXCEPT ![p] = @ \cup {t}]
       \/ IsTerminal(turns[t]) /\ UNCHANGED orphans
    /\ UNCHANGED <<threads, turns, workThreads, txn, lease, at, kind, todo,
                   fresh, admissions, faults>>

Step(p) ==
    \/ LockTransaction(p)
    \/ Read(p)
    \/ \E e \in todo[p] : Append(p, e)
    \/ Finish(p)
    \/ RestoreShared(p)

Next ==
    \E p \in Procs :
        \/ \E k \in Operations : BeginWrite(p, k)
        \/ BeginRecovery(p)
        \/ RecoveryDenied(p)
        \/ Step(p)
        \/ StorageError(p)
        \/ \E e \in todo[p] : UnreportedAppend(p, e)
        \/ Crash(p)
        \/ Drop(p)
        \/ \E t \in live[p] : Release(p, t)

Spec == Init /\ [][Next]_vars

\* A process that entered the journal's critical section keeps running
\* until it leaves it or crashes.
FairSpec == Spec /\ \A p \in Procs : WF_vars(Step(p))

-----------------------------------------------------------------------------
(* Properties.                                                             *)

\* Exactly-once admission: however many processes submit the same request,
\* and whatever crashes or fails in between, at most one submission is
\* reported as not a duplicate, so at most one caller runs the turn; and a
\* turn that was admitted has its intake rows in the journal (start_turn
\* returns duplicate: false only after the user message is durable).
AdmittedOnce ==
    \A t \in Turns :
        /\ admissions[t] <= 1
        /\ admissions[t] = 1 =>
               turns[t].status # "absent" /\ turns[t].userMessage

\* The rows a writer decided on from its materialized view are still rows
\* the fold takes when they are appended: no other process got between the
\* read and the append.  append_event may also repeat a tool or approval
\* request that is already pending, which the write guard lets through and
\* the fold ignores.
DecisionStillValid ==
    \A p \in Procs : at[p] = "append" =>
        \A e \in NextRows(p) :
            (e.turn # None /\ e.kind \notin {"tool_call_started",
                                            "approval_requested"})
            => Folds(turns[e.turn], e)

\* Restart recovery is alone: while a process holds the exclusive activity
\* lease no process supervises a turn and no other process is between
\* taking the transaction lock and releasing it, so a row of recovery never
\* closes a turn somebody is still running.
RecoveryIsAlone ==
    \A p \in Procs : lease[p] = "exclusive" =>
        \A q \in Procs :
            /\ live[q] = {}
            /\ q # p => at[q] \notin {"lock", "read", "append"}

\* Recovery is complete and closes nothing twice: inside its exclusive
\* section the turns still open are exactly the ones it has rows for, so
\* when it returns without an error no turn is open and a second pass has
\* nothing to do ("Idempotent", doc of recover_interrupted).
RecoveryCoversOpenTurns ==
    \A p \in Procs :
        (at[p] = "append" /\ kind[p] = "recover_interrupted") =>
            OpenTurns = {e.turn : e \in todo[p]}

ContractKept(turn) ==
    IsTerminal(turn) =>
        (turn.cancelRequested <=>
            turn.status = "interrupted" /\ turn.reason = "OPERATOR_CANCELLED")

\* The cancellation contract: a turn whose cancellation was requested
\* closes as interrupted with reason OPERATOR_CANCELLED and no other way,
\* on the writer's path, the recovery path and the orphan path; and no
\* turn claims that reason without a durable request.
CancellationContract == \A t \in Turns : ContractKept(turns[t])

\* A turn's Work scope is linked to the turn's thread: the scope checked in
\* the materialized view still holds in the journal the turn landed in.
WorkScopeLinked ==
    \A t \in Turns :
        turns[t].status # "absent" =>
            WorkLinked(workThreads, turns[t].binding.work, ThreadOf[t])

HistoryKept(old, new) ==
    /\ IsTerminal(old) => new = old
    /\ old.status # "absent" =>
           /\ new.status # "absent"
           /\ new.binding = old.binding
           /\ old.cancelRequested => new.cancelRequested
           /\ old.userMessage => new.userMessage

\* A closed turn is final and an open one keeps its binding: no writer,
\* retry or recovery changes a terminal turn, forgets a requested
\* cancellation or a durable user message, or rebinds a turn to another
\* prompt, policy or Work.
TurnHistoryIsStable ==
    [][\A t \in Turns : HistoryKept(turns[t], turns'[t])]_vars

\* What an observer of TurnLedger sees of a folded turn.
Ending(turn) == IF turn.status = "interrupted" THEN turn.reason ELSE turn.status

LedgerState == [t \in Turns |-> Ending(turns[t])]
Asked == {t \in Turns : turns[t].cancelRequested}
Admitted == {t \in Turns : admissions[t] > 0}
Running == UNION {live[p] : p \in Procs}

Ledger == INSTANCE TurnLedger WITH state <- LedgerState, asked <- Asked,
                                   admitted <- Admitted, running <- Running

\* The service implements the ledger of turns: through any interleaving,
\* crash or storage error a turn is opened, handed out while open and at
\* most once, closed once, closed as cancelled exactly when that was asked,
\* and closed as lost (RUNTIME_RESTART) only when no process runs it.
ImplementsLedger == Ledger!Spec

\* Nobody waits on everybody: the transaction lock and the exclusive lease
\* are always given back, whatever the other processes do.
LocksAreReleased ==
    \A p \in Procs : []<>(txn # p /\ lease[p] # "exclusive")
=============================================================================
