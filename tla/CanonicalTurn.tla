---------------------------- MODULE CanonicalTurn ----------------------------
(***************************************************************************)
(* A loop runs its iterations as canonical turns: LoopController::run      *)
(* (crates/heiwa_loop/src/lib.rs) calls ExecutorLoopCaller::call, which    *)
(* admits a turn with start_turn and runs execute_canonical_turn           *)
(* (apps/heiwa_shell/src/model_calls.rs) on it.  LoopController::cancel    *)
(* raises the watch channel every iteration subscribes to; it appends no   *)
(* cancellation row to the journal.                                        *)
(***************************************************************************)
EXTENDS ModelCallExecutor

VARIABLE
    loop   \* the loop's status: running, finished, cancelled or error

loopVars == <<executorVars, loop>>

LoopTypeOK ==
    /\ ExecutorTypeOK
    /\ pc \in [Turns -> StageLocations \cup {"idle", "assistant", "text",
                                             "returned"}]
    /\ loop \in {"running", "finished", "cancelled", "error"}

LoopInit ==
    /\ ExecutorInit
    /\ pc = [t \in Turns |-> "idle"]
    /\ loop = "running"

\* One iteration at a time.
Between == \A t \in Turns : pc[t] \in {"idle", "returned"}

LoopCancelled == \E t \in Turns : signal[t]

\* LoopController::cancel: one channel for all iterations.
Cancel ==
    /\ loop = "running"
    /\ signal' = [t \in Turns |-> TRUE]
    /\ UNCHANGED <<turns, openAttempt, pc, attempt, err, faults, loop>>

\* The next iteration, unless the last call returned an error: start_turn
\* admits its turn.
Iterate(t) ==
    /\ loop = "running"
    /\ Between
    /\ ~LoopCancelled
    /\ \A u \in Turns : err[u] = "none"
    /\ pc[t] = "idle"
    /\ turns' = [turns EXCEPT ![t] =
                   [AbsentTurn EXCEPT !.status = "open",
                                      !.userMessage = TRUE]]
    /\ pc' = [pc EXCEPT ![t] = "assistant"]
    /\ UNCHANGED <<openAttempt, attempt, err, signal, faults, loop>>

\* An append outside the stage fails: the call returns its error.
Returns(t, e) ==
    /\ Rejected(t, e)
    /\ pc' = [pc EXCEPT ![t] = "returned"]
    /\ err' = [err EXCEPT ![t] = "other"]

\* execute_canonical_turn opens with assistant_started.
Started(t) ==
    /\ pc[t] = "assistant"
    /\ Accepted(t, Touch(t), "execute") \/ Returns(t, Touch(t))
    /\ UNCHANGED <<attempt, signal, loop>>

\* A model answer: assistant_completed, then turn_completed.
AssistantCompleted(t) ==
    /\ pc[t] = "answered"
    /\ Accepted(t, Touch(t), "text") \/ Returns(t, Touch(t))
    /\ UNCHANGED <<attempt, signal, loop>>

TurnCompleted(t) ==
    /\ pc[t] = "text"
    /\ LET e == Row("turn_completed", t, None, None)
       IN Accepted(t, e, "returned") \/ Returns(t, e)
    /\ UNCHANGED <<attempt, signal, loop>>

\* Mutant of Interrupt: a stage that failed for good closes nothing.
InterruptCancelledOnly(t) ==
    /\ pc[t] = "failed"
    /\ LET e == Row("turn_interrupted", t, None, "OPERATOR_CANCELLED")
       IN \/ Admitted(t, e) /\ Lands(t, e) /\ UNCHANGED faults
          \/ Rejected(t, e)
    /\ pc' = [pc EXCEPT ![t] = "returned"]
    /\ UNCHANGED <<attempt, err, signal, loop>>

\* A failed stage closes the turn with the reason its error implies.
Interrupt(t) ==
    /\ pc[t] = "failed"
    /\ LET e == Row("turn_interrupted", t, None,
                    IF err[t] = "cancelled" THEN "OPERATOR_CANCELLED"
                                            ELSE "EXECUTION_FAILED")
       IN \/ Admitted(t, e) /\ Lands(t, e) /\ UNCHANGED faults
          \/ Rejected(t, e)
    /\ pc' = [pc EXCEPT ![t] = "returned"]
    /\ UNCHANGED <<attempt, err, signal, loop>>

\* Between iterations the loop ends: cancelled; with the error of its last
\* call, of its configuration or of a cost; or because its iterations or its
\* budget are used up.
EndLoop ==
    /\ loop = "running"
    /\ Between
    /\ \/ LoopCancelled /\ loop' = "cancelled"
       \/ loop' = "error"
       \/ (\A t \in Turns : err[t] = "none") /\ loop' = "finished"
    /\ UNCHANGED executorVars

CallStep(t) ==
    \/ Started(t)
    \/ StageStep(t) /\ UNCHANGED loop
    \/ AssistantCompleted(t)
    \/ TurnCompleted(t)
    \/ Interrupt(t)

LoopNext ==
    \/ Cancel
    \/ EndLoop
    \/ \E t \in Turns :
        \/ Iterate(t)
        \/ CallStep(t)
        \/ AdapterReturns(t) /\ UNCHANGED loop

\* The task and the loop run on; a provider answers or never does.
LoopSpec == LoopInit /\ [][LoopNext]_loopVars
LoopFairSpec == LoopSpec /\ WF_loopVars(EndLoop)
                 /\ \A t \in Turns : WF_loopVars(CallStep(t))

-----------------------------------------------------------------------------
(* Properties.                                                             *)

\* execute_canonical_turn closes its turn on every path on which nothing
\* was cancelled and no append failed, and a turn that completed has an
\* outcome row for every attempt it made.
ClosedUnlessCancelled ==
    \A t \in Turns :
        pc[t] = "returned" =>
            /\ (~signal[t] /\ faults = 0) => IsTerminal(turns[t])
            /\ turns[t].status = "completed" => ~openAttempt[t]

\* A cancelled loop ends even if its provider never answers: run_adapter's
\* cancellation branch needs no provider event.
CancelledLoopEnds == LoopCancelled ~> loop # "running"
=============================================================================
