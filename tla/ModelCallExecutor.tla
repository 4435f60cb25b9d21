-------------------------- MODULE ModelCallExecutor --------------------------
(***************************************************************************)
(* ModelCallExecutor::execute (apps/heiwa_shell/src/model_calls.rs): one   *)
(* model stage of a turn.  Up to MaxAttempts routes are planned, attempted *)
(* and settled; each of these is a row appended to the turn before the     *)
(* next step, and an append that is refused or fails ends the stage.       *)
(*                                                                         *)
(* The stage runs on behalf of turn t.  It starts at "execute" and ends at *)
(* "answered" or "failed"; the module that extends this one supplies what  *)
(* comes before and after.  append_event is one step here: the checks of   *)
(* OperatorSession show that the decision it makes is still valid when the *)
(* row lands.  Budgets and the ranking of candidates are left out: every   *)
(* planning result is possible.                                            *)
(***************************************************************************)
EXTENDS OperatorTurns

CONSTANTS
    MaxAttempts,  \* provider attempts in one stage, at most 3
    MaxFaults     \* bound: storage errors and restarts in a behaviour

ASSUME MaxAttemptsAssumption == MaxAttempts \in 1..3

ASSUME FaultBoundAssumption == MaxFaults \in Nat

ASSUME NoteAssumption == None \notin {"attempt", "outcome"}

VARIABLES
    turns,        \* the folded turns of the journal
    openAttempt,  \* ProviderExecutionFold: attempts without an outcome row
    pc,           \* where the task that runs a turn is
    attempt,      \* attempts made in the current stage
    err,          \* "cancelled" when the stage ended with that error
    signal,       \* the turn's cancellation watch channel
    faults        \* faults so far

executorVars == <<turns, openAttempt, pc, attempt, err, signal, faults>>

StageLocations == {"execute", "plan", "select", "adapter", "completed",
                   "retry", "stop", "cancelled", "answered", "failed"}

ExecutorTypeOK ==
    /\ turns \in [Turns -> Turn]
    /\ openAttempt \in [Turns -> BOOLEAN]
    /\ attempt \in [Turns -> 0..MaxAttempts]
    /\ err \in [Turns -> {"none", "cancelled", "other"}]
    /\ signal \in [Turns -> BOOLEAN]
    /\ faults \in 0..MaxFaults

ExecutorInit ==
    /\ turns = [t \in Turns |-> AbsentTurn]
    /\ openAttempt = [t \in Turns |-> FALSE]
    /\ attempt = [t \in Turns |-> 0]
    /\ err = [t \in Turns |-> "none"]
    /\ signal = [t \in Turns |-> FALSE]
    /\ faults = 0

-----------------------------------------------------------------------------
(* Appending a row about a turn.                                           *)

Row(k, t, c, n) == TurnEvent(k, t, c, n, turns[t].binding)

Touch(t) == Row("touch", t, None, None)

Admitted(t, e) == Admits([w \in Works |-> Threads], turns[t], e)

\* The row reaches the journal, and the route fold with it.
Lands(t, e) ==
    /\ turns' = [turns EXCEPT ![t] = Fold(@, e)]
    /\ openAttempt' = [openAttempt EXCEPT
                         ![t] = (@ \/ e.note = "attempt") /\ e.note # "outcome"]

\* append_event returns the row and the task goes on at next.
Accepted(t, e, next) ==
    /\ Admitted(t, e)
    /\ Lands(t, e)
    /\ pc' = [pc EXCEPT ![t] = next]
    /\ UNCHANGED <<err, faults>>

\* append_event returns an error: the row was rejected, or the storage
\* failed before or after the row was written.
Rejected(t, e) ==
    \/ ~Admitted(t, e) /\ UNCHANGED <<turns, openAttempt, faults>>
    \/ /\ Admitted(t, e)
       /\ faults < MaxFaults
       /\ faults' = faults + 1
       /\ Lands(t, e) \/ UNCHANGED <<turns, openAttempt>>

\* The error leaves the stage or the turn with `?`.
FailsWith(t, e, error) ==
    /\ Rejected(t, e)
    /\ pc' = [pc EXCEPT ![t] = "failed"]
    /\ err' = [err EXCEPT ![t] = error]

Appends(t, e, next) == Accepted(t, e, next) \/ FailsWith(t, e, "other")

\* A last row, then the error; if the row fails, its error instead.
EndsWith(t, e, error) ==
    \/ /\ Admitted(t, e)
       /\ Lands(t, e)
       /\ pc' = [pc EXCEPT ![t] = "failed"]
       /\ err' = [err EXCEPT ![t] = error]
       /\ UNCHANGED faults
    \/ FailsWith(t, e, "other")

Fails(t, error) ==
    /\ pc' = [pc EXCEPT ![t] = "failed"]
    /\ err' = [err EXCEPT ![t] = error]
    /\ UNCHANGED <<turns, openAttempt, faults>>

Goes(t, next) ==
    /\ pc' = [pc EXCEPT ![t] = next]
    /\ UNCHANGED <<turns, openAttempt, err, faults>>

-----------------------------------------------------------------------------
(* The stage.                                                              *)

\* The checks before the loop: a turn already cancelled costs nothing; a
\* provider registry that cannot be read is an error.
EnterStage(t) ==
    /\ pc[t] = "execute"
    /\ \/ signal[t] /\ Fails(t, "cancelled")
       \/ ~signal[t] /\ (Goes(t, "plan") \/ Fails(t, "other"))
    /\ attempt' = [attempt EXCEPT ![t] = 0]
    /\ UNCHANGED signal

\* Top of the loop: attempts left and a plan, whose row is appended.
PlanRoute(t) ==
    /\ pc[t] = "plan"
    /\ \/ attempt[t] < MaxAttempts /\ Appends(t, Touch(t), "select")
       \/ Fails(t, "other")
    /\ UNCHANGED <<attempt, signal>>

\* No admissible candidate ends the stage; otherwise the attempt is made
\* durable before the provider is called.
AttemptRoute(t) ==
    /\ pc[t] = "select"
    /\ \/ Fails(t, "other") /\ UNCHANGED attempt
       \/ /\ Appends(t, Row("touch", t, None, "attempt"), "adapter")
          /\ attempt' = [attempt EXCEPT ![t] = @ + 1]
    /\ UNCHANGED signal

\* The provider, or the resolver, answers: a result, a failure after which
\* another route may be tried ("retry"), or one after tokens were already
\* emitted ("stop").
AdapterReturns(t) ==
    /\ pc[t] = "adapter"
    /\ \E outcome \in {"completed", "retry", "stop"} : Goes(t, outcome)
    /\ UNCHANGED <<attempt, signal>>

\* Mutant of AdapterCancelled: only seen once the provider answered.
AdapterCancelledLate(t) ==
    /\ pc[t] = "retry"
    /\ signal[t]
    /\ Goes(t, "cancelled")
    /\ UNCHANGED <<attempt, signal>>

\* The cancellation branch of run_adapter's select, or its entry check.
AdapterCancelled(t) ==
    /\ pc[t] = "adapter"
    /\ signal[t]
    /\ Goes(t, "cancelled")
    /\ UNCHANGED <<attempt, signal>>

Outcome(t) == Row("touch", t, None, "outcome")

\* RouteCompleted: the stage has its answer.
RouteCompleted(t) ==
    /\ pc[t] = "completed"
    /\ Appends(t, Outcome(t), "answered")
    /\ UNCHANGED <<attempt, signal>>

\* Mutant of RouteFailed: a failure after tokens has no outcome row.
RouteFailedUnrecorded(t) ==
    /\ \/ pc[t] = "retry" /\ Appends(t, Outcome(t), "plan")
       \/ pc[t] = "stop" /\ Fails(t, "other")
    /\ UNCHANGED <<attempt, signal>>

\* append_failure: RouteFailed, then another route or the end of the stage.
RouteFailed(t) ==
    /\ \/ pc[t] = "retry" /\ Appends(t, Outcome(t), "plan")
       \/ pc[t] = "stop" /\ EndsWith(t, Outcome(t), "other")
    /\ UNCHANGED <<attempt, signal>>

\* append_cancelled_attempt: RouteFailed for an attempt cut short.
RouteCancelled(t) ==
    /\ pc[t] = "cancelled"
    /\ EndsWith(t, Outcome(t), "cancelled")
    /\ UNCHANGED <<attempt, signal>>

\* Steps of the task itself, and steps that wait for the provider.
StageStep(t) ==
    \/ EnterStage(t)
    \/ PlanRoute(t)
    \/ AttemptRoute(t)
    \/ AdapterCancelled(t)
    \/ RouteCompleted(t)
    \/ RouteFailed(t)
    \/ RouteCancelled(t)
=============================================================================
