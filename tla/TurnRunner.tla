----------------------------- MODULE TurnRunner -----------------------------
(***************************************************************************)
(* OperatorTurnRunner (apps/heiwa_shell/src/operator.rs): the app server   *)
(* admits turns, runs each on a task of its own and closes it.             *)
(*                                                                         *)
(* Three kinds of actors interleave: the callers of submit, the callers of *)
(* request_cancel (synchronous, on their own threads) and one task per     *)
(* admitted turn.  request_cancel first appends the cancellation intent    *)
(* and then raises the task's watch channel: these are two steps, and the  *)
(* task runs between them.  Appends are refused while an intent is         *)
(* pending, so the task may learn of it from a refused row before it sees  *)
(* the channel.                                                            *)
(*                                                                         *)
(* A Work-scoped model turn is offered to the shadow observer; here every  *)
(* model turn is.  Frames to clients are not modelled: a client that       *)
(* keeps its handle is taken to drain it.                                  *)
(***************************************************************************)
EXTENDS ModelCallExecutor

VARIABLES
    active,      \* ActiveTurnRegistry
    scopes,      \* active_scopes: what request_cancel looks at
    orphans,     \* recoverable_orphans
    cancelling,  \* where the request_cancel call about a turn is
    plan,        \* tool calls of the model's answer still to run
    call,        \* the tool call in hand
    outcome,     \* its approval outcome
    followUp,    \* the second model stage of a turn with tools
    shadow,      \* turns whose request was captured for the observer
    effects,     \* tool calls whose execution began
    granted,     \* tool calls whose approval is in the journal
    observed,    \* turns handed to the shadow observer
    refused      \* retries refused as owned by another runtime

runnerVars == <<active, scopes, orphans, cancelling, plan, call, outcome,
                followUp, shadow, effects, granted, observed, refused>>
taskVars == <<plan, call, outcome, followUp, shadow, effects, granted>>
registryVars == <<active, scopes, orphans, cancelling, observed, refused>>
vars == <<executorVars, runnerVars>>

Locations == StageLocations \cup
    {"idle", "prepare", "assistant", "work", "planned", "tools",
     "approval", "wait", "waitCancelled", "decide", "run", "running",
     "output", "settle", "uncertain", "finish", "receipt", "complete",
     "closeCancelled", "closeFailed", "observe", "release", "released"}

TypeOK ==
    /\ ExecutorTypeOK
    /\ pc \in [Turns -> Locations]
    /\ active \subseteq Turns /\ scopes \subseteq Turns
    /\ orphans \subseteq Turns
    /\ cancelling \in [Turns -> {"no", "scoped", "durable"}]
    /\ observed \subseteq Turns /\ refused \subseteq Turns
    /\ shadow \subseteq Turns
    /\ plan \in [Turns -> SUBSET Calls]
    /\ call \in [Turns -> Calls \cup {None}]
    /\ outcome \in [Turns -> {"auto_approved", "approved", "denied", None}]
    /\ followUp \in [Turns -> BOOLEAN]
    /\ effects \in [Turns -> SUBSET Calls]
    /\ granted \in [Turns -> SUBSET Calls]

Init ==
    /\ ExecutorInit
    /\ pc = [t \in Turns |-> "idle"]
    /\ active = {} /\ scopes = {} /\ orphans = {}
    /\ cancelling = [t \in Turns |-> "no"]
    /\ observed = {} /\ refused = {} /\ shadow = {}
    /\ plan = [t \in Turns |-> {}]
    /\ call = [t \in Turns |-> None]
    /\ outcome = [t \in Turns |-> None]
    /\ followUp = [t \in Turns |-> FALSE]
    /\ effects = [t \in Turns |-> {}]
    /\ granted = [t \in Turns |-> {}]

-----------------------------------------------------------------------------
(* Submissions.                                                            *)

Opened == [AbsentTurn EXCEPT !.status = "open"]

\* A request seen for the first time: start_turn makes it durable, then the
\* turn is registered and its task spawned.
Submit(t) ==
    /\ turns[t].status = "absent"
    /\ turns' = [turns EXCEPT ![t] = [Opened EXCEPT !.userMessage = TRUE]]
    /\ pc' = [pc EXCEPT ![t] = "prepare"]
    /\ active' = active \cup {t}
    /\ scopes' = scopes \cup {t}
    /\ UNCHANGED <<openAttempt, attempt, err, signal, faults, orphans,
                   cancelling, observed, refused, taskVars>>

\* start_turn returns a storage error: after turn_started, with or without
\* the user message in the journal.  No task is spawned.
SubmitFails(t) ==
    /\ turns[t].status = "absent"
    /\ faults < MaxFaults
    /\ faults' = faults + 1
    /\ \E landed \in BOOLEAN :
        turns' = [turns EXCEPT ![t] = [Opened EXCEPT !.userMessage = landed]]
    /\ UNCHANGED <<openAttempt, pc, attempt, err, signal, runnerVars>>

\* The admitted turn cannot be registered: it is closed at once, or kept as
\* an orphan if that fails too (repair_failed_registration).
RegistrationFails(t) ==
    /\ turns[t].status = "absent"
    /\ faults < MaxFaults
    /\ faults' = faults + 1
    /\ LET open == [Opened EXCEPT !.userMessage = TRUE] IN
       \/ /\ turns' = [turns EXCEPT ![t] = Fold(open, RecoveryClose(t, open))]
          /\ UNCHANGED orphans
       \/ /\ turns' = [turns EXCEPT ![t] = open]
          /\ orphans' = orphans \cup {t}
    /\ pc' = [pc EXCEPT ![t] = "released"]
    /\ UNCHANGED <<openAttempt, attempt, err, signal, active, scopes,
                   cancelling, observed, refused, taskVars>>

\* A retry, with its binding, of an open turn this runner neither runs nor
\* keeps as an orphan: start_turn appends the user message if it never
\* landed, and submit then refuses the turn as another runtime's.
RefuseRetry(t) ==
    /\ turns[t].status = "open"
    /\ t \notin active \cup orphans
    /\ turns[t].userMessage \/ ~turns[t].cancelRequested
    /\ turns' = [turns EXCEPT ![t].userMessage = TRUE]
    /\ refused' = refused \cup {t}
    /\ UNCHANGED <<openAttempt, pc, attempt, err, signal, faults, active,
                   scopes, orphans, cancelling, observed, taskVars>>

\* Mutant of CloseOrphan: any duplicate of an open turn is recovered.
CloseOrphanOrDuplicate(t) ==
    /\ turns[t].status = "open"
    /\ Lands(t, RecoveryClose(t, turns[t]))
    /\ orphans' = orphans \ {t}
    /\ UNCHANGED <<pc, attempt, err, signal, faults, active, scopes,
                   cancelling, observed, refused, taskVars>>

\* A retry of an orphan closes it with recover_proven_orphan; if that fails
\* the turn stays an orphan.  A retry of a running turn only watches it.
CloseOrphan(t) ==
    /\ t \in orphans
    /\ t \notin active
    /\ LET e == RecoveryClose(t, turns[t]) IN
       \/ /\ IF IsTerminal(turns[t]) THEN UNCHANGED <<turns, openAttempt>>
             ELSE Lands(t, e)
          /\ orphans' = orphans \ {t}
          /\ UNCHANGED faults
       \/ /\ faults < MaxFaults
          /\ faults' = faults + 1
          /\ Lands(t, e) \/ UNCHANGED <<turns, openAttempt>>
          /\ UNCHANGED orphans
    /\ UNCHANGED <<pc, attempt, err, signal, active, scopes, cancelling,
                   observed, refused, taskVars>>

-----------------------------------------------------------------------------
(* Cancellation.                                                           *)

\* request_cancel clones the scope of a registered turn ...
RequestCancel(t) ==
    /\ cancelling[t] = "no"
    /\ t \in scopes
    /\ cancelling' = [cancelling EXCEPT ![t] = "scoped"]
    /\ UNCHANGED <<executorVars, active, scopes, orphans, observed, refused,
                   taskVars>>

CancelRow(t) == Row("turn_cancel_requested", t, None, None)

\* ... makes the intent durable, whatever became of the task meanwhile ...
CancelDurable(t) ==
    /\ cancelling[t] = "scoped"
    /\ Admitted(t, CancelRow(t))
    /\ Lands(t, CancelRow(t))
    /\ cancelling' = [cancelling EXCEPT ![t] = "durable"]
    /\ UNCHANGED <<pc, attempt, err, signal, faults, active, scopes, orphans,
                   observed, refused, taskVars>>

\* ... and raises the channel of the turn if it is still registered.
SignalCancel(t) ==
    /\ cancelling[t] = "durable"
    /\ cancelling' = [cancelling EXCEPT ![t] = "no"]
    /\ signal' = [signal EXCEPT ![t] = @ \/ t \in active]
    /\ UNCHANGED <<turns, openAttempt, pc, attempt, err, faults, active,
                   scopes, orphans, observed, refused, taskVars>>

\* The append reports an error.  A turn that closed meanwhile loses its
\* scope; otherwise the error is returned and no signal follows, although
\* the intent may have been written.
CancelRefused(t) ==
    /\ cancelling[t] = "scoped"
    /\ Rejected(t, CancelRow(t))
    /\ cancelling' = [cancelling EXCEPT ![t] = "no"]
    /\ scopes' = IF IsTerminal(turns[t]) THEN scopes \ {t} ELSE scopes
    /\ UNCHANGED <<pc, attempt, err, signal, active, orphans, observed,
                   refused, taskVars>>

-----------------------------------------------------------------------------
(* The task of a turn: run_and_close, run_turn, execute_model.             *)

\* Preparation races the channel; cancellation is polled first.
PrepareCancelled(t) ==
    /\ pc[t] = "prepare"
    /\ signal[t]
    /\ Fails(t, "other")
    /\ UNCHANGED <<attempt, signal, runnerVars>>

Prepared(t) ==
    /\ pc[t] = "prepare"
    /\ ~signal[t]
    /\ Goes(t, "assistant") \/ Fails(t, "other")
    /\ UNCHANGED <<attempt, signal, runnerVars>>

AssistantStarted(t) ==
    /\ pc[t] = "assistant"
    /\ Appends(t, Touch(t), "work")
    /\ UNCHANGED <<attempt, signal, runnerVars>>

\* A deterministic answer plans and completes its route by itself; a model
\* turn applies the route policy, which may be contradictory.
RunTurn(t) ==
    /\ pc[t] = "work"
    /\ \/ Appends(t, Touch(t), "planned") /\ UNCHANGED shadow
       \/ Goes(t, "execute") /\ shadow' = shadow \cup {t}
       \/ Fails(t, "other") /\ UNCHANGED shadow
    /\ UNCHANGED <<attempt, signal, registryVars, plan, call, outcome,
                   followUp, effects, granted>>

DeterministicRoute(t) ==
    /\ pc[t] = "planned"
    /\ Appends(t, Touch(t), "finish")
    /\ UNCHANGED <<attempt, signal, runnerVars>>

\* While the stage streams, and once it has answered, its rows are read back
\* and published; a read that fails drops the stage where it is.
StreamFails(t) ==
    /\ pc[t] \in {"adapter", "answered"}
    /\ faults < MaxFaults
    /\ faults' = faults + 1
    /\ pc' = [pc EXCEPT ![t] = "failed"]
    /\ err' = [err EXCEPT ![t] = "other"]
    /\ UNCHANGED <<turns, openAttempt, attempt, signal, runnerVars>>

\* A stage answered.  The first answer may ask for tools; a cost the turn's
\* budget does not cover fails the turn.
StageAnswered(t) ==
    /\ pc[t] = "answered"
    /\ \/ Goes(t, "finish") /\ UNCHANGED plan
       \/ /\ ~followUp[t]
          /\ \E asked \in SUBSET Calls \ {{}} :
                plan' = [plan EXCEPT ![t] = asked]
          /\ Goes(t, "tools")
       \/ ~followUp[t] /\ Fails(t, "other") /\ UNCHANGED plan
    /\ UNCHANGED <<attempt, signal, registryVars, shadow, call, outcome,
                   followUp, effects, granted>>

\* Next tool call: its start is durable before anything else is done.
ToolCallStarted(t) ==
    /\ pc[t] = "tools"
    /\ \E c \in plan[t] :
        /\ call' = [call EXCEPT ![t] = c]
        /\ \/ signal[t] /\ Fails(t, "other")
           \/ /\ ~signal[t]
              /\ Appends(t, Row("tool_call_started", t, c, None), "approval")
    /\ UNCHANGED <<attempt, signal, registryVars, shadow, plan, outcome,
                   followUp, effects, granted>>

\* No call left: the follow-up stage.
FollowUp(t) ==
    /\ pc[t] = "tools"
    /\ plan[t] = {}
    /\ \/ signal[t] /\ Fails(t, "other")
       \/ ~signal[t] /\ Goes(t, "execute")
    /\ followUp' = [followUp EXCEPT ![t] = TRUE]
    /\ UNCHANGED <<attempt, signal, registryVars, shadow, plan, call,
                   outcome, effects, granted>>

\* DREX decides whether the call needs an operator; the request is durable
\* before the operator is asked.  An ungated call has no request id, hence
\* no approval key.
ApprovalRequested(t) ==
    /\ pc[t] = "approval"
    /\ \/ /\ Appends(t, Row("approval_requested", t, call[t], None), "wait")
          /\ outcome' = [outcome EXCEPT ![t] = None]
       \/ /\ Appends(t, Row("approval_requested", t, None, None), "decide")
          /\ outcome' = [outcome EXCEPT ![t] = "auto_approved"]
    /\ UNCHANGED <<attempt, signal, registryVars, shadow, plan, call,
                   followUp, effects, granted>>

\* The operator answers or the wait times out; or the packet cannot be
\* staged, or the waiter dies.
ApprovalAnswered(t) ==
    /\ pc[t] = "wait"
    /\ \/ \E answer \in {"approved", "denied"} :
            /\ outcome' = [outcome EXCEPT ![t] = answer]
            /\ Goes(t, "decide")
       \/ Fails(t, "other") /\ UNCHANGED outcome
    /\ UNCHANGED <<attempt, signal, registryVars, shadow, plan, call,
                   followUp, effects, granted>>

ApprovalWaitCancelled(t) ==
    /\ pc[t] = "wait"
    /\ signal[t]
    /\ Goes(t, "waitCancelled") \/ Fails(t, "other")
    /\ UNCHANGED <<attempt, signal, runnerVars>>

\* The audit row of an approval wait that was cancelled.
ApprovalCancelled(t) ==
    /\ pc[t] = "waitCancelled"
    /\ EndsWith(t, Row("approval_decided", t, call[t], "cancelled"), "other")
    /\ UNCHANGED <<attempt, signal, runnerVars>>

\* The decision is durable before the tool may run.
ApprovalDecided(t) ==
    /\ pc[t] = "decide"
    /\ LET key == IF outcome[t] = "auto_approved" THEN None ELSE call[t]
           e == Row("approval_decided", t, key, outcome[t])
       IN \/ outcome[t] = "denied" /\ EndsWith(t, e, "other")
          \/ outcome[t] # "denied" /\ Appends(t, e, "run")
    /\ granted' = IF pc'[t] = "run"
                  THEN [granted EXCEPT ![t] = @ \cup {call[t]}] ELSE granted
    /\ UNCHANGED <<attempt, signal, registryVars, shadow, plan, call,
                   outcome, followUp, effects>>

\* Mutant of ExecuteTool: the channel is not read again before the tool.
ExecuteToolUnchecked(t) ==
    /\ pc[t] = "run"
    /\ Goes(t, "running")
    /\ effects' = [effects EXCEPT ![t] = @ \cup {call[t]}]
    /\ UNCHANGED <<attempt, signal, registryVars, shadow, plan, call,
                   outcome, followUp, granted>>

ExecuteTool(t) ==
    /\ pc[t] = "run"
    /\ \/ signal[t] /\ Fails(t, "other") /\ UNCHANGED effects
       \/ /\ ~signal[t]
          /\ Goes(t, "running")
          /\ effects' = [effects EXCEPT ![t] = @ \cup {call[t]}]
    /\ UNCHANGED <<attempt, signal, registryVars, shadow, plan, call,
                   outcome, followUp, granted>>

ToolReturns(t) ==
    /\ pc[t] = "running"
    /\ Goes(t, "output") \/ Fails(t, "other")
    /\ UNCHANGED <<attempt, signal, runnerVars>>

\* Mutant of ToolCancelled: a running tool is waited for.
ToolCancelledLate(t) ==
    /\ pc[t] = "output"
    /\ signal[t]
    /\ Goes(t, "uncertain")
    /\ UNCHANGED <<attempt, signal, runnerVars>>

ToolCancelled(t) ==
    /\ pc[t] = "running"
    /\ signal[t]
    /\ Goes(t, "uncertain")
    /\ UNCHANGED <<attempt, signal, runnerVars>>

\* The result is in hand: a cancellation seen now makes it uncertain; a
\* large output is stored and linked first; a sensitive one fails the turn.
PersistOutput(t) ==
    /\ pc[t] = "output"
    /\ \/ signal[t] /\ Goes(t, "uncertain")
       \/ /\ ~signal[t]
          /\ \/ Goes(t, "settle")
             \/ Appends(t, Touch(t), "settle")
             \/ Fails(t, "other")
    /\ UNCHANGED <<attempt, signal, runnerVars>>

\* Mutant of ToolCallCompleted: the row of a stored output stands for it.
ToolCallUnrecorded(t) ==
    /\ pc[t] = "settle"
    /\ Goes(t, "tools")
    /\ plan' = [plan EXCEPT ![t] = @ \ {call[t]}]
    /\ UNCHANGED <<attempt, signal, registryVars, shadow, call, outcome,
                   followUp, effects, granted>>

ToolCallCompleted(t) ==
    /\ pc[t] = "settle"
    /\ Appends(t, Row("tool_call_completed", t, call[t], "success"), "tools")
    /\ plan' = [plan EXCEPT ![t] = @ \ {call[t]}]
    /\ UNCHANGED <<attempt, signal, registryVars, shadow, call, outcome,
                   followUp, effects, granted>>

\* append_uncertain_tool_completion.
ToolCallUncertain(t) ==
    /\ pc[t] = "uncertain"
    /\ EndsWith(t, Row("tool_call_completed", t, call[t], "uncertain"),
                "other")
    /\ UNCHANGED <<attempt, signal, runnerVars>>

\* finish_turn: assistant_completed, receipt_linked, turn_completed.
FinishTurn(t) ==
    /\ \/ pc[t] = "finish" /\ Appends(t, Touch(t), "receipt")
       \/ pc[t] = "receipt" /\ Appends(t, Touch(t), "complete")
       \/ /\ pc[t] = "complete"
          /\ Appends(t, Row("turn_completed", t, None, None), "observe")
    /\ UNCHANGED <<attempt, signal, runnerVars>>

\* run_and_close after an error: the channel is read once to choose the
\* reason ...
ChooseReason(t) ==
    /\ pc[t] = "failed"
    /\ Goes(t, IF signal[t] THEN "closeCancelled" ELSE "closeFailed")
    /\ UNCHANGED <<attempt, signal, runnerVars>>

\* Mutant of CloseTurn: a turn that cannot be closed is forgotten.
CloseTurnOrForget(t) ==
    /\ pc[t] \in {"closeCancelled", "closeFailed"}
    /\ LET e == Row("turn_interrupted", t, None,
                    IF pc[t] = "closeCancelled" THEN "OPERATOR_CANCELLED"
                                                ELSE "EXECUTION_FAILED")
       IN \/ Accepted(t, e, "observe")
          \/ /\ Rejected(t, e)
             /\ pc' = [pc EXCEPT ![t] = "observe"]
             /\ UNCHANGED err
    /\ UNCHANGED <<attempt, signal, active, scopes, orphans, cancelling,
                   observed, refused, taskVars>>

\* ... and the closing row is appended; if it does not land the turn is
\* kept as a recoverable orphan.
CloseTurn(t) ==
    /\ pc[t] \in {"closeCancelled", "closeFailed"}
    /\ LET e == Row("turn_interrupted", t, None,
                    IF pc[t] = "closeCancelled" THEN "OPERATOR_CANCELLED"
                                                ELSE "EXECUTION_FAILED")
       IN \/ Accepted(t, e, "observe") /\ UNCHANGED orphans
          \/ /\ Rejected(t, e)
             /\ pc' = [pc EXCEPT ![t] = "observe"]
             /\ orphans' = orphans \cup {t}
             /\ UNCHANGED err
    /\ UNCHANGED <<attempt, signal, active, scopes, cancelling, observed,
                   refused, taskVars>>

\* The shadow observer is called before the turn leaves the registry.
Observe(t) ==
    /\ pc[t] = "observe"
    /\ observed' = observed \cup ({t} \cap shadow)
    /\ Goes(t, "release")
    /\ UNCHANGED <<attempt, signal, active, scopes, orphans, cancelling,
                   refused, taskVars>>

Release(t) ==
    /\ pc[t] = "release"
    /\ active' = active \ {t}
    /\ scopes' = scopes \ {t}
    /\ Goes(t, "released")
    /\ UNCHANGED <<attempt, signal, orphans, cancelling, observed, refused,
                   taskVars>>

-----------------------------------------------------------------------------
\* The process dies and comes back: heiwa app serve recovers every open turn
\* before it accepts a submission (OperatorSession).
Restart ==
    /\ faults < MaxFaults
    /\ faults' = faults + 1
    /\ turns' = [t \in Turns |->
                   IF turns[t].status = "open"
                   THEN Fold(turns[t], RecoveryClose(t, turns[t]))
                   ELSE turns[t]]
    /\ pc' = [t \in Turns |-> IF turns[t].status = "absent" THEN "idle"
                              ELSE "released"]
    /\ attempt' = [t \in Turns |-> 0]
    /\ err' = [t \in Turns |-> "none"]
    /\ signal' = [t \in Turns |-> FALSE]
    /\ active' = {} /\ scopes' = {} /\ orphans' = {}
    /\ cancelling' = [t \in Turns |-> "no"]
    /\ shadow' = {}
    /\ plan' = [t \in Turns |-> {}]
    /\ call' = [t \in Turns |-> None]
    /\ outcome' = [t \in Turns |-> None]
    /\ followUp' = [t \in Turns |-> FALSE]
    /\ UNCHANGED <<openAttempt, effects, granted, observed, refused>>

\* Steps a task takes without waiting for anybody outside the process.
TaskStep(t) ==
    \/ PrepareCancelled(t)
    \/ AssistantStarted(t)
    \/ RunTurn(t)
    \/ DeterministicRoute(t)
    \/ StageStep(t) /\ UNCHANGED runnerVars
    \/ StageAnswered(t)
    \/ ToolCallStarted(t)
    \/ FollowUp(t)
    \/ ApprovalRequested(t)
    \/ ApprovalWaitCancelled(t)
    \/ ApprovalCancelled(t)
    \/ ApprovalDecided(t)
    \/ ExecuteTool(t)
    \/ ToolCancelled(t)
    \/ PersistOutput(t)
    \/ ToolCallCompleted(t)
    \/ ToolCallUncertain(t)
    \/ FinishTurn(t)
    \/ ChooseReason(t)
    \/ CloseTurn(t)
    \/ Observe(t)
    \/ Release(t)

\* Answers of the preparation, the provider, the operator and the tool.
Answer(t) ==
    \/ Prepared(t)
    \/ AdapterReturns(t) /\ UNCHANGED runnerVars
    \/ ApprovalAnswered(t)
    \/ ToolReturns(t)

CallerStep(t) ==
    \/ Submit(t)
    \/ SubmitFails(t)
    \/ RegistrationFails(t)
    \/ RefuseRetry(t)
    \/ CloseOrphan(t)
    \/ RequestCancel(t)
    \/ CancelDurable(t)
    \/ SignalCancel(t)
    \/ CancelRefused(t)

Next ==
    \/ \E t \in Turns : CallerStep(t) \/ TaskStep(t) \/ Answer(t)
                      \/ StreamFails(t)
    \/ Restart

Spec == Init /\ [][Next]_vars

\* The runtime polls a task that can go on; nothing obliges a provider, an
\* operator or a tool to answer.
FairSpec == Spec /\ \A t \in Turns : WF_vars(TaskStep(t))

-----------------------------------------------------------------------------
(* Properties.                                                             *)

\* A turn is never lost: when its task is over, the turn is terminal or the
\* runner remembers it as an orphan it may close on a retry.
ReleasedIsAccountedFor ==
    \A t \in Turns :
        pc[t] \in {"observe", "release", "released"} =>
            IsTerminal(turns[t]) \/ t \in orphans

\* Nobody closes a turn under its task: while the task still works, no
\* retry, cancellation or orphan recovery has made the turn terminal.  (A
\* closing task may already have closed it: its own last append can land
\* although it reported an error.)
WorkingTurnIsOpen ==
    \A t \in active :
        pc[t] \notin {"failed", "closeCancelled", "closeFailed", "observe",
                     "release"}
            => turns[t].status = "open"

\* A turn that reports completion has settled everything it began: no tool
\* call or approval is pending and every provider attempt has an outcome.
CompletedIsSettled ==
    \A t \in Turns :
        turns[t].status = "completed" =>
            /\ turns[t].tools = {}
            /\ turns[t].approvals = {}
            /\ ~openAttempt[t]

\* "Approval-gated or external side effects cannot begin unless their
\* pre-action event and approval decision are durable": a tool begins only
\* in an open turn whose journal holds its started row and its approval,
\* and never after the task could see the cancellation.
EffectsFollowEvidence ==
    [][\A t \in Turns : \A c \in effects'[t] \ effects[t] :
        /\ turns[t].status = "open"
        /\ c \in turns[t].tools
        /\ c \in granted[t]
        /\ ~signal[t]]_vars

\* A cancelled turn ends although its provider, operator or tool never
\* answers: every wait of the task also watches the channel.
SignalledTurnIsReleased ==
    \A t \in Turns : signal[t] ~> t \notin active

\* As long as storage works, a turn whose cancellation nobody asked for is
\* terminal when it is observed, leaves no provider attempt open, and a
\* retried submission of it is not refused.  (Each fails when cancellation
\* or a storage error comes between: run_and_close, append_cancelled_attempt
\* and submit.)
UncancelledTurnIsExact ==
    faults = 0 =>
        /\ refused = {}
        /\ \A t \in Turns : ~turns[t].cancelRequested =>
            /\ t \in observed => IsTerminal(turns[t])
            /\ IsTerminal(turns[t]) => ~openAttempt[t]
=============================================================================
