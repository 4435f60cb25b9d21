---------------------------- MODULE OperatorTurns ----------------------------
(***************************************************************************)
(* One turn of an operator thread as the session service sees it: the      *)
(* record the journal's events fold into (FoldedTurn), the write-side      *)
(* guard an appended event must pass (validate_event) and the read-side    *)
(* fold of an event that reached the journal (apply_event and its          *)
(* helpers).  Both sides live in crates/heiwa_session/src/operator.rs.     *)
(*                                                                         *)
(* Abstractions.  A turn id stands for the pair (thread, client request    *)
(* id) it is derived from.  A call stands for a tool key (call id, tool    *)
(* name) and for the approval key (call id, request id, tool) of the same  *)
(* call.  The event types that only touch a turn (route, assistant,        *)
(* artifact, test, receipt rows) are one kind, "touch".  Of a payload      *)
(* only what the guard or the fold reads is kept, in "note".               *)
(***************************************************************************)
EXTENDS Naturals, FiniteSets, Functions

CONSTANTS
    Threads,    \* thread ids
    Turns,      \* turn ids
    ThreadOf,   \* the thread a turn id belongs to
    Calls,      \* tool calls a model may ask for
    Prompts,    \* prompt fingerprints
    Models,     \* model names of a route policy
    Works,      \* Work ids
    None        \* an absent optional field

ASSUME ThreadOfAssumption == ThreadOf \in [Turns -> Threads]

ASSUME NoneAssumption ==
    None \notin Threads \cup Turns \cup Calls \cup Prompts \cup Works

-----------------------------------------------------------------------------
(* What a turn is bound to.                                                *)

\* A stored binding: prompt fingerprint, normalized route policy (of which
\* the model allow-list is kept) and Work scope.
Bindings == [prompt : Prompts \cup {None}, models : SUBSET Models,
             work : Works \cup {None}]

\* A turn opened by the transcript import carries no prompt fingerprint.
Unbound == [prompt |-> None, models |-> {}, work |-> None]

\* TurnRoutePolicy::normalized sorts and dedups a model list: what is left
\* of the list is the set of its elements.
Normalized(models) == Range(models)

\* The binding a start_turn request stores, and later retries must equal.
Bind(request) ==
    [prompt |-> request.prompt, models |-> Normalized(request.models),
     work |-> request.work]

-----------------------------------------------------------------------------
(* The folded turn.                                                        *)

TerminalStatuses == {"completed", "interrupted", "blocked"}

Reasons == {"OPERATOR_CANCELLED", "RUNTIME_RESTART", "EXECUTION_FAILED"}

\* "absent" is a turn the fold has not seen.  reason is the one of the row
\* that closed the turn.
Turn == [status : {"absent", "open"} \cup TerminalStatuses,
         reason : Reasons \cup {None},
         binding : Bindings,
         cancelRequested : BOOLEAN,
         userMessage : BOOLEAN,
         tools : SUBSET Calls,
         approvals : SUBSET Calls]

AbsentTurn ==
    [status |-> "absent", reason |-> None, binding |-> Unbound,
     cancelRequested |-> FALSE, userMessage |-> FALSE,
     tools |-> {}, approvals |-> {}]

IsTerminal(turn) == turn.status \in TerminalStatuses

-----------------------------------------------------------------------------
(* Events.                                                                 *)

Kinds == {"thread_created", "work_created", "work_linked",
          "turn_started", "user_message", "touch", "turn_cancel_requested",
          "tool_call_started", "tool_call_completed",
          "approval_requested", "approval_decided",
          "turn_completed", "turn_interrupted", "blocker"}

\* note: the interruption reason, the approval outcome, the tool status, or
\* whether a route row opens a provider attempt or records its outcome.
Notes == Reasons \cup {"auto_approved", "approved", "denied", "cancelled",
                       "uncertain", "success", "attempt", "outcome", None}

\* An event about a turn names the turn's thread, a tool row the call it
\* starts, an interruption its reason, and a Work row its Work.
Events ==
    {e \in [kind : Kinds, thread : Threads, turn : Turns \cup {None},
            call : Calls \cup {None}, note : Notes, binding : Bindings] :
        /\ e.turn # None => e.thread = ThreadOf[e.turn]
        /\ e.kind = "tool_call_started" => e.call \in Calls
        /\ e.kind = "turn_interrupted" => e.note \in Reasons
        /\ e.kind \in {"work_created", "work_linked"} =>
               e.binding.work \in Works}

TurnEvent(kind, t, call, note, binding) ==
    [kind |-> kind, thread |-> ThreadOf[t], turn |-> t, call |-> call,
     note |-> note, binding |-> binding]

ThreadEvent(kind, th, w) ==
    [kind |-> kind, thread |-> th, turn |-> None, call |-> None,
     note |-> None, binding |-> [Unbound EXCEPT !.work = w]]

\* The closing row recovery writes for a turn it finds open: cancellation
\* intent that was already durable decides the reason.
RecoveryClose(t, turn) ==
    TurnEvent("turn_interrupted", t, None,
              IF turn.cancelRequested THEN "OPERATOR_CANCELLED"
                                      ELSE "RUNTIME_RESTART",
              Unbound)

\* The two audit rows a turn with a pending cancellation still accepts.
IsCancellationApprovalAudit(turn, e) ==
    /\ e.kind = "approval_decided"
    /\ e.note = "cancelled"
    /\ e.call \in turn.approvals

IsCancellationToolAudit(turn, e) ==
    /\ e.kind = "tool_call_completed"
    /\ e.note = "uncertain"
    /\ e.call \in turn.tools

IsCancellationClose(e) ==
    e.kind = "turn_interrupted" /\ e.note = "OPERATOR_CANCELLED"

-----------------------------------------------------------------------------
(* Write side: validate_event for an event that names a turn.  workThreads *)
(* maps a Work to the threads linked to it.                                *)

WorkLinked(workThreads, w, th) == w = None \/ th \in workThreads[w]

Admits(workThreads, turn, e) ==
    IF e.kind = "turn_started"
    THEN /\ WorkLinked(workThreads, e.binding.work, e.thread)
         /\ turn.status = "absent"
    ELSE /\ turn.status = "open"
         /\ e.binding.work = turn.binding.work
         /\ e.kind = "approval_decided" =>
                \/ e.call \in turn.approvals
                \/ e.call = None /\ e.note = "auto_approved"
         /\ e.kind = "tool_call_completed" => e.call \in turn.tools
         /\ IF turn.cancelRequested
            THEN \/ IsCancellationApprovalAudit(turn, e)
                 \/ IsCancellationToolAudit(turn, e)
                 \/ IsCancellationClose(e)
            ELSE ~IsCancellationClose(e)

-----------------------------------------------------------------------------
(* Read side: whether the fold takes an event that reached the journal,    *)
(* and the turn it leaves.  A row the fold refuses changes no turn.        *)

Folds(turn, e) ==
    IF e.kind = "turn_started"
    THEN turn.status = "absent"
    ELSE /\ turn.status = "open"
         /\ turn.cancelRequested =>
                \/ IsCancellationApprovalAudit(turn, e)
                \/ IsCancellationToolAudit(turn, e)
                \/ IsCancellationClose(e)
         /\ IsCancellationClose(e) => turn.cancelRequested
         /\ e.kind = "tool_call_started" => e.call \notin turn.tools
         /\ e.kind = "tool_call_completed" => e.call \in turn.tools
         /\ e.kind = "approval_requested" => e.call \notin turn.approvals
         /\ e.kind = "approval_decided" =>
                \/ e.call \in turn.approvals
                \/ e.call = None /\ e.note = "auto_approved"

\* Mutant of Closed: the reason is not kept.
ClosedWithoutReason(turn, status, note) == [turn EXCEPT !.status = status]

Closed(turn, status, note) ==
    [turn EXCEPT !.status = status, !.reason = note]

\* Mutant of Fold: a user message rebinds the turn.
FoldRebinds(turn, e) ==
    IF ~Folds(turn, e) THEN turn
    ELSE CASE e.kind = "turn_started" ->
                [AbsentTurn EXCEPT !.status = "open", !.binding = e.binding]
           [] e.kind = "user_message" ->
                [turn EXCEPT !.userMessage = TRUE, !.binding = e.binding]
           [] e.kind = "turn_completed" -> Closed(turn, "completed", None)
           [] e.kind = "turn_interrupted" ->
                Closed(turn, "interrupted", e.note)
           [] OTHER -> turn

Fold(turn, e) ==
    IF ~Folds(turn, e) THEN turn
    ELSE CASE e.kind = "turn_started" ->
                [AbsentTurn EXCEPT !.status = "open", !.binding = e.binding]
           [] e.kind = "user_message" -> [turn EXCEPT !.userMessage = TRUE]
           [] e.kind = "turn_cancel_requested" ->
                [turn EXCEPT !.cancelRequested = TRUE]
           [] e.kind = "tool_call_started" ->
                [turn EXCEPT !.tools = @ \cup {e.call}]
           [] e.kind = "tool_call_completed" ->
                [turn EXCEPT !.tools = @ \ {e.call}]
           [] e.kind = "approval_requested" ->
                [turn EXCEPT !.approvals = @ \cup ({e.call} \ {None})]
           [] e.kind = "approval_decided" ->
                [turn EXCEPT !.approvals = @ \ {e.call}]
           [] e.kind = "turn_completed" -> Closed(turn, "completed", None)
           [] e.kind = "blocker" -> Closed(turn, "blocked", None)
           [] e.kind = "turn_interrupted" ->
                Closed(turn, "interrupted", e.note)
           [] OTHER -> turn
=============================================================================
