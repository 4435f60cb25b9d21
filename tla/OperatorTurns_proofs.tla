------------------------ MODULE OperatorTurns_proofs ------------------------
(***************************************************************************)
(* Lemmas about one operator turn: what the write guard admits and what    *)
(* the fold makes of a row.  They mention no state, and the proofs about   *)
(* the session service, the turn runner and the loop share them.           *)
(***************************************************************************)
EXTENDS OperatorTurns, TLAPS

\* Folding an event into a turn gives a turn (apply_event keeps FoldedTurn
\* well formed).
LEMMA FoldType ==
    ASSUME NEW turn \in Turn, NEW e \in Events
    PROVE  Fold(turn, e) \in Turn
<1> USE DEF Events, Turn, TerminalStatuses
<1>1. CASE ~Folds(turn, e)
  BY <1>1 DEF Fold
<1>2. CASE Folds(turn, e)
  <2>1. CASE e.kind = "turn_started"
    BY <1>2, <2>1, Zenon DEF Fold, AbsentTurn
  <2>2. CASE e.kind \in {"user_message", "turn_cancel_requested"}
    BY <1>2, <2>2, Zenon DEF Fold
  <2>3. CASE e.kind = "tool_call_started"
    BY <1>2, <2>3 DEF Fold
  <2>4. CASE e.kind = "tool_call_completed"
    BY <1>2, <2>4 DEF Fold
  <2>5. CASE e.kind = "approval_requested"
    BY <1>2, <2>5 DEF Fold
  <2>6. CASE e.kind = "approval_decided"
    BY <1>2, <2>6 DEF Fold
  <2>7. CASE e.kind \in {"turn_completed", "blocker"}
    BY <1>2, <2>7, Zenon DEF Fold, Closed
  <2>8. CASE e.kind = "turn_interrupted"
    BY <1>2, <2>8, Zenon DEF Fold, Closed
  <2>9. CASE e.kind \in {"thread_created", "work_created", "work_linked",
                         "touch"}
    BY <1>2, <2>9 DEF Fold
  <2> QED
    BY <2>1, <2>2, <2>3, <2>4, <2>5, <2>6, <2>7, <2>8, <2>9 DEF Kinds
<1> QED
  BY <1>1, <1>2

\* The binding of an imported turn (no prompt, no policy) is a binding.
LEMMA UnboundType == Unbound \in Bindings
BY DEF Unbound, Bindings

\* The closing row of recovery is an event.
LEMMA RecoveryCloseType ==
    ASSUME NEW t \in Turns, NEW turn \in Turn
    PROVE  RecoveryClose(t, turn) \in Events
BY UnboundType, ThreadOfAssumption
   DEF RecoveryClose, TurnEvent, Events, Kinds, Notes, Reasons

\* The write guard is at least as strict as the fold, but for a repeated
\* tool or approval request (validate_event against apply_event).
LEMMA AdmitsFolds ==
    ASSUME NEW turn \in Turn, NEW e \in Events, NEW links,
           Admits(links, turn, e),
           e.kind \notin {"tool_call_started", "approval_requested"}
    PROVE  Folds(turn, e)
BY DEF Admits, Folds

\* A recovery row is one the fold takes, and it closes the turn.
LEMMA RecoveryCloses ==
    ASSUME NEW t \in Turns, NEW turn \in Turn, turn.status = "open"
    PROVE  /\ Folds(turn, RecoveryClose(t, turn))
           /\ Fold(turn, RecoveryClose(t, turn)).status = "interrupted"
<1>1. Folds(turn, RecoveryClose(t, turn))
  BY DEF Folds, RecoveryClose, TurnEvent, IsCancellationClose, Turn
<1> QED
  BY <1>1, Zenon DEF Fold, RecoveryClose, TurnEvent, Closed, Turn

-----------------------------------------------------------------------------
(* What a row that passed the write guard does to a turn.                  *)

\* A row about a turn that names the turn's own thread is an event.
LEMMA RowType ==
    ASSUME NEW k \in Kinds \ {"work_created", "work_linked"},
           NEW t \in Turns, NEW c \in Calls \cup {None}, NEW n \in Notes,
           NEW b \in Bindings,
           k = "tool_call_started" => c \in Calls,
           k = "turn_interrupted" => n \in Reasons
    PROVE  TurnEvent(k, t, c, n, b) \in Events
<1>1. TurnEvent(k, t, c, n, b) \in
        [kind : Kinds, thread : Threads, turn : Turns \cup {None},
         call : Calls \cup {None}, note : Notes, binding : Bindings]
  BY ThreadOfAssumption DEF TurnEvent
<1> QED
  BY <1>1 DEF Events, TurnEvent

\* The turns of the journal stay well formed when a row lands.
LEMMA LandedType ==
    ASSUME NEW ts \in [Turns -> Turn], NEW t \in Turns, NEW e \in Events
    PROVE  [ts EXCEPT ![t] = Fold(@, e)] \in [Turns -> Turn]
BY FoldType

\* A row of the touching kinds leaves the turn as it is, and a turn with a
\* pending cancellation refuses it.
LEMMA TouchFold ==
    ASSUME NEW turn \in Turn, NEW e, NEW links, e.kind = "touch",
           Admits(links, turn, e)
    PROVE  turn.status = "open" /\ ~turn.cancelRequested /\ Fold(turn, e) = turn
<1>1. turn.status = "open" /\ ~turn.cancelRequested
  BY DEF Admits, IsCancellationApprovalAudit, IsCancellationToolAudit,
         IsCancellationClose
<1> QED
  BY <1>1 DEF Fold

\* The rows of a working task leave the turn open and its cancellation
\* intent as it is.
LEMMA WorkFold ==
    ASSUME NEW turn \in Turn, NEW e, NEW links, Admits(links, turn, e),
           e.kind \in {"touch", "tool_call_started", "tool_call_completed",
                       "approval_requested", "approval_decided"}
    PROVE  /\ turn.status = "open"
           /\ Fold(turn, e).status = "open"
           /\ Fold(turn, e).cancelRequested = turn.cancelRequested
<1>1. turn.status = "open"
  BY DEF Admits
<1>2. CASE ~Folds(turn, e)
  BY <1>1, <1>2 DEF Fold
<1>3. CASE Folds(turn, e)
  BY <1>1, <1>3 DEF Fold, Turn
<1> QED
  BY <1>1, <1>2, <1>3

\* The start of a tool call, when none is pending.
LEMMA ToolStartedFold ==
    ASSUME NEW turn \in Turn, NEW e, NEW links, Admits(links, turn, e),
           e.kind = "tool_call_started", turn.tools = {}
    PROVE  /\ Fold(turn, e).tools = {e.call}
           /\ Fold(turn, e).approvals = turn.approvals
<1>1. turn.status = "open" /\ ~turn.cancelRequested
  BY DEF Admits, IsCancellationApprovalAudit, IsCancellationToolAudit,
         IsCancellationClose
<1>2. Folds(turn, e)
  BY <1>1 DEF Folds, IsCancellationClose
<1> QED
  BY <1>2 DEF Fold, Turn

\* The end of the only pending tool call.
LEMMA ToolCompletedFold ==
    ASSUME NEW turn \in Turn, NEW e, NEW links, Admits(links, turn, e),
           e.kind = "tool_call_completed", turn.tools = {e.call}
    PROVE  /\ Fold(turn, e).tools = {}
           /\ Fold(turn, e).approvals = turn.approvals
<1>2. Folds(turn, e)
  BY DEF Folds, Admits, IsCancellationClose
<1> QED
  BY <1>2 DEF Fold, Turn

\* A request for approval, when none is pending; without a request id it
\* leaves nothing pending.
LEMMA ApprovalRequestedFold ==
    ASSUME NEW turn \in Turn, NEW e, NEW links, Admits(links, turn, e),
           e.kind = "approval_requested", turn.approvals = {}
    PROVE  /\ Fold(turn, e).tools = turn.tools
           /\ Fold(turn, e).approvals = {e.call} \ {None}
<1>1. turn.status = "open" /\ ~turn.cancelRequested
  BY DEF Admits, IsCancellationApprovalAudit, IsCancellationToolAudit,
         IsCancellationClose
<1>2. Folds(turn, e)
  BY <1>1 DEF Folds, IsCancellationClose
<1> QED
  BY <1>2 DEF Fold, Turn

\* A decision about the only pending approval, or about an ungated call.
LEMMA ApprovalDecidedFold ==
    ASSUME NEW turn \in Turn, NEW e, NEW links, Admits(links, turn, e),
           e.kind = "approval_decided", turn.approvals \subseteq {e.call}
    PROVE  /\ Fold(turn, e).tools = turn.tools
           /\ Fold(turn, e).approvals = {}
<1>2. Folds(turn, e)
  BY DEF Folds, Admits, IsCancellationClose
<1> QED
  BY <1>2 DEF Fold, Turn

\* The completion of a turn.
LEMMA CompletedFold ==
    ASSUME NEW turn \in Turn, NEW e, NEW links, Admits(links, turn, e),
           e.kind = "turn_completed"
    PROVE  /\ turn.status = "open" /\ ~turn.cancelRequested
           /\ Fold(turn, e).status = "completed"
           /\ Fold(turn, e).cancelRequested = turn.cancelRequested
           /\ Fold(turn, e).tools = turn.tools
           /\ Fold(turn, e).approvals = turn.approvals
<1>1. turn.status = "open" /\ ~turn.cancelRequested
  BY DEF Admits, IsCancellationApprovalAudit, IsCancellationToolAudit,
         IsCancellationClose
<1>2. Folds(turn, e)
  BY <1>1 DEF Folds, IsCancellationClose
<1> QED
  BY <1>1, <1>2 DEF Fold, Closed, Turn

\* The interruption of a turn: it is taken exactly when its reason agrees
\* with the cancellation intent.
LEMMA InterruptedFold ==
    ASSUME NEW turn \in Turn, NEW e, NEW links, e.kind = "turn_interrupted",
           e.binding.work = turn.binding.work
    PROVE  /\ Admits(links, turn, e) <=>
                /\ turn.status = "open"
                /\ turn.cancelRequested <=> e.note = "OPERATOR_CANCELLED"
           /\ Admits(links, turn, e) =>
                /\ Fold(turn, e).status = "interrupted"
                /\ Fold(turn, e).cancelRequested = turn.cancelRequested
<1>1. Admits(links, turn, e) <=>
        /\ turn.status = "open"
        /\ turn.cancelRequested <=> e.note = "OPERATOR_CANCELLED"
  BY DEF Admits, IsCancellationApprovalAudit, IsCancellationToolAudit,
         IsCancellationClose, Turn
<1>2. ASSUME Admits(links, turn, e)
      PROVE  Folds(turn, e)
  BY <1>1, <1>2 DEF Folds, IsCancellationClose
<1>3. ASSUME Folds(turn, e)
      PROVE  /\ Fold(turn, e).status = "interrupted"
             /\ Fold(turn, e).cancelRequested = turn.cancelRequested
  BY <1>3 DEF Fold, Closed, Turn
<1> QED
  BY <1>1, <1>2, <1>3

\* The request to cancel an open turn.
LEMMA CancelRequestFold ==
    ASSUME NEW turn \in Turn, NEW e, NEW links, Admits(links, turn, e),
           e.kind = "turn_cancel_requested"
    PROVE  /\ turn.status = "open" /\ Fold(turn, e).status = "open"
           /\ Fold(turn, e).cancelRequested
           /\ Fold(turn, e).tools = turn.tools
           /\ Fold(turn, e).approvals = turn.approvals
<1>1. turn.status = "open" /\ ~turn.cancelRequested
  BY DEF Admits, IsCancellationApprovalAudit, IsCancellationToolAudit,
         IsCancellationClose
<1>2. Folds(turn, e)
  BY <1>1 DEF Folds, IsCancellationClose
<1> QED
  BY <1>1, <1>2 DEF Fold, Turn

\* A recovery row keeps the cancellation intent, and means nothing to a turn
\* that is not open.
LEMMA RecoveryKeeps ==
    ASSUME NEW t \in Turns, NEW turn \in Turn
    PROVE  LET e == RecoveryClose(t, turn) IN
           /\ Fold(turn, e).cancelRequested = turn.cancelRequested
           /\ turn.status # "open" => Fold(turn, e) = turn
           /\ e.note \in Reasons
<1> DEFINE e == RecoveryClose(t, turn)
<1>1. e.kind = "turn_interrupted" /\ e.note \in Reasons
  BY DEF RecoveryClose, TurnEvent, Reasons
<1> HIDE DEF e
<1>2. turn.status # "open" => Fold(turn, e) = turn
  BY <1>1 DEF Fold, Folds
<1>3. Fold(turn, e).cancelRequested = turn.cancelRequested
  BY <1>1 DEF Fold, Closed, Turn
<1> QED
  BY <1>1, <1>2, <1>3 DEF e
=============================================================================
