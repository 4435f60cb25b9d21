------------------------- MODULE TurnRunner_proofs --------------------------
(***************************************************************************)
(* Proofs about TurnRunner, for any number of turns, tool calls, provider  *)
(* attempts, storage errors and restarts: types, and what holds of a turn  *)
(* at each place of its task.  Then about CanonicalTurn, for any number of *)
(* iterations: a loop's iterations close their turns unless the loop was   *)
(* cancelled or storage failed.                                            *)
(***************************************************************************)
EXTENDS TurnRunner, CanonicalTurn, OperatorTurns_proofs

-----------------------------------------------------------------------------
(* The inductive invariant.  Every conjunct is about one turn: a step      *)
(* other than Restart leaves all turns but one alone.                      *)

\* Where the task has failed and closes its turn, and where it is over.
Closing == {"failed", "closeCancelled", "closeFailed"}
Over == {"observe", "release", "released"}

\* Where a provider attempt may be without an outcome row.
Attempting == {"adapter", "completed", "retry", "stop", "cancelled"}

\* Where a tool call is in hand; before "approval" returns it is only
\* started, and until the decision lands its approval is pending.
Waiting == {"wait", "waitCancelled"}
Executing == {"run", "running", "output", "settle", "uncertain"}
InHand == {"approval", "decide"} \cup Waiting \cup Executing

\* Where the task works: nobody but the task itself may close the turn.
Working == Locations \ ({"idle"} \cup Closing \cup Over)

\* A turn nobody submitted has no task, is no orphan and was not cancelled;
\* the registry holds exactly the turns that have a task.
Registered(t) ==
    /\ turns[t].status = "absent" =>
        /\ pc[t] = "idle" /\ t \notin orphans
        /\ ~turns[t].cancelRequested /\ ~openAttempt[t]
    /\ t \in active <=> pc[t] \notin {"idle", "released"}

\* While the task works the turn is open; when it is over the turn is
\* terminal or an orphan.
Accounted(t) ==
    /\ pc[t] \in Working => turns[t].status = "open"
    /\ pc[t] \in Over => IsTerminal(turns[t]) \/ t \in orphans

\* What is pending in the journal at each place of the task, and when the
\* turn is completed.
Settled(t) ==
    turns[t].tools = {} /\ turns[t].approvals = {} /\ ~openAttempt[t]

Pending(t) ==
    /\ pc[t] \in Working \ (Attempting \cup InHand) => Settled(t)
    /\ pc[t] \in Attempting => turns[t].tools = {} /\ turns[t].approvals = {}
    /\ pc[t] \in InHand => call[t] \in Calls /\ turns[t].tools = {call[t]}
                           /\ ~openAttempt[t]
    /\ pc[t] \in {"approval"} \cup Executing => turns[t].approvals = {}
    /\ pc[t] \in Waiting => turns[t].approvals = {call[t]}
    /\ pc[t] = "decide" =>
        /\ outcome[t] \in {"auto_approved", "approved", "denied"}
        /\ turns[t].approvals =
               IF outcome[t] = "auto_approved" THEN {} ELSE {call[t]}
    /\ pc[t] = "run" => call[t] \in granted[t]
    /\ turns[t].status = "completed" => Settled(t)

\* The channel is raised only behind a durable intent.
Intended(t) ==
    cancelling[t] = "durable" \/ signal[t] \/ pc[t] = "closeCancelled"
        => turns[t].cancelRequested

\* As long as no storage error or restart happened.
Undisturbed(t) ==
    faults = 0 =>
        /\ turns[t].status = "open" => t \in active \cup orphans
        /\ ~turns[t].cancelRequested =>
            /\ t \in orphans => IsTerminal(turns[t])
            /\ t \in observed => IsTerminal(turns[t])
            /\ pc[t] \in Closing \/ IsTerminal(turns[t]) => ~openAttempt[t]

\* A route is selected only while attempts are left.
Bounded(t) == pc[t] = "select" => attempt[t] < MaxAttempts

TurnInv(t) ==
    Registered(t) /\ Accounted(t) /\ Pending(t) /\ Intended(t)
        /\ Undisturbed(t) /\ Bounded(t)

RunnerInv ==
    /\ TypeOK
    /\ \A t \in Turns : TurnInv(t)
    /\ faults = 0 => refused = {}

-----------------------------------------------------------------------------
(* What the ways to go on do to the turns, and to the types.               *)

CoreType ==
    /\ turns \in [Turns -> Turn]
    /\ openAttempt \in [Turns -> BOOLEAN]
    /\ pc \in [Turns -> Locations]
    /\ err \in [Turns -> {"none", "cancelled", "other"}]
    /\ faults \in 0..MaxFaults

RestType ==
    /\ attempt \in [Turns -> 0..MaxAttempts]
    /\ signal \in [Turns -> BOOLEAN]
    /\ active \subseteq Turns /\ scopes \subseteq Turns
    /\ orphans \subseteq Turns
    /\ cancelling \in [Turns -> {"no", "scoped", "durable"}]
    /\ observed \subseteq Turns /\ refused \subseteq Turns
    /\ shadow \subseteq Turns
    /\ plan \in [Turns -> SUBSET Calls]
    /\ call \in [Turns -> Calls \cup {None}]
    /\ outcome \in [Turns -> {"auto_approved", "approved", "denied", None}]
    /\ followUp \in [Turns -> BOOLEAN]
    /\ effects \in [Turns -> SUBSET Calls]
    /\ granted \in [Turns -> SUBSET Calls]

-----------------------------------------------------------------------------
(* Almost every leaf is first-order and goes to Zenon; the few that need   *)
(* records or set enumerations cite SMTT.                                  *)

USE ZenonT(30)

\* The types of what an append touches, and of the rest.
LEMMA TypeSplits == TypeOK <=> CoreType /\ RestType
BY DEF TypeOK, ExecutorTypeOK, CoreType, RestType

\* A step of the task of t leaves the other turns alone.
CoreStep(t) ==
    /\ CoreType'
    /\ \A u \in Turns \ {t} : /\ turns'[u] = turns[u]
                              /\ openAttempt'[u] = openAttempt[u]
                              /\ pc'[u] = pc[u]
    /\ faults' = 0 => faults = 0

LandedAt(t, e) ==
    /\ Admitted(t, e)
    /\ turns'[t] = Fold(turns[t], e)
    /\ openAttempt'[t] = ((openAttempt[t] \/ e.note = "attempt")
                             /\ e.note # "outcome")

KeptAt(t) == turns'[t] = turns[t] /\ openAttempt'[t] = openAttempt[t]

\* The row did not land, or landed although an error was reported.
LostAt(t, e) ==
    \/ KeptAt(t) /\ (~Admitted(t, e) \/ faults' # 0)
    \/ LandedAt(t, e) /\ faults' # 0

\* A row that reaches the journal changes its own turn.
LEMMA LandsEffect ==
    ASSUME TypeOK, NEW t \in Turns, NEW e \in Events, Lands(t, e)
    PROVE  /\ turns' \in [Turns -> Turn]
           /\ openAttempt' \in [Turns -> BOOLEAN]
           /\ turns'[t] = Fold(turns[t], e)
           /\ openAttempt'[t] = ((openAttempt[t] \/ e.note = "attempt")
                                    /\ e.note # "outcome")
           /\ \A u \in Turns \ {t} : /\ turns'[u] = turns[u]
                                     /\ openAttempt'[u] = openAttempt[u]
<1>1. turns \in [Turns -> Turn] /\ openAttempt \in [Turns -> BOOLEAN]
  BY DEF TypeOK, ExecutorTypeOK
<1>2. turns' = [turns EXCEPT ![t] = Fold(@, e)]
  BY DEF Lands
<1>3. openAttempt' = [openAttempt EXCEPT
                        ![t] = (@ \/ e.note = "attempt") /\ e.note # "outcome"]
  BY DEF Lands
<1>4. turns' \in [Turns -> Turn]
  BY <1>1, <1>2, LandedType
<1> QED
  BY <1>1, <1>2, <1>3, <1>4

\* append_event returned an error.
LEMMA RejectedEffect ==
    ASSUME TypeOK, NEW t \in Turns, NEW e \in Events, Rejected(t, e)
    PROVE  /\ turns' \in [Turns -> Turn]
           /\ openAttempt' \in [Turns -> BOOLEAN]
           /\ faults' \in 0..MaxFaults
           /\ faults' = 0 => faults = 0
           /\ LostAt(t, e)
           /\ \A u \in Turns \ {t} : /\ turns'[u] = turns[u]
                                     /\ openAttempt'[u] = openAttempt[u]
<1>1. /\ turns \in [Turns -> Turn] /\ openAttempt \in [Turns -> BOOLEAN]
      /\ faults \in 0..MaxFaults
  BY DEF TypeOK, ExecutorTypeOK
<1>2. CASE ~Admitted(t, e) /\ UNCHANGED <<turns, openAttempt, faults>>
  BY <1>1, <1>2 DEF LostAt, KeptAt
<1>3. ASSUME Admitted(t, e), faults < MaxFaults, faults' = faults + 1,
             Lands(t, e) \/ UNCHANGED <<turns, openAttempt>>
      PROVE  /\ faults' \in 0..MaxFaults
             /\ faults' # 0
  BY SMTT(30), <1>1, <1>3, FaultBoundAssumption
<1>4. CASE /\ Admitted(t, e) /\ faults < MaxFaults /\ faults' = faults + 1
           /\ Lands(t, e)
  BY <1>3, <1>4, LandsEffect DEF LostAt, LandedAt
<1>5. CASE /\ Admitted(t, e) /\ faults < MaxFaults /\ faults' = faults + 1
           /\ UNCHANGED <<turns, openAttempt>>
  BY <1>1, <1>3, <1>5 DEF LostAt, KeptAt
<1> QED
  BY <1>2, <1>4, <1>5 DEF Rejected

\* A row that must land for the task to go on.
LEMMA AppendsEffect ==
    ASSUME TypeOK, NEW t \in Turns, NEW e \in Events, NEW next \in Locations,
           Appends(t, e, next)
    PROVE  /\ CoreStep(t)
           /\ \/ LandedAt(t, e) /\ pc'[t] = next
              \/ LostAt(t, e) /\ pc'[t] = "failed"
<1>1. /\ pc \in [Turns -> Locations]
      /\ err \in [Turns -> {"none", "cancelled", "other"}]
      /\ faults \in 0..MaxFaults
  BY DEF TypeOK, ExecutorTypeOK
<1>2. CASE Accepted(t, e, next)
  <2>1. Admitted(t, e) /\ Lands(t, e) /\ pc' = [pc EXCEPT ![t] = next]
        /\ UNCHANGED <<err, faults>>
    BY <1>2 DEF Accepted
  <2> QED
    BY <1>1, <2>1, LandsEffect DEF CoreStep, CoreType, LandedAt
<1>3. CASE FailsWith(t, e, "other")
  <2>1. Rejected(t, e) /\ pc' = [pc EXCEPT ![t] = "failed"]
        /\ err' = [err EXCEPT ![t] = "other"]
    BY <1>3 DEF FailsWith
  <2>2. "failed" \in Locations
    BY DEF Locations, StageLocations
  <2> QED
    BY <1>1, <2>1, <2>2, RejectedEffect DEF CoreStep, CoreType
<1> QED
  BY <1>2, <1>3 DEF Appends

\* A last row on the way out.
LEMMA EndsWithEffect ==
    ASSUME TypeOK, NEW t \in Turns, NEW e \in Events,
           NEW error \in {"cancelled", "other"}, EndsWith(t, e, error)
    PROVE  /\ CoreStep(t)
           /\ pc'[t] = "failed"
           /\ LandedAt(t, e) \/ LostAt(t, e)
<1>1. /\ pc \in [Turns -> Locations]
      /\ err \in [Turns -> {"none", "cancelled", "other"}]
      /\ faults \in 0..MaxFaults
      /\ "failed" \in Locations
  BY DEF TypeOK, ExecutorTypeOK, Locations, StageLocations
<1>2. CASE Admitted(t, e) /\ Lands(t, e) /\ pc' = [pc EXCEPT ![t] = "failed"]
           /\ err' = [err EXCEPT ![t] = error] /\ UNCHANGED faults
  BY <1>1, <1>2, LandsEffect DEF CoreStep, CoreType, LandedAt
<1>3. CASE FailsWith(t, e, "other")
  <2>1. Rejected(t, e) /\ pc' = [pc EXCEPT ![t] = "failed"]
        /\ err' = [err EXCEPT ![t] = "other"]
    BY <1>3 DEF FailsWith
  <2> QED
    BY <1>1, <2>1, RejectedEffect DEF CoreStep, CoreType
<1> QED
  BY <1>2, <1>3 DEF EndsWith

\* Going on without a row.
LEMMA GoesEffect ==
    ASSUME TypeOK, NEW t \in Turns, NEW next \in Locations, Goes(t, next)
    PROVE  CoreStep(t) /\ KeptAt(t) /\ pc'[t] = next
BY DEF TypeOK, ExecutorTypeOK, Goes, CoreStep, CoreType, KeptAt

\* Failing without a row.
LEMMA FailsEffect ==
    ASSUME TypeOK, NEW t \in Turns, NEW error \in {"cancelled", "other"},
           Fails(t, error)
    PROVE  CoreStep(t) /\ KeptAt(t) /\ pc'[t] = "failed"
BY DEF TypeOK, ExecutorTypeOK, Fails, CoreStep, CoreType, KeptAt, Locations,
       StageLocations

-----------------------------------------------------------------------------
(* Frames: a turn that a step does not touch keeps its invariant.          *)

Untouched(u) ==
    /\ turns'[u] = turns[u] /\ openAttempt'[u] = openAttempt[u]
    /\ pc'[u] = pc[u] /\ signal'[u] = signal[u]
    /\ cancelling'[u] = cancelling[u] /\ call'[u] = call[u]
    /\ outcome'[u] = outcome[u] /\ granted'[u] = granted[u]
    /\ attempt'[u] = attempt[u]
    /\ u \in active' <=> u \in active
    /\ u \in orphans' <=> u \in orphans
    /\ u \in observed' <=> u \in observed
    /\ faults' = 0 => faults = 0

\* The invariant of a turn reads nothing else.
LEMMA UntouchedInv ==
    ASSUME NEW u \in Turns, TurnInv(u), Untouched(u)
    PROVE  TurnInv(u)'
<1> USE DEF Untouched
<1>1. Registered(u)'
  BY DEF TurnInv, Registered
<1>2. Accounted(u)'
  BY DEF TurnInv, Accounted, IsTerminal
<1>3. Pending(u)'
  BY DEF TurnInv, Pending, Settled
<1>4. Intended(u)'
  BY DEF TurnInv, Intended
<1>5. Undisturbed(u)'
  BY DEF TurnInv, Undisturbed, IsTerminal
<1>6. Bounded(u)'
  BY DEF TurnInv, Bounded
<1> QED
  BY <1>1, <1>2, <1>3, <1>4, <1>5, <1>6 DEF TurnInv

-----------------------------------------------------------------------------
(* The steps of a working task.                                            *)

\* What a step of the working task of t may do to its turn: keep it open
\* and go on with what is pending there, or fail.
WorkDone(t) ==
    /\ turns'[t].status = "open"
    /\ turns'[t].cancelRequested = turns[t].cancelRequested
    /\ pc'[t] = "select" => pc[t] = "plan"
    /\ \/ pc'[t] \in Working /\ Pending(t)'
       \/ /\ pc'[t] = "failed"
          /\ faults' = 0 /\ ~turns[t].cancelRequested => ~openAttempt'[t]

\* The locals of the other tasks, and the attempts of this one.
LocalFrame(t) ==
    /\ RestType'
    /\ pc'[t] = "select" /\ pc[t] = "plan" => attempt'[t] < MaxAttempts
    /\ \A u \in Turns \ {t} : /\ call'[u] = call[u]
                              /\ outcome'[u] = outcome[u]
                              /\ granted'[u] = granted[u]
                              /\ attempt'[u] = attempt[u]

\* Such a step keeps the invariant.
LEMMA WorkInv ==
    ASSUME RunnerInv, NEW t \in Turns, pc[t] \in Working, CoreStep(t),
           WorkDone(t), LocalFrame(t), UNCHANGED <<signal, registryVars>>
    PROVE  RunnerInv'
<1>1. /\ active' = active /\ orphans' = orphans /\ cancelling' = cancelling
      /\ observed' = observed /\ refused' = refused /\ signal' = signal
  BY DEF registryVars
<1>2. TypeOK'
  <2>1. CoreType' /\ RestType'
    BY DEF CoreStep, LocalFrame
  <2> QED
    BY <2>1 DEF TypeOK, ExecutorTypeOK, CoreType, RestType
<1>3. ASSUME NEW u \in Turns, u # t PROVE TurnInv(u)'
  <2>1. Untouched(u)
    BY <1>1, <1>3 DEF CoreStep, LocalFrame, Untouched
  <2> QED
    BY <2>1, UntouchedInv DEF RunnerInv
<1>4. TurnInv(t)'
  <2> DEFINE OneOf == \/ pc'[t] \in Working /\ Pending(t)'
                      \/ /\ pc'[t] = "failed"
                         /\ faults' = 0 /\ ~turns[t].cancelRequested
                                => ~openAttempt'[t]
  <2>0. TurnInv(t) /\ OneOf /\ turns'[t].status = "open"
        /\ turns'[t].cancelRequested = turns[t].cancelRequested
        /\ (faults' = 0 => faults = 0)
    BY DEF RunnerInv, WorkDone, CoreStep
  <2>1. turns[t].status = "open"
    BY <2>0 DEF TurnInv, Accounted
  <2>2. t \in active
    BY <2>0 DEF TurnInv, Registered, Working, Over
  <2>3. Registered(t)'
    BY <1>1, <2>0, <2>2 DEF Registered, Working, Over
  <2>4. Accounted(t)'
    BY <2>0 DEF Accounted, Working, Over, Closing
  <2>5. Pending(t)'
    BY <2>0 DEF Pending, Working, Closing, Attempting, InHand, Waiting,
                Executing
  <2>6. Intended(t)'
    BY <1>1, <2>0 DEF TurnInv, Intended, Working, Closing
  <2>7. Undisturbed(t)'
    BY <1>1, <2>0, <2>1, <2>2
       DEF TurnInv, Undisturbed, IsTerminal, TerminalStatuses, Working, Closing
  <2>8. Bounded(t)'
    BY DEF LocalFrame, WorkDone, Bounded
  <2> QED
    BY <2>3, <2>4, <2>5, <2>6, <2>7, <2>8 DEF TurnInv
<1>5. faults' = 0 => refused' = {}
  BY <1>1 DEF RunnerInv, CoreStep
<1> QED
  BY <1>2, <1>3, <1>4, <1>5 DEF RunnerInv

\* Where nothing is pending.
Quiet == Working \ (Attempting \cup InHand)

\* The rows a task appends are events with the fields it gave them.
LEMMA TaskRow ==
    ASSUME TypeOK, NEW t \in Turns,
           NEW k \in Kinds \ {"work_created", "work_linked"},
           NEW c \in Calls \cup {None}, NEW n \in Notes,
           k = "tool_call_started" => c \in Calls,
           k = "turn_interrupted" => n \in Reasons
    PROVE  /\ Row(k, t, c, n) \in Events
           /\ Row(k, t, c, n).kind = k /\ Row(k, t, c, n).call = c
           /\ Row(k, t, c, n).note = n
           /\ Row(k, t, c, n).binding = turns[t].binding
<1>1. turns[t].binding \in Bindings
  BY DEF TypeOK, ExecutorTypeOK, Turn
<1> QED
  BY <1>1, RowType DEF Row, TurnEvent

\* A touching row changes at most whether an attempt is open, and it is
\* admitted unless a cancellation is pending.
LEMMA TouchRow ==
    ASSUME TypeOK, NEW t \in Turns, NEW n \in {None, "attempt", "outcome"}
    PROVE  LET e == Row("touch", t, None, n) IN
           /\ e \in Events /\ e.note = n
           /\ Admitted(t, e) => Fold(turns[t], e) = turns[t]
           /\ Admitted(t, e) <=> turns[t].status = "open"
                                 /\ ~turns[t].cancelRequested
<1> DEFINE e == Row("touch", t, None, n)
<1>1. e \in Events /\ e.kind = "touch" /\ e.note = n
      /\ e.binding = turns[t].binding
  <2>1. "touch" \in Kinds \ {"work_created", "work_linked"} /\ n \in Notes
        /\ None \in Calls \cup {None}
    BY DEF Kinds, Notes
  <2> QED
    BY SMTT(30), <2>1, TaskRow
<1>2. turns[t] \in Turn
  BY DEF TypeOK, ExecutorTypeOK
<1> HIDE DEF e
<1>3. Admitted(t, e) => Fold(turns[t], e) = turns[t]
                        /\ turns[t].status = "open" /\ ~turns[t].cancelRequested
  BY <1>1, <1>2, TouchFold DEF Admitted
<1>4. turns[t].status = "open" /\ ~turns[t].cancelRequested => Admitted(t, e)
  BY <1>1 DEF Admitted, Admits, IsCancellationClose
<1> QED
  BY <1>1, <1>3, <1>4 DEF e

\* A step from one quiet place to another, or to failure.
LEMMA QuietStep ==
    ASSUME RunnerInv, NEW t \in Turns, pc[t] \in Quiet, NEW next \in Quiet,
           NEW error \in {"cancelled", "other"},
           next = "select" => pc[t] = "plan",
           Goes(t, next) \/ Fails(t, error) \/ Appends(t, Touch(t), next)
    PROVE  CoreStep(t) /\ WorkDone(t)
<1>1. TypeOK /\ TurnInv(t) /\ next \in Locations
  BY DEF RunnerInv, Quiet, Working
<1>2. turns[t].status = "open" /\ Settled(t)
  BY <1>1 DEF TurnInv, Accounted, Pending, Quiet
<1>3. /\ CoreStep(t) /\ KeptAt(t)
      /\ pc'[t] \in {next, "failed"}
  <2>1. CASE Goes(t, next)
    BY <1>1, <2>1, GoesEffect
  <2>2. CASE Fails(t, error)
    BY <1>1, <2>2, FailsEffect
  <2>3. CASE Appends(t, Touch(t), next)
    <3> DEFINE e == Row("touch", t, None, None)
    <3>1. e \in Events /\ e.note = None
          /\ (Admitted(t, e) => Fold(turns[t], e) = turns[t])
      BY <1>1, TouchRow
    <3>2. Appends(t, e, next)
      BY <2>3 DEF Touch
    <3> HIDE DEF e
    <3>3. /\ CoreStep(t) /\ pc'[t] \in {next, "failed"}
          /\ LandedAt(t, e) \/ LostAt(t, e)
      BY <1>1, <3>1, <3>2, AppendsEffect
    <3>4. LandedAt(t, e) => KeptAt(t)
      <4>1. openAttempt[t] = FALSE
        BY <1>1, <1>2 DEF Settled, TypeOK, ExecutorTypeOK
      <4> QED
        BY <3>1, <4>1, NoteAssumption DEF LandedAt, KeptAt
    <3> QED
      BY <3>3, <3>4 DEF LostAt
  <2> QED
    BY <2>1, <2>2, <2>3
<1>4. Settled(t)' /\ turns'[t].status = "open"
      /\ turns'[t].cancelRequested = turns[t].cancelRequested
  BY <1>2, <1>3 DEF KeptAt, Settled
<1>5. pc'[t] = next => pc'[t] \in Working /\ Pending(t)'
  BY <1>4 DEF Pending, Settled, Quiet, Attempting, InHand, Waiting, Executing
<1> QED
  BY <1>3, <1>4, <1>5 DEF WorkDone, Settled

\* A row of the task that is lost, or is its last one, outside of a provider
\* attempt.
LEMMA LastRow ==
    ASSUME RunnerInv, NEW t \in Turns, pc[t] \in Working \ Attempting,
           NEW e \in Events, e.note \notin {"attempt", "outcome"},
           e.kind \in {"touch", "tool_call_started", "tool_call_completed",
                       "approval_requested", "approval_decided"},
           pc'[t] = "failed", LandedAt(t, e) \/ LostAt(t, e)
    PROVE  WorkDone(t)
<1>1. TurnInv(t) /\ turns[t] \in Turn /\ openAttempt[t] \in BOOLEAN
  BY DEF RunnerInv, TypeOK, ExecutorTypeOK
<1>2. turns[t].status = "open" /\ openAttempt[t] = FALSE
  BY <1>1 DEF TurnInv, Accounted, Pending, Settled
<1>3. CASE LandedAt(t, e)
  <2>1. Admits([w \in Works |-> Threads], turns[t], e)
    BY <1>3 DEF LandedAt, Admitted
  <2>2. turns'[t].status = "open"
        /\ turns'[t].cancelRequested = turns[t].cancelRequested
    BY SMTT(30), <1>1, <1>3, <2>1, WorkFold DEF LandedAt
  <2>3. ~openAttempt'[t]
    BY <1>2, <1>3 DEF LandedAt
  <2> QED
    BY <2>2, <2>3 DEF WorkDone
<1>4. CASE KeptAt(t)
  BY <1>2, <1>4 DEF KeptAt, WorkDone
<1> QED
  BY <1>3, <1>4 DEF LostAt

\* A failure without a row, outside of a provider attempt.
LEMMA JustFails ==
    ASSUME RunnerInv, NEW t \in Turns, pc[t] \in Working \ Attempting,
           Fails(t, "other")
    PROVE  CoreStep(t) /\ WorkDone(t)
<1>1. TypeOK /\ TurnInv(t)
  BY DEF RunnerInv
<1>2. CoreStep(t) /\ KeptAt(t) /\ pc'[t] = "failed"
  BY <1>1, FailsEffect
<1>3. turns[t].status = "open" /\ ~openAttempt[t]
  BY <1>1 DEF TurnInv, Accounted, Pending, Settled
<1> QED
  BY <1>2, <1>3 DEF KeptAt, WorkDone

\* The row of a provider attempt.
LEMMA AttemptStep ==
    ASSUME RunnerInv, NEW t \in Turns, pc[t] \in Quiet,
           Appends(t, Row("touch", t, None, "attempt"), "adapter")
    PROVE  CoreStep(t) /\ WorkDone(t)
<1> DEFINE e == Row("touch", t, None, "attempt")
<1>1. TypeOK /\ TurnInv(t) /\ "adapter" \in Locations
  BY DEF RunnerInv, Locations, StageLocations
<1>2. turns[t].status = "open" /\ Settled(t)
  BY <1>1 DEF TurnInv, Accounted, Pending, Quiet
<1>3. e \in Events /\ (Admitted(t, e) => Fold(turns[t], e) = turns[t])
  BY <1>1, TouchRow
<1> HIDE DEF e
<1>4. /\ CoreStep(t)
      /\ \/ LandedAt(t, e) /\ pc'[t] = "adapter"
         \/ LostAt(t, e) /\ pc'[t] = "failed"
  BY <1>1, <1>3, AppendsEffect DEF e
<1>5. turns'[t] = turns[t]
  BY <1>3, <1>4 DEF LandedAt, LostAt, KeptAt
<1>6. CASE pc'[t] = "adapter"
  <2>1. Pending(t)'
    BY <1>2, <1>5, <1>6 DEF Settled, Pending, Working, Locations, Closing, Over,
                    Attempting, InHand, Waiting, Executing
  <2> QED
    BY <1>1, <1>2, <1>4, <1>5, <1>6, <2>1 DEF WorkDone, Working, Closing, Over
<1>7. CASE pc'[t] = "failed" /\ LostAt(t, e)
  BY <1>2, <1>4, <1>5, <1>7 DEF WorkDone, LostAt, KeptAt, Settled
<1> QED
  BY <1>4, <1>6, <1>7

\* The outcome row of an attempt; it is refused only by a cancellation.
LEMMA OutcomeStep ==
    ASSUME RunnerInv, NEW t \in Turns, pc[t] \in Attempting,
           NEW next \in Quiet \ {"select"},
           NEW error \in {"cancelled", "other"},
           Appends(t, Outcome(t), next) \/ EndsWith(t, Outcome(t), error)
    PROVE  CoreStep(t) /\ WorkDone(t)
<1> DEFINE e == Row("touch", t, None, "outcome")
<1>1. TypeOK /\ TurnInv(t) /\ next \in Locations
  BY DEF RunnerInv, Quiet, Working
<1>2. turns[t].status = "open" /\ turns[t].tools = {} /\ turns[t].approvals = {}
  BY <1>1 DEF TurnInv, Accounted, Pending, Attempting, Working, Closing, Over,
              Locations, StageLocations
<1>3. /\ e \in Events /\ e.note = "outcome"
      /\ Admitted(t, e) => Fold(turns[t], e) = turns[t]
      /\ ~Admitted(t, e) => turns[t].cancelRequested
  BY <1>1, <1>2, TouchRow
<1>0. Outcome(t) = e
  BY DEF Outcome
<1> HIDE DEF e
<1>4. /\ CoreStep(t)
      /\ \/ LandedAt(t, e) /\ pc'[t] \in {next, "failed"}
         \/ LostAt(t, e) /\ pc'[t] = "failed"
  BY <1>0, <1>1, <1>3, AppendsEffect, EndsWithEffect
<1>5. turns'[t] = turns[t]
  BY <1>3, <1>4 DEF LandedAt, LostAt, KeptAt
<1>6. CASE LandedAt(t, e)
  <2>1. Settled(t)'
    BY <1>2, <1>3, <1>5, <1>6 DEF Settled, LandedAt
  <2>2. pc'[t] = next => pc'[t] \in Working /\ Pending(t)'
    BY <2>1 DEF Pending, Settled, Quiet, Attempting, InHand, Waiting, Executing
  <2> QED
    BY <1>2, <1>4, <1>5, <2>1, <2>2 DEF WorkDone, Settled, LostAt
<1>7. CASE LostAt(t, e) /\ pc'[t] = "failed"
  BY <1>2, <1>3, <1>4, <1>5, <1>7 DEF WorkDone, LostAt, LandedAt
<1> QED
  BY <1>4, <1>6, <1>7

\* Waiting for the provider.
LEMMA AttemptGoes ==
    ASSUME RunnerInv, NEW t \in Turns, pc[t] \in Attempting,
           NEW next \in Attempting, Goes(t, next)
    PROVE  CoreStep(t) /\ WorkDone(t)
<1>1. TypeOK /\ TurnInv(t) /\ next \in Locations /\ next \in Working
  BY DEF RunnerInv, Attempting, Locations, StageLocations, Working, Closing,
         Over
<1>2. turns[t].status = "open" /\ turns[t].tools = {} /\ turns[t].approvals = {}
  BY <1>1 DEF TurnInv, Accounted, Pending, Attempting, Working, Closing, Over,
              Locations, StageLocations
<1>3. CoreStep(t) /\ KeptAt(t) /\ pc'[t] = next
  BY <1>1, GoesEffect
<1>4. Pending(t)'
  BY <1>2, <1>3 DEF KeptAt, Settled, Pending, Attempting, InHand, Waiting,
                    Executing
<1> QED
  BY <1>1, <1>2, <1>3, <1>4 DEF WorkDone, KeptAt, Attempting

\* With an approved tool call in hand.
LEMMA ExecutingStep ==
    ASSUME RunnerInv, NEW t \in Turns, pc[t] \in Executing,
           NEW next \in Executing \ {"run"}, call'[t] = call[t],
           Goes(t, next) \/ Fails(t, "other") \/ Appends(t, Touch(t), next)
    PROVE  CoreStep(t) /\ WorkDone(t)
<1>1. TypeOK /\ TurnInv(t) /\ next \in Locations /\ next \in Working
      /\ pc[t] \in Working
  BY DEF RunnerInv, Executing, Locations, StageLocations, Working, Closing,
         Over
<1>2. /\ turns[t].status = "open" /\ turns[t].tools = {call[t]}
      /\ turns[t].approvals = {} /\ call[t] \in Calls
      /\ openAttempt[t] = FALSE
  BY <1>1 DEF TurnInv, Accounted, Pending, InHand, TypeOK, ExecutorTypeOK
<1>3. /\ CoreStep(t) /\ KeptAt(t)
      /\ pc'[t] \in {next, "failed"}
  <2>1. CASE Goes(t, next)
    BY <1>1, <2>1, GoesEffect
  <2>2. CASE Fails(t, "other")
    BY <1>1, <2>2, FailsEffect
  <2>3. CASE Appends(t, Touch(t), next)
    <3> DEFINE e == Row("touch", t, None, None)
    <3>1. e \in Events /\ e.note = None
          /\ (Admitted(t, e) => Fold(turns[t], e) = turns[t])
      BY <1>1, TouchRow
    <3>2. Appends(t, e, next)
      BY <2>3 DEF Touch
    <3> HIDE DEF e
    <3>3. /\ CoreStep(t) /\ pc'[t] \in {next, "failed"}
          /\ LandedAt(t, e) \/ LostAt(t, e)
      BY <1>1, <3>1, <3>2, AppendsEffect
    <3>4. LandedAt(t, e) => KeptAt(t)
      BY <1>2, <3>1, NoteAssumption DEF LandedAt, KeptAt
    <3> QED
      BY <3>3, <3>4 DEF LostAt
  <2> QED
    BY <2>1, <2>2, <2>3
<1>5. pc'[t] = next => Pending(t)'
  BY <1>2, <1>3 DEF Pending, Settled, KeptAt, Attempting, InHand, Waiting,
                    Executing
<1> QED
  BY <1>1, <1>2, <1>3, <1>5 DEF WorkDone, KeptAt, Executing

\* The places of the task, sorted.
LEMMA Places ==
    /\ Quiet = {"prepare", "assistant", "work", "planned", "execute", "plan",
                "select", "answered", "tools", "finish", "receipt", "complete"}
    /\ Attempting \subseteq Working /\ InHand \subseteq Working
    /\ Quiet \subseteq Working \ Attempting
    /\ InHand \subseteq Working \ Attempting
    /\ Executing \subseteq InHand
BY SMTT(30)
   DEF Quiet, Working, Locations, StageLocations, Closing, Over, Attempting,
       InHand, Waiting, Executing

\* The task of t works, and does what a working task may.
TaskWorks(t) == pc[t] \in Working /\ CoreStep(t) /\ WorkDone(t)

\* Actions before and behind the model stages.
LEMMA OuterActions ==
    ASSUME RunnerInv, NEW t \in Turns,
           \/ PrepareCancelled(t) \/ Prepared(t) \/ AssistantStarted(t)
           \/ RunTurn(t) \/ DeterministicRoute(t) \/ StageAnswered(t)
           \/ FollowUp(t) \/ (FinishTurn(t) /\ pc[t] # "complete")
    PROVE  TaskWorks(t)
<1> USE Places DEF TaskWorks
<1>1. CASE PrepareCancelled(t)
  BY <1>1, JustFails DEF PrepareCancelled
<1>2. CASE Prepared(t)
  <2>1. pc[t] = "prepare" /\ (Goes(t, "assistant") \/ Fails(t, "other"))
    BY <1>2 DEF Prepared
  <2> QED
    BY <2>1, QuietStep
<1>3. CASE AssistantStarted(t)
  <2>1. pc[t] = "assistant" /\ Appends(t, Touch(t), "work")
    BY <1>3 DEF AssistantStarted
  <2> QED
    BY <2>1, QuietStep
<1>4. CASE RunTurn(t)
  <2>1. /\ pc[t] = "work"
        /\ Appends(t, Touch(t), "planned") \/ Goes(t, "execute")
                \/ Fails(t, "other")
    BY <1>4 DEF RunTurn
  <2> QED
    BY <2>1, QuietStep
<1>5. CASE DeterministicRoute(t)
  <2>1. pc[t] = "planned" /\ Appends(t, Touch(t), "finish")
    BY <1>5 DEF DeterministicRoute
  <2> QED
    BY <2>1, QuietStep
<1>6. CASE StageAnswered(t)
  <2>1. pc[t] = "answered"
        /\ (Goes(t, "finish") \/ Goes(t, "tools") \/ Fails(t, "other"))
    BY <1>6 DEF StageAnswered
  <2> QED
    BY <2>1, QuietStep
<1>7. CASE FollowUp(t)
  <2>1. pc[t] = "tools" /\ (Goes(t, "execute") \/ Fails(t, "other"))
    BY <1>7 DEF FollowUp
  <2> QED
    BY <2>1, QuietStep
<1>8. CASE FinishTurn(t) /\ pc[t] # "complete"
  <2>1. \/ pc[t] = "finish" /\ Appends(t, Touch(t), "receipt")
        \/ pc[t] = "receipt" /\ Appends(t, Touch(t), "complete")
    BY <1>8 DEF FinishTurn
  <2> QED
    BY <2>1, QuietStep
<1> QED
  BY <1>1, <1>2, <1>3, <1>4, <1>5, <1>6, <1>7, <1>8

\* Actions of a model stage.
LEMMA StageActions ==
    ASSUME RunnerInv, NEW t \in Turns,
           StageStep(t) \/ AdapterReturns(t) \/ StreamFails(t)
    PROVE  TaskWorks(t)
<1> USE Places DEF TaskWorks
<1>1. CASE EnterStage(t)
  <2>1. pc[t] = "execute" /\ (Goes(t, "plan") \/ Fails(t, "other")
                                \/ Fails(t, "cancelled"))
    BY <1>1 DEF EnterStage
  <2> QED
    BY <2>1, QuietStep
<1>2. CASE PlanRoute(t)
  <2>1. pc[t] = "plan" /\ (Appends(t, Touch(t), "select") \/ Fails(t, "other"))
    BY <1>2 DEF PlanRoute
  <2> QED
    BY <2>1, QuietStep
<1>3. CASE AttemptRoute(t)
  <2>1. /\ pc[t] = "select"
        /\ Appends(t, Row("touch", t, None, "attempt"), "adapter")
              \/ Fails(t, "other")
    BY <1>3 DEF AttemptRoute
  <2> QED
    BY <2>1, JustFails, AttemptStep
<1>4. CASE AdapterReturns(t) \/ AdapterCancelled(t)
  <2>1. /\ pc[t] \in Attempting
        /\ \E next \in Attempting : Goes(t, next)
    BY <1>4 DEF AdapterReturns, AdapterCancelled, Attempting
  <2> QED
    BY <2>1, AttemptGoes
<1>5. CASE RouteCompleted(t) \/ RouteFailed(t) \/ RouteCancelled(t)
  <2>1. /\ pc[t] \in Attempting
        /\ \/ Appends(t, Outcome(t), "answered")
           \/ Appends(t, Outcome(t), "plan")
           \/ EndsWith(t, Outcome(t), "other")
           \/ EndsWith(t, Outcome(t), "cancelled")
    BY <1>5 DEF RouteCompleted, RouteFailed, RouteCancelled, Attempting
  <2>2. {"answered", "plan"} \subseteq Quiet \ {"select"}
    OBVIOUS
  <2>3. CoreStep(t) /\ WorkDone(t)
    BY <2>1, <2>2, OutcomeStep
  <2> QED
    BY <2>1, <2>3
<1>6. CASE StreamFails(t)
  <2>1. /\ pc[t] \in Working
        /\ pc' = [pc EXCEPT ![t] = "failed"]
        /\ err' = [err EXCEPT ![t] = "other"]
        /\ faults < MaxFaults /\ faults' = faults + 1
        /\ UNCHANGED <<turns, openAttempt>>
    BY <1>6 DEF StreamFails, Attempting
  <2>2. /\ turns \in [Turns -> Turn] /\ openAttempt \in [Turns -> BOOLEAN]
        /\ pc \in [Turns -> Locations]
        /\ err \in [Turns -> {"none", "cancelled", "other"}]
        /\ faults \in 0..MaxFaults /\ "failed" \in Locations
    BY DEF RunnerInv, TypeOK, ExecutorTypeOK, Locations, StageLocations
  <2>3. faults' # 0 /\ faults' \in 0..MaxFaults
    BY SMTT(30), <2>1, <2>2, FaultBoundAssumption
  <2>4. CoreStep(t) /\ pc'[t] = "failed"
    BY <2>1, <2>2, <2>3 DEF CoreStep, CoreType
  <2>5. turns[t].status = "open"
    BY <2>1 DEF RunnerInv, TurnInv, Accounted
  <2> QED
    BY <2>1, <2>3, <2>4, <2>5 DEF WorkDone
<1> QED
  BY <1>1, <1>2, <1>3, <1>4, <1>5, <1>6 DEF StageStep

\* The start of a tool call.
LEMMA ToolStarts ==
    ASSUME RunnerInv, NEW t \in Turns, ToolCallStarted(t)
    PROVE  TaskWorks(t)
<1>1. TypeOK /\ TurnInv(t) /\ pc[t] = "tools"
  BY DEF RunnerInv, ToolCallStarted
<1>2. PICK c \in plan[t] :
        /\ call' = [call EXCEPT ![t] = c]
        /\ \/ Fails(t, "other")
           \/ Appends(t, Row("tool_call_started", t, c, None), "approval")
  BY DEF ToolCallStarted
<1>3. c \in Calls /\ call'[t] = c /\ turns[t] \in Turn
  BY <1>1, <1>2 DEF TypeOK, ExecutorTypeOK
<1>4. CASE Fails(t, "other")
  BY <1>1, <1>4, JustFails, Places DEF TaskWorks
<1>5. CASE Appends(t, Row("tool_call_started", t, c, None), "approval")
  <2> DEFINE e == Row("tool_call_started", t, c, None)
  <2>1. e \in Events /\ e.kind = "tool_call_started" /\ e.call = c
        /\ e.note = None
    <3>1. "tool_call_started" \in Kinds \ {"work_created", "work_linked"}
          /\ None \in Notes
      BY DEF Kinds, Notes
    <3> QED
      BY SMTT(30), <1>1, <1>3, <3>1, TaskRow
  <2>2. Appends(t, e, "approval") /\ "approval" \in Locations
    BY <1>5 DEF Locations
  <2> HIDE DEF e
  <2>3. /\ CoreStep(t)
        /\ \/ LandedAt(t, e) /\ pc'[t] = "approval"
           \/ LostAt(t, e) /\ pc'[t] = "failed"
    BY <1>1, <2>1, <2>2, AppendsEffect
  <2>4. CASE LostAt(t, e) /\ pc'[t] = "failed"
    BY <1>1, <2>1, <2>3, <2>4, LastRow, Places, NoteAssumption DEF TaskWorks
  <2>5. CASE LandedAt(t, e) /\ pc'[t] = "approval"
    <3>1. turns[t].tools = {} /\ turns[t].approvals = {}
          /\ openAttempt[t] = FALSE
      BY <1>1, Places DEF TurnInv, Pending, Settled, Quiet, TypeOK,
                          ExecutorTypeOK
    <3>2. /\ turns'[t].tools = {c} /\ turns'[t].approvals = {}
          /\ turns'[t].status = "open"
          /\ turns'[t].cancelRequested = turns[t].cancelRequested
      BY SMTT(30), <1>3, <2>1, <2>5, <3>1, ToolStartedFold, WorkFold
         DEF LandedAt, Admitted
    <3>3. ~openAttempt'[t]
      BY <2>1, <2>5, <3>1, NoteAssumption DEF LandedAt
    <3>4. Pending(t)'
      BY <1>3, <2>5, <3>2, <3>3
         DEF Pending, Attempting, InHand, Waiting, Executing
    <3> QED
      BY <1>1, <2>3, <2>5, <3>2, <3>4, Places DEF TaskWorks, WorkDone, InHand
  <2> QED
    BY <2>3, <2>4, <2>5
<1> QED
  BY <1>2, <1>4, <1>5

\* The request for approval of the call in hand.
LEMMA ApprovalAsked ==
    ASSUME RunnerInv, NEW t \in Turns, ApprovalRequested(t)
    PROVE  TaskWorks(t)
<1>1. TypeOK /\ TurnInv(t) /\ pc[t] = "approval" /\ call' = call
  BY DEF RunnerInv, ApprovalRequested
<1>2. /\ turns[t].tools = {call[t]} /\ turns[t].approvals = {}
      /\ call[t] \in Calls /\ openAttempt[t] = FALSE /\ turns[t] \in Turn
  BY <1>1 DEF TurnInv, Pending, InHand, TypeOK, ExecutorTypeOK
<1>3. PICK key \in {call[t], None}, next \in {"wait", "decide"} :
        /\ Appends(t, Row("approval_requested", t, key, None), next)
        /\ next = "wait" => key = call[t]
        /\ next = "decide" => key = None /\ outcome'[t] = "auto_approved"
  <2>1. outcome \in [Turns -> {"auto_approved", "approved", "denied", None}]
    BY <1>1 DEF TypeOK
  <2> QED
    BY <2>1 DEF ApprovalRequested
<1> DEFINE e == Row("approval_requested", t, key, None)
<1>4. e \in Events /\ e.kind = "approval_requested" /\ e.call = key
      /\ e.note = None
  <2>1. "approval_requested" \in Kinds \ {"work_created", "work_linked"}
        /\ None \in Notes /\ key \in Calls \cup {None}
    BY <1>2 DEF Kinds, Notes
  <2> QED
    BY SMTT(30), <1>1, <2>1, TaskRow
<1>5. Appends(t, e, next) /\ next \in Locations
  BY <1>3 DEF Locations
<1> HIDE DEF e
<1>6. /\ CoreStep(t)
      /\ \/ LandedAt(t, e) /\ pc'[t] = next
         \/ LostAt(t, e) /\ pc'[t] = "failed"
  BY <1>1, <1>4, <1>5, AppendsEffect
<1>7. pc[t] \in InHand /\ next \in InHand
  BY <1>1, <1>3 DEF InHand, Waiting
<1>8. CASE LostAt(t, e) /\ pc'[t] = "failed"
  BY <1>4, <1>6, <1>7, <1>8, LastRow, Places, NoteAssumption DEF TaskWorks
<1>9. CASE LandedAt(t, e) /\ pc'[t] = next
  <2>1. /\ turns'[t].tools = {call[t]} /\ turns'[t].approvals = {key} \ {None}
        /\ turns'[t].status = "open"
        /\ turns'[t].cancelRequested = turns[t].cancelRequested
    BY SMTT(30), <1>2, <1>4, <1>9, ApprovalRequestedFold, WorkFold
       DEF LandedAt, Admitted
  <2>2. ~openAttempt'[t]
    BY <1>2, <1>4, <1>9, NoteAssumption DEF LandedAt
  <2>3. turns'[t].approvals = IF next = "wait" THEN {call[t]} ELSE {}
    BY <1>2, <1>3, <2>1, NoneAssumption
  <2>4. Pending(t)'
    BY <1>1, <1>2, <1>3, <1>9, <2>1, <2>2, <2>3
       DEF Pending, Attempting, InHand, Waiting, Executing
  <2> QED
    BY <1>6, <1>7, <1>9, <2>1, <2>4, Places DEF TaskWorks, WorkDone
<1> QED
  BY <1>6, <1>8, <1>9

\* The operator's answer, or the cancellation of the wait.
LEMMA ApprovalWaits ==
    ASSUME RunnerInv, NEW t \in Turns,
           ApprovalAnswered(t) \/ ApprovalWaitCancelled(t)
    PROVE  TaskWorks(t)
<1>1. TypeOK /\ TurnInv(t) /\ pc[t] = "wait" /\ pc[t] \in InHand
      /\ call' = call
  BY DEF RunnerInv, ApprovalAnswered, ApprovalWaitCancelled, InHand, Waiting,
         runnerVars
<1>2. /\ turns[t].tools = {call[t]} /\ turns[t].approvals = {call[t]}
      /\ call[t] \in Calls /\ ~openAttempt[t]
  BY <1>1 DEF TurnInv, Pending, Waiting
<1>3. turns[t].status = "open"
  BY <1>1, Places DEF TurnInv, Accounted
<1>4. CASE Fails(t, "other")
  BY <1>1, <1>4, JustFails, Places DEF TaskWorks
<1>5. ASSUME NEW next \in {"decide", "waitCancelled"}, Goes(t, next),
             next = "decide" => outcome'[t] \in {"approved", "denied"}
      PROVE  TaskWorks(t)
  <2>1. next \in Locations /\ next \in InHand
    BY <1>5 DEF Locations, InHand, Waiting
  <2>2. CoreStep(t) /\ KeptAt(t) /\ pc'[t] = next
    BY <1>1, <1>5, <2>1, GoesEffect
  <2>3. Pending(t)'
    BY <1>1, <1>2, <1>3, <1>5, <2>2
       DEF Pending, KeptAt, Attempting, InHand, Waiting, Executing
  <2> QED
    BY <1>1, <1>3, <2>1, <2>2, <2>3, Places DEF TaskWorks, WorkDone, KeptAt
<1>6. CASE ApprovalAnswered(t)
  <2>1. outcome \in [Turns -> {"auto_approved", "approved", "denied", None}]
    BY <1>1 DEF TypeOK
  <2>2. \/ Fails(t, "other")
        \/ Goes(t, "decide") /\ outcome'[t] \in {"approved", "denied"}
    BY <1>6, <2>1 DEF ApprovalAnswered
  <2> QED
    BY <1>4, <1>5, <2>2
<1>7. CASE ApprovalWaitCancelled(t)
  BY <1>4, <1>5, <1>7 DEF ApprovalWaitCancelled
<1> QED
  BY <1>6, <1>7

\* The decision row, or the audit row of a cancelled wait.
LEMMA ApprovalSettles ==
    ASSUME RunnerInv, NEW t \in Turns,
           ApprovalDecided(t) \/ ApprovalCancelled(t)
    PROVE  TaskWorks(t)
<1>1. TypeOK /\ TurnInv(t) /\ pc[t] \in {"decide", "waitCancelled"}
      /\ pc[t] \in InHand /\ call' = call
  BY DEF RunnerInv, ApprovalDecided, ApprovalCancelled, InHand, Waiting,
         runnerVars
<1>2. /\ turns[t].tools = {call[t]} /\ call[t] \in Calls
      /\ openAttempt[t] = FALSE /\ turns[t] \in Turn
  BY <1>1 DEF TurnInv, Pending, TypeOK, ExecutorTypeOK
<1>3. PICK key \in {call[t], None},
           n \in {"auto_approved", "approved", "denied", "cancelled"} :
        LET e == Row("approval_decided", t, key, n)
        IN /\ turns[t].approvals \subseteq {key}
           /\ \/ EndsWith(t, e, "other")
              \/ Appends(t, e, "run") /\ (pc'[t] = "run" =>
                                            call[t] \in granted'[t])
  <2>1. CASE ApprovalCancelled(t)
    <3>1. pc[t] = "waitCancelled"
          /\ EndsWith(t, Row("approval_decided", t, call[t], "cancelled"),
                      "other")
      BY <2>1 DEF ApprovalCancelled
    <3>2. turns[t].approvals = {call[t]}
      BY <1>1, <3>1 DEF TurnInv, Pending, Waiting
    <3> QED
      BY <3>1, <3>2
  <2>2. CASE ApprovalDecided(t)
    <3> DEFINE key == IF outcome[t] = "auto_approved" THEN None ELSE call[t]
               e == Row("approval_decided", t, key, outcome[t])
    <3>1. /\ pc[t] = "decide"
          /\ EndsWith(t, e, "other") \/ Appends(t, e, "run")
          /\ granted' = IF pc'[t] = "run"
                        THEN [granted EXCEPT ![t] = @ \cup {call[t]}]
                        ELSE granted
      BY <2>2 DEF ApprovalDecided
    <3>2. outcome[t] \in {"auto_approved", "approved", "denied"}
          /\ turns[t].approvals \subseteq {key}
      BY <1>1, <3>1 DEF TurnInv, Pending
    <3>3. pc'[t] = "run" => call[t] \in granted'[t]
      BY <1>1, <3>1 DEF TypeOK
    <3> QED
      BY <3>1, <3>2, <3>3
  <2> QED
    BY <2>1, <2>2
<1> DEFINE e == Row("approval_decided", t, key, n)
<1>4. e \in Events /\ e.kind = "approval_decided" /\ e.call = key /\ e.note = n
  <2>1. "approval_decided" \in Kinds \ {"work_created", "work_linked"}
        /\ n \in Notes /\ key \in Calls \cup {None}
    BY <1>2 DEF Kinds, Notes
  <2> QED
    BY SMTT(30), <1>1, <2>1, TaskRow
<1>5. EndsWith(t, e, "other") \/ Appends(t, e, "run")
  BY <1>3
<1>6. "run" \in Locations /\ "run" \in InHand
  BY DEF Locations, InHand, Executing
<1> HIDE DEF e
<1>7. /\ CoreStep(t)
      /\ \/ LandedAt(t, e) /\ pc'[t] \in {"run", "failed"}
         \/ LostAt(t, e) /\ pc'[t] = "failed"
  BY <1>1, <1>4, <1>5, <1>6, AppendsEffect, EndsWithEffect
<1>8. CASE pc'[t] = "failed"
  <2>1. LandedAt(t, e) \/ LostAt(t, e)
    BY <1>7
  <2> QED
    BY <1>1, <1>4, <1>7, <1>8, <2>1, LastRow, Places DEF TaskWorks
<1>9. CASE LandedAt(t, e) /\ pc'[t] = "run"
  <2>1. /\ turns'[t].tools = {call[t]} /\ turns'[t].approvals = {}
        /\ turns'[t].status = "open"
        /\ turns'[t].cancelRequested = turns[t].cancelRequested
    BY SMTT(30), <1>2, <1>3, <1>4, <1>9, ApprovalDecidedFold, WorkFold
       DEF LandedAt, Admitted
  <2>2. ~openAttempt'[t]
    BY <1>2, <1>4, <1>9 DEF LandedAt
  <2>3. call[t] \in granted'[t]
    <3>1. EndsWith(t, e, "other") => pc'[t] = "failed"
      BY <1>1, <1>4, EndsWithEffect
    <3> QED
      BY <1>3, <1>9, <3>1 DEF e
  <2>4. Pending(t)'
    BY <1>1, <1>2, <1>9, <2>1, <2>2, <2>3
       DEF Pending, Attempting, InHand, Waiting, Executing
  <2> QED
    BY <1>1, <1>6, <1>7, <1>9, <2>1, <2>4, Places DEF TaskWorks, WorkDone
<1> QED
  BY <1>7, <1>8, <1>9

\* The execution of the tool.
LEMMA ToolRuns ==
    ASSUME RunnerInv, NEW t \in Turns,
           ExecuteTool(t) \/ ToolReturns(t) \/ ToolCancelled(t)
             \/ PersistOutput(t)
    PROVE  TaskWorks(t)
<1>1. pc[t] \in Executing /\ call'[t] = call[t]
  BY DEF ExecuteTool, ToolReturns, ToolCancelled, PersistOutput, Executing,
         runnerVars
<1>2. \/ Fails(t, "other")
      \/ \E next \in Executing \ {"run"} :
            Goes(t, next) \/ Appends(t, Touch(t), next)
  BY DEF ExecuteTool, ToolReturns, ToolCancelled, PersistOutput, Executing
<1>3. CASE Fails(t, "other")
  BY <1>1, <1>3, JustFails, Places DEF TaskWorks
<1>4. CASE \E next \in Executing \ {"run"} :
            Goes(t, next) \/ Appends(t, Touch(t), next)
  BY <1>1, <1>4, ExecutingStep, Places DEF TaskWorks
<1> QED
  BY <1>2, <1>3, <1>4

\* The end of a tool call, with or without a known result.
LEMMA ToolSettles ==
    ASSUME RunnerInv, NEW t \in Turns,
           ToolCallCompleted(t) \/ ToolCallUncertain(t)
    PROVE  TaskWorks(t)
<1>1. TypeOK /\ TurnInv(t) /\ pc[t] \in Executing /\ pc[t] \in InHand
  BY DEF RunnerInv, ToolCallCompleted, ToolCallUncertain, InHand, Executing
<1>2. /\ turns[t].tools = {call[t]} /\ call[t] \in Calls
      /\ turns[t].approvals = {}
      /\ openAttempt[t] = FALSE /\ turns[t] \in Turn
  BY <1>1 DEF TurnInv, Pending, TypeOK, ExecutorTypeOK
<1>3. PICK n \in {"success", "uncertain"} :
        LET e == Row("tool_call_completed", t, call[t], n)
        IN EndsWith(t, e, "other") \/ Appends(t, e, "tools")
  BY DEF ToolCallCompleted, ToolCallUncertain
<1> DEFINE e == Row("tool_call_completed", t, call[t], n)
<1>4. e \in Events /\ e.kind = "tool_call_completed" /\ e.call = call[t]
      /\ e.note = n
  <2>1. "tool_call_completed" \in Kinds \ {"work_created", "work_linked"}
        /\ n \in Notes
    BY DEF Kinds, Notes
  <2> QED
    BY SMTT(30), <1>1, <1>2, <2>1, TaskRow
<1>5. EndsWith(t, e, "other") \/ Appends(t, e, "tools")
  BY <1>3
<1>6. "tools" \in Locations /\ "tools" \in Quiet
  BY Places DEF Locations
<1> HIDE DEF e
<1>7. /\ CoreStep(t)
      /\ \/ LandedAt(t, e) /\ pc'[t] \in {"tools", "failed"}
         \/ LostAt(t, e) /\ pc'[t] = "failed"
  BY <1>1, <1>4, <1>5, <1>6, AppendsEffect, EndsWithEffect
<1>8. CASE pc'[t] = "failed"
  <2>1. LandedAt(t, e) \/ LostAt(t, e)
    BY <1>7
  <2> QED
    BY <1>1, <1>4, <1>7, <1>8, <2>1, LastRow, Places DEF TaskWorks
<1>9. CASE LandedAt(t, e) /\ pc'[t] = "tools"
  <2>1. /\ turns'[t].tools = {} /\ turns'[t].approvals = {}
        /\ turns'[t].status = "open"
        /\ turns'[t].cancelRequested = turns[t].cancelRequested
    BY SMTT(30), <1>2, <1>4, <1>9, ToolCompletedFold, WorkFold
       DEF LandedAt, Admitted
  <2>2. ~openAttempt'[t]
    BY <1>2, <1>4, <1>9 DEF LandedAt
  <2>3. Pending(t)'
    BY <1>9, <2>1, <2>2
       DEF Pending, Settled, Attempting, InHand, Waiting, Executing
  <2> QED
    BY <1>1, <1>6, <1>7, <1>9, <2>1, <2>3, Places DEF TaskWorks, WorkDone
<1> QED
  BY <1>7, <1>8, <1>9

\* The actions of a working task.
WorkAction(t) ==
    \/ PrepareCancelled(t) \/ Prepared(t) \/ AssistantStarted(t)
    \/ RunTurn(t) \/ DeterministicRoute(t) \/ StageAnswered(t)
    \/ FollowUp(t) \/ (FinishTurn(t) /\ pc[t] # "complete")
    \/ (StageStep(t) /\ UNCHANGED runnerVars)
    \/ (AdapterReturns(t) /\ UNCHANGED runnerVars) \/ StreamFails(t)
    \/ ToolCallStarted(t) \/ ApprovalRequested(t) \/ ApprovalAnswered(t)
    \/ ApprovalWaitCancelled(t) \/ ApprovalDecided(t) \/ ApprovalCancelled(t)
    \/ ExecuteTool(t) \/ ToolReturns(t) \/ ToolCancelled(t)
    \/ PersistOutput(t) \/ ToolCallCompleted(t) \/ ToolCallUncertain(t)

\* They leave the registry, the channel and the locals of others alone.
LEMMA WorkFrame ==
    ASSUME RunnerInv, NEW t \in Turns, WorkAction(t)
    PROVE  LocalFrame(t) /\ UNCHANGED <<signal, registryVars>>
<1>0. RestType /\ CoreType /\ (pc[t] = "select" => attempt[t] < MaxAttempts)
  BY TypeSplits DEF RunnerInv, TurnInv, Bounded
<1>1. ASSUME UNCHANGED <<attempt, signal, runnerVars>>,
             pc[t] # "plan"
      PROVE  LocalFrame(t) /\ UNCHANGED <<signal, registryVars>>
  BY <1>0, <1>1 DEF LocalFrame, RestType, runnerVars, registryVars
<1>2. CASE \/ PrepareCancelled(t) \/ Prepared(t) \/ AssistantStarted(t)
           \/ DeterministicRoute(t) \/ FinishTurn(t)
  BY <1>1, <1>2 DEF PrepareCancelled, Prepared, AssistantStarted,
                    DeterministicRoute, FinishTurn
<1>3. CASE \/ StreamFails(t) \/ ApprovalWaitCancelled(t)
           \/ ApprovalCancelled(t) \/ ToolReturns(t) \/ ToolCancelled(t)
           \/ PersistOutput(t) \/ ToolCallUncertain(t)
  BY <1>1, <1>3 DEF StreamFails, ApprovalWaitCancelled, ApprovalCancelled,
                    ToolReturns, ToolCancelled, PersistOutput,
                    ToolCallUncertain
<1>4. CASE AdapterReturns(t) /\ UNCHANGED runnerVars
  BY <1>1, <1>4 DEF AdapterReturns
<1>5. CASE StageStep(t) /\ UNCHANGED runnerVars
  <2>1. CASE EnterStage(t)
    <3>1. pc[t] = "execute" /\ attempt' = [attempt EXCEPT ![t] = 0]
          /\ UNCHANGED <<signal, runnerVars>>
      BY <1>5, <2>1 DEF EnterStage
    <3>2. 0 \in 0..MaxAttempts
      BY SMTT(30), MaxAttemptsAssumption
    <3> QED
      BY <1>0, <3>1, <3>2 DEF LocalFrame, RestType, runnerVars, registryVars
  <2>2. CASE PlanRoute(t)
    <3>1. /\ pc[t] = "plan" /\ UNCHANGED <<attempt, signal, runnerVars>>
          /\ attempt[t] < MaxAttempts \/ Fails(t, "other")
      BY <1>5, <2>2 DEF PlanRoute
    <3>2. Fails(t, "other") => pc'[t] = "failed"
      BY FailsEffect DEF RunnerInv
    <3> QED
      BY <1>0, <3>1, <3>2 DEF LocalFrame, RestType, runnerVars, registryVars
  <2>3. CASE AttemptRoute(t)
    <3>1. /\ pc[t] = "select" /\ UNCHANGED <<signal, runnerVars>>
          /\ attempt' = attempt \/ attempt' = [attempt EXCEPT ![t] = @ + 1]
      BY <1>5, <2>3 DEF AttemptRoute
    <3>2. attempt' \in [Turns -> 0..MaxAttempts]
          /\ \A u \in Turns \ {t} : attempt'[u] = attempt[u]
      <4>1. attempt \in [Turns -> 0..MaxAttempts] /\ attempt[t] < MaxAttempts
        BY <1>0, <3>1 DEF RestType
      <4>2. attempt[t] + 1 \in 0..MaxAttempts
        BY SMTT(30), <4>1, MaxAttemptsAssumption
      <4> QED
        BY <3>1, <4>1, <4>2
    <3> QED
      BY <1>0, <3>1, <3>2 DEF LocalFrame, RestType, runnerVars, registryVars
  <2>4. CASE \/ AdapterCancelled(t) \/ RouteCompleted(t) \/ RouteFailed(t)
             \/ RouteCancelled(t)
    BY <1>1, <1>5, <2>4 DEF AdapterCancelled, RouteCompleted, RouteFailed,
                            RouteCancelled
  <2> QED
    BY <1>5, <2>1, <2>2, <2>3, <2>4 DEF StageStep
<1>6. CASE RunTurn(t)
  <2>1. /\ pc[t] = "work"
        /\ shadow' \in {shadow, shadow \cup {t}}
        /\ UNCHANGED <<attempt, signal, registryVars, plan, call, outcome,
                       followUp, effects, granted>>
    BY <1>6 DEF RunTurn
  <2> QED
    BY <1>0, <2>1 DEF LocalFrame, RestType, registryVars
<1>7. CASE StageAnswered(t) \/ ToolCallCompleted(t)
  <2>1. /\ pc[t] # "plan"
        /\ plan' \in [Turns -> SUBSET Calls]
        /\ UNCHANGED <<attempt, signal, registryVars, shadow, call, outcome,
                       followUp, effects, granted>>
    BY SMTT(30), <1>0, <1>7 DEF StageAnswered, ToolCallCompleted, RestType
  <2> QED
    BY <1>0, <2>1 DEF LocalFrame, RestType, registryVars
<1>8. CASE ToolCallStarted(t)
  <2>1. /\ pc[t] = "tools"
        /\ \E c \in plan[t] : call' = [call EXCEPT ![t] = c]
        /\ UNCHANGED <<attempt, signal, registryVars, shadow, plan, outcome,
                       followUp, effects, granted>>
    BY <1>8 DEF ToolCallStarted
  <2> QED
    BY SMTT(30), <1>0, <2>1 DEF LocalFrame, RestType, registryVars
<1>9. CASE FollowUp(t)
  <2>1. /\ pc[t] = "tools"
        /\ followUp' = [followUp EXCEPT ![t] = TRUE]
        /\ UNCHANGED <<attempt, signal, registryVars, shadow, plan, call,
                       outcome, effects, granted>>
    BY <1>9 DEF FollowUp
  <2> QED
    BY <1>0, <2>1 DEF LocalFrame, RestType, registryVars
<1>10. CASE ApprovalRequested(t) \/ ApprovalAnswered(t)
  <2>1. /\ pc[t] # "plan"
        /\ outcome' = outcome \/ \E o \in {"auto_approved", "approved",
              "denied", None} : outcome' = [outcome EXCEPT ![t] = o]
        /\ UNCHANGED <<attempt, signal, registryVars, shadow, plan, call,
                       followUp, effects, granted>>
    BY <1>10 DEF ApprovalRequested, ApprovalAnswered
  <2> QED
    BY <1>0, <2>1 DEF LocalFrame, RestType, registryVars
<1>11. CASE ApprovalDecided(t)
  <2>1. /\ pc[t] = "decide"
        /\ granted' = granted
             \/ granted' = [granted EXCEPT ![t] = @ \cup {call[t]}]
        /\ UNCHANGED <<attempt, signal, registryVars, shadow, plan, call,
                       outcome, followUp, effects>>
    BY <1>11 DEF ApprovalDecided
  <2>2. call[t] \in Calls
    BY <2>1 DEF RunnerInv, TurnInv, Pending, InHand
  <2> QED
    BY SMTT(30), <1>0, <2>1, <2>2 DEF LocalFrame, RestType, registryVars
<1>12. CASE ExecuteTool(t)
  <2>1. /\ pc[t] = "run"
        /\ effects' = effects
             \/ effects' = [effects EXCEPT ![t] = @ \cup {call[t]}]
        /\ UNCHANGED <<attempt, signal, registryVars, shadow, plan, call,
                       outcome, followUp, granted>>
    BY <1>12 DEF ExecuteTool
  <2>2. call[t] \in Calls
    BY <2>1 DEF RunnerInv, TurnInv, Pending, InHand, Executing
  <2> QED
    BY SMTT(30), <1>0, <2>1, <2>2 DEF LocalFrame, RestType, registryVars
<1> QED
  BY <1>2, <1>3, <1>4, <1>5, <1>6, <1>7, <1>8, <1>9, <1>10, <1>11, <1>12
     DEF WorkAction

\* A working task keeps the invariant.
LEMMA WorkActionInv ==
    ASSUME RunnerInv, NEW t \in Turns, WorkAction(t)
    PROVE  RunnerInv'
<1>1. TaskWorks(t)
  BY OuterActions, StageActions, ToolStarts, ApprovalAsked, ApprovalWaits,
     ApprovalSettles, ToolRuns, ToolSettles, Zenon DEF WorkAction
<1>2. pc[t] \in Working /\ CoreStep(t) /\ WorkDone(t)
  BY <1>1 DEF TaskWorks
<1>3. LocalFrame(t) /\ UNCHANGED <<signal, registryVars>>
  BY WorkFrame
<1> QED
  BY <1>2, <1>3, WorkInv

-----------------------------------------------------------------------------
(* The end of a task.                                                      *)

\* A step about one turn keeps the invariant if that turn does.
LEMMA OneTurn ==
    ASSUME RunnerInv, NEW t \in Turns, TypeOK', TurnInv(t)',
           \A u \in Turns \ {t} : Untouched(u),
           faults' = 0 => refused' = {}
    PROVE  RunnerInv'
<1>1. ASSUME NEW u \in Turns, u # t PROVE TurnInv(u)'
  BY <1>1, UntouchedInv DEF RunnerInv
<1> QED
  BY <1>1 DEF RunnerInv

\* Nothing outside of the core moves for any task.
StillRest == UNCHANGED <<attempt, signal, call, outcome, granted, plan,
                         followUp, shadow, effects, active, scopes, orphans,
                         cancelling, observed, refused>>

\* The completion of a turn.
LEMMA CompleteInv ==
    ASSUME RunnerInv, NEW t \in Turns, pc[t] = "complete", FinishTurn(t)
    PROVE  RunnerInv'
<1> DEFINE e == Row("turn_completed", t, None, None)
<1>1. TypeOK /\ TurnInv(t) /\ turns[t] \in Turn /\ openAttempt[t] \in BOOLEAN
  BY DEF RunnerInv, TypeOK, ExecutorTypeOK
<1>2. e \in Events /\ e.kind = "turn_completed" /\ e.note = None
  <2>1. "turn_completed" \in Kinds \ {"work_created", "work_linked"}
        /\ None \in Notes /\ None \in Calls \cup {None}
    BY DEF Kinds, Notes
  <2> QED
    BY SMTT(30), <1>1, <2>1, TaskRow
<1>3. Appends(t, e, "observe") /\ StillRest
  BY DEF FinishTurn, runnerVars, StillRest
<1> HIDE DEF e
<1>4. /\ turns[t].status = "open" /\ turns[t].tools = {}
      /\ turns[t].approvals = {} /\ openAttempt[t] = FALSE /\ t \in active
  <2>1. "complete" \in Working \ (Attempting \cup InHand)
    BY DEF Working, Locations, Closing, Over, Attempting, InHand, Waiting,
           Executing
  <2> QED
    BY <1>1, <2>1 DEF TurnInv, Accounted, Pending, Settled, Registered
<1>5. /\ CoreStep(t)
      /\ \/ LandedAt(t, e) /\ pc'[t] = "observe"
         \/ LostAt(t, e) /\ pc'[t] = "failed"
  <2>1. "observe" \in Locations
    BY DEF Locations
  <2> QED
    BY <1>1, <1>2, <1>3, <2>1, AppendsEffect
<1>6. LandedAt(t, e) =>
        /\ turns'[t].status = "completed"
        /\ turns'[t].cancelRequested = turns[t].cancelRequested
        /\ turns'[t].tools = {} /\ turns'[t].approvals = {}
        /\ openAttempt'[t] = FALSE
  BY SMTT(30), <1>1, <1>2, <1>4, CompletedFold, NoteAssumption
     DEF LandedAt, Admitted
<1>7. /\ turns'[t].cancelRequested = turns[t].cancelRequested
      /\ turns'[t].tools = {} /\ turns'[t].approvals = {}
      /\ openAttempt'[t] = FALSE
      /\ \/ pc'[t] = "observe" /\ turns'[t].status = "completed"
         \/ pc'[t] = "failed" /\ turns'[t].status \in {"open", "completed"}
  BY <1>4, <1>5, <1>6 DEF LostAt, KeptAt
<1>8. TypeOK'
  <2>1. CoreType' /\ RestType'
    BY <1>1, <1>3, <1>5, TypeSplits DEF CoreStep, StillRest, RestType
  <2> QED
    BY <2>1 DEF TypeOK, ExecutorTypeOK, CoreType, RestType
<1>9. TurnInv(t)'
  <2>1. Registered(t)'
    BY <1>3, <1>4, <1>7 DEF Registered, StillRest
  <2>2. Accounted(t)'
    BY <1>7 DEF Accounted, Working, Over, Closing, IsTerminal,
                TerminalStatuses
  <2>3. Pending(t)'
    BY <1>7 DEF Pending, Settled, Working, Over, Closing, Attempting, InHand,
                Waiting, Executing
  <2>4. Intended(t)'
    BY <1>1, <1>3, <1>7 DEF TurnInv, Intended, StillRest
  <2>5. Undisturbed(t)'
    BY <1>1, <1>3, <1>4, <1>5, <1>7
       DEF TurnInv, Undisturbed, StillRest, CoreStep, IsTerminal,
           TerminalStatuses
  <2>6. Bounded(t)'
    BY <1>7 DEF Bounded
  <2> QED
    BY <2>1, <2>2, <2>3, <2>4, <2>5, <2>6 DEF TurnInv
<1>10. \A u \in Turns \ {t} : Untouched(u)
  BY <1>3, <1>5 DEF CoreStep, StillRest, Untouched
<1>11. faults' = 0 => refused' = {}
  BY <1>3, <1>5 DEF RunnerInv, CoreStep, StillRest
<1> QED
  BY <1>8, <1>9, <1>10, <1>11, OneTurn

\* The reason is read off the channel.
LEMMA ChooseReasonInv ==
    ASSUME RunnerInv, NEW t \in Turns, ChooseReason(t)
    PROVE  RunnerInv'
<1> DEFINE next == IF signal[t] THEN "closeCancelled" ELSE "closeFailed"
<1>1. TypeOK /\ TurnInv(t) /\ next \in Locations
  BY DEF RunnerInv, Locations
<1>2. /\ pc[t] = "failed" /\ Goes(t, next) /\ StillRest
  BY DEF ChooseReason, runnerVars, StillRest
<1>3. pc'[t] \in {"closeCancelled", "closeFailed"}
      /\ (pc'[t] = "closeCancelled" => signal[t])
      /\ CoreStep(t) /\ KeptAt(t)
  <2>1. next \in {"closeCancelled", "closeFailed"}
        /\ (next = "closeCancelled" => signal[t])
    OBVIOUS
  <2> HIDE DEF next
  <2> QED
    BY <1>1, <1>2, <2>1, GoesEffect
<1> HIDE DEF next
<1>4. TypeOK'
  <2>1. CoreType' /\ RestType'
    BY <1>1, <1>2, <1>3, TypeSplits DEF CoreStep, StillRest, RestType
  <2> QED
    BY <2>1 DEF TypeOK, ExecutorTypeOK, CoreType, RestType
<1>5. TurnInv(t)'
  <2>1. Registered(t)'
    BY <1>1, <1>2, <1>3 DEF TurnInv, Registered, StillRest, KeptAt
  <2>2. Accounted(t)'
    BY <1>3 DEF Accounted, Working, Over, Closing
  <2>3. Pending(t)'
    BY <1>1, <1>3 DEF TurnInv, Pending, Settled, KeptAt, Working, Closing,
                      Attempting, InHand, Waiting, Executing
  <2>4. Intended(t)'
    BY <1>1, <1>2, <1>3 DEF TurnInv, Intended, StillRest, KeptAt
  <2>5. Undisturbed(t)'
    BY <1>1, <1>2, <1>3
       DEF TurnInv, Undisturbed, StillRest, CoreStep, KeptAt, IsTerminal,
           Closing
  <2>6. Bounded(t)'
    BY <1>3 DEF Bounded
  <2> QED
    BY <2>1, <2>2, <2>3, <2>4, <2>5, <2>6 DEF TurnInv
<1>6. \A u \in Turns \ {t} : Untouched(u)
  BY <1>2, <1>3 DEF CoreStep, StillRest, Untouched
<1>7. faults' = 0 => refused' = {}
  BY <1>2, <1>3 DEF RunnerInv, CoreStep, StillRest
<1> QED
  BY <1>4, <1>5, <1>6, <1>7, OneTurn

\* The closing row lands, or the turn becomes an orphan.  Without a storage
\* error and without a cancellation intent the row is refused only when the
\* turn is terminal already.
LEMMA CloseTurnInv ==
    ASSUME RunnerInv, NEW t \in Turns, CloseTurn(t)
    PROVE  RunnerInv'
<1> DEFINE reason == IF pc[t] = "closeCancelled" THEN "OPERATOR_CANCELLED"
                                                 ELSE "EXECUTION_FAILED"
           e == Row("turn_interrupted", t, None, reason)
<1>1. /\ TypeOK /\ TurnInv(t) /\ turns[t] \in Turn
      /\ openAttempt[t] \in BOOLEAN /\ faults \in 0..MaxFaults
      /\ pc \in [Turns -> Locations]
      /\ err \in [Turns -> {"none", "cancelled", "other"}]
      /\ orphans \subseteq Turns /\ "observe" \in Locations
  BY DEF RunnerInv, TypeOK, ExecutorTypeOK, Locations
<1>2. /\ pc[t] \in {"closeCancelled", "closeFailed"}
      /\ \/ Accepted(t, e, "observe") /\ orphans' = orphans
         \/ /\ Rejected(t, e) /\ orphans' = orphans \cup {t}
            /\ pc' = [pc EXCEPT ![t] = "observe"] /\ err' = err
      /\ UNCHANGED <<attempt, signal, active, scopes, cancelling, observed,
                     refused, taskVars>>
  BY DEF CloseTurn
<1>3. /\ e \in Events /\ e.kind = "turn_interrupted" /\ e.note = reason
      /\ e.binding = turns[t].binding
  <2>1. /\ "turn_interrupted" \in Kinds \ {"work_created", "work_linked"}
        /\ reason \in Notes /\ reason \in Reasons
        /\ None \in Calls \cup {None}
    BY DEF Kinds, Notes, Reasons
  <2> QED
    BY SMTT(30), <1>1, <2>1, TaskRow
<1>4. /\ e.note \notin {"attempt", "outcome"}
      /\ e.note = "OPERATOR_CANCELLED" <=> pc[t] = "closeCancelled"
  BY <1>3
<1> HIDE DEF e, reason
<1>5. /\ CoreStep(t) /\ pc'[t] = "observe"
      /\ \/ LandedAt(t, e) /\ orphans' = orphans
         \/ LostAt(t, e) /\ orphans' = orphans \cup {t}
  <2>1. CASE Accepted(t, e, "observe") /\ orphans' = orphans
    <3>1. Admitted(t, e) /\ Lands(t, e) /\ pc' = [pc EXCEPT ![t] = "observe"]
          /\ UNCHANGED <<err, faults>>
      BY <2>1 DEF Accepted
    <3> QED
      BY <1>1, <1>3, <2>1, <3>1, LandsEffect DEF CoreStep, CoreType, LandedAt
  <2>2. CASE /\ Rejected(t, e) /\ orphans' = orphans \cup {t}
             /\ pc' = [pc EXCEPT ![t] = "observe"] /\ err' = err
    BY <1>1, <1>3, <2>2, RejectedEffect DEF CoreStep, CoreType
  <2> QED
    BY <1>2, <2>1, <2>2
<1>6. /\ Admitted(t, e) <=> turns[t].status = "open"
                /\ (turns[t].cancelRequested <=> pc[t] = "closeCancelled")
      /\ LandedAt(t, e) =>
            /\ turns'[t].status = "interrupted"
            /\ turns'[t].cancelRequested = turns[t].cancelRequested
            /\ openAttempt'[t] = openAttempt[t]
  BY SMTT(30), <1>1, <1>3, <1>4, InterruptedFold DEF LandedAt, Admitted
<1>7. /\ turns'[t].cancelRequested = turns[t].cancelRequested
      /\ openAttempt'[t] = openAttempt[t]
      /\ turns'[t].status = "interrupted" \/ turns'[t] = turns[t]
      /\ turns'[t].status = "interrupted" \/ t \in orphans'
  BY <1>5, <1>6 DEF LostAt, KeptAt
<1>8. turns[t].status \in {"open"} \cup TerminalStatuses
  BY <1>1, <1>2 DEF TurnInv, Registered, Turn
<1>9. TypeOK'
  <2>1. orphans' \subseteq Turns
    BY <1>1, <1>5
  <2>2. CoreType' /\ RestType'
    BY <1>1, <1>2, <1>5, <2>1, TypeSplits DEF CoreStep, taskVars, RestType
  <2> QED
    BY <2>2 DEF TypeOK, ExecutorTypeOK, CoreType, RestType
<1>10. TurnInv(t)'
  <2>1. Registered(t)'
    BY <1>1, <1>2, <1>5, <1>7, <1>8 DEF TurnInv, Registered, TerminalStatuses
  <2>2. Accounted(t)'
    BY <1>5, <1>7 DEF Accounted, Working, Over, IsTerminal, TerminalStatuses
  <2>3. Pending(t)'
    BY <1>1, <1>5, <1>7 DEF TurnInv, Pending, Settled, Working, Over,
                            Attempting, InHand, Waiting, Executing
  <2>4. Intended(t)'
    BY <1>1, <1>2, <1>5, <1>7 DEF TurnInv, Intended
  <2>5. ASSUME faults' = 0
        PROVE  /\ turns'[t].status = "open" => t \in active' \cup orphans'
               /\ ~turns'[t].cancelRequested =>
                    IsTerminal(turns'[t]) /\ ~openAttempt'[t]
    <3>1. faults = 0
      BY <1>5, <2>5 DEF CoreStep
    <3>2. turns'[t].status = "open" => t \in active' \cup orphans'
      BY <1>7
    <3>3. ASSUME ~turns'[t].cancelRequested
          PROVE  IsTerminal(turns'[t]) /\ ~openAttempt'[t]
      <4>1. ~turns[t].cancelRequested /\ pc[t] = "closeFailed"
        BY <1>1, <1>2, <1>7, <3>3 DEF TurnInv, Intended
      <4>2. ~openAttempt'[t]
        BY <1>1, <1>7, <3>1, <4>1 DEF TurnInv, Undisturbed, Closing
      <4>3. turns'[t].status = "interrupted"
            \/ (turns'[t] = turns[t] /\ turns[t].status # "open")
        BY <1>5, <1>6, <2>5, <4>1 DEF LostAt, KeptAt
      <4> QED
        BY <1>8, <4>2, <4>3 DEF IsTerminal, TerminalStatuses
    <3> QED
      BY <3>2, <3>3
  <2>6. Undisturbed(t)'
    BY <2>5 DEF Undisturbed
  <2>7. Bounded(t)'
    BY <1>5 DEF Bounded
  <2> QED
    BY <2>1, <2>2, <2>3, <2>4, <2>6, <2>7 DEF TurnInv
<1>11. \A u \in Turns \ {t} : Untouched(u)
  BY <1>2, <1>5 DEF CoreStep, taskVars, Untouched
<1>12. faults' = 0 => refused' = {}
  BY <1>2, <1>5 DEF RunnerInv, CoreStep
<1> QED
  BY <1>9, <1>10, <1>11, <1>12, OneTurn

\* The observer is called for a turn that is terminal, unless a storage error
\* or a cancellation came between.
LEMMA ObserveInv ==
    ASSUME RunnerInv, NEW t \in Turns, Observe(t)
    PROVE  RunnerInv'
<1>1. TypeOK /\ TurnInv(t) /\ "release" \in Locations
  BY DEF RunnerInv, Locations
<1>2. /\ pc[t] = "observe" /\ observed' = observed \cup ({t} \cap shadow)
      /\ Goes(t, "release")
      /\ UNCHANGED <<attempt, signal, active, scopes, orphans, cancelling,
                     refused, taskVars>>
  BY DEF Observe
<1>3. CoreStep(t) /\ KeptAt(t) /\ pc'[t] = "release"
  BY <1>1, <1>2, GoesEffect
<1>4. TypeOK'
  <2>1. CoreType' /\ RestType'
    BY <1>1, <1>2, <1>3, TypeSplits DEF CoreStep, taskVars, RestType
  <2> QED
    BY <2>1 DEF TypeOK, ExecutorTypeOK, CoreType, RestType
<1>5. TurnInv(t)'
  <2>1. Registered(t)'
    BY <1>1, <1>2, <1>3 DEF TurnInv, Registered, KeptAt
  <2>2. Accounted(t)'
    BY <1>1, <1>2, <1>3
       DEF TurnInv, Accounted, Working, Over, KeptAt, IsTerminal
  <2>3. Pending(t)'
    BY <1>1, <1>3 DEF TurnInv, Pending, Settled, KeptAt, Working, Over,
                      Attempting, InHand, Waiting, Executing
  <2>4. Intended(t)'
    BY <1>1, <1>2, <1>3 DEF TurnInv, Intended, KeptAt
  <2>5. IsTerminal(turns[t]) \/ t \in orphans
    BY <1>1, <1>2 DEF TurnInv, Accounted, Over
  <2>6. Undisturbed(t)'
    BY <1>1, <1>2, <1>3, <2>5
       DEF TurnInv, Undisturbed, CoreStep, KeptAt, IsTerminal, Closing
  <2>7. Bounded(t)'
    BY <1>3 DEF Bounded
  <2> QED
    BY <2>1, <2>2, <2>3, <2>4, <2>6, <2>7 DEF TurnInv
<1>6. \A u \in Turns \ {t} : Untouched(u)
  BY <1>2, <1>3 DEF CoreStep, taskVars, Untouched
<1>7. faults' = 0 => refused' = {}
  BY <1>2, <1>3 DEF RunnerInv, CoreStep
<1> QED
  BY <1>4, <1>5, <1>6, <1>7, OneTurn

\* The turn leaves the registry.
LEMMA ReleaseInv ==
    ASSUME RunnerInv, NEW t \in Turns, Release(t)
    PROVE  RunnerInv'
<1>1. TypeOK /\ TurnInv(t) /\ "released" \in Locations
  BY DEF RunnerInv, Locations
<1>2. /\ pc[t] = "release" /\ active' = active \ {t} /\ scopes' = scopes \ {t}
      /\ Goes(t, "released")
      /\ UNCHANGED <<attempt, signal, orphans, cancelling, observed, refused,
                     taskVars>>
  BY DEF Release
<1>3. CoreStep(t) /\ KeptAt(t) /\ pc'[t] = "released"
  BY <1>1, <1>2, GoesEffect
<1>4. TypeOK'
  <2>1. CoreType' /\ RestType'
    BY <1>1, <1>2, <1>3, TypeSplits DEF CoreStep, taskVars, RestType
  <2> QED
    BY <2>1 DEF TypeOK, ExecutorTypeOK, CoreType, RestType
<1>5. TurnInv(t)'
  <2>1. Registered(t)'
    BY <1>1, <1>2, <1>3 DEF TurnInv, Registered, KeptAt
  <2>2. Accounted(t)'
    BY <1>1, <1>2, <1>3
       DEF TurnInv, Accounted, Working, Over, KeptAt, IsTerminal
  <2>3. Pending(t)'
    BY <1>1, <1>3 DEF TurnInv, Pending, Settled, KeptAt, Working, Over,
                      Attempting, InHand, Waiting, Executing
  <2>4. Intended(t)'
    BY <1>1, <1>2, <1>3 DEF TurnInv, Intended, KeptAt
  <2>5. IsTerminal(turns[t]) \/ t \in orphans
    BY <1>1, <1>2 DEF TurnInv, Accounted, Over
  <2>6. Undisturbed(t)'
    BY <1>1, <1>2, <1>3, <2>5
       DEF TurnInv, Undisturbed, CoreStep, KeptAt, IsTerminal,
           TerminalStatuses, Closing
  <2>7. Bounded(t)'
    BY <1>3 DEF Bounded
  <2> QED
    BY <2>1, <2>2, <2>3, <2>4, <2>6, <2>7 DEF TurnInv
<1>6. \A u \in Turns \ {t} : Untouched(u)
  BY <1>2, <1>3 DEF CoreStep, taskVars, Untouched
<1>7. faults' = 0 => refused' = {}
  BY <1>2, <1>3 DEF RunnerInv, CoreStep
<1> QED
  BY <1>4, <1>5, <1>6, <1>7, OneTurn

-----------------------------------------------------------------------------
(* Submissions.                                                            *)

\* An admitted turn is open, uncancelled, and nothing is pending in it.
LEMMA OpenedTurn ==
    ASSUME NEW landed \in BOOLEAN
    PROVE  LET open == [Opened EXCEPT !.userMessage = landed] IN
           /\ open \in Turn /\ open.status = "open"
           /\ open.cancelRequested = FALSE /\ open.tools = {}
           /\ open.approvals = {}
<1>0. /\ AbsentTurn \in Turn /\ AbsentTurn.cancelRequested = FALSE
      /\ AbsentTurn.tools = {} /\ AbsentTurn.approvals = {}
  BY UnboundType DEF AbsentTurn, Turn
<1>1. /\ Opened \in Turn /\ Opened.status = "open"
      /\ Opened.cancelRequested = FALSE /\ Opened.tools = {}
      /\ Opened.approvals = {}
  BY <1>0 DEF Opened, Turn
<1>2. /\ [Opened EXCEPT !.userMessage = landed] \in Turn
      /\ [Opened EXCEPT !.userMessage = landed].status = Opened.status
      /\ [Opened EXCEPT !.userMessage = landed].cancelRequested =
            Opened.cancelRequested
      /\ [Opened EXCEPT !.userMessage = landed].tools = Opened.tools
      /\ [Opened EXCEPT !.userMessage = landed].approvals = Opened.approvals
  BY <1>1 DEF Turn
<1> QED
  BY <1>1, <1>2

\* What holds of a turn before it is submitted.
LEMMA BeforeSubmission ==
    ASSUME RunnerInv, NEW t \in Turns, turns[t].status = "absent"
    PROVE  /\ pc[t] = "idle" /\ t \notin orphans /\ t \notin active
           /\ cancelling[t] # "durable" /\ signal[t] = FALSE
           /\ openAttempt[t] = FALSE
           /\ faults = 0 => t \notin observed
<1>1. TurnInv(t) /\ signal[t] \in BOOLEAN /\ openAttempt[t] \in BOOLEAN
  BY DEF RunnerInv, TypeOK, ExecutorTypeOK
<1>2. /\ pc[t] = "idle" /\ t \notin orphans /\ ~turns[t].cancelRequested
      /\ openAttempt[t] = FALSE /\ t \notin active
  BY <1>1 DEF TurnInv, Registered
<1>3. cancelling[t] # "durable" /\ signal[t] = FALSE
  BY <1>1, <1>2 DEF TurnInv, Intended
<1>4. faults = 0 => t \notin observed
  BY <1>1, <1>2 DEF TurnInv, Undisturbed, IsTerminal, TerminalStatuses
<1> QED
  BY <1>2, <1>3, <1>4

\* A submission registers the turn and spawns its task.
LEMMA SubmitInv ==
    ASSUME RunnerInv, NEW t \in Turns, Submit(t)
    PROVE  RunnerInv'
<1> DEFINE open == [Opened EXCEPT !.userMessage = TRUE]
<1>1. /\ open \in Turn /\ open.status = "open"
      /\ open.cancelRequested = FALSE /\ open.tools = {}
      /\ open.approvals = {}
  BY OpenedTurn
<1>2. /\ turns[t].status = "absent"
      /\ turns' = [turns EXCEPT ![t] = open]
      /\ pc' = [pc EXCEPT ![t] = "prepare"]
      /\ active' = active \cup {t} /\ scopes' = scopes \cup {t}
      /\ UNCHANGED <<openAttempt, attempt, err, signal, faults, orphans,
                     cancelling, observed, refused, taskVars>>
  BY DEF Submit
<1> HIDE DEF open
<1>3. CoreType /\ RestType
  BY TypeSplits DEF RunnerInv
<1>4. TypeOK'
  <2>1. "prepare" \in Locations
    BY DEF Locations
  <2>2. CoreType'
    BY <1>1, <1>2, <1>3, <2>1 DEF CoreType
  <2>3. RestType'
    BY <1>2, <1>3 DEF RestType, taskVars
  <2> QED
    BY <2>2, <2>3 DEF TypeOK, ExecutorTypeOK, CoreType, RestType
<1>5. /\ turns'[t] = open /\ pc'[t] = "prepare" /\ t \in active'
      /\ openAttempt'[t] = FALSE /\ signal'[t] = FALSE
      /\ cancelling'[t] # "durable" /\ t \notin orphans'
      /\ faults' = 0 => t \notin observed'
  BY <1>2, <1>3, BeforeSubmission DEF CoreType
<1>6. TurnInv(t)'
  <2>1. Registered(t)' /\ Intended(t)' /\ Bounded(t)'
    BY <1>1, <1>5 DEF Registered, Intended, Bounded
  <2>2. Accounted(t)'
    BY <1>1, <1>5 DEF Accounted, Over
  <2>3. Pending(t)'
    BY <1>1, <1>5 DEF Pending, Settled, Attempting, InHand, Waiting,
                      Executing
  <2>4. Undisturbed(t)'
    BY <1>1, <1>5 DEF Undisturbed, IsTerminal, TerminalStatuses, Closing
  <2> QED
    BY <2>1, <2>2, <2>3, <2>4 DEF TurnInv
<1>7. \A u \in Turns \ {t} : Untouched(u)
  BY <1>2, <1>3 DEF CoreType, taskVars, Untouched
<1>8. faults' = 0 => refused' = {}
  BY <1>2 DEF RunnerInv
<1> QED
  BY <1>4, <1>6, <1>7, <1>8, OneTurn

\* A submission that ended in a storage error leaves a turn without a task.
LEMMA SubmitFailsInv ==
    ASSUME RunnerInv, NEW t \in Turns, SubmitFails(t)
    PROVE  RunnerInv'
<1>1. PICK landed \in BOOLEAN :
        turns' = [turns EXCEPT ![t] = [Opened EXCEPT !.userMessage = landed]]
  BY DEF SubmitFails
<1> DEFINE open == [Opened EXCEPT !.userMessage = landed]
<1>2. /\ open \in Turn /\ open.status = "open"
      /\ open.cancelRequested = FALSE
  BY OpenedTurn
<1>3. /\ turns[t].status = "absent" /\ turns' = [turns EXCEPT ![t] = open]
      /\ faults < MaxFaults /\ faults' = faults + 1
      /\ pc' = pc /\ openAttempt' = openAttempt /\ err' = err /\ StillRest
  BY <1>1 DEF SubmitFails, StillRest, runnerVars
<1> HIDE DEF open
<1>4. CoreType /\ RestType
  BY TypeSplits DEF RunnerInv
<1>5. faults' \in 0..MaxFaults /\ faults' # 0
  BY SMTT(30), <1>3, <1>4, FaultBoundAssumption DEF CoreType
<1>6. TypeOK'
  <2>1. CoreType'
    BY <1>2, <1>3, <1>4, <1>5 DEF CoreType
  <2>2. RestType'
    BY <1>3, <1>4 DEF RestType, StillRest
  <2> QED
    BY <2>1, <2>2 DEF TypeOK, ExecutorTypeOK, CoreType, RestType
<1>7. /\ turns'[t] = open /\ pc'[t] = "idle" /\ t \notin active'
      /\ signal'[t] = FALSE /\ cancelling'[t] # "durable"
  BY <1>3, <1>4, BeforeSubmission DEF CoreType, StillRest
<1>8. TurnInv(t)'
  <2>1. Registered(t)' /\ Intended(t)' /\ Bounded(t)'
    BY <1>2, <1>7 DEF Registered, Intended, Bounded
  <2>2. Accounted(t)'
    BY <1>7 DEF Accounted, Over, Working
  <2>3. Pending(t)'
    BY <1>2, <1>7 DEF Pending, Working, Attempting, InHand, Waiting,
                      Executing
  <2>4. Undisturbed(t)'
    BY <1>5 DEF Undisturbed
  <2> QED
    BY <2>1, <2>2, <2>3, <2>4 DEF TurnInv
<1>9. \A u \in Turns \ {t} : Untouched(u)
  BY <1>3, <1>4, <1>5 DEF CoreType, StillRest, Untouched
<1> QED
  BY <1>5, <1>6, <1>8, <1>9, OneTurn

\* A turn that could not be registered is closed, or kept as an orphan.
LEMMA RegistrationFailsInv ==
    ASSUME RunnerInv, NEW t \in Turns, RegistrationFails(t)
    PROVE  RunnerInv'
<1> DEFINE open == [Opened EXCEPT !.userMessage = TRUE]
           closed == Fold(open, RecoveryClose(t, open))
<1>1. /\ open \in Turn /\ open.status = "open"
      /\ open.cancelRequested = FALSE
  BY OpenedTurn
<1>2. /\ turns[t].status = "absent"
      /\ faults < MaxFaults /\ faults' = faults + 1
      /\ \/ turns' = [turns EXCEPT ![t] = closed] /\ orphans' = orphans
         \/ turns' = [turns EXCEPT ![t] = open] /\ orphans' = orphans \cup {t}
      /\ pc' = [pc EXCEPT ![t] = "released"]
      /\ UNCHANGED <<openAttempt, attempt, err, signal, active, scopes,
                     cancelling, observed, refused, taskVars>>
  BY DEF RegistrationFails
<1> HIDE DEF open
<1>3. closed \in Turn /\ closed.status = "interrupted"
  BY <1>1, RecoveryCloses, RecoveryCloseType, FoldType
<1> HIDE DEF closed
<1>4. CoreType /\ RestType
  BY TypeSplits DEF RunnerInv
<1>5. faults' \in 0..MaxFaults /\ faults' # 0
  BY SMTT(30), <1>2, <1>4, FaultBoundAssumption DEF CoreType
<1>6. TypeOK'
  <2>1. turns' \in [Turns -> Turn] /\ pc' \in [Turns -> Locations]
    BY <1>1, <1>2, <1>3, <1>4 DEF CoreType, Locations
  <2>2. CoreType'
    BY <1>2, <1>4, <1>5, <2>1 DEF CoreType
  <2>3. orphans' \subseteq Turns
    BY <1>2, <1>4 DEF RestType
  <2>4. RestType'
    BY <1>2, <1>4, <2>3 DEF RestType, taskVars
  <2> QED
    BY <2>2, <2>4 DEF TypeOK, ExecutorTypeOK, CoreType, RestType
<1>7. /\ \/ turns'[t].status = "interrupted"
         \/ turns'[t].status = "open" /\ t \in orphans'
      /\ pc'[t] = "released" /\ t \notin active'
      /\ signal'[t] = FALSE /\ cancelling'[t] # "durable"
  BY <1>1, <1>2, <1>3, <1>4, BeforeSubmission DEF CoreType
<1>8. TurnInv(t)'
  <2>1. Registered(t)' /\ Intended(t)' /\ Bounded(t)'
    BY <1>7 DEF Registered, Intended, Bounded
  <2>2. Accounted(t)'
    BY <1>7 DEF Accounted, Over, Working, IsTerminal, TerminalStatuses
  <2>3. Pending(t)'
    BY <1>7 DEF Pending, Working, Over, Attempting, InHand, Waiting,
                Executing
  <2>4. Undisturbed(t)'
    BY <1>5 DEF Undisturbed
  <2> QED
    BY <2>1, <2>2, <2>3, <2>4 DEF TurnInv
<1>9. \A u \in Turns \ {t} : Untouched(u)
  BY <1>2, <1>4, <1>5 DEF CoreType, taskVars, Untouched
<1> QED
  BY <1>5, <1>6, <1>8, <1>9, OneTurn

\* A retry is refused only after a storage error or a restart.
LEMMA RefuseRetryInv ==
    ASSUME RunnerInv, NEW t \in Turns, RefuseRetry(t)
    PROVE  RunnerInv'
<1>1. /\ turns[t].status = "open" /\ t \notin active \cup orphans
      /\ turns' = [turns EXCEPT ![t].userMessage = TRUE]
      /\ refused' = refused \cup {t}
      /\ UNCHANGED <<openAttempt, pc, attempt, err, signal, faults, active,
                     scopes, orphans, cancelling, observed, taskVars>>
  BY DEF RefuseRetry
<1>2. CoreType /\ RestType /\ TurnInv(t)
  BY TypeSplits DEF RunnerInv
<1>3. faults # 0
  BY <1>1, <1>2 DEF TurnInv, Undisturbed
<1>4. /\ turns' \in [Turns -> Turn]
      /\ turns'[t].status = "open"
      /\ turns'[t].cancelRequested = turns[t].cancelRequested
      /\ turns'[t].tools = turns[t].tools
      /\ turns'[t].approvals = turns[t].approvals
      /\ \A u \in Turns \ {t} : turns'[u] = turns[u]
  <2> DEFINE told == [turns[t] EXCEPT !.userMessage = TRUE]
  <2>1. turns \in [Turns -> Turn] /\ turns[t] \in Turn
    BY <1>2 DEF CoreType
  <2>2. /\ told \in Turn /\ told.status = turns[t].status
        /\ told.cancelRequested = turns[t].cancelRequested
        /\ told.tools = turns[t].tools /\ told.approvals = turns[t].approvals
    BY <2>1 DEF Turn
  <2>3. turns' = [turns EXCEPT ![t] = told]
    BY <1>1
  <2> HIDE DEF told
  <2> QED
    BY <1>1, <2>1, <2>2, <2>3
<1>5. TypeOK'
  <2>1. CoreType' /\ RestType'
    BY <1>1, <1>2, <1>4 DEF CoreType, RestType, taskVars
  <2> QED
    BY <2>1 DEF TypeOK, ExecutorTypeOK, CoreType, RestType
<1>6. TurnInv(t)'
  <2>0. call' = call /\ outcome' = outcome /\ granted' = granted
    BY <1>1 DEF taskVars
  <2>1. Registered(t)'
    BY <1>1, <1>2, <1>4 DEF TurnInv, Registered
  <2>2. Accounted(t)'
    BY <1>1, <1>2, <1>4 DEF TurnInv, Accounted, IsTerminal, TerminalStatuses
  <2>3. Pending(t)'
    BY <1>1, <1>2, <1>4, <2>0 DEF TurnInv, Pending, Settled
  <2>4. Intended(t)' /\ Bounded(t)'
    BY <1>1, <1>2, <1>4 DEF TurnInv, Intended, Bounded
  <2>5. Undisturbed(t)'
    BY <1>1, <1>3 DEF Undisturbed
  <2> QED
    BY <2>1, <2>2, <2>3, <2>4, <2>5 DEF TurnInv
<1>7. \A u \in Turns \ {t} : Untouched(u)
  BY <1>1, <1>4 DEF taskVars, Untouched
<1> QED
  BY <1>1, <1>3, <1>5, <1>6, <1>7, OneTurn

\* An orphan is closed by a retry, or stays one; a turn that its task closed
\* already is left as it is.
LEMMA CloseOrphanInv ==
    ASSUME RunnerInv, NEW t \in Turns, CloseOrphan(t)
    PROVE  RunnerInv'
<1> DEFINE e == RecoveryClose(t, turns[t])
<1>1. /\ TypeOK /\ CoreType /\ RestType /\ TurnInv(t) /\ turns[t] \in Turn
      /\ openAttempt[t] \in BOOLEAN
  BY TypeSplits DEF RunnerInv, CoreType
<1>2. /\ t \in orphans /\ t \notin active
      /\ \/ /\ \/ IsTerminal(turns[t]) /\ UNCHANGED <<turns, openAttempt>>
               \/ Lands(t, e)
            /\ orphans' = orphans \ {t} /\ faults' = faults
         \/ /\ faults < MaxFaults /\ faults' = faults + 1
            /\ Lands(t, e) \/ UNCHANGED <<turns, openAttempt>>
            /\ orphans' = orphans
      /\ UNCHANGED <<pc, attempt, err, signal, active, scopes, cancelling,
                     observed, refused, taskVars>>
  BY DEF CloseOrphan
<1>3. /\ e \in Events /\ e.note \in Reasons
      /\ Fold(turns[t], e).cancelRequested = turns[t].cancelRequested
      /\ turns[t].status # "open" => Fold(turns[t], e) = turns[t]
      /\ turns[t].status = "open" =>
            Fold(turns[t], e).status = "interrupted"
  BY <1>1, RecoveryCloseType, RecoveryKeeps, RecoveryCloses
<1> HIDE DEF e
<1>4. pc[t] \in {"idle", "released"}
      /\ turns[t].status \in {"open"} \cup TerminalStatuses
  BY <1>1, <1>2 DEF TurnInv, Registered, Turn
<1>5. /\ turns' \in [Turns -> Turn] /\ openAttempt' \in [Turns -> BOOLEAN]
      /\ \A u \in Turns \ {t} : /\ turns'[u] = turns[u]
                                /\ openAttempt'[u] = openAttempt[u]
      /\ openAttempt'[t] = openAttempt[t]
      /\ turns'[t].cancelRequested = turns[t].cancelRequested
      /\ \/ turns'[t] = turns[t]
         \/ turns[t].status = "open" /\ turns'[t].status = "interrupted"
      /\ t \in orphans' \/ IsTerminal(turns'[t])
      /\ orphans' \subseteq orphans
  <2>1. CASE Lands(t, e)
    <3>1. /\ turns' \in [Turns -> Turn] /\ openAttempt' \in [Turns -> BOOLEAN]
          /\ \A u \in Turns \ {t} : /\ turns'[u] = turns[u]
                                    /\ openAttempt'[u] = openAttempt[u]
          /\ turns'[t] = Fold(turns[t], e)
          /\ openAttempt'[t] = ((openAttempt[t] \/ e.note = "attempt")
                                    /\ e.note # "outcome")
      BY <1>1, <1>3, <2>1, LandsEffect
    <3>2. openAttempt'[t] = openAttempt[t]
      BY <1>1, <1>3, <3>1 DEF Reasons
    <3>3. /\ turns'[t].cancelRequested = turns[t].cancelRequested
          /\ \/ turns'[t] = turns[t]
             \/ turns[t].status = "open" /\ turns'[t].status = "interrupted"
          /\ IsTerminal(turns'[t])
      <4>1. CASE turns[t].status = "open"
        BY <1>3, <3>1, <4>1 DEF IsTerminal, TerminalStatuses
      <4>2. CASE turns[t].status # "open"
        <5>1. turns'[t] = turns[t]
          BY <1>3, <3>1, <4>2
        <5>2. turns[t].status \in TerminalStatuses
          BY <1>4, <4>2
        <5> QED
          BY <5>1, <5>2, Zenon DEF IsTerminal
      <4> QED
        BY <4>1, <4>2
    <3> QED
      BY <1>2, <3>1, <3>2, <3>3
  <2>2. CASE /\ UNCHANGED <<turns, openAttempt>>
             /\ IsTerminal(turns[t]) \/ t \in orphans'
    <3>1. turns' = turns /\ openAttempt' = openAttempt
      BY <2>2
    <3>2. t \in orphans' \/ IsTerminal(turns'[t])
      BY <2>2, <3>1, Zenon
    <3>3. orphans' \subseteq orphans
      BY <1>2
    <3> QED
      BY <1>1, <3>1, <3>2, <3>3 DEF CoreType
  <2> QED
    BY <1>2, <2>1, <2>2
<1>6. /\ faults' \in 0..MaxFaults /\ (faults' = 0 => faults = 0)
  BY SMTT(30), <1>1, <1>2, FaultBoundAssumption DEF CoreType
<1>7. TypeOK'
  <2>1. CoreType' /\ RestType'
    BY <1>1, <1>2, <1>5, <1>6 DEF CoreType, RestType, taskVars
  <2> QED
    BY <2>1 DEF TypeOK, ExecutorTypeOK, CoreType, RestType
<1>8. TurnInv(t)'
  <2>0. pc' = pc /\ signal' = signal /\ cancelling' = cancelling
        /\ active' = active /\ observed' = observed
    BY <1>2
  <2>1. Registered(t)'
    BY <1>1, <1>2, <1>4, <1>5, <2>0
       DEF TurnInv, Registered, TerminalStatuses
  <2>2. Accounted(t)'
    BY <1>4, <1>5, <2>0 DEF Accounted, Working, Over
  <2>3. Pending(t)'
    BY <1>1, <1>4, <1>5, <2>0
       DEF TurnInv, Pending, Settled, Working, Over, Attempting, InHand,
           Waiting, Executing
  <2>4. Intended(t)' /\ Bounded(t)'
    BY <1>1, <1>4, <1>5, <2>0 DEF TurnInv, Intended, Bounded
  <2>5. Undisturbed(t)'
    <3>1. turns'[t].status = "open" => t \in active' \cup orphans'
      BY <1>5 DEF IsTerminal, TerminalStatuses
    <3>2. ASSUME faults' = 0, ~turns'[t].cancelRequested
          PROVE  IsTerminal(turns'[t]) /\ ~openAttempt'[t]
      <4>1. IsTerminal(turns[t]) /\ ~openAttempt[t]
        BY <1>1, <1>2, <1>5, <1>6, <3>2 DEF TurnInv, Undisturbed
      <4> QED
        BY <1>5, <4>1 DEF IsTerminal, TerminalStatuses
    <3> QED
      BY <3>1, <3>2 DEF Undisturbed
  <2> QED
    BY <2>1, <2>2, <2>3, <2>4, <2>5 DEF TurnInv
<1>9. \A u \in Turns \ {t} : Untouched(u)
  <2>1. \A u \in Turns \ {t} : u \in orphans' <=> u \in orphans
    BY <1>2
  <2> QED
    BY <1>2, <1>5, <1>6, <2>1 DEF taskVars, Untouched
<1>10. faults' = 0 => refused' = {}
  BY <1>2, <1>6 DEF RunnerInv
<1> QED
  BY <1>7, <1>8, <1>9, <1>10, OneTurn

-----------------------------------------------------------------------------
(* Cancellation.                                                           *)

\* A call of request_cancel that only found the scope changes no turn.
LEMMA RequestCancelInv ==
    ASSUME RunnerInv, NEW t \in Turns, RequestCancel(t)
    PROVE  RunnerInv'
<1>1. /\ cancelling' = [cancelling EXCEPT ![t] = "scoped"]
      /\ UNCHANGED <<executorVars, active, scopes, orphans, observed, refused,
                     taskVars>>
  BY DEF RequestCancel
<1>2. CoreType /\ RestType /\ TurnInv(t)
  BY TypeSplits DEF RunnerInv
<1>3. /\ turns' = turns /\ openAttempt' = openAttempt /\ pc' = pc
      /\ attempt' = attempt /\ err' = err /\ signal' = signal
      /\ faults' = faults /\ active' = active /\ orphans' = orphans
      /\ observed' = observed /\ refused' = refused /\ scopes' = scopes
      /\ plan' = plan /\ call' = call /\ outcome' = outcome
      /\ followUp' = followUp /\ shadow' = shadow /\ effects' = effects
      /\ granted' = granted
  BY <1>1 DEF executorVars, taskVars
<1>4. cancelling' \in [Turns -> {"no", "scoped", "durable"}]
      /\ cancelling'[t] = "scoped"
      /\ \A u \in Turns \ {t} : cancelling'[u] = cancelling[u]
  BY <1>1, <1>2 DEF RestType
<1>5. TypeOK'
  BY <1>2, <1>3, <1>4 DEF TypeOK, ExecutorTypeOK, CoreType, RestType
<1>6. TurnInv(t)'
  <2>1. Registered(t)' /\ Accounted(t)' /\ Bounded(t)'
    BY <1>2, <1>3 DEF TurnInv, Registered, Accounted, IsTerminal, Bounded
  <2>2. Pending(t)'
    BY <1>2, <1>3 DEF TurnInv, Pending, Settled
  <2>3. Intended(t)'
    BY <1>2, <1>3, <1>4 DEF TurnInv, Intended
  <2>4. Undisturbed(t)'
    BY <1>2, <1>3 DEF TurnInv, Undisturbed, IsTerminal
  <2> QED
    BY <2>1, <2>2, <2>3, <2>4 DEF TurnInv
<1>7. \A u \in Turns \ {t} : Untouched(u)
  BY <1>3, <1>4 DEF Untouched
<1>8. faults' = 0 => refused' = {}
  BY <1>3 DEF RunnerInv
<1> QED
  BY <1>5, <1>6, <1>7, <1>8, OneTurn

\* The channel is raised after the intent is durable.
LEMMA SignalCancelInv ==
    ASSUME RunnerInv, NEW t \in Turns, SignalCancel(t)
    PROVE  RunnerInv'
<1>1. /\ cancelling[t] = "durable"
      /\ cancelling' = [cancelling EXCEPT ![t] = "no"]
      /\ signal' = [signal EXCEPT ![t] = @ \/ t \in active]
      /\ UNCHANGED <<turns, openAttempt, pc, attempt, err, faults, active,
                     scopes, orphans, observed, refused, taskVars>>
  BY DEF SignalCancel
<1>2. CoreType /\ RestType /\ TurnInv(t)
  BY TypeSplits DEF RunnerInv
<1>3. /\ call' = call /\ outcome' = outcome /\ granted' = granted
      /\ plan' = plan /\ followUp' = followUp /\ shadow' = shadow
      /\ effects' = effects
  BY <1>1 DEF taskVars
<1>4. /\ cancelling' \in [Turns -> {"no", "scoped", "durable"}]
      /\ signal' \in [Turns -> BOOLEAN]
      /\ \A u \in Turns \ {t} : /\ cancelling'[u] = cancelling[u]
                                /\ signal'[u] = signal[u]
  BY <1>1, <1>2 DEF RestType
<1>5. TypeOK'
  BY <1>1, <1>2, <1>3, <1>4 DEF TypeOK, ExecutorTypeOK, CoreType, RestType
<1>6. TurnInv(t)'
  <2>1. Registered(t)' /\ Accounted(t)' /\ Bounded(t)'
    BY <1>1, <1>2 DEF TurnInv, Registered, Accounted, IsTerminal, Bounded
  <2>2. Pending(t)'
    BY <1>1, <1>2, <1>3 DEF TurnInv, Pending, Settled
  <2>3. turns'[t].cancelRequested
    BY <1>1, <1>2 DEF TurnInv, Intended
  <2>4. Intended(t)'
    BY <2>3 DEF Intended
  <2>5. Undisturbed(t)'
    BY <1>1, <1>2 DEF TurnInv, Undisturbed, IsTerminal
  <2> QED
    BY <2>1, <2>2, <2>4, <2>5 DEF TurnInv
<1>7. \A u \in Turns \ {t} : Untouched(u)
  BY <1>1, <1>3, <1>4 DEF Untouched
<1>8. faults' = 0 => refused' = {}
  BY <1>1 DEF RunnerInv
<1> QED
  BY <1>5, <1>6, <1>7, <1>8, OneTurn

\* The row of the intent, whether the append reports success or an error,
\* leaves the turn open with the same calls and approvals pending.
IntentKept(t) ==
    /\ turns' \in [Turns -> Turn] /\ openAttempt' \in [Turns -> BOOLEAN]
    /\ faults' \in 0..MaxFaults /\ (faults' = 0 => faults = 0)
    /\ \A u \in Turns \ {t} : /\ turns'[u] = turns[u]
                              /\ openAttempt'[u] = openAttempt[u]
    /\ openAttempt'[t] = openAttempt[t]
    /\ turns'[t].status = turns[t].status
    /\ turns'[t].tools = turns[t].tools
    /\ turns'[t].approvals = turns[t].approvals
    /\ \/ turns'[t].cancelRequested = turns[t].cancelRequested
       \/ turns'[t].cancelRequested /\ turns[t].status = "open"

\* turn_cancel_requested does nothing else to a turn.
LEMMA CancelRowEffect ==
    ASSUME RunnerInv, NEW t \in Turns,
           \/ Rejected(t, CancelRow(t))
           \/ /\ Admitted(t, CancelRow(t)) /\ Lands(t, CancelRow(t))
              /\ faults' = faults
    PROVE  /\ IntentKept(t)
           /\ Admitted(t, CancelRow(t)) /\ Lands(t, CancelRow(t)) =>
                turns'[t].cancelRequested
<1> DEFINE e == CancelRow(t)
<1>1. /\ TypeOK /\ turns[t] \in Turn /\ openAttempt[t] \in BOOLEAN
      /\ faults \in 0..MaxFaults
  BY DEF RunnerInv, TypeOK, ExecutorTypeOK
<1>2. e \in Events /\ e.kind = "turn_cancel_requested" /\ e.note = None
  <2>1. /\ "turn_cancel_requested" \in Kinds \ {"work_created", "work_linked"}
        /\ None \in Notes /\ None \in Calls \cup {None}
    BY DEF Kinds, Notes
  <2> QED
    BY SMTT(30), <1>1, <2>1, TaskRow DEF CancelRow
<1> HIDE DEF e
<1>3. LandedAt(t, e) =>
        /\ turns[t].status = "open" /\ turns'[t].status = "open"
        /\ turns'[t].cancelRequested
        /\ turns'[t].tools = turns[t].tools
        /\ turns'[t].approvals = turns[t].approvals
        /\ openAttempt'[t] = openAttempt[t]
  <2>1. ASSUME LandedAt(t, e)
        PROVE  openAttempt'[t] = openAttempt[t]
    BY <1>1, <1>2, <2>1, NoteAssumption DEF LandedAt
  <2> QED
    BY SMTT(30), <1>1, <1>2, <2>1, CancelRequestFold DEF LandedAt, Admitted
<1>4. CASE Rejected(t, e)
  <2>1. IntentKept(t)
    BY <1>1, <1>2, <1>3, <1>4, RejectedEffect DEF IntentKept, LostAt, KeptAt
  <2>2. Admitted(t, e) /\ Lands(t, e) => LandedAt(t, e)
    BY <1>1, <1>2, LandsEffect DEF LandedAt
  <2> QED
    BY <1>3, <2>1, <2>2 DEF e
<1>5. CASE Admitted(t, e) /\ Lands(t, e) /\ faults' = faults
  <2>1. LandedAt(t, e)
    BY <1>1, <1>2, <1>5, LandsEffect DEF LandedAt
  <2>2. IntentKept(t)
    BY <1>1, <1>2, <1>3, <1>5, <2>1, LandsEffect DEF IntentKept
  <2> QED
    BY <1>3, <2>1, <2>2
<1> QED
  BY <1>4, <1>5 DEF e

\* The intent lands, or the append of it is refused.
LEMMA CancelIntentInv ==
    ASSUME RunnerInv, NEW t \in Turns, CancelDurable(t) \/ CancelRefused(t)
    PROVE  RunnerInv'
<1>1. /\ \/ /\ Admitted(t, CancelRow(t)) /\ Lands(t, CancelRow(t))
            /\ cancelling' = [cancelling EXCEPT ![t] = "durable"]
            /\ faults' = faults
         \/ /\ Rejected(t, CancelRow(t))
            /\ cancelling' = [cancelling EXCEPT ![t] = "no"]
      /\ scopes' \in {scopes, scopes \ {t}}
      /\ UNCHANGED <<pc, attempt, err, signal, active, orphans, observed,
                     refused, taskVars>>
  BY DEF CancelDurable, CancelRefused
<1>2. CoreType /\ RestType /\ TurnInv(t)
  BY TypeSplits DEF RunnerInv
<1>3. IntentKept(t)
  BY <1>1, CancelRowEffect
<1>4. /\ cancelling' \in [Turns -> {"no", "scoped", "durable"}]
      /\ cancelling'[t] = "durable" => turns'[t].cancelRequested
      /\ \A u \in Turns \ {t} : cancelling'[u] = cancelling[u]
  BY <1>1, <1>2, CancelRowEffect DEF RestType
<1>5. /\ call' = call /\ outcome' = outcome /\ granted' = granted
      /\ plan' = plan /\ followUp' = followUp /\ shadow' = shadow
      /\ effects' = effects
  BY <1>1 DEF taskVars
<1>6. TypeOK'
  <2>1. CoreType'
    BY <1>1, <1>2, <1>3 DEF CoreType, IntentKept
  <2>2. RestType'
    BY <1>1, <1>2, <1>4, <1>5 DEF RestType
  <2> QED
    BY <2>1, <2>2 DEF TypeOK, ExecutorTypeOK, CoreType, RestType
<1>7. TurnInv(t)'
  <2>1. Registered(t)' /\ Bounded(t)'
    BY <1>1, <1>2, <1>3 DEF TurnInv, Registered, IntentKept, Bounded
  <2>2. Accounted(t)'
    BY <1>1, <1>2, <1>3 DEF TurnInv, Accounted, IsTerminal, IntentKept
  <2>3. Pending(t)'
    BY <1>1, <1>2, <1>3, <1>5 DEF TurnInv, Pending, Settled, IntentKept
  <2>4. Intended(t)'
    BY <1>1, <1>2, <1>3, <1>4 DEF TurnInv, Intended, IntentKept
  <2>5. Undisturbed(t)'
    BY <1>1, <1>2, <1>3 DEF TurnInv, Undisturbed, IsTerminal, IntentKept
  <2> QED
    BY <2>1, <2>2, <2>3, <2>4, <2>5 DEF TurnInv
<1>8. \A u \in Turns \ {t} : Untouched(u)
  BY <1>1, <1>3, <1>4, <1>5 DEF Untouched, IntentKept
<1>9. faults' = 0 => refused' = {}
  BY <1>1, <1>3 DEF RunnerInv, IntentKept
<1> QED
  BY <1>6, <1>7, <1>8, <1>9, OneTurn

-----------------------------------------------------------------------------
(* A restart, and the start.                                               *)

\* The process dies and comes back: every turn that was open is closed.
LEMMA RestartInv ==
    ASSUME RunnerInv, Restart
    PROVE  RunnerInv'
<1>1. CoreType /\ RestType /\ \A t \in Turns : TurnInv(t)
  BY TypeSplits DEF RunnerInv
<1> DEFINE closed(t) == Fold(turns[t], RecoveryClose(t, turns[t]))
<1>2. /\ faults < MaxFaults /\ faults' = faults + 1
      /\ turns' = [t \in Turns |-> IF turns[t].status = "open"
                                   THEN closed(t) ELSE turns[t]]
      /\ pc' = [t \in Turns |-> IF turns[t].status = "absent" THEN "idle"
                                ELSE "released"]
      /\ attempt' = [t \in Turns |-> 0]
      /\ err' = [t \in Turns |-> "none"]
      /\ signal' = [t \in Turns |-> FALSE]
      /\ active' = {} /\ scopes' = {} /\ orphans' = {}
      /\ cancelling' = [t \in Turns |-> "no"]
      /\ shadow' = {}
      /\ plan' = [t \in Turns |-> {}]
      /\ call' = [t \in Turns |-> None]
      /\ outcome' = [t \in Turns |-> None]
      /\ followUp' = [t \in Turns |-> FALSE]
      /\ UNCHANGED <<openAttempt, effects, granted, observed, refused>>
  BY DEF Restart
<1>3. ASSUME NEW t \in Turns
      PROVE  /\ closed(t) \in Turn
             /\ turns[t].status = "open" => closed(t).status = "interrupted"
  <2>1. turns[t] \in Turn
    BY <1>1 DEF CoreType
  <2> QED
    BY <2>1, RecoveryCloses, RecoveryCloseType, FoldType
<1> HIDE DEF closed
<1>4. faults' \in 0..MaxFaults /\ faults' # 0
  BY SMTT(30), <1>1, <1>2, FaultBoundAssumption DEF CoreType
<1>5. TypeOK'
  <2>1. turns' \in [Turns -> Turn] /\ pc' \in [Turns -> Locations]
    BY <1>1, <1>2, <1>3 DEF CoreType, Locations
  <2>2. CoreType'
    BY <1>1, <1>2, <1>4, <2>1 DEF CoreType
  <2>3. 0 \in 0..MaxAttempts
    BY SMTT(30), MaxAttemptsAssumption
  <2>4. RestType'
    BY <1>1, <1>2, <2>3 DEF RestType
  <2> QED
    BY <2>2, <2>4 DEF TypeOK, ExecutorTypeOK, CoreType, RestType
<1>6. ASSUME NEW t \in Turns PROVE TurnInv(t)'
  <2>1. /\ \/ turns'[t].status = "interrupted" /\ pc'[t] = "released"
           \/ /\ turns'[t] = turns[t] /\ turns[t].status # "open"
              /\ pc'[t] = IF turns[t].status = "absent" THEN "idle"
                                                        ELSE "released"
        /\ signal'[t] = FALSE /\ cancelling'[t] = "no"
        /\ t \notin active' /\ t \notin orphans'
        /\ openAttempt'[t] = openAttempt[t]
    BY <1>2, <1>3
  <2>2. turns[t].status \in {"absent", "open"} \cup TerminalStatuses
    BY <1>1 DEF CoreType, Turn
  <2>3. Registered(t)'
    BY <1>1, <2>1 DEF TurnInv, Registered
  <2>4. Accounted(t)'
    BY <2>1, <2>2 DEF Accounted, Working, Over, IsTerminal, TerminalStatuses
  <2>5. Pending(t)'
    BY <1>1, <2>1 DEF TurnInv, Pending, Settled, Working, Over, Attempting,
                      InHand, Waiting, Executing
  <2>6. Intended(t)' /\ Bounded(t)'
    BY <2>1 DEF Intended, Bounded
  <2>7. Undisturbed(t)'
    BY <1>4 DEF Undisturbed
  <2> QED
    BY <2>3, <2>4, <2>5, <2>6, <2>7 DEF TurnInv
<1> QED
  BY <1>4, <1>5, <1>6 DEF RunnerInv

\* The invariant holds before the first submission.
LEMMA InitInv == Init => RunnerInv
<1> SUFFICES ASSUME Init PROVE RunnerInv
  OBVIOUS
<1>1. /\ AbsentTurn \in Turn /\ AbsentTurn.status = "absent"
      /\ AbsentTurn.cancelRequested = FALSE
  BY UnboundType DEF AbsentTurn, Turn
<1>2. /\ turns = [t \in Turns |-> AbsentTurn]
      /\ openAttempt = [t \in Turns |-> FALSE]
      /\ attempt = [t \in Turns |-> 0]
      /\ err = [t \in Turns |-> "none"]
      /\ signal = [t \in Turns |-> FALSE]
      /\ faults = 0
      /\ pc = [t \in Turns |-> "idle"]
  BY DEF Init, ExecutorInit
<1>3. CoreType
  BY SMTT(30), <1>1, <1>2, FaultBoundAssumption DEF CoreType, Locations
<1>4. RestType
  BY SMTT(30), <1>2, MaxAttemptsAssumption DEF RestType, Init
<1>5. ASSUME NEW t \in Turns PROVE TurnInv(t)
  <2>1. /\ turns[t].status = "absent" /\ turns[t].cancelRequested = FALSE
        /\ openAttempt[t] = FALSE /\ pc[t] = "idle" /\ signal[t] = FALSE
        /\ cancelling[t] = "no" /\ t \notin active /\ t \notin orphans
        /\ t \notin observed
    BY <1>1, <1>2 DEF Init
  <2>2. Registered(t) /\ Intended(t) /\ Bounded(t)
    BY <2>1 DEF Registered, Intended, Bounded
  <2>3. Accounted(t)
    BY <2>1 DEF Accounted, Working, Over
  <2>4. Pending(t)
    BY <2>1 DEF Pending, Working, Attempting, InHand, Waiting, Executing
  <2>5. Undisturbed(t)
    BY <2>1 DEF Undisturbed, IsTerminal, TerminalStatuses, Closing
  <2> QED
    BY <2>2, <2>3, <2>4, <2>5 DEF TurnInv
<1>6. refused = {}
  BY DEF Init
<1> QED
  BY <1>3, <1>4, <1>5, <1>6, TypeSplits DEF RunnerInv

-----------------------------------------------------------------------------
(* The theorems.                                                           *)

\* Every step of the runner keeps the invariant.
LEMMA NextInv == RunnerInv /\ [Next]_vars => RunnerInv'
<1> SUFFICES ASSUME RunnerInv, [Next]_vars PROVE RunnerInv'
  OBVIOUS
<1>1. ASSUME NEW t \in Turns, CallerStep(t) PROVE RunnerInv'
  BY <1>1, SubmitInv, SubmitFailsInv, RegistrationFailsInv, RefuseRetryInv,
     CloseOrphanInv, RequestCancelInv, CancelIntentInv, SignalCancelInv, Zenon
     DEF CallerStep
<1>2. ASSUME NEW t \in Turns, TaskStep(t) PROVE RunnerInv'
  <2>1. WorkAction(t) \/ (FinishTurn(t) /\ pc[t] = "complete")
        \/ ChooseReason(t) \/ CloseTurn(t) \/ Observe(t) \/ Release(t)
    BY <1>2 DEF TaskStep, WorkAction
  <2> QED
    BY <2>1, WorkActionInv, CompleteInv, ChooseReasonInv, CloseTurnInv,
       ObserveInv, ReleaseInv, Zenon
<1>3. ASSUME NEW t \in Turns, Answer(t) \/ StreamFails(t) PROVE RunnerInv'
  <2>1. WorkAction(t)
    BY <1>3 DEF Answer, WorkAction
  <2> QED
    BY <2>1, WorkActionInv
<1>4. CASE Restart
  BY <1>4, RestartInv
<1>5. CASE UNCHANGED vars
  <2>1. /\ turns' = turns /\ openAttempt' = openAttempt /\ pc' = pc
        /\ attempt' = attempt /\ err' = err /\ signal' = signal
        /\ faults' = faults /\ active' = active /\ orphans' = orphans
        /\ observed' = observed /\ refused' = refused /\ scopes' = scopes
        /\ plan' = plan /\ call' = call /\ outcome' = outcome
        /\ followUp' = followUp /\ shadow' = shadow /\ effects' = effects
        /\ granted' = granted /\ cancelling' = cancelling
    BY <1>5 DEF vars, executorVars, runnerVars
  <2>2. TypeOK'
    BY <2>1 DEF RunnerInv, TypeOK, ExecutorTypeOK
  <2>3. ASSUME NEW u \in Turns PROVE TurnInv(u)'
    <3>1. Untouched(u)
      BY <2>1 DEF Untouched
    <3> QED
      BY <3>1, UntouchedInv DEF RunnerInv
  <2> QED
    BY <2>1, <2>2, <2>3 DEF RunnerInv
<1> QED
  BY <1>1, <1>2, <1>3, <1>4, <1>5 DEF Next

\* The inductive invariant holds of every run of the turn runner.
THEOREM RunnerInvHolds == Spec => []RunnerInv
BY InitInv, NextInv, PTL DEF Spec

\* OperatorTurnRunner keeps its registry, channels, approvals and turns well
\* formed.
THEOREM RunnerTypesHold == Spec => []TypeOK
<1>1. RunnerInv => TypeOK
  BY DEF RunnerInv
<1> QED
  BY <1>1, RunnerInvHolds, PTL

\* run_and_close loses no turn: when the task of a turn is over, the turn is
\* terminal or recoverable_orphans holds it.
THEOREM ReleasedIsAccountedForHolds == Spec => []ReleasedIsAccountedFor
<1>1. RunnerInv => ReleasedIsAccountedFor
  BY DEF RunnerInv, TurnInv, Accounted, Over, ReleasedIsAccountedFor
<1> QED
  BY <1>1, RunnerInvHolds, PTL

\* submit, request_cancel and recover_proven_orphan never close a turn under
\* its working task.
THEOREM WorkingTurnIsOpenHolds == Spec => []WorkingTurnIsOpen
<1>1. ASSUME RunnerInv, NEW t \in active,
             pc[t] \notin {"failed", "closeCancelled", "closeFailed",
                           "observe", "release"}
      PROVE  turns[t].status = "open"
  <2>1. TurnInv(t) /\ pc[t] \in Locations
    BY <1>1 DEF RunnerInv, TypeOK
  <2>2. pc[t] \in Working
    BY <1>1, <2>1 DEF TurnInv, Registered, Working, Closing, Over
  <2> QED
    BY <2>1, <2>2 DEF TurnInv, Accounted
<1>2. RunnerInv => WorkingTurnIsOpen
  BY <1>1 DEF WorkingTurnIsOpen
<1> QED
  BY <1>2, RunnerInvHolds, PTL

\* finish_turn reports completion only when every tool call, approval and
\* provider attempt the turn began has its outcome in the journal.
THEOREM CompletedIsSettledHolds == Spec => []CompletedIsSettled
<1>1. RunnerInv => CompletedIsSettled
  BY DEF RunnerInv, TurnInv, Pending, Settled, CompletedIsSettled
<1> QED
  BY <1>1, RunnerInvHolds, PTL

\* Without storage errors and cancellation, a turn is terminal when the
\* shadow observer gets it, has no open provider attempt, and a retry of a
\* submission is never refused.
THEOREM UncancelledTurnIsExactHolds == Spec => []UncancelledTurnIsExact
<1>1. RunnerInv => UncancelledTurnIsExact
  BY DEF RunnerInv, TurnInv, Undisturbed, UncancelledTurnIsExact
<1> QED
  BY <1>1, RunnerInvHolds, PTL

\* Only execute_tool begins an effect.
LEMMA EffectsFrame ==
    ASSUME NEW t \in Turns, ~ExecuteTool(t),
           CallerStep(t) \/ TaskStep(t) \/ Answer(t) \/ StreamFails(t)
    PROVE  effects' = effects
<1>1. CASE CallerStep(t)
  BY <1>1 DEF CallerStep, Submit, SubmitFails, RegistrationFails, RefuseRetry,
     CloseOrphan, RequestCancel, CancelDurable, SignalCancel, CancelRefused,
     runnerVars, taskVars
<1>2. CASE Answer(t) \/ StreamFails(t)
  BY <1>2 DEF Answer, StreamFails, Prepared, ApprovalAnswered, ToolReturns,
     runnerVars
<1>3. CASE \/ PrepareCancelled(t) \/ AssistantStarted(t) \/ RunTurn(t)
           \/ DeterministicRoute(t) \/ StageAnswered(t) \/ ToolCallStarted(t)
           \/ FollowUp(t) \/ ApprovalRequested(t) \/ ApprovalWaitCancelled(t)
           \/ ApprovalCancelled(t) \/ ApprovalDecided(t)
           \/ (StageStep(t) /\ UNCHANGED runnerVars)
  BY <1>3 DEF PrepareCancelled, AssistantStarted, RunTurn, DeterministicRoute,
     StageAnswered, ToolCallStarted, FollowUp, ApprovalRequested,
     ApprovalWaitCancelled, ApprovalCancelled, ApprovalDecided, runnerVars
<1>4. CASE \/ ToolCancelled(t) \/ PersistOutput(t) \/ ToolCallCompleted(t)
           \/ ToolCallUncertain(t) \/ FinishTurn(t) \/ ChooseReason(t)
           \/ CloseTurn(t) \/ Observe(t) \/ Release(t)
  BY <1>4 DEF ToolCancelled, PersistOutput, ToolCallCompleted,
     ToolCallUncertain, FinishTurn, ChooseReason, CloseTurn, Observe, Release,
     runnerVars, taskVars
<1> QED
  BY <1>1, <1>2, <1>3, <1>4 DEF TaskStep

\* "Approval-gated or external side effects cannot begin unless their
\* pre-action event and approval decision are durable": execute_tool begins
\* a call only in an open turn whose journal holds its started row and its
\* approval, before the task could see a cancellation.
THEOREM EffectsFollowEvidenceHolds == Spec => EffectsFollowEvidence
<1> DEFINE Evidence(t, c) == /\ turns[t].status = "open"
                             /\ c \in turns[t].tools
                             /\ c \in granted[t]
                             /\ ~signal[t]
           Evident == \A t \in Turns : \A c \in effects'[t] \ effects[t] :
                          Evidence(t, c)
<1>1. ASSUME RunnerInv, NEW t \in Turns, ExecuteTool(t)
      PROVE  Evident
  <2>1. /\ pc[t] = "run"
        /\ \/ effects' = effects
           \/ ~signal[t] /\ effects' = [effects EXCEPT ![t] = @ \cup {call[t]}]
    BY <1>1 DEF ExecuteTool
  <2>2. effects \in [Turns -> SUBSET Calls] /\ TurnInv(t)
    BY <1>1 DEF RunnerInv, TypeOK
  <2>3. /\ turns[t].status = "open" /\ turns[t].tools = {call[t]}
        /\ call[t] \in granted[t]
    <3>1. "run" \in Working /\ "run" \in InHand
      BY DEF Working, Locations, Closing, Over, InHand, Executing
    <3> QED
      BY <2>1, <2>2, <3>1 DEF TurnInv, Accounted, Pending
  <2> QED
    BY <2>1, <2>2, <2>3
<1>2. ASSUME effects' = effects PROVE Evident
  BY <1>2
<1>3. RunnerInv /\ [Next]_vars => Evident \/ UNCHANGED vars
  <2> SUFFICES ASSUME RunnerInv, Next PROVE Evident
    OBVIOUS
  <2> HIDE DEF Evident
  <2>1. ASSUME NEW t \in Turns,
               CallerStep(t) \/ TaskStep(t) \/ Answer(t) \/ StreamFails(t)
        PROVE  Evident
    BY <1>1, <1>2, <2>1, EffectsFrame
  <2>2. CASE Restart
    BY <1>2, <2>2 DEF Restart
  <2> QED
    BY <2>1, <2>2 DEF Next
<1>4. RunnerInv /\ [Next]_vars => [Evident]_vars
  BY <1>3
<1>5. [][Evident]_vars => EffectsFollowEvidence
  BY DEF EffectsFollowEvidence
<1> QED
  BY <1>4, <1>5, RunnerInvHolds, PTL DEF Spec

-----------------------------------------------------------------------------
(* The loop: its inductive invariant.                                      *)

\* Where the call of an iteration is under way.
Calling == StageLocations \cup {"assistant", "text"}

\* A loop writes no cancellation intent, so a turn under way is open and
\* takes every row; the channel alone makes a call end as cancelled.
IterationInv(t) ==
    /\ ~turns[t].cancelRequested
    /\ pc[t] \in Calling => turns[t].status = "open"
    /\ pc[t] \in (Calling \cup {"idle"}) \ (Attempting \cup {"failed"}) =>
        ~openAttempt[t]
    /\ turns[t].status = "completed" => ~openAttempt[t]
    /\ pc[t] = "cancelled" \/ err[t] = "cancelled" => signal[t]
    /\ pc[t] = "returned" /\ ~signal[t] /\ faults = 0 => IsTerminal(turns[t])
    /\ pc[t] = "select" => attempt[t] < MaxAttempts

LoopInv == LoopTypeOK /\ \A t \in Turns : IterationInv(t)

-----------------------------------------------------------------------------
(* Steps of one call.                                                      *)

\* What a step of the call of t may change, and where it may lead.
CallFrame(t) ==
    /\ turns' \in [Turns -> Turn]
    /\ openAttempt' \in [Turns -> BOOLEAN]
    /\ pc' \in [Turns -> Calling \cup {"idle", "returned"}]
    /\ err' \in [Turns -> {"none", "cancelled", "other"}]
    /\ faults' \in 0..MaxFaults
    /\ faults' = 0 => faults = 0
    /\ \A u \in Turns \ {t} : /\ turns'[u] = turns[u]
                              /\ openAttempt'[u] = openAttempt[u]
                              /\ pc'[u] = pc[u]
                              /\ err'[u] = err[u]

AttemptFrame(t) ==
    /\ attempt' \in [Turns -> 0..MaxAttempts]
    /\ \A u \in Turns \ {t} : attempt'[u] = attempt[u]
    /\ signal' = signal /\ loop' = loop

\* The invariant is about one turn at a time.
LEMMA CallInv ==
    ASSUME LoopInv, NEW t \in Turns, CallFrame(t), AttemptFrame(t),
           IterationInv(t)'
    PROVE  LoopInv'
<1>1. LoopTypeOK'
  BY DEF LoopInv, LoopTypeOK, ExecutorTypeOK, CallFrame, AttemptFrame, Calling
<1>2. ASSUME NEW u \in Turns, u # t PROVE IterationInv(u)'
  <2>1. IterationInv(u)
    BY DEF LoopInv
  <2>2. /\ turns'[u] = turns[u] /\ openAttempt'[u] = openAttempt[u]
        /\ pc'[u] = pc[u] /\ err'[u] = err[u] /\ attempt'[u] = attempt[u]
        /\ signal'[u] = signal[u] /\ (faults' = 0 => faults = 0)
    BY <1>2 DEF CallFrame, AttemptFrame
  <2> QED
    BY <2>1, <2>2 DEF IterationInv, IsTerminal
<1> QED
  BY <1>1, <1>2 DEF LoopInv

\* A touching row of a call under way is always admitted, and changes at
\* most whether an attempt is open.
LEMMA TouchTaken ==
    ASSUME LoopInv, NEW t \in Turns, pc[t] \in Calling,
           NEW n \in {None, "attempt", "outcome"}
    PROVE  LET e == Row("touch", t, None, n) IN
           /\ Admitted(t, e) /\ e.note = n
           /\ Fold(turns[t], e) = turns[t]
<1> DEFINE e == Row("touch", t, None, n)
<1>1. /\ turns[t] \in Turn /\ turns[t].status = "open"
      /\ ~turns[t].cancelRequested
  BY DEF LoopInv, LoopTypeOK, ExecutorTypeOK, IterationInv
<1>2. e.kind = "touch" /\ e.note = n /\ e.binding = turns[t].binding
  BY DEF Row, TurnEvent
<1> HIDE DEF e
<1>3. Admitted(t, e)
  BY <1>1, <1>2 DEF Admitted, Admits, IsCancellationClose
<1>4. Fold(turns[t], e) = turns[t]
  BY <1>1, <1>2, <1>3, TouchFold DEF Admitted
<1> QED
  BY <1>2, <1>3, <1>4 DEF e

\* The call goes on with a touching row, or fails, and its turn stays open.
LEMMA TouchAppends ==
    ASSUME LoopInv, NEW t \in Turns, pc[t] \in Calling,
           NEW n \in {None, "attempt", "outcome"}, NEW next \in Calling,
           NEW fallback \in {"failed", "returned"},
           NEW error \in {"none", "cancelled", "other"},
           LET e == Row("touch", t, None, n) IN
           \/ /\ Admitted(t, e) /\ Lands(t, e)
              /\ pc' = [pc EXCEPT ![t] = next] /\ faults' = faults
              /\ err' = [err EXCEPT ![t] = error] \/ err' = err
           \/ /\ Rejected(t, e)
              /\ pc' = [pc EXCEPT ![t] = fallback]
              /\ err' = [err EXCEPT ![t] = "other"]
    PROVE  /\ CallFrame(t) /\ turns' = turns
           /\ \/ /\ pc'[t] = next /\ (err'[t] = error \/ err'[t] = err[t])
                 /\ openAttempt'[t] = ((openAttempt[t] \/ n = "attempt")
                                          /\ n # "outcome")
              \/ pc'[t] = fallback /\ err'[t] = "other" /\ faults' # 0
<1> DEFINE e == Row("touch", t, None, n)
<1>1. Admitted(t, e) /\ e.note = n /\ Fold(turns[t], e) = turns[t]
  BY TouchTaken
<1>2. /\ turns \in [Turns -> Turn] /\ openAttempt \in [Turns -> BOOLEAN]
      /\ pc \in [Turns -> Calling \cup {"idle", "returned"}]
      /\ err \in [Turns -> {"none", "cancelled", "other"}]
      /\ faults \in 0..MaxFaults
  BY DEF LoopInv, LoopTypeOK, ExecutorTypeOK, Calling
<1>3. "failed" \in Calling
  BY DEF Calling, StageLocations
<1>4. \/ /\ Lands(t, e)
         /\ pc' = [pc EXCEPT ![t] = next] /\ faults' = faults
         /\ err' = [err EXCEPT ![t] = error] \/ err' = err
      \/ /\ faults < MaxFaults /\ faults' = faults + 1
         /\ Lands(t, e) \/ UNCHANGED <<turns, openAttempt>>
         /\ pc' = [pc EXCEPT ![t] = fallback]
         /\ err' = [err EXCEPT ![t] = "other"]
  BY <1>1 DEF Rejected
<1> HIDE DEF e
<1>5. Lands(t, e) =>
        /\ turns' = turns /\ openAttempt' \in [Turns -> BOOLEAN]
        /\ openAttempt'[t] = ((openAttempt[t] \/ n = "attempt")
                                 /\ n # "outcome")
        /\ \A u \in Turns \ {t} : openAttempt'[u] = openAttempt[u]
  <2>1. ASSUME Lands(t, e)
        PROVE  /\ turns' = [turns EXCEPT ![t] = turns[t]]
               /\ openAttempt' = [openAttempt EXCEPT
                    ![t] = (@ \/ e.note = "attempt") /\ e.note # "outcome"]
    BY <1>1, <2>1 DEF Lands
  <2> QED
    BY <1>1, <1>2, <2>1
<1>6. CASE /\ Lands(t, e)
           /\ pc' = [pc EXCEPT ![t] = next] /\ faults' = faults
           /\ err' = [err EXCEPT ![t] = error] \/ err' = err
  BY <1>2, <1>5, <1>6 DEF CallFrame
<1>7. CASE /\ faults < MaxFaults /\ faults' = faults + 1
           /\ Lands(t, e) \/ UNCHANGED <<turns, openAttempt>>
           /\ pc' = [pc EXCEPT ![t] = fallback]
           /\ err' = [err EXCEPT ![t] = "other"]
  <2>1. faults' \in 0..MaxFaults /\ faults' # 0
    BY SMTT(30), <1>2, <1>7, FaultBoundAssumption
  <2>2. /\ turns' = turns /\ openAttempt' \in [Turns -> BOOLEAN]
        /\ \A u \in Turns \ {t} : openAttempt'[u] = openAttempt[u]
    BY <1>2, <1>5, <1>7
  <2> QED
    BY <1>2, <1>3, <1>7, <2>1, <2>2 DEF CallFrame
<1> QED
  BY <1>4, <1>6, <1>7

\* The call goes on or fails without a row.
LEMMA NoRow ==
    ASSUME LoopInv, NEW t \in Turns, NEW next \in Calling,
           NEW error \in {"cancelled", "other"},
           Goes(t, next) \/ Fails(t, error)
    PROVE  /\ CallFrame(t) /\ turns' = turns
           /\ openAttempt'[t] = openAttempt[t]
           /\ \/ pc'[t] = next /\ err'[t] = err[t]
              \/ pc'[t] = "failed" /\ err'[t] = error /\ Fails(t, error)
<1>1. /\ turns \in [Turns -> Turn] /\ openAttempt \in [Turns -> BOOLEAN]
      /\ pc \in [Turns -> Calling \cup {"idle", "returned"}]
      /\ err \in [Turns -> {"none", "cancelled", "other"}]
      /\ faults \in 0..MaxFaults /\ "failed" \in Calling
  BY DEF LoopInv, LoopTypeOK, ExecutorTypeOK, Calling, StageLocations
<1> QED
  BY <1>1 DEF Goes, Fails, CallFrame

\* A call under way that moved on without touching its turn.
LEMMA OpenTurnInv ==
    ASSUME LoopInv, NEW t \in Turns, pc[t] \in Calling, CallFrame(t),
           AttemptFrame(t), turns' = turns,
           \/ /\ pc'[t] \in Calling
              /\ pc'[t] \notin Attempting \cup {"failed"} => ~openAttempt'[t]
              /\ pc'[t] = "cancelled" => signal[t]
           \/ pc'[t] = "returned" /\ faults' # 0,
           err'[t] = "cancelled" => signal[t],
           pc'[t] = "select" => attempt'[t] < MaxAttempts
    PROVE  LoopInv'
<1>1. turns[t].status = "open" /\ ~turns[t].cancelRequested
  BY DEF LoopInv, IterationInv
<1>2. IterationInv(t)'
  BY <1>1 DEF IterationInv, AttemptFrame, Calling, StageLocations, IsTerminal
<1> QED
  BY <1>2, CallInv

\* What the invariant says of a call under way.
LEMMA UnderWay ==
    ASSUME LoopInv, NEW t \in Turns
    PROVE  /\ openAttempt[t] \in BOOLEAN /\ signal[t] \in BOOLEAN
           /\ err[t] = "cancelled" => signal[t]
           /\ pc[t] = "cancelled" => signal[t]
           /\ pc[t] \in Calling \ (Attempting \cup {"failed"}) =>
                openAttempt[t] = FALSE
           /\ pc[t] = "select" => attempt[t] < MaxAttempts
           /\ attempt \in [Turns -> 0..MaxAttempts]
BY DEF LoopInv, LoopTypeOK, ExecutorTypeOK, IterationInv

\* The steps of the stage keep the invariant.
LEMMA StageInv ==
    ASSUME LoopInv, NEW t \in Turns, loop' = loop,
           StageStep(t) \/ AdapterReturns(t)
    PROVE  LoopInv'
<1>a. /\ openAttempt[t] \in BOOLEAN /\ signal[t] \in BOOLEAN
      /\ err[t] = "cancelled" => signal[t]
      /\ pc[t] = "cancelled" => signal[t]
      /\ pc[t] \in Calling \ (Attempting \cup {"failed"}) =>
            openAttempt[t] = FALSE
      /\ pc[t] = "select" => attempt[t] < MaxAttempts
      /\ attempt \in [Turns -> 0..MaxAttempts]
  BY UnderWay
<1> USE <1>a
<1>0. ASSUME UNCHANGED <<attempt, signal>> PROVE AttemptFrame(t)
  BY <1>0 DEF AttemptFrame
<1>1. CASE EnterStage(t)
  <2>1. /\ pc[t] = "execute" /\ signal' = signal
        /\ attempt' = [attempt EXCEPT ![t] = 0]
        /\ \/ signal[t] /\ Fails(t, "cancelled")
           \/ Goes(t, "plan") \/ Fails(t, "other")
    BY <1>1 DEF EnterStage
  <2>2. /\ "execute" \in Calling \ (Attempting \cup {"failed"})
        /\ "plan" \in Calling \ (Attempting \cup {"failed"})
        /\ "failed" \in Calling
    BY DEF Calling, StageLocations, Attempting
  <2>3. AttemptFrame(t)
    <3>1. 0 \in 0..MaxAttempts
      BY SMTT(30), MaxAttemptsAssumption
    <3> QED
      BY <2>1, <3>1 DEF AttemptFrame
  <2>4. /\ CallFrame(t) /\ turns' = turns
        /\ openAttempt'[t] = openAttempt[t]
        /\ \/ pc'[t] = "plan" /\ err'[t] = err[t]
           \/ pc'[t] = "failed" /\ (err'[t] = "cancelled" => signal[t])
    <3>1. CASE signal[t] /\ Fails(t, "cancelled")
      BY <2>2, <3>1, NoRow
    <3>2. CASE Goes(t, "plan") \/ Fails(t, "other")
      BY <2>2, <3>2, NoRow
    <3> QED
      BY <2>1, <3>1, <3>2
  <2> QED
    BY <2>1, <2>2, <2>3, <2>4, OpenTurnInv
<1>2. CASE PlanRoute(t)
  <2>1. /\ pc[t] = "plan" /\ AttemptFrame(t) /\ attempt' = attempt
        /\ \/ attempt[t] < MaxAttempts /\ Appends(t, Touch(t), "select")
           \/ Fails(t, "other")
    BY <1>0, <1>2 DEF PlanRoute
  <2>2. /\ "plan" \in Calling \ (Attempting \cup {"failed"})
        /\ "select" \in Calling \ (Attempting \cup {"failed"})
        /\ "failed" \in Calling
    BY DEF Calling, StageLocations, Attempting
  <2>3. CASE attempt[t] < MaxAttempts /\ Appends(t, Touch(t), "select")
    <3>1. /\ CallFrame(t) /\ turns' = turns
          /\ \/ pc'[t] = "select" /\ err'[t] \in {"none", err[t]}
                /\ openAttempt'[t] = ((openAttempt[t] \/ None = "attempt")
                                         /\ None # "outcome")
             \/ pc'[t] = "failed" /\ err'[t] = "other"
      BY <2>1, <2>2, <2>3, TouchAppends
         DEF Appends, Accepted, FailsWith, Touch
    <3> QED
      BY <2>1, <2>2, <2>3, <3>1, OpenTurnInv, NoteAssumption
  <2>4. CASE Fails(t, "other")
    BY <2>1, <2>2, <2>4, NoRow, OpenTurnInv
  <2> QED
    BY <2>1, <2>3, <2>4
<1>3. CASE AttemptRoute(t)
  <2>1. /\ pc[t] = "select" /\ signal' = signal
        /\ \/ Fails(t, "other") /\ attempt' = attempt
           \/ /\ Appends(t, Row("touch", t, None, "attempt"), "adapter")
              /\ attempt' = [attempt EXCEPT ![t] = @ + 1]
    BY <1>3 DEF AttemptRoute
  <2>2. /\ "select" \in Calling /\ "adapter" \in Calling
        /\ "failed" \in Calling /\ "adapter" \in Attempting
    BY DEF Calling, StageLocations, Attempting
  <2>3. AttemptFrame(t)
    <3>1. attempt[t] + 1 \in 0..MaxAttempts
      BY SMTT(30), <2>1, MaxAttemptsAssumption
    <3> QED
      BY <2>1, <3>1 DEF AttemptFrame
  <2>4. CASE Appends(t, Row("touch", t, None, "attempt"), "adapter")
    <3>1. /\ CallFrame(t) /\ turns' = turns
          /\ \/ pc'[t] = "adapter" /\ err'[t] \in {"none", err[t]}
             \/ pc'[t] = "failed" /\ err'[t] = "other"
      BY <2>1, <2>2, <2>4, TouchAppends DEF Appends, Accepted, FailsWith
    <3> QED
      BY <2>1, <2>2, <2>3, <3>1, OpenTurnInv
  <2>5. CASE Fails(t, "other")
    BY <2>1, <2>2, <2>3, <2>5, NoRow, OpenTurnInv
  <2> QED
    BY <2>1, <2>4, <2>5
<1>4. CASE AdapterReturns(t) \/ AdapterCancelled(t)
  <2>1. /\ pc[t] = "adapter" /\ AttemptFrame(t)
        /\ \E next \in {"completed", "retry", "stop", "cancelled"} :
              Goes(t, next) /\ (next = "cancelled" => signal[t])
    BY <1>0, <1>4 DEF AdapterReturns, AdapterCancelled
  <2>2. PICK next \in {"completed", "retry", "stop", "cancelled"} :
              Goes(t, next) /\ (next = "cancelled" => signal[t])
    BY <2>1
  <2>3. /\ next \in Calling /\ next \in Attempting /\ "adapter" \in Calling
        /\ next # "select"
    BY DEF Calling, StageLocations, Attempting
  <2>4. /\ CallFrame(t) /\ turns' = turns
        /\ pc'[t] = next /\ err'[t] = err[t]
    <3>1. pc'[t] = next
      BY <2>2 DEF Goes, LoopInv, LoopTypeOK
    <3>2. next # "failed"
      OBVIOUS
    <3> QED
      BY <2>2, <2>3, <3>1, <3>2, NoRow
  <2> QED
    BY <2>1, <2>2, <2>3, <2>4, OpenTurnInv
<1>5. CASE RouteCompleted(t) \/ RouteFailed(t) \/ RouteCancelled(t)
  <2>1. /\ pc[t] \in {"completed", "retry", "stop", "cancelled"}
        /\ AttemptFrame(t)
        /\ \/ Appends(t, Outcome(t), "answered") \/ Appends(t, Outcome(t), "plan")
           \/ EndsWith(t, Outcome(t), "other")
           \/ EndsWith(t, Outcome(t), "cancelled") /\ signal[t]
    BY <1>0, <1>5 DEF RouteCompleted, RouteFailed, RouteCancelled
  <2>2. /\ pc[t] \in Calling /\ "failed" \in Calling
        /\ "answered" \in Calling /\ "plan" \in Calling
    BY <2>1 DEF Calling, StageLocations
  <2>3. ASSUME NEW next \in {"answered", "plan"},
               Appends(t, Outcome(t), next)
        PROVE  /\ CallFrame(t) /\ turns' = turns
               /\ \/ /\ pc'[t] = next /\ err'[t] \in {"none", err[t]}
                     /\ ~openAttempt'[t]
                  \/ pc'[t] = "failed" /\ err'[t] = "other"
    <3> DEFINE e == Row("touch", t, None, "outcome")
    <3>1. next \in Calling
      BY <2>2
    <3>2. \/ /\ Admitted(t, e) /\ Lands(t, e)
             /\ pc' = [pc EXCEPT ![t] = next]
             /\ faults' = faults /\ err' = err
          \/ /\ Rejected(t, e) /\ pc' = [pc EXCEPT ![t] = "failed"]
             /\ err' = [err EXCEPT ![t] = "other"]
      BY <2>3 DEF Appends, Accepted, FailsWith, Outcome
    <3> QED
      BY <2>2, <3>1, <3>2, TouchAppends
  <2>4. ASSUME NEW error \in {"cancelled", "other"},
               EndsWith(t, Outcome(t), error)
        PROVE  /\ CallFrame(t) /\ turns' = turns
               /\ pc'[t] = "failed" /\ err'[t] \in {error, err[t], "other"}
    BY <2>2, <2>4, TouchAppends DEF EndsWith, FailsWith, Outcome
  <2>5. CASE \E next \in {"answered", "plan"} : Appends(t, Outcome(t), next)
    BY <2>1, <2>2, <2>3, <2>5, OpenTurnInv
  <2>6. CASE EndsWith(t, Outcome(t), "other")
             \/ (EndsWith(t, Outcome(t), "cancelled") /\ signal[t])
    <3>1. /\ CallFrame(t) /\ turns' = turns /\ pc'[t] = "failed"
          /\ err'[t] = "cancelled" => signal[t]
      BY <2>4, <2>6
    <3> QED
      BY <2>1, <2>2, <3>1, OpenTurnInv
  <2> QED
    BY <2>1, <2>5, <2>6
<1> QED
  BY <1>1, <1>2, <1>3, <1>4, <1>5 DEF StageStep

\* The rows around the stage keep it.
LEMMA AssistantInv ==
    ASSUME LoopInv, NEW t \in Turns,
           Started(t) \/ AssistantCompleted(t)
    PROVE  LoopInv'
<1>1. PICK next \in {"execute", "text"} :
        /\ pc[t] \in {"assistant", "answered"}
        /\ Accepted(t, Touch(t), next) \/ Returns(t, Touch(t))
        /\ UNCHANGED <<attempt, signal, loop>>
  BY DEF Started, AssistantCompleted
<1>2. /\ pc[t] \in Calling \ (Attempting \cup {"failed"})
      /\ next \in Calling /\ next # "select" /\ next # "cancelled"
      /\ "returned" \notin Calling
  BY <1>1 DEF Calling, StageLocations, Attempting
<1>3. /\ openAttempt[t] = FALSE /\ (err[t] = "cancelled" => signal[t])
      /\ attempt \in [Turns -> 0..MaxAttempts]
  BY <1>2, UnderWay
<1>4. /\ CallFrame(t) /\ turns' = turns
      /\ \/ /\ pc'[t] = next /\ err'[t] \in {"none", err[t]}
            /\ openAttempt'[t] = ((openAttempt[t] \/ None = "attempt")
                                     /\ None # "outcome")
         \/ pc'[t] = "returned" /\ err'[t] = "other" /\ faults' # 0
  BY <1>1, <1>2, TouchAppends DEF Accepted, Returns, Touch
<1>5. AttemptFrame(t)
  BY <1>1, <1>3 DEF AttemptFrame
<1> QED
  BY <1>2, <1>3, <1>4, <1>5, OpenTurnInv, NoteAssumption

\* A closing row of a call, whatever append_event answers.
LEMMA ClosingRow ==
    ASSUME LoopInv, NEW t \in Turns, pc[t] \in Calling,
           NEW e \in Events, e.note \notin {"attempt", "outcome"},
           \/ Admitted(t, e) /\ Lands(t, e) /\ faults' = faults
           \/ Rejected(t, e),
           pc' = [pc EXCEPT ![t] = "returned"],
           err' = err \/ err' = [err EXCEPT ![t] = "other"]
    PROVE  /\ CallFrame(t) /\ pc'[t] = "returned"
           /\ err'[t] \in {err[t], "other"}
           /\ openAttempt'[t] = openAttempt[t]
           /\ \/ Admitted(t, e) /\ turns'[t] = Fold(turns[t], e)
              \/ /\ turns'[t] = turns[t]
                 /\ ~Admitted(t, e) \/ faults' # 0
<1>1. /\ turns \in [Turns -> Turn] /\ openAttempt \in [Turns -> BOOLEAN]
      /\ pc \in [Turns -> Calling \cup {"idle", "returned"}]
      /\ err \in [Turns -> {"none", "cancelled", "other"}]
      /\ faults \in 0..MaxFaults
  BY DEF LoopInv, LoopTypeOK, ExecutorTypeOK, Calling
<1>2. ASSUME Lands(t, e)
      PROVE  /\ turns' \in [Turns -> Turn] /\ turns'[t] = Fold(turns[t], e)
             /\ openAttempt' = openAttempt
             /\ \A u \in Turns \ {t} : turns'[u] = turns[u]
  <2>1. turns' = [turns EXCEPT ![t] = Fold(@, e)]
    BY <1>2 DEF Lands
  <2>2. openAttempt' = [openAttempt EXCEPT
                          ![t] = (@ \/ e.note = "attempt")
                                    /\ e.note # "outcome"]
    BY <1>2 DEF Lands
  <2>3. openAttempt' = openAttempt
    BY <1>1, <2>2
  <2> QED
    BY <1>1, <2>1, <2>3, LandedType
<1>3. /\ faults' \in 0..MaxFaults /\ (faults' = 0 => faults = 0)
      /\ \/ Lands(t, e) /\ Admitted(t, e)
         \/ /\ turns' = turns /\ openAttempt' = openAttempt
            /\ ~Admitted(t, e) \/ faults' # 0
  BY SMTT(30), <1>1, FaultBoundAssumption DEF Rejected
<1>4. /\ turns' \in [Turns -> Turn] /\ openAttempt' = openAttempt
      /\ \A u \in Turns \ {t} : turns'[u] = turns[u]
      /\ \/ Admitted(t, e) /\ turns'[t] = Fold(turns[t], e)
         \/ /\ turns'[t] = turns[t]
            /\ ~Admitted(t, e) \/ faults' # 0
  BY <1>1, <1>2, <1>3
<1> QED
  BY <1>1, <1>3, <1>4 DEF CallFrame

\* The row of a call about its own turn.
LEMMA OwnRow ==
    ASSUME LoopInv, NEW t \in Turns,
           NEW k \in {"turn_completed", "turn_interrupted"},
           NEW n \in Reasons \cup {None}, k = "turn_interrupted" => n \in Reasons
    PROVE  /\ Row(k, t, None, n) \in Events
           /\ Row(k, t, None, n).kind = k /\ Row(k, t, None, n).note = n
           /\ Row(k, t, None, n).binding = turns[t].binding
<1>1. turns[t].binding \in Bindings
  BY DEF LoopInv, LoopTypeOK, ExecutorTypeOK, Turn
<1>2. k \in Kinds \ {"work_created", "work_linked"} /\ n \in Notes
      /\ k # "tool_call_started"
  BY DEF Kinds, Notes
<1> QED
  BY <1>1, <1>2, RowType DEF Row, TurnEvent

\* The completion of an iteration's turn.
LEMMA CompletedInv ==
    ASSUME LoopInv, NEW t \in Turns, TurnCompleted(t)
    PROVE  LoopInv'
<1> DEFINE e == Row("turn_completed", t, None, None)
<1>1. /\ pc[t] = "text"
      /\ Accepted(t, e, "returned") \/ Returns(t, e)
      /\ UNCHANGED <<attempt, signal, loop>>
  BY DEF TurnCompleted
<1>2. e \in Events /\ e.kind = "turn_completed" /\ e.note = None
      /\ e.binding = turns[t].binding
  BY SMTT(30), OwnRow
<1>3. /\ \/ Admitted(t, e) /\ Lands(t, e) /\ faults' = faults
         \/ Rejected(t, e)
      /\ pc' = [pc EXCEPT ![t] = "returned"]
      /\ err' = err \/ err' = [err EXCEPT ![t] = "other"]
  BY <1>1 DEF Accepted, Returns
<1> HIDE DEF e
<1>4. pc[t] \in Calling \ (Attempting \cup {"failed"})
  BY <1>1 DEF Calling, Attempting
<1>5. /\ openAttempt[t] = FALSE /\ (err[t] = "cancelled" => signal[t])
      /\ attempt \in [Turns -> 0..MaxAttempts]
      /\ turns[t].status = "open" /\ ~turns[t].cancelRequested
      /\ turns[t] \in Turn
  BY <1>4, UnderWay DEF LoopInv, IterationInv, LoopTypeOK, ExecutorTypeOK
<1>6. /\ CallFrame(t) /\ pc'[t] = "returned"
      /\ err'[t] \in {err[t], "other"}
      /\ openAttempt'[t] = openAttempt[t]
      /\ \/ Admitted(t, e) /\ turns'[t] = Fold(turns[t], e)
         \/ turns'[t] = turns[t] /\ (~Admitted(t, e) \/ faults' # 0)
  BY <1>2, <1>3, <1>4, ClosingRow, NoteAssumption
<1>7. Admitted(t, e)
  BY <1>2, <1>5 DEF Admitted, Admits, IsCancellationClose
<1>8. Fold(turns[t], e).status = "completed"
      /\ ~Fold(turns[t], e).cancelRequested
  BY <1>2, <1>5, <1>7, CompletedFold DEF Admitted
<1>9. /\ ~turns'[t].cancelRequested
      /\ turns'[t].status = "completed" \/ faults' # 0
  BY <1>5, <1>6, <1>7, <1>8
<1>10. IterationInv(t)'
  BY <1>1, <1>5, <1>6, <1>9
     DEF IterationInv, Calling, StageLocations, IsTerminal, TerminalStatuses
<1>11. AttemptFrame(t)
  BY <1>1, <1>5 DEF AttemptFrame
<1> QED
  BY <1>6, <1>10, <1>11, CallInv

\* A failed stage closes its turn, unless the error says that the loop was
\* cancelled: a turn without a cancellation intent refuses that reason.
LEMMA InterruptInv ==
    ASSUME LoopInv, NEW t \in Turns, Interrupt(t)
    PROVE  LoopInv'
<1> DEFINE reason == IF err[t] = "cancelled" THEN "OPERATOR_CANCELLED"
                                             ELSE "EXECUTION_FAILED"
           e == Row("turn_interrupted", t, None, reason)
<1>1. /\ pc[t] = "failed"
      /\ \/ Admitted(t, e) /\ Lands(t, e) /\ faults' = faults
         \/ Rejected(t, e)
      /\ pc' = [pc EXCEPT ![t] = "returned"]
      /\ UNCHANGED <<attempt, err, signal, loop>>
  BY DEF Interrupt
<1>2. e \in Events /\ e.kind = "turn_interrupted" /\ e.note = reason
      /\ e.binding = turns[t].binding
  <2>1. reason \in Reasons
    BY DEF Reasons
  <2> QED
    BY SMTT(30), <2>1, OwnRow
<1>3. /\ e.note \notin {"attempt", "outcome"}
      /\ e.note = "OPERATOR_CANCELLED" <=> err[t] = "cancelled"
  BY <1>2
<1> HIDE DEF e, reason
<1>4. /\ pc[t] \in Calling /\ (err[t] = "cancelled" => signal[t])
      /\ attempt \in [Turns -> 0..MaxAttempts]
      /\ turns[t].status = "open" /\ ~turns[t].cancelRequested
      /\ turns[t] \in Turn
  <2>1. "failed" \in Calling
    BY DEF Calling, StageLocations
  <2> QED
    BY <1>1, <2>1, UnderWay DEF LoopInv, IterationInv, LoopTypeOK, ExecutorTypeOK
<1>5. /\ CallFrame(t) /\ pc'[t] = "returned"
      /\ \/ Admitted(t, e) /\ turns'[t] = Fold(turns[t], e)
         \/ turns'[t] = turns[t] /\ (~Admitted(t, e) \/ faults' # 0)
  BY <1>1, <1>2, <1>3, <1>4, ClosingRow
<1>6. /\ Admitted(t, e) <=> err[t] # "cancelled"
      /\ Admitted(t, e) => /\ Fold(turns[t], e).status = "interrupted"
                           /\ ~Fold(turns[t], e).cancelRequested
  BY <1>2, <1>3, <1>4, InterruptedFold DEF Admitted
<1>7. /\ ~turns'[t].cancelRequested /\ turns'[t].status # "completed"
      /\ \/ turns'[t].status = "interrupted"
         \/ signal[t] \/ faults' # 0
  BY <1>4, <1>5, <1>6
<1>8. IterationInv(t)'
  BY <1>1, <1>4, <1>5, <1>7
     DEF IterationInv, Calling, StageLocations, IsTerminal, TerminalStatuses
<1>9. AttemptFrame(t)
  BY <1>1, <1>4 DEF AttemptFrame
<1> QED
  BY <1>5, <1>8, <1>9, CallInv

-----------------------------------------------------------------------------
(* The loop.                                                               *)

\* The next iteration admits its turn.
LEMMA IterateInv ==
    ASSUME LoopInv, NEW t \in Turns, Iterate(t)
    PROVE  LoopInv'
<1> DEFINE open == [AbsentTurn EXCEPT !.status = "open", !.userMessage = TRUE]
<1>1. open \in Turn /\ open.status = "open" /\ open.cancelRequested = FALSE
  <2>1. AbsentTurn \in Turn /\ AbsentTurn.cancelRequested = FALSE
    BY UnboundType DEF AbsentTurn, Turn
  <2> QED
    BY <2>1 DEF Turn
<1>2. /\ pc[t] = "idle" /\ turns' = [turns EXCEPT ![t] = open]
      /\ pc' = [pc EXCEPT ![t] = "assistant"]
      /\ UNCHANGED <<openAttempt, attempt, err, signal, faults, loop>>
  BY DEF Iterate
<1> HIDE DEF open
<1>3. /\ turns \in [Turns -> Turn] /\ openAttempt \in [Turns -> BOOLEAN]
      /\ pc \in [Turns -> Calling \cup {"idle", "returned"}]
      /\ err \in [Turns -> {"none", "cancelled", "other"}]
      /\ faults \in 0..MaxFaults /\ attempt \in [Turns -> 0..MaxAttempts]
      /\ "assistant" \in Calling
  BY DEF LoopInv, LoopTypeOK, ExecutorTypeOK, Calling
<1>4. CallFrame(t) /\ AttemptFrame(t)
  BY <1>1, <1>2, <1>3 DEF CallFrame, AttemptFrame
<1>5. ~openAttempt[t] /\ (err[t] = "cancelled" => signal[t])
  BY <1>2 DEF LoopInv, IterationInv, Attempting
<1>6. turns'[t] = open /\ pc'[t] = "assistant"
  BY <1>2, <1>3
<1>7. IterationInv(t)'
  BY <1>1, <1>2, <1>5, <1>6 DEF IterationInv
<1> QED
  BY <1>4, <1>7, CallInv

\* Cancelling or ending the loop changes no turn.
LEMMA LoopStepInv ==
    ASSUME LoopInv, Cancel \/ EndLoop \/ UNCHANGED loopVars
    PROVE  LoopInv'
<1>1. /\ turns' = turns /\ openAttempt' = openAttempt /\ pc' = pc
      /\ attempt' = attempt /\ err' = err /\ faults' = faults
      /\ signal' = signal \/ signal' = [t \in Turns |-> TRUE]
      /\ loop' \in {loop, "cancelled", "error", "finished"}
  BY DEF Cancel, EndLoop, loopVars, executorVars
<1>2. signal' \in [Turns -> BOOLEAN] /\ \A t \in Turns : signal[t] => signal'[t]
  BY <1>1 DEF LoopInv, LoopTypeOK, ExecutorTypeOK
<1>3. LoopTypeOK'
  BY <1>1, <1>2 DEF LoopInv, LoopTypeOK, ExecutorTypeOK
<1>4. ASSUME NEW t \in Turns PROVE IterationInv(t)'
  BY <1>1, <1>2 DEF LoopInv, IterationInv, IsTerminal
<1> QED
  BY <1>3, <1>4 DEF LoopInv

\* The invariant holds before the first iteration.
LEMMA LoopInitInv == LoopInit => LoopInv
<1> SUFFICES ASSUME LoopInit PROVE LoopInv
  OBVIOUS
<1>1. /\ AbsentTurn \in Turn /\ AbsentTurn.status = "absent"
      /\ AbsentTurn.cancelRequested = FALSE
  BY UnboundType DEF AbsentTurn, Turn
<1>2. LoopTypeOK
  BY SMTT(30), <1>1, FaultBoundAssumption, MaxAttemptsAssumption
     DEF LoopInit, ExecutorInit, LoopTypeOK, ExecutorTypeOK
<1>3. ASSUME NEW t \in Turns PROVE IterationInv(t)
  BY <1>1 DEF LoopInit, ExecutorInit, IterationInv, Calling, StageLocations
<1> QED
  BY <1>2, <1>3 DEF LoopInv

\* The inductive invariant holds of every run of a loop.
THEOREM LoopInvHolds == LoopSpec => []LoopInv
<1>1. LoopInv /\ [LoopNext]_loopVars => LoopInv'
  BY StageInv, AssistantInv, CompletedInv, InterruptInv, IterateInv,
     LoopStepInv, Zenon DEF LoopNext, CallStep
<1> QED
  BY <1>1, LoopInitInv, PTL DEF LoopSpec

\* execute_canonical_turn closes its turn on every path on which nothing was
\* cancelled and no append failed, and a turn that completed has an outcome
\* row for every provider attempt.
THEOREM ClosedUnlessCancelledHolds == LoopSpec => []ClosedUnlessCancelled
<1>1. LoopInv => ClosedUnlessCancelled
  BY DEF LoopInv, IterationInv, ClosedUnlessCancelled
<1> QED
  BY <1>1, LoopInvHolds, PTL
=============================================================================
