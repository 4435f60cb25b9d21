----------------------------- MODULE WorkerMesh -----------------------------
(***************************************************************************)
(* The worker mesh of the core runtime (apps/heiwa_core/src/runtime):      *)
(* workers connect by WebSocket and register a session, POST /tasks leases *)
(* a task to a session, the worker answers over its socket, and the        *)
(* evidence journal keeps the latest row of every session and lease        *)
(* (crates/heiwa_evidence).  A core that starts first closes out what the  *)
(* journal shows live (recover_interrupted), and only then binds its port. *)
(*                                                                         *)
(* The registry and the table of senders are two locks: a step here is one *)
(* critical section.  A journal row whose append fails is ignored by the   *)
(* registry.                                                               *)
(*                                                                         *)
(* Abstractions.  A task and its lease are one id, both are fresh UUIDs of *)
(* one request.  Capabilities match.  Time is the set of what has expired. *)
(* Rows of streams that nothing reads back (dispatches, presence, acks)    *)
(* are left out.  A worker acks before it answers, and repeats an answer,  *)
(* as a worker that lost the reply may.  One core at a time.               *)
(***************************************************************************)
EXTENDS Integers, Sequences, FiniteSets

CONSTANTS
    Conns,          \* sockets
    Sessions,       \* session ids, fresh at every registration
    Tasks,          \* requests to POST /tasks
    None,           \* no session
    MaxConcurrency, \* tasks a session takes at a time
    MaxQueue,       \* bound on the messages of a socket
    MaxLost,        \* bound on the journal rows that fail
    MaxCrashes      \* bound on the crashes of the core

ASSUME MeshAssumption ==
    /\ None \notin Sessions \cup Tasks
    /\ Conns # {} /\ Sessions # {} /\ Tasks # {}
    /\ MaxConcurrency \in Nat /\ MaxQueue \in Nat
    /\ MaxLost \in Nat /\ MaxCrashes \in Nat

VARIABLES
    core,       \* "down" or "up"
    recovery,   \* what a starting core still has to close out
    conn,       \* per socket: reader, writer and session of its task
    session,    \* the registry's sessions
    lease,      \* the registry's leases: the session a task is leased to
    senders,    \* sessions in the table of senders
    expired,    \* registered sessions and leases past their expiry
    request,    \* per task: where its POST /tasks is
    worker,     \* per task: what its worker sent
    queue,      \* per socket: messages of the worker
    final,      \* per socket: the result or error it is finalizing
    journal,    \* what the journal's streams say last
    lost,       \* tasks and sessions with a row that failed
    count       \* failed rows and crashes so far

registry == <<conn, session, lease, senders, expired, final>>
vars == <<core, recovery, registry, request, worker, queue, journal, lost,
          count>>

Live == {"issued", "acked"}
LeaseRows == Live \cup {"none", "completed", "failed", "revoked"}
Answers == {"ack", "nack", "success", "bare", "failure", "error"}
Messages == [kind : {"beat"}, n : 0 .. MaxConcurrency]
                \cup [kind : Answers, task : Tasks]

Journals == [lease : [Tasks -> LeaseRows],
             session : [Sessions -> {"none", "active", "closed"}],
             status : [Tasks -> {"none", "running", "complete", "failed"}],
             receipts : [Tasks -> Nat]]

Sockets == [read : {"idle", "open", "ended", "gone"}, write : BOOLEAN,
            legacy : BOOLEAN, joining : Sessions \cup {None},
            session : Sessions \cup {None}]
SessionRecords == [at : {"new", "on", "gone"}, conn : Conns, active : Nat]
Requests == [at : {"new", "reserved", "found", "dispatched", "queued", "cut"},
             session : Sessions \cup {None}]
Finals == [step : {"idle", "valid", "recorded"}, kind : Answers, task : Tasks]
Recoveries == [on : BOOLEAN, sessions : SUBSET Sessions, leases : SUBSET Tasks]
Counts == [lost : 0 .. MaxLost, crashes : 0 .. MaxCrashes]

TypeOK ==
    /\ core \in {"down", "up"}
    /\ recovery \in Recoveries
    /\ conn \in [Conns -> Sockets]
    /\ session \in [Sessions -> SessionRecords]
    /\ lease \in [Tasks -> Sessions \cup {None}]
    /\ senders \subseteq Sessions
    /\ expired \subseteq Sessions \cup Tasks
    /\ request \in [Tasks -> Requests]
    /\ worker \in [Tasks -> {"none", "sent", "acked", "answered"}]
    /\ queue \in [Conns -> Seq(Messages)]
    /\ final \in [Conns -> Finals]
    /\ journal \in Journals
    /\ lost \subseteq Sessions \cup Tasks
    /\ count \in Counts

NoRecovery == [on |-> FALSE, sessions |-> {}, leases |-> {}]
Closed == [read |-> "idle", write |-> FALSE, legacy |-> FALSE,
           joining |-> None, session |-> None]
Idle == [step |-> "idle", kind |-> "ack", task |-> CHOOSE t \in Tasks : TRUE]
Unused == [at |-> "new", conn |-> CHOOSE c \in Conns : TRUE, active |-> 0]
Pending == [at |-> "new", session |-> None]

\* A core that has started and whose journal is empty.
Init ==
    /\ core = "up" /\ recovery = NoRecovery
    /\ conn = [c \in Conns |-> Closed]
    /\ session = [s \in Sessions |-> Unused]
    /\ lease = [t \in Tasks |-> None]
    /\ senders = {} /\ expired = {} /\ lost = {}
    /\ request = [t \in Tasks |-> Pending]
    /\ worker = [t \in Tasks |-> "none"]
    /\ queue = [c \in Conns |-> <<>>]
    /\ final = [c \in Conns |-> Idle]
    /\ journal = [lease |-> [t \in Tasks |-> "none"],
                  session |-> [s \in Sessions |-> "none"],
                  status |-> [t \in Tasks |-> "none"],
                  receipts |-> [t \in Tasks |-> 0]]
    /\ count = [lost |-> 0, crashes |-> 0]

-----------------------------------------------------------------------------
(* The journal.                                                            *)

Written == UNCHANGED <<lost, count>>

\* An append fails and the registry goes on.
Fails(x) == /\ count.lost < MaxLost
            /\ count' = [count EXCEPT !.lost = @ + 1]
            /\ lost' = lost \cup {x}

\* The row of a lease, written or lost, beside other rows of the step.
LeaseRow(j, t, row) ==
    \/ journal' = [j EXCEPT !.lease[t] = row] /\ Written
    \/ journal' = j /\ Fails(t)

\* active_tasks.saturating_sub(1) of the session that held a lease.
LessOne(s) == [session EXCEPT ![s].active = IF @ = 0 THEN 0 ELSE @ - 1]

\* complete_dispatch: nothing happens when the lease is gone.
CompleteDispatch(t, row, j) ==
    \/ /\ lease[t] = None
       /\ journal' = j /\ Written
       /\ UNCHANGED <<lease, session, expired>>
    \/ /\ lease[t] # None
       /\ lease' = [lease EXCEPT ![t] = None]
       /\ expired' = expired \ {t}
       /\ session' = IF session[lease[t]].at = "on" THEN LessOne(lease[t]) ELSE session
       /\ LeaseRow(j, t, row)

-----------------------------------------------------------------------------
(* Connections.                                                            *)

\* On the worker route or on the legacy one.
Connect(c) ==
    /\ core = "up" /\ conn[c] = Closed
    /\ \E legacy \in BOOLEAN :
        conn' = [conn EXCEPT ![c] = [@ EXCEPT !.read = "open", !.write = TRUE,
                                              !.legacy = legacy]]
    /\ UNCHANGED <<core, recovery, session, lease, senders, expired, final,
                   request, worker, queue, journal, lost, count>>

\* REGISTER: the first message of a socket; a legacy socket takes more, and
\* forgets the session it had.  The registry learns of the session ...
Register(c, s) ==
    /\ core = "up" /\ conn[c].read = "open" /\ queue[c] = <<>>
    /\ final[c].step = "idle" /\ conn[c].joining = None
    /\ conn[c].session = None \/ conn[c].legacy
    /\ session[s].at = "new"
    /\ session' = [session EXCEPT ![s] = [at |-> "on", conn |-> c, active |-> 0]]
    /\ conn' = [conn EXCEPT ![c].joining = s]
    /\ \/ journal' = [journal EXCEPT !.session[s] = "active"] /\ Written
       \/ journal' = journal /\ Fails(s)
    /\ UNCHANGED <<core, recovery, lease, senders, expired, final, request,
                   worker, queue>>

\* ... before the table of senders does.
InsertSender(c) ==
    /\ conn[c].joining # None
    /\ senders' = senders \cup {conn[c].joining}
    /\ conn' = [conn EXCEPT
            ![c] = [@ EXCEPT !.session = conn[c].joining, !.joining = None]]
    /\ UNCHANGED <<core, recovery, session, lease, expired, final, request,
                   worker, queue, journal, lost, count>>

\* The writer task ends at the first failed send.
WriterEnds(c) ==
    /\ conn[c].write
    /\ conn' = [conn EXCEPT ![c].write = FALSE]
    /\ UNCHANGED <<core, recovery, session, lease, senders, expired, final,
                   request, worker, queue, journal, lost, count>>

\* The worker is gone, with or without what it sent last.
HangUp(c) ==
    /\ conn[c].read = "open"
    /\ conn' = [conn EXCEPT ![c].read = "ended"]
    /\ queue' \in {queue, [queue EXCEPT ![c] = <<>>]}
    /\ UNCHANGED <<core, recovery, session, lease, senders, expired, final,
                   request, worker, journal, lost, count>>

\* Mutant of Leaving: the clean-up waits for the writer.
LeavingLast(c) == /\ conn[c].read = "ended" /\ conn[c].joining = None
                  /\ queue[c] = <<>> /\ final[c].step = "idle"
                  /\ ~conn[c].write

\* The reader's loop is over.
Leaving(c) == /\ conn[c].read = "ended" /\ conn[c].joining = None
              /\ queue[c] = <<>> /\ final[c].step = "idle"

RemoveSender(c) ==
    /\ Leaving(c) /\ conn[c].session \in senders
    /\ senders' = senders \ {conn[c].session}
    /\ UNCHANGED <<core, recovery, conn, session, lease, expired, final,
                   request, worker, queue, journal, lost, count>>

\* remove_session: the session is closed and its leases are revoked; then
\* the writer is aborted.  Of several rows, one may fail.
RemoveSession(c) ==
    /\ Leaving(c) /\ conn[c].session \notin senders
    /\ conn' = [conn EXCEPT ![c] = [Closed EXCEPT !.read = "gone"]]
    /\ LET s == conn[c].session
           orphaned == {t \in Tasks : lease[t] = s}
           rows(failed) == [journal EXCEPT
                !.session = [x \in Sessions |-> IF x = s /\ s # failed
                                                THEN "closed" ELSE @[x]],
                !.lease = [t \in Tasks |-> IF t \in orphaned \ {failed}
                                           THEN "revoked" ELSE @[t]]]
       IN IF s = None
          THEN UNCHANGED <<session, lease, expired, journal, lost, count>>
          ELSE /\ session' = [session EXCEPT ![s] = [@ EXCEPT !.at = "gone", !.active = 0]]
               /\ lease' = [t \in Tasks |-> IF t \in orphaned THEN None
                                                              ELSE lease[t]]
               /\ expired' = expired \ (orphaned \cup {s})
               /\ \/ journal' = rows(None) /\ Written
                  \/ \E x \in orphaned \cup {s} :
                        journal' = rows(x) /\ Fails(x)
    /\ UNCHANGED <<core, recovery, senders, final, request, worker, queue>>

\* A session lasts six hours and a lease five minutes.
Expire(x) ==
    /\ x \notin expired
    /\ \/ x \in Sessions /\ session[x].at = "on"
       \/ x \in Tasks /\ lease[x] # None
    /\ expired' = expired \cup {x}
    /\ UNCHANGED <<core, recovery, conn, session, lease, senders, final,
                   request, worker, queue, journal, lost, count>>

-----------------------------------------------------------------------------
(* POST /tasks.                                                            *)

Free(s) == /\ session[s].at = "on" /\ s \notin expired
           /\ session[s].active < MaxConcurrency

\* reserve_dispatch, any session with room.
Reserve(t, s) ==
    /\ core = "up" /\ request[t].at = "new" /\ Free(s)
    /\ session' = [session EXCEPT ![s].active = @ + 1]
    /\ lease' = [lease EXCEPT ![t] = s]
    /\ request' = [request EXCEPT ![t] = [at |-> "reserved", session |-> s]]
    /\ LeaseRow(journal, t, "issued")
    /\ UNCHANGED <<core, recovery, conn, senders, expired, final, worker, queue>>

NoWorker(t) ==
    /\ core = "up" /\ request[t].at = "new"
    /\ \A s \in Sessions : ~Free(s)
    /\ request' = [request EXCEPT ![t].at = "queued"]
    /\ UNCHANGED <<core, recovery, registry, worker, queue, journal, lost, count>>

\* The sender is looked up after the reservation.  Without one the request
\* is still answered "dispatched".
Lookup(t) ==
    /\ request[t].at = "reserved"
    /\ request' = [request EXCEPT
        ![t].at = IF request[t].session \in senders THEN "found" ELSE "dispatched"]
    /\ UNCHANGED <<core, recovery, registry, worker, queue, journal, lost, count>>

\* The channel is open as long as the writer of the socket runs.
Dispatch(t) ==
    /\ request[t].at = "found"
    /\ \/ /\ conn[session[request[t].session].conn].write
          /\ request' = [request EXCEPT ![t].at = "dispatched"]
          /\ worker' = [worker EXCEPT ![t] = "sent"]
          /\ UNCHANGED <<session, lease, expired, journal, lost, count>>
       \/ /\ ~conn[session[request[t].session].conn].write
          /\ request' = [request EXCEPT ![t].at = "queued"]
          /\ CompleteDispatch(t, "failed", journal)
          /\ UNCHANGED worker
    /\ UNCHANGED <<core, recovery, conn, senders, final, queue>>

-----------------------------------------------------------------------------
(* The worker, outside the repository: what it may send.                   *)

Send(c, m) == /\ conn[c].read = "open" /\ Len(queue[c]) < MaxQueue
              /\ queue' = [queue EXCEPT ![c] = Append(@, m)]

\* A legacy heartbeat counts as no active task.
Beat(c, n) ==
    /\ conn[c].session # None
    /\ Send(c, [kind |-> "beat", n |-> IF conn[c].legacy THEN 0 ELSE n])
    /\ UNCHANGED <<core, recovery, registry, request, worker, journal, lost,
                   count>>

SocketOf(t) == session[request[t].session].conn

\* The first answer to a dispatch; legacy workers do not ack.
Ack(t, kind) ==
    /\ worker[t] = "sent" /\ ~conn[SocketOf(t)].legacy
    /\ Send(SocketOf(t), [kind |-> kind, task |-> t])
    /\ worker' = [worker EXCEPT ![t] = IF kind = "ack" THEN "acked" ELSE "answered"]
    /\ UNCHANGED <<core, recovery, registry, request, journal, lost, count>>

\* A result with artifacts, without, of a failed run, or an error; sent
\* again at will.
Answer(t, kind) ==
    /\ \/ worker[t] \in {"acked", "answered"} /\ ~conn[SocketOf(t)].legacy
       \/ worker[t] \in {"sent", "answered"} /\ conn[SocketOf(t)].legacy
            /\ kind \in {"success", "failure"}
    /\ Send(SocketOf(t), [kind |-> kind, task |-> t])
    /\ worker' = [worker EXCEPT ![t] = "answered"]
    /\ UNCHANGED <<core, recovery, registry, request, journal, lost, count>>

-----------------------------------------------------------------------------
(* The reader of a socket.                                                 *)

\* The message at the head, when the handler of the one before is done.
Reading(c, kinds) ==
    /\ conn[c].read \in {"open", "ended"} /\ conn[c].session # None
    /\ final[c].step = "idle" /\ conn[c].joining = None
    /\ queue[c] # <<>> /\ Head(queue[c]).kind \in kinds
    /\ queue' = [queue EXCEPT ![c] = Tail(@)]

Task(c) == Head(queue[c]).task

\* validate_lease.
Valid(c, t) == /\ lease[t] # None /\ lease[t] = conn[c].session
               /\ t \notin expired

\* update_heartbeat takes the worker's own count.
Heartbeat(c) ==
    /\ Reading(c, {"beat"})
    /\ LET s == conn[c].session IN
       session' = IF s \in expired THEN session
                  ELSE [session EXCEPT ![s].active = Head(queue[c]).n]
    /\ UNCHANGED <<core, recovery, conn, lease, senders, expired, final,
                   request, worker, journal, lost, count>>

\* record_dispatch_ack and the row its caller adds: any error, a rejection
\* included, marks the task failed.
DispatchAck(c) ==
    /\ Reading(c, {"ack", "nack"})
    /\ LET t == Task(c)
           marked(how) == [journal EXCEPT !.status[t] = how]
       IN \/ /\ Valid(c, t) /\ Head(queue[c]).kind = "ack"
             /\ LeaseRow(marked("running"), t, "acked")
             /\ UNCHANGED <<session, lease, expired>>
          \/ /\ Valid(c, t) /\ Head(queue[c]).kind = "nack"
             /\ lease' = [lease EXCEPT ![t] = None]
             /\ expired' = expired \ {t}
             /\ session' = LessOne(conn[c].session)
             /\ LeaseRow(marked("failed"), t, "failed")
          \/ /\ ~Valid(c, t)
             /\ journal' = marked("failed") /\ Written
             /\ UNCHANGED <<session, lease, expired>>
    /\ UNCHANGED <<core, recovery, conn, senders, final, request, worker>>

\* Mutant of FinalizeValidate: the lease is not looked up.
FinalizeUnchecked(c) ==
    /\ Reading(c, Answers \ {"ack", "nack"})
    /\ final' = [final EXCEPT ![c] = [step |-> "valid", kind |-> Head(queue[c]).kind,
                                      task |-> Task(c)]]
    /\ UNCHANGED <<core, recovery, conn, session, lease, senders, expired,
                   request, worker, journal, lost, count>>

\* finalize_result and finalize_error: the lease is validated under the
\* read lock, ...
FinalizeValidate(c) ==
    /\ Reading(c, Answers \ {"ack", "nack"})
    /\ final' = IF ~Valid(c, Task(c)) THEN final
                ELSE [final EXCEPT ![c] = [step |-> "valid",
                        kind |-> Head(queue[c]).kind, task |-> Task(c)]]
    /\ UNCHANGED <<core, recovery, conn, session, lease, senders, expired,
                   request, worker, journal, lost, count>>

\* ... the outcome and the receipt are written, the receipt only with an
\* artifact; each row may fail ...
FinalizeRecord(c) ==
    /\ final[c].step = "valid"
    /\ final' = [final EXCEPT ![c].step = "recorded"]
    /\ LET t == final[c].task
           outcome == IF final[c].kind \in {"success", "bare"} THEN "complete"
                                                              ELSE "failed"
           one == IF final[c].kind = "bare" THEN 0 ELSE 1
           status == [journal EXCEPT !.status[t] = outcome]
           receipt == [journal EXCEPT !.receipts[t] = @ + one]
       IN \/ journal' = [status EXCEPT !.receipts[t] = @ + one] /\ Written
          \/ journal' \in {status, receipt} /\ Fails(t)
    /\ UNCHANGED <<core, recovery, conn, session, lease, senders, expired,
                   request, worker, queue>>

\* ... and complete_dispatch takes the write lock.
FinalizeComplete(c) ==
    /\ final[c].step = "recorded"
    /\ final' = [final EXCEPT ![c] = Idle]
    /\ CompleteDispatch(final[c].task,
            IF final[c].kind = "error" THEN "failed" ELSE "completed", journal)
    /\ UNCHANGED <<core, recovery, conn, senders, request, worker, queue>>

-----------------------------------------------------------------------------
(* The core stops and starts.                                              *)

Crash ==
    /\ core = "up" /\ count.crashes < MaxCrashes
    /\ count' = [count EXCEPT !.crashes = @ + 1]
    /\ core' = "down"
    /\ conn' = [c \in Conns |-> Closed]
    /\ session' = [s \in Sessions |-> IF session[s].at = "on"
                        THEN [session[s] EXCEPT !.at = "gone", !.active = 0]
                        ELSE session[s]]
    /\ lease' = [t \in Tasks |-> None]
    /\ senders' = {} /\ expired' = {}
    /\ request' = [t \in Tasks |-> IF request[t].at \in {"reserved", "found"}
                        THEN [request[t] EXCEPT !.at = "cut"] ELSE request[t]]
    /\ worker' = [t \in Tasks |-> "none"]
    /\ queue' = [c \in Conns |-> <<>>]
    /\ final' = [c \in Conns |-> Idle]
    /\ UNCHANGED <<recovery, journal, lost>>

\* Mutant of Start: every lease the journal knows is closed out.
StartAll ==
    /\ ~recovery.on /\ core = "down"
    /\ recovery' = [on |-> TRUE,
            sessions |-> {s \in Sessions : journal.session[s] = "active"},
            leases |-> {t \in Tasks : journal.lease[t] # "none"}]
    /\ UNCHANGED <<core, registry, request, worker, queue, journal, lost, count>>

\* recover_interrupted reads the journal once.
Start ==
    /\ ~recovery.on /\ core = "down"
    /\ recovery' = [on |-> TRUE,
            sessions |-> {s \in Sessions : journal.session[s] = "active"},
            leases |-> {t \in Tasks : journal.lease[t] \in Live}]
    /\ UNCHANGED <<core, registry, request, worker, queue, journal, lost, count>>

\* Mutant of RecoverLease: an acked lease is left to its worker.
RecoverIssued(t) ==
    /\ recovery.sessions = {} /\ t \in recovery.leases
    /\ recovery' = [recovery EXCEPT !.leases = @ \ {t}]
    /\ journal' = IF journal.lease[t] = "acked" THEN journal
                  ELSE [journal EXCEPT !.lease[t] = "revoked"]
    /\ UNCHANGED <<core, registry, request, worker, queue, lost, count>>

RecoverSession(s) ==
    /\ s \in recovery.sessions
    /\ recovery' = [recovery EXCEPT !.sessions = @ \ {s}]
    /\ journal' = [journal EXCEPT !.session[s] = "closed"]
    /\ UNCHANGED <<core, registry, request, worker, queue, lost, count>>

RecoverLease(t) ==
    /\ recovery.sessions = {} /\ t \in recovery.leases
    /\ recovery' = [recovery EXCEPT !.leases = @ \ {t}]
    /\ journal' = [journal EXCEPT !.lease[t] = "revoked"]
    /\ UNCHANGED <<core, registry, request, worker, queue, lost, count>>

\* Recovery is over: the port is bound.
Serve ==
    /\ recovery.on /\ recovery.sessions = {} /\ recovery.leases = {}
    /\ recovery' = NoRecovery
    /\ core' = "up"
    /\ lost' = {}
    /\ UNCHANGED <<registry, request, worker, queue, journal, count>>

\* An append fails, or the starting process dies: the start is given up.
StartFails ==
    /\ recovery.on /\ count.crashes < MaxCrashes
    /\ count' = [count EXCEPT !.crashes = @ + 1]
    /\ recovery' = NoRecovery
    /\ UNCHANGED <<core, registry, request, worker, queue, journal, lost>>

-----------------------------------------------------------------------------

SocketNext(c) ==
    \/ InsertSender(c) \/ RemoveSender(c) \/ RemoveSession(c)
    \/ Heartbeat(c) \/ DispatchAck(c)
    \/ FinalizeValidate(c) \/ FinalizeRecord(c) \/ FinalizeComplete(c)

RequestNext(t) == Lookup(t) \/ Dispatch(t)

WorkerNext ==
    \/ \E c \in Conns : \/ Connect(c) \/ WriterEnds(c) \/ HangUp(c)
                        \/ \E s \in Sessions : Register(c, s)
                        \/ \E n \in 0 .. MaxConcurrency : Beat(c, n)
    \/ \E t \in Tasks : \/ \E kind \in {"ack", "nack"} : Ack(t, kind)
                        \/ \E kind \in Answers \ {"ack", "nack"} : Answer(t, kind)

Next ==
    \/ \E c \in Conns : SocketNext(c)
    \/ \E t \in Tasks : \/ RequestNext(t) \/ NoWorker(t) \/ RecoverLease(t)
                        \/ \E s \in Sessions : Reserve(t, s)
    \/ \E x \in Sessions \cup Tasks : Expire(x)
    \/ \E s \in Sessions : RecoverSession(s)
    \/ WorkerNext \/ Crash \/ Start \/ Serve \/ StartFails

Spec == Init /\ [][Next]_vars

\* The tasks of the runtime run to their next await.
FairSpec == /\ Spec
            /\ \A c \in Conns : WF_vars(SocketNext(c))
            /\ \A t \in Tasks : WF_vars(RequestNext(t))

-----------------------------------------------------------------------------
(* Properties.                                                             *)

\* "keeping the journal the single consistent truth": while a core serves,
\* the journal shows a lease live exactly when the registry holds it, and a
\* session active exactly when it is registered, but for rows that failed
\* since the core started.
JournalMatchesRegistry ==
    core = "up" =>
        /\ \A t \in Tasks \ lost :
                journal.lease[t] \in Live <=> lease[t] # None
        /\ \A s \in Sessions \ lost :
                journal.session[s] = "active" <=> session[s].at = "on"

\* However often a worker repeats its answer or changes it, a run has at
\* most one receipt.
OneReceipt ==
    \A t \in Tasks : journal.receipts[t] <= 1

\* A lease that ended stays as it ended, over crashes and restarts, and a
\* task that was recorded complete is never recorded otherwise.
FinalIsFinal ==
    [][\A t \in Tasks :
        /\ journal.lease[t] \in LeaseRows \ (Live \cup {"none"})
                => journal'.lease[t] = journal.lease[t]
        /\ journal.status[t] = "complete" => journal'.status[t] = "complete"]_vars

\* When the worker's socket ends, the lease it held ends in the journal.
LeaseEndsWithSocket ==
    \A t \in Tasks, c \in Conns :
        lease[t] # None /\ SocketOf(t) = c /\ ~conn[c].legacy /\ conn[c].read = "ended"
            ~> journal.lease[t] \notin Live \/ t \in lost \/ core = "down"
=============================================================================
