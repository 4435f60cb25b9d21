------------------------- MODULE WorkerMesh_proofs -------------------------
(***************************************************************************)
(* Proofs about the worker mesh, for any number of sockets, sessions,      *)
(* tasks, repeated answers, lost rows and crashes: types, the registry and *)
(* its journal, and what a run leaves in the journal, which is final and   *)
(* has one receipt.                                                        *)
(***************************************************************************)
EXTENDS WorkerMesh, SequenceTheorems, TLAPS

-----------------------------------------------------------------------------
(* Most leaves are first-order and go to Zenon; those that need records,   *)
(* arithmetic or set enumerations cite SMTT.                               *)

USE ZenonT(30)

-----------------------------------------------------------------------------
(* Types.                                                                  *)

LEMMA FailsType ==
    ASSUME TypeOK, NEW x \in Sessions \cup Tasks, Fails(x)
    PROVE  lost' \subseteq Sessions \cup Tasks /\ count' \in Counts
<1>1. lost' \subseteq Sessions \cup Tasks
  BY DEF TypeOK, Fails
<1>2. /\ count \in Counts /\ count.lost < MaxLost
      /\ count' = [count EXCEPT !.lost = @ + 1]
  BY DEF TypeOK, Fails
<1>3. count' \in Counts
  BY SMTT(30), <1>2, MeshAssumption DEF Counts
<1> QED
  BY <1>1, <1>3

LEMMA LessOneType ==
    ASSUME TypeOK, NEW s \in Sessions
    PROVE  LessOne(s) \in [Sessions -> SessionRecords]
<1>1. session[s] \in SessionRecords
  BY DEF TypeOK
<1>3. [session[s] EXCEPT !.active = IF @ = 0 THEN 0 ELSE @ - 1] \in SessionRecords
  BY SMTT(30), <1>1 DEF SessionRecords
<1> QED
  BY <1>3 DEF TypeOK, LessOne

\* A row of a lease, written or lost, leaves a journal.
LEMMA LeaseRowType ==
    ASSUME TypeOK, NEW j \in Journals, NEW t \in Tasks, NEW row \in LeaseRows,
           LeaseRow(j, t, row)
    PROVE  /\ journal' \in Journals /\ lost' \subseteq Sessions \cup Tasks
           /\ count' \in Counts
<1>1. [j EXCEPT !.lease[t] = row] \in Journals
  BY DEF Journals
<1>2. CASE journal' = j /\ Fails(t)
  BY <1>2, FailsType
<1>3. CASE journal' = [j EXCEPT !.lease[t] = row] /\ Written
  BY <1>1, <1>3 DEF TypeOK, Written
<1> QED
  BY <1>2, <1>3 DEF LeaseRow

LEMMA CompleteDispatchType ==
    ASSUME TypeOK, NEW t \in Tasks, NEW row \in LeaseRows,
           CompleteDispatch(t, row, journal)
    PROVE  /\ journal' \in Journals /\ lost' \subseteq Sessions \cup Tasks
           /\ count' \in Counts
           /\ lease' \in [Tasks -> Sessions \cup {None}]
           /\ expired' \subseteq Sessions \cup Tasks
           /\ session' \in [Sessions -> SessionRecords]
<1>1. CASE lease[t] = None
  BY <1>1 DEF CompleteDispatch, TypeOK, Written
<1>2. CASE lease[t] # None
  <2>1. /\ LeaseRow(journal, t, row) /\ lease' = [lease EXCEPT ![t] = None]
        /\ expired' = expired \ {t} /\ session' \in {session, LessOne(lease[t])}
    BY <1>2 DEF CompleteDispatch
  <2>2. lease[t] \in Sessions
    BY <1>2 DEF TypeOK
  <2>3. session' \in [Sessions -> SessionRecords]
    BY <2>1, <2>2, LessOneType DEF TypeOK
  <2>4. journal \in Journals
    BY DEF TypeOK
  <2>5. /\ journal' \in Journals /\ lost' \subseteq Sessions \cup Tasks
        /\ count' \in Counts
    BY <2>1, <2>4, LeaseRowType
  <2>6. /\ lease' \in [Tasks -> Sessions \cup {None}]
        /\ expired' \subseteq Sessions \cup Tasks
    BY <2>1 DEF TypeOK
  <2> QED
    BY <2>3, <2>5, <2>6
<1> QED
  BY <1>1, <1>2

LEMMA TypeStep ==
    ASSUME TypeOK, [Next]_vars
    PROVE  TypeOK'
<1>a. ASSUME NEW k \in Sockets, NEW s \in Sessions
      PROVE  [k EXCEPT !.joining = s] \in Sockets
  BY DEF Sockets
<1>b. ASSUME NEW k \in Sockets
      PROVE  [k EXCEPT !.read = "ended"] \in Sockets
  BY DEF Sockets
<1>c. ASSUME NEW c \in Conns
      PROVE  [at |-> "on", conn |-> c, active |-> 0] \in SessionRecords
  BY DEF SessionRecords
<1>d. ASSUME NEW k \in SessionRecords
      PROVE  [k EXCEPT !.active = @ + 1] \in SessionRecords
  BY SMTT(30) DEF SessionRecords
<1>e. ASSUME NEW k \in SessionRecords, NEW n \in Nat
      PROVE  [k EXCEPT !.active = n] \in SessionRecords
  BY DEF SessionRecords
<1>f. ASSUME NEW m \in Messages, m.kind = "beat"
      PROVE  m.n \in Nat
  BY SMTT(30), <1>f, MeshAssumption DEF Messages, Answers
<1>g. ASSUME NEW kind \in Answers, NEW t \in Tasks
      PROVE  [step |-> "valid", kind |-> kind, task |-> t] \in Finals
  BY DEF Finals
<1>h. ASSUME NEW k \in Finals
      PROVE  /\ [k EXCEPT !.step = "recorded"] \in Finals
             /\ k.task \in Tasks
  BY DEF Finals
<1>i. Idle \in Finals
  BY MeshAssumption DEF Idle, Answers, Finals
<1>j. Closed \in Sockets
  BY DEF Closed, Sockets
<1>k. ASSUME NEW j \in Journals, NEW t \in Tasks, NEW how \in {"running", "complete", "failed"}
      PROVE  [j EXCEPT !.status[t] = how] \in Journals
  BY DEF Journals
<1>l. ASSUME NEW j \in Journals, NEW t \in Tasks, NEW one \in {0, 1}
      PROVE  [j EXCEPT !.receipts[t] = @ + one] \in Journals
  BY SMTT(30) DEF Journals
<1>m. ASSUME NEW k \in Recoveries, NEW ss \in SUBSET Sessions, NEW ts \in SUBSET Tasks
      PROVE  /\ [k EXCEPT !.sessions = @ \ ss] \in Recoveries
             /\ [k EXCEPT !.leases = @ \ ts] \in Recoveries
             /\ [on |-> TRUE, sessions |-> ss, leases |-> ts] \in Recoveries
             /\ NoRecovery \in Recoveries
  BY DEF Recoveries, NoRecovery
<1>n. ASSUME NEW k \in Counts, k.crashes < MaxCrashes
      PROVE  [k EXCEPT !.crashes = @ + 1] \in Counts
  BY SMTT(30), <1>n, MeshAssumption DEF Counts
<1> USE DEF TypeOK
<1>1. ASSUME NEW c \in Conns, Connect(c) \/ WriterEnds(c) \/ InsertSender(c)
                              \/ RemoveSender(c)
      PROVE  TypeOK'
  <2>1. conn[c] \in Sockets
    OBVIOUS
  <2>2. CASE Connect(c)
    <3>1. PICK legacy \in BOOLEAN :
            conn' = [conn EXCEPT ![c] = [@ EXCEPT !.read = "open", !.write = TRUE,
                                                  !.legacy = legacy]]
      BY <2>2 DEF Connect
    <3>2. [conn[c] EXCEPT !.read = "open", !.write = TRUE, !.legacy = legacy] \in Sockets
      BY <2>1 DEF Sockets
    <3>3. conn' \in [Conns -> Sockets]
      BY <3>1, <3>2
    <3> QED
      BY <2>2, <3>3 DEF Connect
  <2>3. CASE WriterEnds(c)
    <3>1. [conn[c] EXCEPT !.write = FALSE] \in Sockets
      BY <2>1 DEF Sockets
    <3> QED
      BY <2>3, <3>1 DEF WriterEnds
  <2>4. CASE InsertSender(c)
    <3>1. /\ conn[c].joining \in Sessions
          /\ [conn[c] EXCEPT !.session = conn[c].joining, !.joining = None] \in Sockets
      BY <2>1, <2>4 DEF Sockets, InsertSender
    <3> QED
      BY <2>4, <3>1 DEF InsertSender
  <2>5. CASE RemoveSender(c)
    BY <2>5 DEF RemoveSender
  <2> QED
    BY <1>1, <2>2, <2>3, <2>4, <2>5
<1>2. ASSUME NEW c \in Conns, NEW s \in Sessions, Register(c, s)
      PROVE  TypeOK'
  <2>1. /\ journal' \in Journals /\ lost' \subseteq Sessions \cup Tasks
        /\ count' \in Counts
    <3>1. [journal EXCEPT !.session[s] = "active"] \in Journals
      BY DEF Journals
    <3>2. CASE journal' = [journal EXCEPT !.session[s] = "active"] /\ Written
      BY <3>1, <3>2 DEF Written
    <3>3. CASE journal' = journal /\ Fails(s)
      BY <3>3, FailsType
    <3> QED
      BY <1>2, <3>2, <3>3 DEF Register
  <2>2. /\ conn' = [conn EXCEPT ![c].joining = s]
        /\ session' = [session EXCEPT ![s] = [at |-> "on", conn |-> c, active |-> 0]]
        /\ UNCHANGED <<core, recovery, lease, senders, expired, final, request,
                       worker, queue>>
    BY <1>2 DEF Register
  <2>3. /\ [at |-> "on", conn |-> c, active |-> 0] \in SessionRecords
        /\ [conn[c] EXCEPT !.joining = s] \in Sockets
    BY <1>a, <1>c
  <2> QED
    BY <2>1, <2>2, <2>3
<1>3. ASSUME NEW c \in Conns, HangUp(c)
      PROVE  TypeOK'
  <2>1. <<>> \in Seq(Messages)
    BY SMTT(30)
  <2>2. queue' \in [Conns -> Seq(Messages)]
    BY <1>3, <2>1 DEF HangUp
  <2>3. [conn[c] EXCEPT !.read = "ended"] \in Sockets
    BY <1>b
  <2> QED
    BY <1>3, <2>2, <2>3 DEF HangUp
<1>4. ASSUME NEW c \in Conns, RemoveSession(c)
      PROVE  TypeOK'
  <2> DEFINE s == conn[c].session
             orphaned == {t \in Tasks : lease[t] = s}
             rows(failed) == [journal EXCEPT
                !.session = [x \in Sessions |-> IF x = s /\ s # failed
                                                THEN "closed" ELSE @[x]],
                !.lease = [t \in Tasks |-> IF t \in orphaned \ {failed}
                                           THEN "revoked" ELSE @[t]]]
  <2>1. \A x : rows(x) \in Journals
    BY DEF Journals, LeaseRows
  <2>2. /\ conn' = [conn EXCEPT ![c] = [Closed EXCEPT !.read = "gone"]]
        /\ UNCHANGED <<core, recovery, senders, final, request, worker, queue>>
    BY <1>4 DEF RemoveSession
  <2>3. conn' \in [Conns -> Sockets] /\ s \in Sessions \cup {None}
    <3>1. [Closed EXCEPT !.read = "gone"] \in Sockets /\ s \in Sessions \cup {None}
      BY DEF Closed, Sockets
    <3> QED
      BY <2>2, <3>1
  <2>4. CASE s = None
    <3>1. UNCHANGED <<session, lease, expired, journal, lost, count>>
      BY <1>4, <2>4, Zenon DEF RemoveSession
    <3> QED
      BY <2>2, <2>3, <3>1
  <2>5. CASE s # None
    <3>1. /\ session' = [session EXCEPT ![s] = [@ EXCEPT !.at = "gone", !.active = 0]]
          /\ lease' = [t \in Tasks |-> IF t \in orphaned THEN None ELSE lease[t]]
          /\ expired' = expired \ (orphaned \cup {s})
          /\ \/ journal' = rows(None) /\ Written
             \/ \E x \in orphaned \cup {s} : journal' = rows(x) /\ Fails(x)
      BY <1>4, <2>5, Zenon DEF RemoveSession
    <3>2. s \in Sessions /\ orphaned \subseteq Tasks
      BY <2>3, <2>5
    <3> HIDE DEF rows, orphaned, s
    <3>3. journal' \in Journals
      BY <2>1, <3>1
    <3>4. lost' \subseteq Sessions \cup Tasks /\ count' \in Counts
      BY <3>1, <3>2, FailsType DEF Written
    <3>5. /\ lease' \in [Tasks -> Sessions \cup {None}]
          /\ expired' \subseteq Sessions \cup Tasks
      BY <3>1, <3>2
    <3>6. session' \in [Sessions -> SessionRecords]
      <4>1. [session[s] EXCEPT !.at = "gone", !.active = 0] \in SessionRecords
        BY <3>2 DEF SessionRecords
      <4> QED
        BY <3>1, <3>2, <4>1
    <3> QED
      BY <2>2, <2>3, <3>3, <3>4, <3>5, <3>6
  <2> QED
    BY <2>4, <2>5
<1>5. ASSUME NEW x \in Sessions \cup Tasks, Expire(x)
      PROVE  TypeOK'
  BY <1>5 DEF Expire
<1>6. ASSUME NEW t \in Tasks, NEW s \in Sessions, Reserve(t, s)
      PROVE  TypeOK'
  <2>1. LeaseRow(journal, t, "issued") /\ "issued" \in LeaseRows
    BY <1>6 DEF Reserve, LeaseRows, Live
  <2>2. /\ journal' \in Journals /\ lost' \subseteq Sessions \cup Tasks
        /\ count' \in Counts
    BY <2>1, LeaseRowType
  <2>3. [session EXCEPT ![s].active = @ + 1] \in [Sessions -> SessionRecords]
    <3>1. [session[s] EXCEPT !.active = @ + 1] \in SessionRecords
      BY <1>d
    <3> QED
      BY <3>1
  <2>4. [at |-> "reserved", session |-> s] \in Requests
    BY DEF Requests
  <2> QED
    BY <1>6, <2>2, <2>3, <2>4 DEF Reserve
<1>7. ASSUME NEW t \in Tasks, NoWorker(t) \/ Lookup(t)
      PROVE  TypeOK'
  <2>1. \A at \in {"found", "dispatched", "queued"} :
            [request[t] EXCEPT !.at = at] \in Requests
    BY SMTT(30) DEF Requests
  <2> QED
    BY <1>7, <2>1 DEF NoWorker, Lookup, registry
<1>8. ASSUME NEW t \in Tasks, Dispatch(t)
      PROVE  TypeOK'
  <2>1. "failed" \in LeaseRows
    BY DEF LeaseRows
  <2>2. \A at \in {"dispatched", "queued"} :
            [request EXCEPT ![t].at = at] \in [Tasks -> Requests]
    <3>1. \A at \in {"dispatched", "queued"} :
            [request[t] EXCEPT !.at = at] \in Requests
      BY SMTT(30) DEF Requests
    <3> QED
      BY <3>1
  <2>3. request' \in [Tasks -> Requests]
    BY <1>8, <2>2 DEF Dispatch
  <2>4. UNCHANGED <<core, recovery, conn, senders, final, queue>>
    BY <1>8 DEF Dispatch
  <2>5. CASE CompleteDispatch(t, "failed", journal) /\ UNCHANGED worker
    BY <2>1, <2>3, <2>4, <2>5, CompleteDispatchType
  <2>6. CASE /\ UNCHANGED <<session, lease, expired, journal, lost, count>>
             /\ worker' = [worker EXCEPT ![t] = "sent"]
    BY <2>3, <2>4, <2>6
  <2> QED
    BY <1>8, <2>5, <2>6 DEF Dispatch
<1>9. ASSUME NEW c, NEW m \in Messages, Send(c, m)
      PROVE  queue' \in [Conns -> Seq(Messages)]
  <2>1. CASE c \in Conns
    <3>1. Append(queue[c], m) \in Seq(Messages)
      BY <2>1, AppendProperties
    <3> QED
      BY <1>9, <3>1 DEF Send
  <2>2. CASE c \notin Conns
    BY <1>9, <2>2 DEF Send
  <2> QED
    BY <2>1, <2>2
<1>10. ASSUME NEW c \in Conns, NEW n \in 0 .. MaxConcurrency, Beat(c, n)
       PROVE  TypeOK'
  <2>1. [kind |-> "beat", n |-> IF conn[c].legacy THEN 0 ELSE n] \in Messages
    BY SMTT(30), MeshAssumption DEF Messages
  <2> QED
    BY <1>9, <1>10, <2>1 DEF Beat, registry
<1>11. ASSUME NEW t \in Tasks, NEW kind \in Answers, Ack(t, kind) \/ Answer(t, kind)
       PROVE  TypeOK'
  <2>1. [kind |-> kind, task |-> t] \in Messages
    BY DEF Messages
  <2>2. Send(SocketOf(t), [kind |-> kind, task |-> t])
    BY <1>11 DEF Ack, Answer
  <2> QED
    BY <1>9, <1>11, <2>1, <2>2 DEF Ack, Answer, registry
<1>12. ASSUME NEW c \in Conns, NEW kinds, Reading(c, kinds)
       PROVE  /\ queue' \in [Conns -> Seq(Messages)]
              /\ Head(queue[c]) \in Messages /\ conn[c].session \in Sessions
  <2>1. queue[c] \in Seq(Messages) /\ queue[c] # <<>>
    BY <1>12 DEF Reading
  <2>2. Tail(queue[c]) \in Seq(Messages) /\ Head(queue[c]) \in Messages
    BY <2>1, HeadTailProperties
  <2>3. queue' = [queue EXCEPT ![c] = Tail(@)] /\ conn[c].session # None
    BY <1>12 DEF Reading
  <2>4. conn[c].session \in Sessions \cup {None}
    <3>1. conn[c] \in Sockets
      OBVIOUS
    <3> HIDE DEF TypeOK
    <3> QED
      BY <3>1 DEF Sockets
  <2> QED
    BY <2>2, <2>3, <2>4
<1>13. ASSUME NEW c \in Conns, Heartbeat(c)
       PROVE  TypeOK'
  <2>1. Reading(c, {"beat"})
    BY <1>13 DEF Heartbeat
  <2>2. Head(queue[c]).n \in Nat
    BY <1>12, <1>f, <2>1 DEF Reading
  <2>3. /\ queue' \in [Conns -> Seq(Messages)]
        /\ conn[c].session \in Sessions
    BY <1>12, <2>1
  <2>4. [session[conn[c].session] EXCEPT !.active = Head(queue[c]).n] \in SessionRecords
    BY <1>e, <2>2, <2>3
  <2>5. session' \in [Sessions -> SessionRecords]
    BY <1>13, <2>3, <2>4 DEF Heartbeat
  <2> QED
    BY <1>13, <2>3, <2>5 DEF Heartbeat
<1>14. ASSUME NEW c \in Conns, NEW kinds \in SUBSET Answers, Reading(c, kinds)
       PROVE  Task(c) \in Tasks /\ Head(queue[c]).kind \in Answers
  <2>1. Head(queue[c]) \in Messages
    BY <1>12, <1>14
  <2> QED
    BY <1>14, <2>1 DEF Reading, Messages, Task, Answers
<1>15. ASSUME NEW c \in Conns, DispatchAck(c)
       PROVE  TypeOK'
  <2>1. Reading(c, {"ack", "nack"}) /\ {"ack", "nack"} \in SUBSET Answers
    BY <1>15 DEF DispatchAck, Answers
  <2>2. Task(c) \in Tasks /\ conn[c].session \in Sessions
        /\ queue' \in [Conns -> Seq(Messages)]
    BY <1>12, <1>14, <2>1
  <2> DEFINE t == Task(c)
             marked(how) == [journal EXCEPT !.status[t] = how]
  <2>3. marked("running") \in Journals /\ marked("failed") \in Journals
    BY <2>2 DEF Journals
  <2>4. "acked" \in LeaseRows /\ "failed" \in LeaseRows
    BY DEF LeaseRows, Live
  <2>5. /\ UNCHANGED <<core, recovery, conn, senders, final, request, worker>>
        /\ \/ /\ LeaseRow(marked("running"), t, "acked")
              /\ UNCHANGED <<session, lease, expired>>
           \/ /\ lease' = [lease EXCEPT ![t] = None]
              /\ expired' = expired \ {t}
              /\ session' = LessOne(conn[c].session)
              /\ LeaseRow(marked("failed"), t, "failed")
           \/ /\ journal' = marked("failed") /\ Written
              /\ UNCHANGED <<session, lease, expired>>
    BY <1>15, Zenon DEF DispatchAck
  <2>6. LessOne(conn[c].session) \in
            [Sessions -> SessionRecords]
    BY <2>2, LessOneType
  <2> HIDE DEF marked, t
  <2>7. /\ journal' \in Journals /\ lost' \subseteq Sessions \cup Tasks
        /\ count' \in Counts
    BY <2>2, <2>3, <2>4, <2>5, LeaseRowType DEF t, Written
  <2>8. /\ lease' \in [Tasks -> Sessions \cup {None}]
        /\ expired' \subseteq Sessions \cup Tasks
        /\ session' \in [Sessions -> SessionRecords]
    BY <2>5, <2>6
  <2> QED
    BY <2>2, <2>5, <2>7, <2>8
<1>16. ASSUME NEW c \in Conns, FinalizeValidate(c)
       PROVE  TypeOK'
  <2>1. Reading(c, Answers \ {"ack", "nack"})
    BY <1>16 DEF FinalizeValidate
  <2>2. /\ Task(c) \in Tasks /\ Head(queue[c]).kind \in Answers
        /\ queue' \in [Conns -> Seq(Messages)]
    BY <1>12, <1>14, <2>1
  <2> QED
    BY <1>16, <1>g, <2>2 DEF FinalizeValidate
<1>17. ASSUME NEW c \in Conns, FinalizeRecord(c)
       PROVE  TypeOK'
  <2>1. PICK one \in {0, 1}, outcome \in {"complete", "failed"} :
            LET t == final[c].task
                status == [journal EXCEPT !.status[t] = outcome]
                receipt == [journal EXCEPT !.receipts[t] = @ + one]
            IN  \/ journal' = [status EXCEPT !.receipts[t] = @ + one] /\ Written
                \/ journal' \in {status, receipt} /\ Fails(t)
    BY <1>17 DEF FinalizeRecord
  <2>2. final[c].task \in Tasks /\ final' \in [Conns -> Finals]
    BY <1>17, <1>h DEF FinalizeRecord
  <2>3. journal' \in Journals
    <3> DEFINE t == final[c].task
               status == [journal EXCEPT !.status[t] = outcome]
    <3>1. t \in Tasks /\ status \in Journals
      BY <1>k, <2>2
    <3>2. [status EXCEPT !.receipts[t] = @ + one] \in Journals
      BY <1>l, <3>1
    <3>3. [journal EXCEPT !.receipts[t] = @ + one] \in Journals
      BY <1>l, <3>1
    <3> QED
      BY <2>1, <3>1, <3>2, <3>3
  <2>4. lost' \subseteq Sessions \cup Tasks /\ count' \in Counts
    BY <2>1, <2>2, FailsType DEF Written
  <2> QED
    BY <1>17, <2>2, <2>3, <2>4 DEF FinalizeRecord
<1>18. ASSUME NEW c \in Conns, FinalizeComplete(c)
       PROVE  TypeOK'
  <2>1. PICK row \in LeaseRows : CompleteDispatch(final[c].task, row, journal)
    BY <1>18 DEF FinalizeComplete, LeaseRows
  <2>2. final[c].task \in Tasks
    BY <1>h
  <2> QED
    BY <1>18, <1>i, <2>1, <2>2, CompleteDispatchType DEF FinalizeComplete
<1>19. CASE Crash
  <2>1. /\ conn' = [c \in Conns |-> Closed] /\ lease' = [t \in Tasks |-> None]
        /\ senders' = {} /\ expired' = {} /\ worker' = [t \in Tasks |-> "none"]
        /\ queue' = [c \in Conns |-> <<>>] /\ final' = [c \in Conns |-> Idle]
        /\ core' = "down"
        /\ UNCHANGED <<recovery, journal, lost>>
    BY <1>19 DEF Crash
  <2>2. queue' \in [Conns -> Seq(Messages)]
    BY SMTT(30), <2>1
  <2>3. count' \in Counts
    BY <1>19, <1>n DEF Crash
  <2>4. session' \in [Sessions -> SessionRecords]
    <3>1. \A s \in Sessions :
            [session[s] EXCEPT !.at = "gone", !.active = 0] \in SessionRecords
      <4>1. session \in [Sessions -> SessionRecords]
        OBVIOUS
      <4> HIDE DEF TypeOK
      <4> QED
        BY <4>1 DEF SessionRecords
    <3> QED
      BY <1>19, <3>1 DEF Crash
  <2>5. request' \in [Tasks -> Requests]
    <3>1. \A t \in Tasks : [request[t] EXCEPT !.at = "cut"] \in Requests
      <4>1. request \in [Tasks -> Requests]
        OBVIOUS
      <4> HIDE DEF TypeOK
      <4> QED
        BY <4>1 DEF Requests
    <3> QED
      BY <1>19, <3>1 DEF Crash
  <2> QED
    BY <1>i, <1>j, <2>1, <2>2, <2>3, <2>4, <2>5
<1>20. CASE Start \/ Serve \/ StartFails
  <2>1. recovery' \in Recoveries
    <3>1. CASE Start
      <4> DEFINE ss == {s \in Sessions : journal.session[s] = "active"}
                 ts == {t \in Tasks : journal.lease[t] \in Live}
      <4>1. ss \in SUBSET Sessions /\ ts \in SUBSET Tasks
        OBVIOUS
      <4>2. recovery' = [on |-> TRUE, sessions |-> ss, leases |-> ts]
        BY <3>1 DEF Start
      <4> HIDE DEF ss, ts
      <4> QED
        BY <1>m, <4>1, <4>2
    <3>2. NoRecovery \in Recoveries
      BY DEF NoRecovery, Recoveries
    <3> QED
      BY <1>20, <3>1, <3>2 DEF Serve, StartFails
  <2>2. count' \in Counts
    BY <1>20, <1>n DEF Start, Serve, StartFails
  <2> QED
    BY <1>20, <2>1, <2>2 DEF Start, Serve, StartFails, registry
<1>21. ASSUME NEW s \in Sessions, RecoverSession(s)
       PROVE  TypeOK'
  <2>1. [journal EXCEPT !.session[s] = "closed"] \in Journals
    BY DEF Journals
  <2> QED
    BY <1>21, <1>m, <2>1 DEF RecoverSession, registry
<1>22. ASSUME NEW t \in Tasks, RecoverLease(t)
       PROVE  TypeOK'
  <2>1. [journal EXCEPT !.lease[t] = "revoked"] \in Journals
    BY DEF Journals, LeaseRows
  <2> QED
    BY <1>22, <1>m, <2>1 DEF RecoverLease, registry
<1>23. CASE UNCHANGED vars
  BY <1>23 DEF vars, registry
<1>24. {"ack", "nack"} \subseteq Answers
  BY DEF Answers
<1> HIDE DEF TypeOK
<1> QED
  BY <1>1, <1>2, <1>3, <1>4, <1>5, <1>6, <1>7, <1>8, <1>10, <1>11, <1>13,
     <1>15, <1>16, <1>17, <1>18, <1>19, <1>20, <1>21, <1>22, <1>23, <1>24
     DEF Next, SocketNext, RequestNext, WorkerNext

\* Every variable keeps its type.
THEOREM MeshTypesCorrect == Spec => []TypeOK
<1>1. Init => TypeOK
  <2>1. Idle \in Finals
    BY MeshAssumption DEF Idle, Answers, Finals
  <2>2. Unused \in SessionRecords
    BY MeshAssumption DEF Unused, SessionRecords
  <2>3. <<>> \in Seq(Messages)
    BY SMTT(30)
  <2>4. NoRecovery \in Recoveries
    BY DEF NoRecovery, Recoveries
  <2>5. Closed \in Sockets
    BY DEF Closed, Sockets
  <2>6. Pending \in Requests
    BY DEF Pending, Requests
  <2>7. [lost |-> 0, crashes |-> 0] \in Counts
    BY SMTT(30), MeshAssumption DEF Counts
  <2>8. Init => journal \in Journals
    BY SMTT(30) DEF Init, Journals, LeaseRows
  <2> QED
    BY SMTT(30), <2>1, <2>2, <2>3, <2>4, <2>5, <2>6, <2>7, <2>8
       DEF Init, TypeOK
<1> QED
  BY <1>1, TypeStep, PTL DEF Spec

-----------------------------------------------------------------------------
(* What a step does to one lease and to one session.                       *)

LEMMA LeaseRowEffect ==
    ASSUME TypeOK, NEW j \in Journals, NEW t \in Tasks, NEW row \in LeaseRows,
           LeaseRow(j, t, row)
    PROVE  /\ journal'.session = j.session
           /\ journal'.status = j.status /\ journal'.receipts = j.receipts
           /\ \A x \in Tasks : x # t => journal'.lease[x] = j.lease[x]
           /\ \/ journal'.lease[t] = row
              \/ journal'.lease[t] = j.lease[t] /\ t \in lost'
           /\ lost \subseteq lost'
<1>1. CASE journal' = j /\ Fails(t)
  BY <1>1 DEF Fails
<1>2. CASE journal' = [j EXCEPT !.lease[t] = row] /\ Written
  BY <1>2 DEF Written, Journals
<1> QED
  BY <1>1, <1>2 DEF LeaseRow

LEMMA LessOneEffect ==
    ASSUME TypeOK, NEW s \in Sessions, NEW x \in Sessions
    PROVE  LessOne(s)[x].at = session[x].at /\ LessOne(s)[x].conn = session[x].conn
<1>1. session \in [Sessions -> SessionRecords]
  BY DEF TypeOK
<1> QED
  BY <1>1 DEF LessOne, SessionRecords

LEMMA CompleteDispatchEffect ==
    ASSUME TypeOK, NEW t \in Tasks, NEW row \in LeaseRows,
           CompleteDispatch(t, row, journal)
    PROVE  /\ \A s \in Sessions : /\ session'[s].at = session[s].at
                                  /\ session'[s].conn = session[s].conn
           /\ lease' = [lease EXCEPT ![t] = None]
           /\ lease[t] = None => UNCHANGED <<journal, lost>>
           /\ lease[t] # None => LeaseRow(journal, t, row)
<1>1. lease \in [Tasks -> Sessions \cup {None}]
  BY DEF TypeOK
<1>2. CASE lease[t] = None
  BY <1>1, <1>2 DEF CompleteDispatch, Written
<1>3. CASE lease[t] # None
  <2>1. /\ lease' = [lease EXCEPT ![t] = None] /\ LeaseRow(journal, t, row)
        /\ session' \in {session, LessOne(lease[t])}
    BY <1>3 DEF CompleteDispatch
  <2>2. lease[t] \in Sessions
    BY <1>1, <1>3
  <2> QED
    BY SMTT(30), <1>3, <2>1, <2>2, LessOneEffect
<1> QED
  BY <1>2, <1>3

\* The session of a socket that ends, its leases, and their rows.
Removed(c) ==
    /\ \A s \in Sessions : session'[s].conn = session[s].conn
    /\ \A s \in Sessions \ {conn[c].session} :
            /\ session'[s].at = session[s].at
            /\ journal'.session[s] = journal.session[s]
    /\ conn[c].session # None =>
            /\ session'[conn[c].session].at = "gone"
            /\ \/ journal'.session[conn[c].session] = "closed"
               \/ conn[c].session \in lost'
    /\ \A t \in Tasks : lease[t] # conn[c].session \/ lease[t] = None =>
            /\ lease'[t] = lease[t]
            /\ journal'.lease[t] = journal.lease[t]
    /\ \A t \in Tasks : lease[t] = conn[c].session /\ lease[t] # None =>
            /\ lease'[t] = None
            /\ \/ journal'.lease[t] = "revoked"
               \/ journal'.lease[t] = journal.lease[t] /\ t \in lost'
    /\ journal'.status = journal.status /\ journal'.receipts = journal.receipts
    /\ lost \subseteq lost'

LEMMA RemoveSessionEffect ==
    ASSUME TypeOK, NEW c \in Conns, RemoveSession(c)
    PROVE  Removed(c)
<1> DEFINE s == conn[c].session
           orphaned == {t \in Tasks : lease[t] = s}
           rows(failed) == [journal EXCEPT
                !.session = [x \in Sessions |-> IF x = s /\ s # failed
                                                THEN "closed" ELSE @[x]],
                !.lease = [t \in Tasks |-> IF t \in orphaned \ {failed}
                                           THEN "revoked" ELSE @[t]]]
<1>1. /\ journal \in Journals /\ session \in [Sessions -> SessionRecords]
      /\ s \in Sessions \cup {None} /\ lease \in [Tasks -> Sessions \cup {None}]
  <2>1. conn[c] \in Sockets
    BY DEF TypeOK
  <2>2. conn[c].session \in Sessions \cup {None}
    BY <2>1 DEF Sockets
  <2> QED
    BY <2>2 DEF TypeOK
<1>2. CASE s = None
  <2>1. UNCHANGED <<session, lease, journal, lost>>
    BY <1>2, Zenon DEF RemoveSession
  <2> QED
    BY <1>1, <1>2, <2>1 DEF Removed
<1>3. CASE s # None
  <2>1. /\ session' = [session EXCEPT ![s] = [@ EXCEPT !.at = "gone", !.active = 0]]
        /\ lease' = [t \in Tasks |-> IF t \in orphaned THEN None ELSE lease[t]]
        /\ \/ journal' = rows(None) /\ Written
           \/ \E x \in orphaned \cup {s} : journal' = rows(x) /\ Fails(x)
    BY <1>3, Zenon DEF RemoveSession
  <2>2. PICK x : /\ journal' = rows(x) /\ lost \subseteq lost'
                 /\ x = None \/ x \in lost'
    BY <2>1 DEF Written, Fails
  <2>3. /\ journal'.session = [y \in Sessions |-> IF y = s /\ s # x THEN "closed"
                                                  ELSE journal.session[y]]
        /\ journal'.lease = [t \in Tasks |-> IF t \in orphaned \ {x} THEN "revoked"
                                             ELSE journal.lease[t]]
        /\ journal'.status = journal.status /\ journal'.receipts = journal.receipts
    BY <1>1, <2>2 DEF Journals
  <2>4. None \notin Sessions /\ None \notin Tasks /\ s \in Sessions
    BY <1>1, <1>3, MeshAssumption
  <2>5. /\ \A y \in Sessions : session'[y].conn = session[y].conn
        /\ \A y \in Sessions \ {s} : session'[y].at = session[y].at
        /\ session'[s].at = "gone"
    BY <1>1, <2>1, <2>4, ZenonT(30) DEF SessionRecords
  <2>6. /\ \A y \in Sessions \ {s} : journal'.session[y] = journal.session[y]
        /\ journal'.session[s] = "closed" \/ s \in lost'
    BY SMTT(30), <2>2, <2>3, <2>4
  <2>7. \A t \in Tasks : lease[t] # s \/ lease[t] = None =>
            lease'[t] = lease[t] /\ journal'.lease[t] = journal.lease[t]
    BY <1>3, <2>1, <2>3
  <2>8. \A t \in Tasks : lease[t] = s /\ lease[t] # None =>
            /\ lease'[t] = None
            /\ \/ journal'.lease[t] = "revoked"
               \/ journal'.lease[t] = journal.lease[t] /\ t \in lost'
    <3> SUFFICES ASSUME NEW t \in Tasks, lease[t] = s
                 PROVE  /\ lease'[t] = None
                        /\ \/ journal'.lease[t] = "revoked"
                           \/ journal'.lease[t] = journal.lease[t] /\ t \in lost'
      OBVIOUS
    <3>1. t \in orphaned
      OBVIOUS
    <3>2. CASE t = x
      <4>1. t \in lost'
        BY <2>2, <2>4, <3>2
      <4>2. lease'[t] = None /\ journal'.lease[t] = journal.lease[t]
        BY <2>1, <2>3, <3>1, <3>2
      <4> QED
        BY <4>1, <4>2
    <3>3. CASE t # x
      BY <2>1, <2>3, <3>1, <3>3
    <3> QED
      BY <3>2, <3>3
  <2> QED
    BY <2>2, <2>3, <2>5, <2>6, <2>7, <2>8 DEF Removed
<1> QED
  BY <1>2, <1>3

\* The ways in which a lease and its row may change.
Issued(t) ==
    /\ core = "up" /\ request[t].at = "new" /\ lease'[t] # None
    /\ request'[t] = [at |-> "reserved", session |-> lease'[t]]
    /\ session[lease'[t]].at = "on"
    /\ \/ journal'.lease[t] = "issued"
       \/ journal'.lease[t] = journal.lease[t] /\ t \in lost'
Acked(t) ==
    /\ lease[t] # None /\ lease'[t] = lease[t]
    /\ \/ journal'.lease[t] = "acked"
       \/ journal'.lease[t] = journal.lease[t] /\ t \in lost'
Ended(t) ==
    /\ lease[t] # None /\ lease'[t] = None
    /\ \/ journal'.lease[t] \in {"completed", "failed", "revoked"}
       \/ journal'.lease[t] = journal.lease[t] /\ t \in lost'
Kept(t) == lease'[t] = lease[t] /\ journal'.lease[t] = journal.lease[t]

\* The ways in which a session and its row may change.
Joined(s) ==
    /\ core = "up" /\ session[s].at = "new" /\ session'[s].at = "on"
    /\ journal'.session[s] = "active" \/ s \in lost'
Left(s) ==
    /\ session'[s].at = "gone" /\ session'[s].conn = session[s].conn
    /\ journal'.session[s] = "closed" \/ s \in lost'
Stayed(s) == /\ session'[s].at = session[s].at
             /\ session'[s].conn = session[s].conn
             /\ journal'.session[s] = journal.session[s]

LEMMA Effects ==
    ASSUME TypeOK, Next, ~Crash, NEW t \in Tasks, NEW s \in Sessions
    PROVE  /\ Kept(t) \/ Issued(t) \/ Acked(t) \/ Ended(t) \/ RecoverLease(t)
           /\ Stayed(s) \/ Joined(s) \/ Left(s) \/ RecoverSession(s)
           /\ lost \subseteq lost' \/ Serve
<1> DEFINE Goal == /\ Kept(t) \/ Issued(t) \/ Acked(t) \/ Ended(t) \/ RecoverLease(t)
                   /\ Stayed(s) \/ Joined(s) \/ Left(s) \/ RecoverSession(s)
                   /\ lost \subseteq lost' \/ Serve
<1> SUFFICES Goal
  OBVIOUS
<1>1. ASSUME UNCHANGED <<session, lease, journal>>
      PROVE  Kept(t) /\ Stayed(s)
  BY <1>1 DEF Kept, Stayed
<1>a. /\ session \in [Sessions -> SessionRecords] /\ journal \in Journals
      /\ lease \in [Tasks -> Sessions \cup {None}]
  BY DEF TypeOK
<1>2. ASSUME NEW c \in Conns, Connect(c) \/ WriterEnds(c) \/ InsertSender(c)
             \/ RemoveSender(c) \/ HangUp(c) \/ FinalizeValidate(c)
             \/ \E n \in 0 .. MaxConcurrency : Beat(c, n)
      PROVE  Goal
  BY <1>1, <1>2, Zenon DEF Connect, WriterEnds, InsertSender, RemoveSender, HangUp,
        FinalizeValidate, Beat, registry
<1>3. ASSUME NEW u \in Tasks, NoWorker(u) \/ Lookup(u)
             \/ (\E kind \in {"ack", "nack"} : Ack(u, kind))
             \/ (\E kind \in Answers \ {"ack", "nack"} : Answer(u, kind))
      PROVE  Goal
  BY <1>1, <1>3, Zenon DEF NoWorker, Lookup, Ack, Answer, registry
<1>4. ASSUME NEW x \in Sessions \cup Tasks, Expire(x)
      PROVE  Goal
  BY <1>1, <1>4 DEF Expire
<1>5. CASE Start \/ Serve \/ StartFails
  BY <1>1, <1>5 DEF Start, Serve, StartFails, registry
<1>6. ASSUME NEW c \in Conns, NEW z \in Sessions, Register(c, z)
      PROVE  Goal
  <2>1. UNCHANGED lease /\ journal'.lease = journal.lease /\ lost \subseteq lost'
    BY <1>6, <1>a DEF Register, Written, Fails, Journals
  <2>2. CASE z = s
    <3>1. session'[s].at = "on" /\ session[s].at = "new" /\ core = "up"
      BY <1>6, <1>a, <2>2 DEF Register
    <3>2. journal'.session[s] = "active" \/ s \in lost'
      BY SMTT(30), <1>6, <1>a, <2>2 DEF Register, Fails, Journals
    <3> QED
      BY <2>1, <3>1, <3>2 DEF Kept, Joined
  <2>3. CASE z # s
    <3>1. session'[s] = session[s]
      BY <1>6, <1>a, <2>3 DEF Register
    <3>2. journal'.session[s] = journal.session[s]
      BY SMTT(30), <1>6, <1>a, <2>3 DEF Register, Journals
    <3> QED
      BY <2>1, <3>1, <3>2 DEF Kept, Stayed
  <2> QED
    BY <2>2, <2>3
<1>7. ASSUME NEW c \in Conns, RemoveSession(c)
      PROVE  Goal
  <2>1. Removed(c) /\ conn[c].session \in Sessions \cup {None}
    <3>1. conn[c] \in Sockets
      BY DEF TypeOK
    <3> QED
      BY <1>7, <3>1, RemoveSessionEffect DEF Sockets
  <2>2. Kept(t) \/ Ended(t)
    BY <2>1 DEF Removed, Kept, Ended
  <2>3. Stayed(s) \/ Left(s)
    <3>1. CASE s = conn[c].session
      BY <2>1, <3>1, MeshAssumption DEF Removed, Left
    <3>2. CASE s # conn[c].session
      BY <2>1, <3>2 DEF Removed, Stayed
    <3> QED
      BY <3>1, <3>2
  <2> QED
    BY <2>1, <2>2, <2>3 DEF Removed
<1>8. ASSUME NEW u \in Tasks, NEW z \in Sessions, Reserve(u, z)
      PROVE  Goal
  <2>1. /\ LeaseRow(journal, u, "issued") /\ "issued" \in LeaseRows
        /\ core = "up" /\ request[u].at = "new"
        /\ session' = [session EXCEPT ![z].active = @ + 1]
        /\ lease' = [lease EXCEPT ![u] = z]
        /\ request' = [request EXCEPT ![u] = [at |-> "reserved", session |-> z]]
        /\ session[z].at = "on"
    BY <1>8 DEF Reserve, Free, LeaseRows, Live
  <2>2. session'[s].at = session[s].at /\ session'[s].conn = session[s].conn
    BY <1>a, <2>1 DEF SessionRecords
  <2>3. /\ journal'.session = journal.session /\ lost \subseteq lost'
        /\ t # u => journal'.lease[t] = journal.lease[t]
        /\ t = u => \/ journal'.lease[t] = "issued"
                    \/ journal'.lease[t] = journal.lease[t] /\ t \in lost'
    BY SMTT(30), <1>a, <2>1, LeaseRowEffect
  <2>4. request \in [Tasks -> Requests] /\ None \notin Sessions
    BY MeshAssumption DEF TypeOK
  <2>5. Kept(t) \/ Issued(t)
    BY <1>a, <2>1, <2>3, <2>4 DEF Kept, Issued
  <2> QED
    BY <2>2, <2>3, <2>5 DEF Stayed
<1>9. ASSUME NEW u \in Tasks, NEW row \in {"completed", "failed", "revoked"},
             CompleteDispatch(u, row, journal)
      PROVE  Goal
  <2>1. row \in LeaseRows
    BY DEF LeaseRows
  <2>2. /\ session'[s].at = session[s].at /\ session'[s].conn = session[s].conn
        /\ lease' = [lease EXCEPT ![u] = None]
        /\ lease[u] = None => UNCHANGED <<journal, lost>>
        /\ lease[u] # None => LeaseRow(journal, u, row)
    BY <1>9, <2>1, CompleteDispatchEffect
  <2>3. CASE lease[u] = None
    BY <1>a, <2>2, <2>3 DEF Kept, Stayed
  <2>4. CASE lease[u] # None
    <3>1. /\ journal'.session = journal.session /\ lost \subseteq lost'
          /\ t # u => journal'.lease[t] = journal.lease[t]
          /\ t = u => \/ journal'.lease[t] = row
                      \/ journal'.lease[t] = journal.lease[t] /\ t \in lost'
      BY SMTT(30), <1>a, <2>1, <2>2, <2>4, LeaseRowEffect
    <3> QED
      BY <1>a, <2>2, <2>4, <3>1 DEF Kept, Ended, Stayed
  <2> QED
    BY <2>3, <2>4
<1>10. ASSUME NEW u \in Tasks, Dispatch(u)
       PROVE  Goal
  <2>1. CASE CompleteDispatch(u, "failed", journal)
    BY <1>9, <2>1
  <2>2. CASE UNCHANGED <<session, lease, expired, journal, lost, count>>
    BY <1>1, <2>2
  <2> QED
    BY <1>10, <2>1, <2>2 DEF Dispatch
<1>11. ASSUME NEW c \in Conns, Heartbeat(c)
       PROVE  Goal
  <2>1. session'[s].at = session[s].at /\ session'[s].conn = session[s].conn
    BY <1>11, <1>a DEF Heartbeat, SessionRecords
  <2> QED
    BY <1>11, <2>1 DEF Heartbeat, Kept, Stayed
<1>12. ASSUME NEW c \in Conns, FinalizeComplete(c)
       PROVE  Goal
  <2>1. final[c] \in Finals
    BY DEF TypeOK
  <2>2. final[c].task \in Tasks
    BY <2>1 DEF Finals
  <2>3. PICK row \in {"completed", "failed"} :
            CompleteDispatch(final[c].task, row, journal)
    BY <1>12 DEF FinalizeComplete
  <2> QED
    BY <1>9, <2>2, <2>3
<1>13. ASSUME NEW c \in Conns, FinalizeRecord(c)
       PROVE  Goal
  <2>1. /\ UNCHANGED <<session, lease>> /\ lost \subseteq lost'
        /\ journal'.lease = journal.lease /\ journal'.session = journal.session
    BY <1>13, <1>a DEF FinalizeRecord, Journals, Written, Fails
  <2> QED
    BY <2>1 DEF Kept, Stayed
<1>14. ASSUME NEW c \in Conns, DispatchAck(c)
       PROVE  Goal
  <2> DEFINE u == Task(c)
             marked(how) == [journal EXCEPT !.status[u] = how]
  <2>0. u \in Tasks /\ conn[c].session \in Sessions
    <3>1. /\ queue[c] # <<>> /\ Head(queue[c]).kind \in {"ack", "nack"}
          /\ conn[c].session # None
      BY <1>14 DEF DispatchAck, Reading
    <3>2. queue[c] \in Seq(Messages) /\ conn[c] \in Sockets
      BY DEF TypeOK
    <3>3. Head(queue[c]) \in Messages
      BY <3>1, <3>2, HeadTailProperties
    <3> QED
      BY <3>1, <3>2, <3>3 DEF Messages, Task, Sockets
  <2>1. \A how : /\ marked(how).lease = journal.lease
                 /\ marked(how).session = journal.session
    BY <1>a DEF Journals
  <2>2. marked("running") \in Journals /\ marked("failed") \in Journals
    BY <1>a, <2>0 DEF Journals
  <2>3. CASE /\ lease[u] # None /\ LeaseRow(marked("running"), u, "acked")
             /\ UNCHANGED <<session, lease, expired>>
    <3>1. "acked" \in LeaseRows
      BY DEF LeaseRows, Live
    <3> HIDE DEF marked, u
    <3>2. /\ journal'.session = journal.session /\ lost \subseteq lost'
          /\ t # u => journal'.lease[t] = journal.lease[t]
          /\ t = u => \/ journal'.lease[t] = "acked"
                      \/ journal'.lease[t] = journal.lease[t] /\ t \in lost'
      <4>1. /\ journal'.session = marked("running").session /\ lost \subseteq lost'
            /\ \A x \in Tasks : x # u => journal'.lease[x] = marked("running").lease[x]
            /\ \/ journal'.lease[u] = "acked"
               \/ journal'.lease[u] = marked("running").lease[u] /\ u \in lost'
        <5>1. LeaseRow(marked("running"), u, "acked")
          BY <2>3, Zenon
        <5> QED
          BY <2>0, <2>2, <3>1, <5>1, LeaseRowEffect, Zenon
      <4> QED
        BY <2>1, <4>1, Zenon
    <3> QED
      BY <2>3, <3>2 DEF Kept, Acked, Stayed
  <2>4. CASE /\ lease[u] # None /\ lease' = [lease EXCEPT ![u] = None]
             /\ session' = LessOne(conn[c].session)
             /\ LeaseRow(marked("failed"), u, "failed")
    <3>1. "failed" \in LeaseRows
      BY DEF LeaseRows
    <3> HIDE DEF marked, u
    <3>2. /\ journal'.session = journal.session /\ lost \subseteq lost'
          /\ t # u => journal'.lease[t] = journal.lease[t]
          /\ t = u => \/ journal'.lease[t] = "failed"
                      \/ journal'.lease[t] = journal.lease[t] /\ t \in lost'
      <4>1. /\ journal'.session = marked("failed").session /\ lost \subseteq lost'
            /\ \A x \in Tasks : x # u => journal'.lease[x] = marked("failed").lease[x]
            /\ \/ journal'.lease[u] = "failed"
               \/ journal'.lease[u] = marked("failed").lease[u] /\ u \in lost'
        <5>1. LeaseRow(marked("failed"), u, "failed")
          BY <2>4, Zenon
        <5> QED
          BY <2>0, <2>2, <3>1, <5>1, LeaseRowEffect, Zenon
      <4> QED
        BY <2>1, <4>1, Zenon
    <3>3. session'[s].at = session[s].at /\ session'[s].conn = session[s].conn
      BY <2>0, <2>4, LessOneEffect
    <3> QED
      BY <1>a, <2>0, <2>4, <3>2, <3>3 DEF Kept, Ended, Stayed
  <2>5. CASE /\ journal' = marked("failed") /\ Written
             /\ UNCHANGED <<session, lease, expired>>
    BY <2>1, <2>5 DEF Kept, Stayed, Written
  <2> QED
    BY <1>14, <2>3, <2>4, <2>5, Zenon DEF DispatchAck, Valid
<1>15. ASSUME NEW z \in Sessions, RecoverSession(z)
       PROVE  Goal
  BY <1>15, <1>a DEF RecoverSession, Kept, Stayed, registry, Journals
<1>16. ASSUME NEW u \in Tasks, RecoverLease(u)
       PROVE  Goal
  BY <1>16, <1>a DEF RecoverLease, Kept, Stayed, registry, Journals
<1> HIDE DEF Goal
<1>17. ASSUME NEW c \in Conns, SocketNext(c)
       PROVE  Goal
  BY <1>2, <1>7, <1>11, <1>12, <1>13, <1>14, <1>17 DEF SocketNext
<1>18. CASE WorkerNext
  <2>1. CASE \E c \in Conns : \/ Connect(c) \/ WriterEnds(c) \/ HangUp(c)
                              \/ \E z \in Sessions : Register(c, z)
                              \/ \E n \in 0 .. MaxConcurrency : Beat(c, n)
    BY <1>2, <1>6, <2>1
  <2>2. CASE \E u \in Tasks : \/ \E kind \in {"ack", "nack"} : Ack(u, kind)
                              \/ \E kind \in Answers \ {"ack", "nack"} : Answer(u, kind)
    BY <1>3, <2>2
  <2> QED
    BY <1>18, <2>1, <2>2 DEF WorkerNext
<1>19. ASSUME NEW u \in Tasks, RequestNext(u)
       PROVE  Goal
  BY <1>3, <1>10, <1>19 DEF RequestNext
<1> QED
  <2>1. CASE \E u \in Tasks : \/ RequestNext(u) \/ NoWorker(u) \/ RecoverLease(u)
                              \/ \E z \in Sessions : Reserve(u, z)
    BY <1>3, <1>8, <1>16, <1>19, <2>1
  <2>2. CASE \/ \E x \in Sessions \cup Tasks : Expire(x)
             \/ \E z \in Sessions : RecoverSession(z)
             \/ Start \/ Serve \/ StartFails
    BY <1>4, <1>5, <1>15, <2>2
  <2>3. CASE \E c \in Conns : SocketNext(c)
    BY <1>17, <2>3
  <2> QED
    BY <1>18, <2>1, <2>2, <2>3 DEF Next

-----------------------------------------------------------------------------
(* Which steps change a variable.                                          *)

LEMMA RequestChanges ==
    ASSUME TypeOK, Next, NEW t \in Tasks
    PROVE  \/ request'[t] = request[t]
           \/ \E s \in Sessions : Reserve(t, s)
           \/ NoWorker(t) \/ Lookup(t) \/ Dispatch(t) \/ Crash
<1> DEFINE Goal == \/ request'[t] = request[t]
                   \/ \E s \in Sessions : Reserve(t, s)
                   \/ NoWorker(t) \/ Lookup(t) \/ Dispatch(t) \/ Crash
<1> SUFFICES Goal
  OBVIOUS
<1>1. request \in [Tasks -> Requests]
  BY DEF TypeOK
<1>2. ASSUME NEW u \in Tasks, NoWorker(u) \/ Lookup(u) \/ Dispatch(u)
      PROVE  Goal
  <2>1. CASE u = t
    BY <1>2, <2>1
  <2>2. CASE u # t
    BY <1>1, <1>2, <2>2 DEF NoWorker, Lookup, Dispatch
  <2> QED
    BY <2>1, <2>2
<1>3. ASSUME NEW u \in Tasks, NEW s \in Sessions, Reserve(u, s)
      PROVE  Goal
  <2>1. CASE u = t
    BY <1>3, <2>1
  <2>2. CASE u # t
    BY <1>1, <1>3, <2>2 DEF Reserve
  <2> QED
    BY <2>1, <2>2
<1>4. ASSUME NEW c \in Conns, SocketNext(c)
      PROVE  UNCHANGED request
  BY <1>4, Zenon DEF SocketNext, InsertSender, RemoveSender, RemoveSession, Heartbeat,
     DispatchAck, FinalizeValidate, FinalizeRecord, FinalizeComplete
<1>5. CASE WorkerNext
  <2>1. UNCHANGED request
    BY <1>5, Zenon DEF WorkerNext, Connect, WriterEnds, HangUp, Register, Beat, Ack, Answer
  <2> QED
    BY <2>1
<1>6. CASE \/ \E x \in Sessions \cup Tasks : Expire(x)
           \/ \E s \in Sessions : RecoverSession(s)
           \/ \E u \in Tasks : RecoverLease(u)
           \/ Start \/ Serve \/ StartFails
  <2>1. UNCHANGED request
    BY <1>6, Zenon DEF Expire, RecoverSession, RecoverLease, Start, Serve, StartFails
  <2> QED
    BY <2>1
<1>7. CASE \E u \in Tasks : \/ RequestNext(u) \/ NoWorker(u)
                            \/ \E s \in Sessions : Reserve(u, s)
  BY <1>2, <1>3, <1>7 DEF RequestNext
<1> HIDE DEF Goal
<1>8. CASE \E c \in Conns : SocketNext(c)
  BY <1>4, <1>8 DEF Goal
<1> QED
  BY <1>5, <1>6, <1>7, <1>8 DEF Next, Goal

-----------------------------------------------------------------------------
(* The journal matches the registry.                                       *)

\* A stopped core holds nothing, and a recovery has before it exactly what
\* the journal shows live.
RestInv ==
    /\ core = "down" =>
        /\ conn = [c \in Conns |-> Closed] /\ final = [c \in Conns |-> Idle]
        /\ \A t \in Tasks : /\ lease[t] = None
                            /\ request[t].at \notin {"reserved", "found"}
        /\ \A s \in Sessions : session[s].at # "on"
    /\ recovery.on =>
        /\ core = "down"
        /\ recovery.sessions = {s \in Sessions : journal.session[s] = "active"}
        /\ recovery.leases = {t \in Tasks : journal.lease[t] \in Live}
    /\ ~recovery.on => recovery.sessions = {} /\ recovery.leases = {}

Recovering ==
    \/ Start \/ Serve \/ StartFails
    \/ \E s \in Sessions : RecoverSession(s)
    \/ \E t \in Tasks : RecoverLease(t)

\* A stopped core can only recover.
LEMMA RestingStep ==
    ASSUME TypeOK, RestInv, Next, core = "down"
    PROVE  /\ UNCHANGED <<conn, session, lease, final, request>>
           /\ Recovering \/ UNCHANGED <<core, recovery, journal, lost>>
<1>1. \A c \in Conns : /\ conn[c].read = "idle" /\ ~conn[c].write
                       /\ conn[c].joining = None /\ conn[c].session = None
  BY SMTT(30) DEF RestInv, Closed
<1>2. \A c \in Conns : final[c].step = "idle"
  BY SMTT(30) DEF RestInv, Idle
<1>3. ASSUME NEW c \in Conns PROVE ~SocketNext(c)
  BY <1>1, <1>2 DEF SocketNext, InsertSender, RemoveSender, RemoveSession, Leaving,
     Heartbeat, DispatchAck, FinalizeValidate, FinalizeRecord, FinalizeComplete, Reading
<1>4. ASSUME NEW t \in Tasks
      PROVE  /\ ~RequestNext(t) /\ ~NoWorker(t)
             /\ \A s \in Sessions : ~Reserve(t, s)
  BY DEF RestInv, RequestNext, Lookup, Dispatch, NoWorker, Reserve
<1>5. ASSUME NEW c \in Conns
      PROVE  /\ ~Connect(c) /\ ~WriterEnds(c) /\ ~HangUp(c)
             /\ \A s \in Sessions : ~Register(c, s)
  BY <1>1 DEF Connect, WriterEnds, HangUp, Register
<1>6. CASE WorkerNext
  <2>1. \/ \E c \in Conns : \E n \in 0 .. MaxConcurrency : Beat(c, n)
        \/ \E t \in Tasks : \/ \E kind \in {"ack", "nack"} : Ack(t, kind)
                            \/ \E kind \in Answers \ {"ack", "nack"} : Answer(t, kind)
    BY <1>5, <1>6 DEF WorkerNext
  <2> QED
    BY <2>1, Zenon DEF Beat, Ack, Answer, registry
<1>7. CASE \E x \in Sessions \cup Tasks : Expire(x)
  BY <1>7, Zenon DEF Expire
<1>8. CASE Recovering
  <2>1. UNCHANGED <<conn, session, lease, final, request>>
    BY <1>8, Zenon DEF Recovering, Start, Serve, StartFails, RecoverSession, RecoverLease,
         registry
  <2> QED
    BY <1>8, <2>1
<1>9. ~Crash
  BY DEF Crash
<1>10. \/ WorkerNext \/ Recovering \/ \E x \in Sessions \cup Tasks : Expire(x)
  BY <1>3, <1>4, <1>9 DEF Next, Recovering
<1> QED
  BY <1>6, <1>7, <1>8, <1>10

\* A core that serves does not recover.
LEMMA ServingStep ==
    ASSUME TypeOK, RestInv, Next, core = "up"
    PROVE  ~Recovering /\ (Crash \/ UNCHANGED <<core, recovery>>)
<1>1. recovery \in Recoveries /\ ~recovery.on
  BY DEF RestInv, TypeOK
<1>2. recovery.sessions = {} /\ recovery.leases = {}
  BY <1>1 DEF RestInv
<1>3. ~Recovering
  BY <1>1, <1>2 DEF Recovering, Start, Serve, StartFails, RecoverSession, RecoverLease
<1>4. ASSUME NEW c \in Conns, SocketNext(c)
      PROVE  UNCHANGED <<core, recovery>>
  BY <1>4, Zenon DEF SocketNext, InsertSender, RemoveSender, RemoveSession, Heartbeat,
     DispatchAck, FinalizeValidate, FinalizeRecord, FinalizeComplete
<1>5. CASE WorkerNext
  <2>1. UNCHANGED <<core, recovery>>
    BY <1>5, Zenon DEF WorkerNext, Connect, WriterEnds, HangUp, Register, Beat, Ack, Answer
  <2> QED
    BY <1>3, <2>1
<1>6. CASE \/ \E x \in Sessions \cup Tasks : Expire(x)
           \/ \E u \in Tasks : \/ RequestNext(u) \/ NoWorker(u)
                               \/ \E s \in Sessions : Reserve(u, s)
  <2>1. UNCHANGED <<core, recovery>>
    BY <1>6, Zenon DEF Expire, RequestNext, Lookup, Dispatch, NoWorker, Reserve
  <2> QED
    BY <1>3, <2>1
<1> QED
  BY <1>3, <1>4, <1>5, <1>6 DEF Next, Recovering

LEMMA RestStep ==
    ASSUME TypeOK, RestInv, [Next]_vars
    PROVE  RestInv'
<1>1. CASE UNCHANGED vars
  BY <1>1 DEF vars, registry, RestInv, SocketOf
<1>2. CASE Next /\ core = "up" /\ ~Crash
  <2>1. UNCHANGED <<core, recovery>>
    BY <1>2, ServingStep
  <2> QED
    BY <1>2, <2>1 DEF RestInv
<1>3. CASE Crash
  <2>1. core = "up" /\ core' = "down" /\ UNCHANGED <<recovery, journal>>
    BY <1>3 DEF Crash
  <2>2. ~recovery.on
    BY <2>1 DEF RestInv
  <2>3. /\ conn' = [c \in Conns |-> Closed] /\ final' = [c \in Conns |-> Idle]
        /\ lease' = [t \in Tasks |-> None]
    BY <1>3 DEF Crash
  <2>4. \A s \in Sessions : session'[s].at # "on"
    <3>1. session \in [Sessions -> SessionRecords]
      BY DEF TypeOK
    <3> QED
      BY <1>3, <3>1 DEF Crash, SessionRecords
  <2>5. \A t \in Tasks : request'[t].at \notin {"reserved", "found"}
    <3>1. request \in [Tasks -> Requests]
      BY DEF TypeOK
    <3> QED
      BY <1>3, <3>1 DEF Crash, Requests
  <2> QED
    BY <2>1, <2>2, <2>3, <2>4, <2>5 DEF RestInv
<1>4. CASE Next /\ core = "down"
  <2>1. UNCHANGED <<conn, session, lease, final, request>>
    BY <1>4, RestingStep
  <2>2. /\ \A t \in Tasks : lease[t] = None /\ request[t].at \notin {"reserved", "found"}
        /\ \A s \in Sessions : session[s].at # "on"
        /\ conn = [c \in Conns |-> Closed] /\ final = [c \in Conns |-> Idle]
    BY <1>4 DEF RestInv
  <2>3. journal \in Journals /\ recovery \in Recoveries
    BY DEF TypeOK
  <2>4. CASE UNCHANGED <<core, recovery, journal, lost>>
    BY <2>1, <2>4 DEF RestInv
  <2>5. CASE Start
    <3>1. /\ recovery' = [on |-> TRUE,
                sessions |-> {s \in Sessions : journal.session[s] = "active"},
                leases |-> {t \in Tasks : journal.lease[t] \in Live}]
          /\ UNCHANGED <<core, journal>>
      BY <2>5 DEF Start
    <3> QED
      BY <1>4, <2>1, <2>2, <3>1 DEF RestInv
  <2>6. CASE Serve
    BY <2>1, <2>2, <2>6 DEF RestInv, Serve, NoRecovery
  <2>7. CASE StartFails
    BY <2>1, <2>2, <2>7 DEF RestInv, StartFails, NoRecovery
  <2>8. ASSUME NEW s \in Sessions, RecoverSession(s)
        PROVE  RestInv'
    <3>1. /\ s \in recovery.sessions /\ UNCHANGED core
          /\ recovery' = [recovery EXCEPT !.sessions = @ \ {s}]
          /\ journal' = [journal EXCEPT !.session[s] = "closed"]
      BY <2>8 DEF RecoverSession
    <3>2. recovery.on
      BY <3>1 DEF RestInv
    <3>3. /\ recovery'.on /\ recovery'.sessions = recovery.sessions \ {s}
          /\ recovery'.leases = recovery.leases
      BY <2>3, <3>1, <3>2 DEF Recoveries
    <3>4. /\ journal'.session = [journal.session EXCEPT ![s] = "closed"]
          /\ journal'.lease = journal.lease
          /\ journal.session \in [Sessions -> {"none", "active", "closed"}]
      BY <2>3, <3>1 DEF Journals
    <3>5. recovery'.sessions = {x \in Sessions : journal'.session[x] = "active"}
      BY <3>2, <3>3, <3>4 DEF RestInv
    <3> QED
      BY <1>4, <2>1, <2>2, <3>1, <3>2, <3>3, <3>4, <3>5 DEF RestInv
  <2>9. ASSUME NEW t \in Tasks, RecoverLease(t)
        PROVE  RestInv'
    <3>1. /\ t \in recovery.leases /\ UNCHANGED core
          /\ recovery' = [recovery EXCEPT !.leases = @ \ {t}]
          /\ journal' = [journal EXCEPT !.lease[t] = "revoked"]
      BY <2>9 DEF RecoverLease
    <3>2. recovery.on
      BY <3>1 DEF RestInv
    <3>3. /\ recovery'.on /\ recovery'.leases = recovery.leases \ {t}
          /\ recovery'.sessions = recovery.sessions
      BY <2>3, <3>1, <3>2 DEF Recoveries
    <3>4. /\ journal'.lease = [journal.lease EXCEPT ![t] = "revoked"]
          /\ journal'.session = journal.session
          /\ journal.lease \in [Tasks -> LeaseRows]
      BY <2>3, <3>1 DEF Journals
    <3>5. recovery'.leases = {x \in Tasks : journal'.lease[x] \in Live}
      BY <3>2, <3>3, <3>4 DEF RestInv, Live
    <3> QED
      BY SMTT(30), <1>4, <2>1, <2>2, <3>1, <3>2, <3>3, <3>4, <3>5 DEF RestInv
  <2>10. Recovering \/ UNCHANGED <<core, recovery, journal, lost>>
    BY <1>4, RestingStep
  <2> QED
    BY <2>4, <2>5, <2>6, <2>7, <2>8, <2>9, <2>10 DEF Recovering
<1>5. core \in {"down", "up"}
  BY DEF TypeOK
<1> QED
  BY <1>1, <1>2, <1>3, <1>4, <1>5

\* A held lease has not ended in the journal, and a request that was not
\* looked at has no lease.
LeaseInv ==
    \A t \in Tasks :
        /\ lease[t] # None => journal.lease[t] \in Live \cup {"none"}
        /\ request[t].at = "new" => lease[t] = None /\ journal.lease[t] = "none"

LEMMA LeaseStep ==
    ASSUME TypeOK, RestInv, LeaseInv, [Next]_vars
    PROVE  LeaseInv'
<1> SUFFICES ASSUME NEW t \in Tasks PROVE LeaseInv!(t)'
  BY DEF LeaseInv
<1>0. /\ lease[t] # None => journal.lease[t] \in Live \cup {"none"}
      /\ request[t].at = "new" => lease[t] = None /\ journal.lease[t] = "none"
  BY DEF LeaseInv
<1>1. CASE UNCHANGED vars
  BY <1>0, <1>1 DEF vars, registry
<1>2. CASE Crash
  <2>1. request[t] \in Requests
    BY DEF TypeOK
  <2>2. request'[t].at = "new" => request[t].at = "new"
    BY <1>2, <2>1 DEF Crash, Requests
  <2>3. lease'[t] = None /\ journal' = journal
    BY <1>2 DEF Crash
  <2> QED
    BY <1>0, <2>2, <2>3
<1>3. CASE Next /\ ~Crash
  <2>1. request'[t].at = "new" => request[t].at = "new" /\ ~Issued(t)
    <3>1. request \in [Tasks -> Requests]
      BY DEF TypeOK
    <3> QED
      BY SMTT(30), <1>3, <3>1, RequestChanges
         DEF Reserve, NoWorker, Lookup, Dispatch, Requests, Issued
  <2>2. Kept(t) \/ Issued(t) \/ Acked(t) \/ Ended(t) \/ RecoverLease(t)
    BY <1>3, Effects, MeshAssumption
  <2>3. ~RecoverLease(t) \/ (journal.lease[t] \in Live /\ lease'[t] = None)
    <3>1. SUFFICES ASSUME RecoverLease(t)
                   PROVE  journal.lease[t] \in Live /\ lease'[t] = None
      OBVIOUS
    <3>2. t \in recovery.leases /\ UNCHANGED lease
      BY <3>1 DEF RecoverLease, registry
    <3> QED
      BY <3>2 DEF RestInv
  <2>4. CASE RecoverLease(t)
    BY <1>0, <2>1, <2>3, <2>4 DEF Live
  <2>5. CASE Kept(t)
    BY <1>0, <2>1, <2>5 DEF Kept
  <2>6. CASE Issued(t)
    BY <1>0, <2>1, <2>6 DEF Issued, Live
  <2>7. CASE Acked(t) \/ Ended(t)
    BY <1>0, <2>1, <2>7 DEF Acked, Ended, Live
  <2> QED
    BY <2>2, <2>4, <2>5, <2>6, <2>7
<1> QED
  BY <1>1, <1>2, <1>3

LEMMA MatchStep ==
    ASSUME TypeOK, RestInv, JournalMatchesRegistry, [Next]_vars
    PROVE  JournalMatchesRegistry'
<1>1. CASE UNCHANGED vars
  BY <1>1 DEF vars, registry, JournalMatchesRegistry
<1>2. CASE Crash
  BY <1>2 DEF Crash, JournalMatchesRegistry
<1>3. CASE Next /\ core = "down"
  <2>1. UNCHANGED <<session, lease>>
    BY <1>3, RestingStep
  <2>2. CASE ~Serve
    <3>1. UNCHANGED core
      BY <1>3, <2>2, RestingStep
         DEF Recovering, Start, StartFails, RecoverSession, RecoverLease
    <3> QED
      BY <1>3, <3>1 DEF JournalMatchesRegistry
  <2>3. CASE Serve
    <3>1. /\ recovery.on /\ recovery.sessions = {} /\ recovery.leases = {}
          /\ UNCHANGED journal
      BY <2>3 DEF Serve
    <3>2. \A t \in Tasks : lease[t] = None /\ journal.lease[t] \notin Live
      BY <1>3, <3>1 DEF RestInv
    <3>3. \A s \in Sessions : session[s].at # "on" /\ journal.session[s] # "active"
      BY <1>3, <3>1 DEF RestInv
    <3> QED
      BY <2>1, <3>1, <3>2, <3>3 DEF JournalMatchesRegistry
  <2> QED
    BY <2>2, <2>3
<1>4. CASE Next /\ core = "up" /\ ~Crash
  <2>1. ~Recovering
    BY <1>4, ServingStep
  <2>2. ASSUME NEW t \in Tasks, t \notin lost'
        PROVE  journal'.lease[t] \in Live <=> lease'[t] # None
    <3>1. Kept(t) \/ Issued(t) \/ Acked(t) \/ Ended(t)
      BY <1>4, <2>1, Effects, MeshAssumption DEF Recovering
    <3>2. t \notin lost
      BY <1>4, <2>1, <2>2, Effects, MeshAssumption DEF Recovering
    <3>3. journal.lease[t] \in Live <=> lease[t] # None
      BY <1>4, <3>2 DEF JournalMatchesRegistry
    <3> QED
      BY <2>2, <3>1, <3>3 DEF Kept, Issued, Acked, Ended, Live
  <2>3. ASSUME NEW s \in Sessions, s \notin lost'
        PROVE  journal'.session[s] = "active" <=> session'[s].at = "on"
    <3>1. Stayed(s) \/ Joined(s) \/ Left(s)
      BY <1>4, <2>1, Effects, MeshAssumption DEF Recovering
    <3>2. s \notin lost
      BY <1>4, <2>1, <2>3, Effects, MeshAssumption DEF Recovering
    <3>3. journal.session[s] = "active" <=> session[s].at = "on"
      BY <1>4, <3>2 DEF JournalMatchesRegistry
    <3> QED
      BY <2>3, <3>1, <3>3 DEF Stayed, Joined, Left
  <2> QED
    BY <2>2, <2>3 DEF JournalMatchesRegistry
<1>5. core \in {"down", "up"}
  BY DEF TypeOK
<1> QED
  BY <1>1, <1>2, <1>3, <1>4, <1>5

\* The first core, one by one.
LEMMA FirstState ==
    ASSUME Init
    PROVE  /\ core = "up" /\ recovery = NoRecovery
           /\ \A c \in Conns : conn[c] = Closed /\ final[c] = Idle /\ queue[c] = <<>>
           /\ \A s \in Sessions : session[s].at = "new" /\ journal.session[s] = "none"
           /\ \A t \in Tasks : /\ lease[t] = None /\ request[t] = Pending
                               /\ worker[t] = "none" /\ journal.lease[t] = "none"
                               /\ journal.status[t] = "none" /\ journal.receipts[t] = 0
<1>1. core = "up" /\ recovery = NoRecovery
  BY Zenon DEF Init
<1>2. \A c \in Conns : conn[c] = Closed /\ final[c] = Idle /\ queue[c] = <<>>
  BY Zenon DEF Init
<1>3. \A s \in Sessions : session[s] = Unused
  BY Zenon DEF Init
<1>4. \A t \in Tasks : lease[t] = None /\ request[t] = Pending /\ worker[t] = "none"
  BY Zenon DEF Init
<1>5. /\ \A s \in Sessions : journal.session[s] = "none"
      /\ \A t \in Tasks : /\ journal.lease[t] = "none" /\ journal.status[t] = "none"
                          /\ journal.receipts[t] = 0
  <2>1. journal = [lease |-> [t \in Tasks |-> "none"],
                   session |-> [s \in Sessions |-> "none"],
                   status |-> [t \in Tasks |-> "none"],
                   receipts |-> [t \in Tasks |-> 0]]
    BY Zenon DEF Init
  <2> QED
    BY <2>1
<1>6. Unused.at = "new"
  BY DEF Unused
<1> QED
  BY <1>1, <1>2, <1>3, <1>4, <1>5, <1>6, Zenon

LEMMA MeshInit == Init => RestInv /\ LeaseInv /\ JournalMatchesRegistry
<1> SUFFICES ASSUME Init PROVE RestInv /\ LeaseInv /\ JournalMatchesRegistry
  OBVIOUS
<1>1. RestInv
  BY SMTT(30), FirstState DEF RestInv, NoRecovery
<1>2. LeaseInv
  BY FirstState DEF LeaseInv
<1>3. JournalMatchesRegistry
  BY FirstState DEF JournalMatchesRegistry, Live
<1> QED
  BY <1>1, <1>2, <1>3

\* While a core serves, the journal shows a lease live exactly when the
\* registry holds it and a session active exactly when it is registered, but
\* for rows that failed since it started: over any number of sockets, tasks,
\* crashes and interrupted starts (WorkerRegistry, recover_interrupted).
THEOREM JournalMatchesHolds == Spec => []JournalMatchesRegistry
<1>1. TypeOK /\ RestInv /\ JournalMatchesRegistry /\ [Next]_vars
        => (RestInv /\ JournalMatchesRegistry)'
  BY RestStep, MatchStep
<1> QED
  BY <1>1, MeshInit, MeshTypesCorrect, PTL DEF Spec

-----------------------------------------------------------------------------
(* Who works on a task.                                                    *)

\* A socket works for the sessions it registered only, a lease is with the
\* session its request reserved, and a result is finalized by the socket of
\* that session.
HomeInv ==
    /\ \A c \in Conns : \A s \in Sessions :
            conn[c].session = s \/ conn[c].joining = s
                => session[s].at # "new" /\ session[s].conn = c
    /\ \A t \in Tasks :
            /\ lease[t] # None => request[t].session = lease[t]
            /\ request[t].at = "new" => request[t].session = None
            /\ request[t].at \in {"reserved", "found"} => request[t].session # None
            /\ request[t].session # None => session[request[t].session].at # "new"
    /\ \A c \in Conns : final[c].step # "idle" =>
            /\ request[final[c].task].session # None
            /\ SocketOf(final[c].task) = c

\* A session that was registered once keeps its socket.
LEMMA SocketStays ==
    ASSUME TypeOK, [Next]_vars, NEW s \in Sessions, session[s].at # "new"
    PROVE  session'[s].at # "new" /\ session'[s].conn = session[s].conn
<1>1. CASE UNCHANGED vars
  BY <1>1 DEF vars, registry
<1>2. CASE Crash
  <2>1. session \in [Sessions -> SessionRecords]
    BY DEF TypeOK
  <2> QED
    BY <1>2, <2>1 DEF Crash, SessionRecords
<1>3. CASE Next /\ ~Crash
  <2>1. Stayed(s) \/ Joined(s) \/ Left(s) \/ RecoverSession(s)
    BY <1>3, Effects, MeshAssumption
  <2> QED
    BY SMTT(30), <2>1 DEF Stayed, Joined, Left, RecoverSession, registry
<1> QED
  BY <1>1, <1>2, <1>3

\* A request that has its session keeps it.
LEMMA RequestStays ==
    ASSUME TypeOK, HomeInv, [Next]_vars, NEW t \in Tasks, request[t].session # None
    PROVE  /\ request'[t].session = request[t].session /\ SocketOf(t)' = SocketOf(t)
           /\ request'[t].at # "new"
<1>1. request \in [Tasks -> Requests]
  BY DEF TypeOK
<1>2. request[t].at # "new"
  BY DEF HomeInv
<1>3. request[t].session \in Sessions /\ session[request[t].session].at # "new"
  <2>1. request[t].session \in Sessions
    BY <1>1 DEF Requests
  <2> QED
    BY <2>1 DEF HomeInv
<1>4. request'[t].session = request[t].session /\ request'[t].at # "new"
  <2>1. CASE UNCHANGED vars
    BY <1>2, <2>1 DEF vars
  <2>2. CASE Next
    <3>1. \/ request'[t] = request[t] \/ Lookup(t) \/ Dispatch(t) \/ Crash
      BY <1>2, <2>2, RequestChanges DEF Reserve, NoWorker
    <3>2. CASE Lookup(t) \/ Dispatch(t)
      BY <1>1, <3>2 DEF Lookup, Dispatch, Requests
    <3>3. CASE Crash
      BY <1>1, <1>2, <3>3 DEF Crash, Requests
    <3> QED
      BY <1>2, <3>1, <3>2, <3>3
  <2> QED
    BY <2>1, <2>2
<1> QED
  BY <1>3, <1>4, SocketStays DEF SocketOf

\* A socket's sessions.
LEMMA ConnChanges ==
    ASSUME TypeOK, Next, NEW c \in Conns, NEW s \in Sessions,
           conn'[c].session = s \/ conn'[c].joining = s
    PROVE  \/ conn[c].session = s \/ conn[c].joining = s
           \/ Register(c, s)
<1> DEFINE Goal == conn[c].session = s \/ conn[c].joining = s \/ Register(c, s)
<1> SUFFICES Goal
  OBVIOUS
<1>1. conn \in [Conns -> Sockets]
  BY DEF TypeOK
<1>2. ASSUME conn'[c] = conn[c]
      PROVE  Goal
  BY <1>2
<1>3. ASSUME NEW d \in Conns, Connect(d) \/ WriterEnds(d) \/ HangUp(d)
      PROVE  Goal
  <2>1. conn'[c].session = conn[c].session /\ conn'[c].joining = conn[c].joining
    <3>1. CASE Connect(d)
      <4>1. PICK legacy \in BOOLEAN :
                conn' = [conn EXCEPT ![d] = [@ EXCEPT !.read = "open", !.write = TRUE,
                                                      !.legacy = legacy]]
        BY <3>1 DEF Connect
      <4> QED
        BY <1>1, <4>1 DEF Sockets
    <3>2. CASE WriterEnds(d)
      BY <1>1, <3>2 DEF WriterEnds, Sockets
    <3>3. CASE HangUp(d)
      BY <1>1, <3>3 DEF HangUp, Sockets
    <3> QED
      BY <1>3, <3>1, <3>2, <3>3
  <2> QED
    BY <2>1
<1>4. ASSUME NEW d \in Conns, InsertSender(d)
      PROVE  Goal
  <2>1. CASE d = c
    <3>1. conn'[c].session = conn[c].joining /\ conn'[c].joining = None
      BY <1>1, <1>4, <2>1 DEF InsertSender, Sockets
    <3> QED
      BY <3>1, MeshAssumption
  <2>2. CASE d # c
    BY <1>1, <1>2, <1>4, <2>2 DEF InsertSender
  <2> QED
    BY <2>1, <2>2
<1>5. ASSUME NEW d \in Conns, RemoveSession(d)
      PROVE  Goal
  <2>1. conn' = [conn EXCEPT ![d] = [Closed EXCEPT !.read = "gone"]]
    BY <1>5 DEF RemoveSession
  <2>2. CASE d = c
    <3>1. conn'[c].session = None /\ conn'[c].joining = None
      BY <1>1, <2>1, <2>2 DEF Closed
    <3> QED
      BY <3>1, MeshAssumption
  <2>3. CASE d # c
    BY <1>1, <1>2, <2>1, <2>3
  <2> QED
    BY <2>2, <2>3
<1>6. ASSUME NEW d \in Conns, NEW z \in Sessions, Register(d, z)
      PROVE  Goal
  <2>1. conn' = [conn EXCEPT ![d].joining = z]
    BY <1>6 DEF Register
  <2>2. CASE d = c
    <3>1. conn'[c].session = conn[c].session /\ conn'[c].joining = z
      BY <1>1, <2>1, <2>2 DEF Sockets
    <3> QED
      BY <1>6, <2>2, <3>1
  <2>3. CASE d # c
    BY <1>1, <1>2, <2>1, <2>3
  <2> QED
    BY <2>2, <2>3
<1>7. CASE Crash
  <2>1. conn'[c].session = None /\ conn'[c].joining = None
    BY <1>7 DEF Crash, Closed
  <2> QED
    BY <2>1, MeshAssumption
<1>8. ASSUME NEW d \in Conns, SocketNext(d), ~InsertSender(d), ~RemoveSession(d)
      PROVE  UNCHANGED conn
  BY <1>8, Zenon DEF SocketNext, RemoveSender, Heartbeat,
     DispatchAck, FinalizeValidate, FinalizeRecord, FinalizeComplete
<1>9. ASSUME NEW t \in Tasks, \/ RequestNext(t) \/ NoWorker(t) \/ RecoverLease(t)
                              \/ \E z \in Sessions : Reserve(t, z)
      PROVE  UNCHANGED conn
  BY <1>9, Zenon DEF RequestNext, Lookup, Dispatch, NoWorker, Reserve, RecoverLease, registry
<1>10. CASE \/ \E x \in Sessions \cup Tasks : Expire(x)
            \/ \E z \in Sessions : RecoverSession(z)
            \/ Start \/ Serve \/ StartFails
            \/ \E d \in Conns : \E n \in 0 .. MaxConcurrency : Beat(d, n)
            \/ \E t \in Tasks : \/ \E kind \in {"ack", "nack"} : Ack(t, kind)
                                \/ \E kind \in Answers \ {"ack", "nack"} : Answer(t, kind)
  <2>1. UNCHANGED conn
    BY <1>10, Zenon DEF Expire, RecoverSession, Start, Serve, StartFails, Beat, Ack, Answer,
          registry
  <2> QED
    BY <1>2, <2>1
<1> HIDE DEF Goal
<1>11. ASSUME NEW d \in Conns, SocketNext(d)
       PROVE  Goal
  BY <1>2, <1>4, <1>5, <1>8, <1>11
<1>12. CASE WorkerNext
  BY <1>3, <1>6, <1>10, <1>12 DEF WorkerNext
<1>13. ASSUME NEW t \in Tasks, \/ RequestNext(t) \/ NoWorker(t) \/ RecoverLease(t)
                               \/ \E z \in Sessions : Reserve(t, z)
       PROVE  Goal
  BY <1>2, <1>9, <1>13
<1> QED
  BY <1>7, <1>10, <1>11, <1>12, <1>13 DEF Next

LEMMA FinalChanges ==
    ASSUME TypeOK, Next, NEW c \in Conns
    PROVE  \/ final'[c] = final[c]
           \/ FinalizeValidate(c) \/ FinalizeRecord(c) \/ FinalizeComplete(c) \/ Crash
<1> DEFINE Goal == \/ final'[c] = final[c] \/ FinalizeValidate(c)
                   \/ FinalizeRecord(c) \/ FinalizeComplete(c) \/ Crash
<1> SUFFICES Goal
  OBVIOUS
<1>1. final \in [Conns -> Finals]
  BY DEF TypeOK
<1>2. ASSUME NEW d \in Conns, FinalizeValidate(d) \/ FinalizeRecord(d) \/ FinalizeComplete(d)
      PROVE  Goal
  <2>1. CASE d = c
    BY <1>2, <2>1
  <2>2. CASE d # c
    BY <1>1, <1>2, <2>2 DEF FinalizeValidate, FinalizeRecord, FinalizeComplete
  <2> QED
    BY <2>1, <2>2
<1>3. ASSUME NEW d \in Conns, InsertSender(d) \/ RemoveSender(d) \/ RemoveSession(d)
                              \/ Heartbeat(d) \/ DispatchAck(d)
      PROVE  UNCHANGED final
  BY <1>3, Zenon DEF InsertSender, RemoveSender, RemoveSession, Heartbeat, DispatchAck
<1>4. ASSUME NEW d \in Conns, SocketNext(d)
      PROVE  Goal
  BY <1>2, <1>3, <1>4 DEF SocketNext
<1>5. ASSUME NEW t \in Tasks, \/ RequestNext(t) \/ NoWorker(t) \/ RecoverLease(t)
                              \/ \E z \in Sessions : Reserve(t, z)
      PROVE  UNCHANGED final
  BY <1>5, Zenon DEF RequestNext, Lookup, Dispatch, NoWorker, Reserve, RecoverLease, registry
<1>6. CASE \/ \E x \in Sessions \cup Tasks : Expire(x)
           \/ \E z \in Sessions : RecoverSession(z)
           \/ Start \/ Serve \/ StartFails \/ WorkerNext
  <2>1. UNCHANGED final
    BY <1>6, Zenon DEF Expire, RecoverSession, Start, Serve, StartFails, WorkerNext, Connect,
          WriterEnds, HangUp, Register, Beat, Ack, Answer, registry
  <2> QED
    BY <2>1
<1>7. ASSUME NEW t \in Tasks, \/ RequestNext(t) \/ NoWorker(t) \/ RecoverLease(t)
                              \/ \E z \in Sessions : Reserve(t, z)
      PROVE  Goal
  BY <1>5, <1>7
<1>8. CASE Crash
  BY <1>8
<1> HIDE DEF Goal
<1> QED
  BY <1>4, <1>6, <1>7, <1>8 DEF Next

\* The socket that validates a result is the one of the lease.
LEMMA ValidatedAtHome ==
    ASSUME TypeOK, HomeInv, NEW c \in Conns, FinalizeValidate(c)
    PROVE  \/ final'[c] = final[c]
           \/ /\ Task(c) \in Tasks /\ final'[c].step = "valid"
              /\ final'[c].task = Task(c) /\ final[c].step = "idle"
              /\ lease[Task(c)] # None /\ request[Task(c)].session # None
              /\ SocketOf(Task(c)) = c
<1>1. /\ queue[c] # <<>> /\ Head(queue[c]).kind \in Answers \ {"ack", "nack"}
      /\ final[c].step = "idle"
      /\ final' = IF ~Valid(c, Task(c)) THEN final
                  ELSE [final EXCEPT ![c] = [step |-> "valid",
                            kind |-> Head(queue[c]).kind, task |-> Task(c)]]
  BY DEF FinalizeValidate, Reading
<1>2. queue[c] \in Seq(Messages) /\ final \in [Conns -> Finals]
      /\ lease \in [Tasks -> Sessions \cup {None}]
  BY DEF TypeOK
<1>3. Head(queue[c]) \in Messages
  BY <1>1, <1>2, HeadTailProperties
<1>4. Task(c) \in Tasks
  BY <1>1, <1>3 DEF Messages, Task, Answers
<1>5. CASE ~Valid(c, Task(c))
  BY <1>1, <1>5
<1>6. CASE Valid(c, Task(c))
  <2>1. lease[Task(c)] # None /\ lease[Task(c)] = conn[c].session
    BY <1>6 DEF Valid
  <2>2. lease[Task(c)] \in Sessions /\ request[Task(c)].session = lease[Task(c)]
    BY SMTT(30), <1>2, <1>4, <2>1 DEF HomeInv
  <2>3. session[lease[Task(c)]].conn = c
    BY <2>1, <2>2 DEF HomeInv
  <2>4. final'[c].step = "valid" /\ final'[c].task = Task(c)
    BY <1>1, <1>2, <1>6
  <2> QED
    BY <1>1, <1>4, <2>1, <2>2, <2>3, <2>4 DEF SocketOf
<1> QED
  BY <1>5, <1>6

LEMMA HomeStep ==
    ASSUME TypeOK, HomeInv, [Next]_vars
    PROVE  HomeInv'
<1>1. CASE UNCHANGED vars
  BY SMTT(30), <1>1 DEF vars, registry, HomeInv, SocketOf
<1>2. CASE Next
  <2>1. ASSUME NEW c \in Conns, NEW s \in Sessions,
               conn'[c].session = s \/ conn'[c].joining = s
        PROVE  session'[s].at # "new" /\ session'[s].conn = c
    <3>1. CASE Register(c, s)
      <4>1. session \in [Sessions -> SessionRecords]
        BY DEF TypeOK
      <4> QED
        BY <3>1, <4>1 DEF Register
    <3>2. CASE conn[c].session = s \/ conn[c].joining = s
      <4>1. session[s].at # "new" /\ session[s].conn = c
        BY <3>2 DEF HomeInv
      <4> QED
        BY <4>1, SocketStays
    <3> QED
      BY <1>2, <2>1, <3>1, <3>2, ConnChanges
  <2>2. ASSUME NEW t \in Tasks
        PROVE  /\ lease'[t] # None => request'[t].session = lease'[t]
               /\ request'[t].at = "new" => request'[t].session = None
               /\ request'[t].at \in {"reserved", "found"} => request'[t].session # None
               /\ request'[t].session # None => session'[request'[t].session].at # "new"
    <3>0. /\ request \in [Tasks -> Requests] /\ session \in [Sessions -> SessionRecords]
          /\ lease \in [Tasks -> Sessions \cup {None}]
          /\ None \notin Sessions
      BY MeshAssumption DEF TypeOK
    <3>1. ASSUME NEW s \in Sessions, Reserve(t, s)
          PROVE  /\ lease'[t] = s /\ request'[t] = [at |-> "reserved", session |-> s]
                 /\ session'[s].at # "new"
      <4>1. session[s].at = "on" /\ lease'[t] = s
            /\ request'[t] = [at |-> "reserved", session |-> s]
        BY <3>0, <3>1 DEF Reserve, Free
      <4> QED
        BY <4>1, SocketStays
    <3>2. CASE \E s \in Sessions : Reserve(t, s)
      <4>1. PICK s \in Sessions : Reserve(t, s)
        BY <3>2
      <4>2. /\ lease'[t] = s /\ request'[t] = [at |-> "reserved", session |-> s]
            /\ session'[s].at # "new"
        BY <3>1, <4>1
      <4> QED
        BY SMTT(30), <3>0, <4>2
    <3>3. CASE ~\E s \in Sessions : Reserve(t, s)
      <4>1. lease'[t] \in {lease[t], None}
        <5>1. CASE Crash
          BY <5>1 DEF Crash
        <5>2. CASE ~Crash
          <6>1. Kept(t) \/ Issued(t) \/ Acked(t) \/ Ended(t) \/ RecoverLease(t)
            BY <1>2, <5>2, Effects, MeshAssumption
          <6>2. ~Issued(t)
            <7>1. SUFFICES ASSUME Issued(t) PROVE FALSE
              OBVIOUS
            <7>2. /\ request[t].at = "new" /\ request'[t].at = "reserved"
              BY SMTT(30), <7>1 DEF Issued
            <7> QED
              BY <1>2, <3>0, <3>3, <5>2, <7>2, RequestChanges
                 DEF NoWorker, Lookup, Dispatch, Requests
          <6> QED
            BY <6>1, <6>2 DEF Kept, Acked, Ended, RecoverLease, registry
        <5> QED
          BY <5>1, <5>2
      <4>2. /\ request'[t].session = request[t].session
            /\ request'[t].at = "new" => request[t].at = "new"
            /\ request'[t].at \in {"reserved", "found"} =>
                    request[t].at \in {"reserved", "found"}
        <5>1. CASE NoWorker(t) \/ Lookup(t) \/ Dispatch(t)
          BY SMTT(30), <3>0, <5>1 DEF NoWorker, Lookup, Dispatch, Requests
        <5>2. CASE Crash
          BY <3>0, <5>2 DEF Crash, Requests
        <5> QED
          BY <1>2, <3>3, <5>1, <5>2, RequestChanges
      <4>3. request[t].session \in Sessions \cup {None}
        BY <3>0 DEF Requests
      <4>4. request[t].session # None => session'[request[t].session].at # "new"
        BY <4>3, SocketStays DEF HomeInv
      <4> QED
        BY <4>1, <4>2, <4>4 DEF HomeInv
    <3> QED
      BY <3>2, <3>3
  <2>3. ASSUME NEW c \in Conns, final'[c].step # "idle"
        PROVE  /\ request'[final'[c].task].session # None
               /\ session'[request'[final'[c].task].session].conn = c
    <3>0. final \in [Conns -> Finals]
      BY DEF TypeOK
    <3>1. ASSUME NEW t \in Tasks, final'[c].task = t, request[t].session # None,
                 SocketOf(t) = c
          PROVE  /\ request'[final'[c].task].session # None
                 /\ session'[request'[final'[c].task].session].conn = c
      <4>1. request'[t].session = request[t].session /\ SocketOf(t)' = SocketOf(t)
        BY <3>1, RequestStays
      <4> QED
        BY <3>1, <4>1 DEF SocketOf
    <3>2. CASE final[c].step # "idle" /\ final'[c].task = final[c].task
      <4>1. final[c].task \in Tasks
        BY <3>0 DEF Finals
      <4> QED
        BY <3>1, <3>2, <4>1 DEF HomeInv
    <3>3. CASE FinalizeValidate(c)
      BY <2>3, <3>1, <3>2, <3>3, ValidatedAtHome
    <3>4. CASE FinalizeRecord(c)
      <4>1. final[c].step = "valid" /\ final'[c].task = final[c].task
        BY <3>0, <3>4 DEF FinalizeRecord, Finals
      <4> QED
        BY <3>2, <4>1
    <3>5. CASE FinalizeComplete(c) \/ Crash
      <4>1. final'[c] = Idle
        BY <3>0, <3>5 DEF FinalizeComplete, Crash
      <4> QED
        BY SMTT(30), <2>3, <4>1 DEF Idle
    <3> QED
      BY <1>2, <2>3, <3>2, <3>3, <3>4, <3>5, FinalChanges
  <2> QED
    BY <2>1, <2>2, <2>3 DEF HomeInv, SocketOf
<1> QED
  BY <1>1, <1>2

-----------------------------------------------------------------------------
(* One receipt.                                                            *)

\* The lease of a task is gone, or about to go: its result is recorded.
Over(t) ==
    \/ lease[t] = None
    \/ \E c \in Conns : final[c].step = "recorded" /\ final[c].task = t

\* What was recorded about a task is the last word: nobody has validated, or
\* will validate, another result of it.
DoneInv ==
    /\ \A t \in Tasks :
        /\ journal.receipts[t] <= 1
        /\ journal.receipts[t] = 1 \/ journal.status[t] = "complete" =>
                request[t].session # None /\ Over(t)
    /\ \A c \in Conns : final[c].step = "valid" =>
        /\ journal.receipts[final[c].task] = 0
        /\ journal.status[final[c].task] # "complete"

\* Who writes an outcome or a receipt.
LEMMA StatusChanges ==
    ASSUME TypeOK, Next, NEW t \in Tasks
    PROVE  \/ /\ journal'.status[t] = journal.status[t]
              /\ journal'.receipts[t] = journal.receipts[t]
           \/ /\ \E c \in Conns : DispatchAck(c) /\ Task(c) = t
              /\ journal'.status[t] # "complete"
              /\ journal'.receipts[t] = journal.receipts[t]
           \/ \E c \in Conns : FinalizeRecord(c) /\ final[c].task = t
<1> DEFINE Same == /\ journal'.status[t] = journal.status[t]
                   /\ journal'.receipts[t] = journal.receipts[t]
           Goal == \/ Same
                   \/ /\ \E c \in Conns : DispatchAck(c) /\ Task(c) = t
                      /\ journal'.status[t] # "complete"
                      /\ journal'.receipts[t] = journal.receipts[t]
                   \/ \E c \in Conns : FinalizeRecord(c) /\ final[c].task = t
<1> SUFFICES Goal
  OBVIOUS
<1>1. journal \in Journals
  BY DEF TypeOK
<1>2. ASSUME NEW u \in Tasks, NEW row \in LeaseRows, CompleteDispatch(u, row, journal)
      PROVE  Same
  BY <1>1, <1>2, CompleteDispatchEffect, LeaseRowEffect
<1>3. ASSUME NEW u \in Tasks, Dispatch(u)
      PROVE  Same
  <2>1. "failed" \in LeaseRows
    BY DEF LeaseRows
  <2> QED
    BY <1>2, <1>3, <2>1 DEF Dispatch
<1>4. ASSUME NEW u \in Tasks, NEW s \in Sessions, Reserve(u, s)
      PROVE  Same
  <2>1. LeaseRow(journal, u, "issued") /\ "issued" \in LeaseRows
    BY <1>4 DEF Reserve, LeaseRows, Live
  <2> QED
    BY <1>1, <2>1, LeaseRowEffect
<1>5. ASSUME NEW u \in Tasks, Lookup(u) \/ NoWorker(u) \/ RecoverLease(u)
      PROVE  Same
  BY <1>1, <1>5 DEF Lookup, NoWorker, RecoverLease, Journals
<1>6. ASSUME NEW c \in Conns, RemoveSession(c)
      PROVE  Same
  BY <1>6, RemoveSessionEffect DEF Removed
<1>7. ASSUME NEW c \in Conns, FinalizeComplete(c)
      PROVE  Same
  <2>1. final[c] \in Finals
    BY DEF TypeOK
  <2>2. final[c].task \in Tasks
    BY <2>1 DEF Finals
  <2>3. PICK row \in LeaseRows : CompleteDispatch(final[c].task, row, journal)
    BY <1>7 DEF FinalizeComplete, LeaseRows
  <2> QED
    BY <1>2, <2>2, <2>3
<1>8. ASSUME NEW c \in Conns, FinalizeRecord(c), final[c].task # t
      PROVE  Same
  BY <1>1, <1>8, ZenonT(30) DEF FinalizeRecord, Journals
<1>9. ASSUME NEW c \in Conns, DispatchAck(c)
      PROVE  /\ Task(c) # t => Same
             /\ Task(c) = t => /\ journal'.status[t] # "complete"
                               /\ journal'.receipts[t] = journal.receipts[t]
  <2> DEFINE u == Task(c)
             marked(how) == [journal EXCEPT !.status[u] = how]
  <2>0. u \in Tasks
    <3>1. queue[c] # <<>> /\ Head(queue[c]).kind \in {"ack", "nack"}
      BY <1>9 DEF DispatchAck, Reading
    <3>2. queue[c] \in Seq(Messages)
      BY DEF TypeOK
    <3>3. Head(queue[c]) \in Messages
      BY <3>1, <3>2, HeadTailProperties
    <3> QED
      BY <3>1, <3>3 DEF Messages, Task
  <2>1. \A how \in {"running", "failed"} :
            /\ marked(how) \in Journals /\ marked(how).receipts = journal.receipts
            /\ marked(how).status[u] # "complete"
            /\ u # t => marked(how).status[t] = journal.status[t]
    BY <1>1, <2>0 DEF Journals
  <2>2. PICK how \in {"running", "failed"} :
            \/ journal' = marked(how)
            \/ LeaseRow(marked(how), u, "acked") \/ LeaseRow(marked(how), u, "failed")
    BY <1>9, Zenon DEF DispatchAck
  <2>3. "acked" \in LeaseRows /\ "failed" \in LeaseRows
    BY DEF LeaseRows, Live
  <2> HIDE DEF marked, u
  <2>4. /\ journal'.status = marked(how).status
        /\ journal'.receipts = marked(how).receipts
    BY <2>0, <2>1, <2>2, <2>3, LeaseRowEffect
  <2> QED
    BY <2>1, <2>4 DEF u
<1>10. ASSUME NEW c \in Conns, InsertSender(c) \/ RemoveSender(c) \/ Heartbeat(c)
                               \/ FinalizeValidate(c)
       PROVE  UNCHANGED journal
  BY <1>10, Zenon DEF InsertSender, RemoveSender, Heartbeat, FinalizeValidate
<1>11. ASSUME NEW c \in Conns, NEW s \in Sessions, Register(c, s)
       PROVE  Same
  BY <1>1, <1>11 DEF Register, Journals
<1>12. ASSUME NEW s \in Sessions, RecoverSession(s)
       PROVE  Same
  BY <1>1, <1>12 DEF RecoverSession, Journals
<1>13. CASE \/ \E x \in Sessions \cup Tasks : Expire(x)
            \/ Crash \/ Start \/ Serve \/ StartFails
            \/ \E c \in Conns : \/ Connect(c) \/ WriterEnds(c) \/ HangUp(c)
                                \/ \E n \in 0 .. MaxConcurrency : Beat(c, n)
            \/ \E u \in Tasks : \/ \E kind \in {"ack", "nack"} : Ack(u, kind)
                                \/ \E kind \in Answers \ {"ack", "nack"} : Answer(u, kind)
  <2>1. UNCHANGED journal
    BY <1>13, Zenon DEF Expire, Crash, Start, Serve, StartFails, Connect, WriterEnds,
          HangUp, Beat, Ack, Answer
  <2> QED
    BY <2>1
<1>14. ASSUME NEW c \in Conns, SocketNext(c)
       PROVE  Goal
  <2>1. CASE InsertSender(c) \/ RemoveSender(c) \/ Heartbeat(c) \/ FinalizeValidate(c)
    BY <1>10, <2>1
  <2>2. CASE RemoveSession(c) \/ FinalizeComplete(c)
    BY <1>6, <1>7, <2>2
  <2>3. CASE DispatchAck(c)
    BY <1>9, <2>3
  <2>4. CASE FinalizeRecord(c)
    BY <1>8, <2>4
  <2> QED
    BY <1>14, <2>1, <2>2, <2>3, <2>4 DEF SocketNext
<1> HIDE DEF Goal, Same
<1>15. CASE WorkerNext
  <2>1. CASE \E c \in Conns : \E s \in Sessions : Register(c, s)
    BY <1>11, <2>1 DEF Goal
  <2> QED
    BY <1>13, <1>15, <2>1 DEF WorkerNext
<1>16. ASSUME NEW u \in Tasks, \/ RequestNext(u) \/ NoWorker(u) \/ RecoverLease(u)
                               \/ \E s \in Sessions : Reserve(u, s)
       PROVE  Goal
  BY <1>3, <1>4, <1>5, <1>16 DEF RequestNext, Goal
<1>17. CASE \E s \in Sessions : RecoverSession(s)
  BY <1>12, <1>17 DEF Goal
<1> QED
  BY <1>13, <1>14, <1>15, <1>16, <1>17 DEF Next

\* A lease that is gone does not come back.
LEMMA LeaseStaysGone ==
    ASSUME TypeOK, HomeInv, [Next]_vars, NEW t \in Tasks, lease[t] = None,
           request[t].session # None
    PROVE  lease'[t] = None
<1>1. CASE UNCHANGED vars
  BY <1>1 DEF vars, registry
<1>2. CASE Crash
  BY <1>2 DEF Crash
<1>3. CASE Next /\ ~Crash
  <2>1. Kept(t) \/ Issued(t) \/ Acked(t) \/ Ended(t) \/ RecoverLease(t)
    BY <1>3, Effects, MeshAssumption
  <2>2. ~Issued(t)
    BY DEF Issued, HomeInv
  <2> QED
    BY <2>1, <2>2 DEF Kept, Acked, Ended, RecoverLease, registry
<1> QED
  BY <1>1, <1>2, <1>3

LEMMA OverStays ==
    ASSUME TypeOK, HomeInv, [Next]_vars, NEW t \in Tasks, Over(t),
           request[t].session # None
    PROVE  Over(t)'
<1>1. CASE lease[t] = None
  BY <1>1, LeaseStaysGone DEF Over
<1>2. CASE \E c \in Conns : final[c].step = "recorded" /\ final[c].task = t
  <2>1. PICK c \in Conns : final[c].step = "recorded" /\ final[c].task = t
    BY <1>2
  <2>2. CASE final'[c] = final[c]
    BY <2>1, <2>2 DEF Over
  <2>3. CASE Crash
    BY <2>3 DEF Crash, Over
  <2>4. CASE FinalizeComplete(c)
    <3>1. PICK row \in LeaseRows : CompleteDispatch(t, row, journal)
      BY <2>1, <2>4 DEF FinalizeComplete, LeaseRows
    <3>2. lease' = [lease EXCEPT ![t] = None] /\ lease \in [Tasks -> Sessions \cup {None}]
      BY <3>1, CompleteDispatchEffect DEF TypeOK
    <3> QED
      BY <3>2 DEF Over
  <2>5. ~FinalizeValidate(c) /\ ~FinalizeRecord(c)
    BY <2>1 DEF FinalizeValidate, FinalizeRecord, Reading
  <2>6. CASE UNCHANGED vars
    BY <2>2, <2>6 DEF vars, registry
  <2> QED
    BY <2>2, <2>3, <2>4, <2>5, <2>6, FinalChanges
<1> QED
  BY <1>1, <1>2 DEF Over

LEMMA DoneStep ==
    ASSUME TypeOK, HomeInv, DoneInv, [Next]_vars
    PROVE  DoneInv'
<1>1. CASE UNCHANGED vars
  BY <1>1 DEF vars, registry, DoneInv, Over
<1>2. CASE Next
  <2>0. /\ journal \in Journals /\ final \in [Conns -> Finals]
        /\ \A c \in Conns : final[c].task \in Tasks
    <3>1. journal \in Journals /\ final \in [Conns -> Finals]
      BY DEF TypeOK
    <3>2. \A c \in Conns : final[c].task \in Tasks
      BY <3>1 DEF Finals
    <3> QED
      BY <3>1, <3>2
  <2>1. ASSUME NEW c \in Conns, NEW t \in Tasks, FinalizeRecord(c), final[c].task = t
        PROVE  /\ journal'.receipts[t] \in {0, 1}
               /\ request'[t].session # None /\ Over(t)'
    <3>1. final[c].step = "valid" /\ journal.receipts[t] = 0
      BY <2>1 DEF FinalizeRecord, DoneInv
    <3>2. journal'.receipts[t] \in {0, 1}
      <4>1. PICK one \in {0, 1}, outcome \in {"complete", "failed"} :
                LET status == [journal EXCEPT !.status[t] = outcome]
                    receipt == [journal EXCEPT !.receipts[t] = @ + one]
                IN  \/ journal' = [status EXCEPT !.receipts[t] = @ + one]
                    \/ journal' \in {status, receipt}
        BY <2>1 DEF FinalizeRecord
      <4>2. t \in Tasks /\ journal.receipts \in [Tasks -> Nat]
        BY <2>0 DEF Journals
      <4>3. \/ journal'.receipts = journal.receipts
            \/ journal'.receipts = [journal.receipts EXCEPT ![t] = @ + one]
        BY <2>0, <4>1 DEF Journals
      <4> QED
        BY SMTT(30), <3>1, <4>2, <4>3
    <3>3. request'[t].session # None
      BY <2>0, <2>1, <3>1, RequestStays DEF HomeInv
    <3>4. final'[c].step = "recorded" /\ final'[c].task = t
      BY <2>0, <2>1 DEF FinalizeRecord, Finals
    <3> QED
      BY <3>2, <3>3, <3>4 DEF Over
  <2>2. ASSUME NEW t \in Tasks
        PROVE  /\ journal'.receipts[t] <= 1
               /\ journal'.receipts[t] = 1 \/ journal'.status[t] = "complete" =>
                        request'[t].session # None /\ Over(t)'
    <3>1. CASE \E c \in Conns : FinalizeRecord(c) /\ final[c].task = t
      <4>1. PICK c \in Conns : FinalizeRecord(c) /\ final[c].task = t
        BY <3>1
      <4>2. /\ journal'.receipts[t] \in {0, 1}
            /\ request'[t].session # None /\ Over(t)'
        BY <2>1, <4>1
      <4> QED
        BY SMTT(30), <4>2
    <3>2. CASE /\ journal'.receipts[t] = journal.receipts[t]
               /\ journal'.status[t] \in {journal.status[t]} \cup
                        ({"none", "running", "failed"})
      <4>1. journal.receipts[t] <= 1
        BY DEF DoneInv
      <4>2. CASE request[t].session # None /\ Over(t)
        BY <3>2, <4>1, <4>2, OverStays, RequestStays
      <4>3. CASE journal.receipts[t] # 1 /\ journal.status[t] # "complete"
        BY <3>2, <4>1, <4>3
      <4> QED
        BY <4>2, <4>3 DEF DoneInv
    <3>3. journal' \in Journals
      BY TypeStep DEF TypeOK
    <3>4. journal'.status[t] \in {"none", "running", "complete", "failed"}
      BY <3>3 DEF Journals
    <3> QED
      BY <1>2, <3>1, <3>2, <3>4, StatusChanges
  <2>3. ASSUME NEW c \in Conns, final'[c].step = "valid"
        PROVE  /\ journal'.receipts[final'[c].task] = 0
               /\ journal'.status[final'[c].task] # "complete"
    <3>1. CASE final'[c] = final[c]
      <4> DEFINE t == final[c].task
      <4>1. /\ t \in Tasks /\ journal.receipts[t] = 0 /\ journal.status[t] # "complete"
            /\ SocketOf(t) = c
        BY <2>0, <2>3, <3>1 DEF DoneInv, HomeInv
      <4>2. ASSUME NEW d \in Conns, FinalizeRecord(d), final[d].task = t
            PROVE  FALSE
        <5>1. final[d].step = "valid" /\ final'[d].step = "recorded"
          BY <2>0, <4>2 DEF FinalizeRecord, Finals
        <5>2. SocketOf(t) = d
          BY <4>2, <5>1 DEF HomeInv
        <5> QED
          BY <2>3, <4>1, <5>1, <5>2
      <4> HIDE DEF t
      <4> QED
        BY <1>2, <3>1, <4>1, <4>2, StatusChanges DEF t
    <3>2. CASE FinalizeValidate(c) /\ final'[c] # final[c]
      <4> DEFINE t == Task(c)
      <4>1. /\ t \in Tasks /\ final'[c].task = t /\ final[c].step = "idle"
            /\ lease[t] # None /\ SocketOf(t) = c
        BY <3>2, ValidatedAtHome
      <4> HIDE DEF t
      <4>2. ~Over(t)
        <5>1. ASSUME NEW d \in Conns, final[d].step = "recorded", final[d].task = t
              PROVE  FALSE
          BY <4>1, <5>1 DEF HomeInv
        <5> QED
          BY <4>1, <5>1 DEF Over
      <4>3. journal.receipts[t] # 1 /\ journal.status[t] # "complete"
            /\ journal.receipts[t] <= 1
        BY <4>1, <4>2 DEF DoneInv
      <4>4. journal.receipts[t] = 0
        <5>1. journal.receipts[t] \in Nat
          BY <2>0, <4>1 DEF Journals
        <5> QED
          BY SMTT(30), <4>3, <5>1
      <4>5. UNCHANGED journal
        BY <3>2 DEF FinalizeValidate
      <4> QED
        BY <4>1, <4>3, <4>4, <4>5
    <3>3. CASE FinalizeRecord(c)
      BY <2>0, <2>3, <3>3 DEF FinalizeRecord, Finals
    <3>4. CASE FinalizeComplete(c) \/ Crash
      <4>1. final'[c] = Idle
        BY <2>0, <3>4 DEF FinalizeComplete, Crash
      <4> QED
        BY SMTT(30), <2>3, <4>1 DEF Idle
    <3> QED
      BY <1>2, <3>1, <3>2, <3>3, <3>4, FinalChanges
  <2> QED
    BY <2>2, <2>3 DEF DoneInv
<1> QED
  BY <1>1, <1>2

\* It holds at first.
LEMMA ReceiptsInit == Init => HomeInv /\ DoneInv
<1> SUFFICES ASSUME Init PROVE HomeInv /\ DoneInv
  OBVIOUS
<1>1. /\ Idle.step = "idle" /\ Pending.at = "new" /\ Pending.session = None
      /\ Closed.session = None /\ Closed.joining = None
  BY DEF Idle, Pending, Closed
<1>2. HomeInv
  BY FirstState, MeshAssumption, <1>1, SMTT(30) DEF HomeInv
<1>3. DoneInv
  BY SMTT(30), FirstState, <1>1 DEF DoneInv
<1> QED
  BY <1>2, <1>3

\* However often a worker repeats its answer or changes it, and whatever
\* crashes in between, a run has at most one receipt (finalize_result,
\* finalize_error).
THEOREM OneReceiptHolds == Spec => []OneReceipt
<1>1. Init => HomeInv /\ DoneInv
  BY ReceiptsInit
<1>2. TypeOK /\ HomeInv /\ DoneInv /\ [Next]_vars => (HomeInv /\ DoneInv)'
  BY HomeStep, DoneStep
<1>3. DoneInv => OneReceipt
  BY DEF DoneInv, OneReceipt
<1> QED
  BY <1>1, <1>2, <1>3, MeshTypesCorrect, PTL DEF Spec

-----------------------------------------------------------------------------
(* What is final stays.                                                    *)

AckOf(m, t) == m.kind \in {"ack", "nack"} /\ m.task = t
AnswerOf(m, t) == m.kind \in Answers \ {"ack", "nack"} /\ m.task = t

\* No ack of a task is under way or will be.
Quiet(t) ==
    /\ request[t].at \notin {"new", "reserved", "found"}
    /\ worker[t] # "sent"
    /\ \A c \in Conns : \A i \in 1 .. Len(queue[c]) : ~AckOf(queue[c][i], t)

\* The mail about a task is in the queue of its socket, after the dispatch,
\* with the acks ahead of the answers; once a result is finalized there is
\* no ack left.
MailInv ==
    /\ \A t \in Tasks :
        /\ worker[t] # "none" => request[t].session # None
        /\ request[t].at \in {"new", "reserved", "found"} => worker[t] = "none"
        /\ journal.status[t] = "complete" => Quiet(t)
    /\ \A c \in Conns : final[c].step # "idle" => Quiet(final[c].task)
    /\ \A c \in Conns : \A i \in 1 .. Len(queue[c]) : \A t \in Tasks :
        AckOf(queue[c][i], t) \/ AnswerOf(queue[c][i], t) =>
            /\ worker[t] \in {"acked", "answered"} /\ SocketOf(t) = c
    /\ \A c \in Conns : \A i, j \in 1 .. Len(queue[c]) : \A t \in Tasks :
        AnswerOf(queue[c][i], t) /\ AckOf(queue[c][j], t) => j < i

\* Who writes a queue.
LEMMA QueueChanges ==
    ASSUME TypeOK, HomeInv, MailInv, Next, NEW c \in Conns
    PROVE  \/ queue'[c] \in {queue[c], <<>>}
           \/ queue[c] # <<>> /\ queue'[c] = Tail(queue[c])
           \/ \E m \in Messages : m.kind = "beat" /\ queue'[c] = Append(queue[c], m)
           \/ \E t \in Tasks : \E kind \in Answers :
                /\ queue'[c] = Append(queue[c], [kind |-> kind, task |-> t])
                /\ SocketOf(t) = c /\ worker[t] # "none"
                /\ worker'[t] \in {"acked", "answered"}
                /\ kind \in {"ack", "nack"} => worker[t] = "sent"
<1> DEFINE Goal ==
           \/ queue'[c] \in {queue[c], <<>>}
           \/ queue[c] # <<>> /\ queue'[c] = Tail(queue[c])
           \/ \E m \in Messages : m.kind = "beat" /\ queue'[c] = Append(queue[c], m)
           \/ \E t \in Tasks : \E kind \in Answers :
                /\ queue'[c] = Append(queue[c], [kind |-> kind, task |-> t])
                /\ SocketOf(t) = c /\ worker[t] # "none"
                /\ worker'[t] \in {"acked", "answered"}
                /\ kind \in {"ack", "nack"} => worker[t] = "sent"
<1> SUFFICES Goal
  OBVIOUS
<1>1. /\ queue \in [Conns -> Seq(Messages)]
      /\ worker \in [Tasks -> {"none", "sent", "acked", "answered"}]
  BY DEF TypeOK
<1>2. ASSUME NEW d \in Conns, Heartbeat(d) \/ DispatchAck(d) \/ FinalizeValidate(d)
      PROVE  Goal
  <2>1. queue' = [queue EXCEPT ![d] = Tail(@)] /\ queue[d] # <<>>
    BY <1>2 DEF Heartbeat, DispatchAck, FinalizeValidate, Reading
  <2> QED
    BY <1>1, <2>1
<1>3. ASSUME NEW d \in Conns, HangUp(d)
      PROVE  Goal
  BY <1>1, <1>3 DEF HangUp
<1>4. ASSUME NEW d \in Conns, NEW n \in 0 .. MaxConcurrency, Beat(d, n)
      PROVE  Goal
  <2> DEFINE m == [kind |-> "beat", n |-> IF conn[d].legacy THEN 0 ELSE n]
  <2>1. m \in Messages /\ m.kind = "beat"
    BY SMTT(30), MeshAssumption DEF Messages
  <2>2. queue' = [queue EXCEPT ![d] = Append(@, m)]
    BY <1>4 DEF Beat, Send
  <2> HIDE DEF m
  <2> QED
    BY <1>1, <2>1, <2>2
<1>5. ASSUME NEW t \in Tasks, NEW kind \in Answers, Ack(t, kind) \/ Answer(t, kind),
             kind \in {"ack", "nack"} => worker[t] = "sent"
      PROVE  Goal
  <2>1. /\ queue' = [queue EXCEPT ![SocketOf(t)] = Append(@, [kind |-> kind, task |-> t])]
        /\ worker[t] # "none"
    BY <1>5 DEF Ack, Answer, Send
  <2>2. worker'[t] \in {"acked", "answered"}
    BY <1>1, <1>5 DEF Ack, Answer
  <2>3. CASE SocketOf(t) = c
    <3>1. queue'[c] = Append(queue[c], [kind |-> kind, task |-> t])
      BY <1>1, <2>1, <2>3
    <3> QED
      BY <1>5, <2>1, <2>2, <2>3, <3>1
  <2>4. CASE SocketOf(t) # c
    BY <1>1, <2>1, <2>4
  <2> QED
    BY <2>3, <2>4
<1>6. CASE Crash
  BY <1>6 DEF Crash
<1>7. ASSUME NEW d \in Conns, InsertSender(d) \/ RemoveSender(d) \/ RemoveSession(d)
                              \/ FinalizeRecord(d) \/ FinalizeComplete(d)
      PROVE  UNCHANGED queue
  BY <1>7, Zenon DEF InsertSender, RemoveSender, RemoveSession, FinalizeRecord,
                     FinalizeComplete
<1>8. ASSUME NEW d \in Conns, SocketNext(d)
      PROVE  Goal
  BY <1>2, <1>7, <1>8 DEF SocketNext
<1>9. ASSUME NEW d \in Conns, Connect(d) \/ WriterEnds(d) \/ \E s \in Sessions : Register(d, s)
      PROVE  UNCHANGED queue
  BY <1>9, Zenon DEF Connect, WriterEnds, Register
<1>10. CASE \/ \E x \in Sessions \cup Tasks : Expire(x)
            \/ \E s \in Sessions : RecoverSession(s)
            \/ \E u \in Tasks : \/ RequestNext(u) \/ NoWorker(u) \/ RecoverLease(u)
                                \/ \E s \in Sessions : Reserve(u, s)
            \/ Start \/ Serve \/ StartFails
  <2>1. UNCHANGED queue
    BY <1>10, Zenon DEF Expire, RecoverSession, RequestNext, Lookup, Dispatch, NoWorker,
          RecoverLease, Reserve, Start, Serve, StartFails
  <2> QED
    BY <2>1
<1>11. ASSUME NEW t \in Tasks, \/ \E kind \in {"ack", "nack"} : Ack(t, kind)
                               \/ \E kind \in Answers \ {"ack", "nack"} : Answer(t, kind)
       PROVE  \E kind \in Answers : /\ Ack(t, kind) \/ Answer(t, kind)
                                    /\ kind \in {"ack", "nack"} => worker[t] = "sent"
  BY <1>11 DEF Ack, Answers
<1>12. CASE WorkerNext
  <2>1. CASE \E d \in Conns : \/ Connect(d) \/ WriterEnds(d) \/ HangUp(d)
                              \/ \E s \in Sessions : Register(d, s)
                              \/ \E n \in 0 .. MaxConcurrency : Beat(d, n)
    BY <1>3, <1>4, <1>9, <2>1
  <2>2. CASE \E t \in Tasks : \/ \E kind \in {"ack", "nack"} : Ack(t, kind)
                              \/ \E kind \in Answers \ {"ack", "nack"} : Answer(t, kind)
    BY <1>5, <1>11, <2>2
  <2> QED
    BY <1>12, <2>1, <2>2 DEF WorkerNext
<1> HIDE DEF Goal
<1> QED
  BY <1>6, <1>8, <1>10, <1>12 DEF Next

LEMMA WorkerChanges ==
    ASSUME TypeOK, Next, NEW t \in Tasks
    PROVE  \/ worker'[t] = worker[t]
           \/ Dispatch(t) \/ Crash
           \/ worker[t] # "none" /\ worker'[t] \in {"acked", "answered"}
<1> DEFINE Goal == \/ worker'[t] = worker[t]
                   \/ Dispatch(t) \/ Crash
                   \/ worker[t] # "none" /\ worker'[t] \in {"acked", "answered"}
<1> SUFFICES Goal
  OBVIOUS
<1>1. worker \in [Tasks -> {"none", "sent", "acked", "answered"}]
  BY DEF TypeOK
<1>2. ASSUME NEW u \in Tasks, NEW kind \in Answers, Ack(u, kind) \/ Answer(u, kind)
      PROVE  Goal
  BY <1>1, <1>2 DEF Ack, Answer
<1>3. ASSUME NEW u \in Tasks, Dispatch(u)
      PROVE  Goal
  BY <1>1, <1>3 DEF Dispatch
<1>4. CASE \/ \E c \in Conns : \/ SocketNext(c) \/ Connect(c) \/ WriterEnds(c) \/ HangUp(c)
                               \/ \E s \in Sessions : Register(c, s)
                               \/ \E n \in 0 .. MaxConcurrency : Beat(c, n)
  <2>1. UNCHANGED worker
    BY <1>4, ZenonT(30) DEF SocketNext, InsertSender, RemoveSender, RemoveSession, Heartbeat,
       DispatchAck, FinalizeValidate, FinalizeRecord, FinalizeComplete, Connect,
       WriterEnds, HangUp, Register, Beat
  <2> QED
    BY <2>1
<1>5. CASE \/ \E x \in Sessions \cup Tasks : Expire(x)
           \/ \E s \in Sessions : RecoverSession(s)
           \/ \E u \in Tasks : \/ Lookup(u) \/ NoWorker(u) \/ RecoverLease(u)
                               \/ \E s \in Sessions : Reserve(u, s)
           \/ Start \/ Serve \/ StartFails
  <2>1. UNCHANGED worker
    BY <1>5, Zenon DEF Expire, RecoverSession, Lookup, NoWorker, RecoverLease, Reserve,
          Start, Serve, StartFails
  <2> QED
    BY <2>1
<1>6. CASE Crash
  BY <1>6
<1> HIDE DEF Goal
<1>7. {"ack", "nack"} \subseteq Answers
  BY DEF Answers
<1>8. CASE WorkerNext
  BY <1>2, <1>4, <1>7, <1>8 DEF WorkerNext
<1>9. CASE \E u \in Tasks : RequestNext(u)
  BY <1>3, <1>5, <1>9 DEF RequestNext
<1> QED
  BY <1>4, <1>5, <1>6, <1>8, <1>9 DEF Next

\* A request past its dispatch stays past it.
LEMMA DispatchedStays ==
    ASSUME TypeOK, Next, NEW t \in Tasks,
           request'[t].at \in {"new", "reserved", "found"}
    PROVE  request[t].at \in {"new", "reserved", "found"} /\ ~Dispatch(t)
<1>1. request \in [Tasks -> Requests]
  BY DEF TypeOK
<1>2. CASE Dispatch(t)
  BY <1>1, <1>2 DEF Dispatch, Requests
<1>3. CASE ~Dispatch(t)
  <2>1. CASE \E s \in Sessions : Reserve(t, s)
    BY <2>1, <1>3 DEF Reserve
  <2>2. CASE NoWorker(t) \/ Lookup(t)
    BY <1>1, <1>3, <2>2 DEF NoWorker, Lookup, Requests
  <2>3. CASE Crash
    BY <1>1, <1>3, <2>3 DEF Crash, Requests
  <2> QED
    BY <1>3, <2>1, <2>2, <2>3, RequestChanges
<1> QED
  BY <1>2, <1>3

\* A queue with its head taken off, and with a message added.
LEMMA TailOfQueue ==
    ASSUME NEW q \in Seq(Messages), q # <<>>
    PROVE  /\ Len(Tail(q)) = Len(q) - 1 /\ Len(q) \in Nat
           /\ \A k \in 1 .. Len(Tail(q)) : Tail(q)[k] = q[k + 1]
BY SMTT(30)

LEMMA AppendToQueue ==
    ASSUME NEW q \in Seq(Messages), NEW m
    PROVE  /\ Len(Append(q, m)) = Len(q) + 1 /\ Len(q) \in Nat
           /\ \A k \in 1 .. Len(q) : Append(q, m)[k] = q[k]
           /\ Append(q, m)[Len(q) + 1] = m
BY SMTT(30)

\* Positions in a queue.
LEMMA Shifted ==
    ASSUME NEW n \in Nat, NEW m, m = n - 1, NEW i \in 1 .. m
    PROVE  i + 1 \in 1 .. n
BY SMTT(30)

LEMMA InOrLast ==
    ASSUME NEW n \in Nat, NEW i \in 1 .. (n + 1)
    PROVE  i \in 1 .. n \/ i = n + 1
BY SMTT(30)

LEMMA NoMailInEmpty == \A i \in 1 .. Len(<<>>) : FALSE
BY SMTT(30)

\* Where the mail of the next state comes from.
LEMMA MailSource ==
    ASSUME TypeOK, HomeInv, MailInv, Next, NEW c \in Conns,
           NEW i \in 1 .. Len(queue'[c]), NEW t \in Tasks,
           AckOf(queue'[c][i], t) \/ AnswerOf(queue'[c][i], t)
    PROVE  \/ \E k \in 1 .. Len(queue[c]) : queue'[c][i] = queue[c][k]
           \/ /\ SocketOf(t) = c /\ worker[t] # "none"
              /\ worker'[t] \in {"acked", "answered"}
              /\ AckOf(queue'[c][i], t) => worker[t] = "sent"
<1>1. queue[c] \in Seq(Messages)
  BY DEF TypeOK
<1>2. CASE queue'[c] \in {queue[c], <<>>}
  <2>1. CASE queue'[c] = queue[c]
    BY <2>1, Zenon
  <2>2. CASE queue'[c] = <<>>
    BY <2>2, NoMailInEmpty, Zenon
  <2> QED
    BY <1>2, <2>1, <2>2, Zenon
<1>3. CASE queue[c] # <<>> /\ queue'[c] = Tail(queue[c])
  <2>1. /\ Len(queue'[c]) = Len(queue[c]) - 1 /\ Len(queue[c]) \in Nat
        /\ \A k \in 1 .. Len(queue'[c]) : queue'[c][k] = queue[c][k + 1]
    BY <1>1, <1>3, TailOfQueue, Zenon
  <2>2. i + 1 \in 1 .. Len(queue[c]) /\ queue'[c][i] = queue[c][i + 1]
    BY <2>1, Shifted, Zenon
  <2> QED
    BY <2>2
<1>4. ASSUME NEW m, queue'[c] = Append(queue[c], m)
      PROVE  (\E k \in 1 .. Len(queue[c]) : queue'[c][i] = queue[c][k]) \/ queue'[c][i] = m
  <2>1. /\ Len(Append(queue[c], m)) = Len(queue[c]) + 1 /\ Len(queue[c]) \in Nat
        /\ \A k \in 1 .. Len(queue[c]) : Append(queue[c], m)[k] = queue[c][k]
        /\ Append(queue[c], m)[Len(queue[c]) + 1] = m
    BY <1>1, AppendToQueue
  <2>2. i \in 1 .. Len(queue[c]) \/ i = Len(queue[c]) + 1
    <3>1. i \in 1 .. (Len(queue[c]) + 1)
      BY <1>4, <2>1, Zenon
    <3> QED
      BY <2>1, <3>1, InOrLast, Zenon
  <2> QED
    BY <1>4, <2>1, <2>2, Zenon
<1>5. CASE \E m \in Messages : m.kind = "beat" /\ queue'[c] = Append(queue[c], m)
  BY <1>4, <1>5 DEF AckOf, AnswerOf, Answers
<1>6. ASSUME NEW u \in Tasks, NEW kind \in Answers,
             queue'[c] = Append(queue[c], [kind |-> kind, task |-> u]),
             SocketOf(u) = c, worker[u] # "none", worker'[u] \in {"acked", "answered"},
             kind \in {"ack", "nack"} => worker[u] = "sent"
      PROVE  \/ \E k \in 1 .. Len(queue[c]) : queue'[c][i] = queue[c][k]
             \/ /\ SocketOf(t) = c /\ worker[t] # "none"
                /\ worker'[t] \in {"acked", "answered"}
                /\ AckOf(queue'[c][i], t) => worker[t] = "sent"
  <2>1. CASE queue'[c][i] = [kind |-> kind, task |-> u]
    <3>1. u = t /\ (AckOf(queue'[c][i], t) => kind \in {"ack", "nack"})
      <4>1. queue'[c][i].kind = kind /\ queue'[c][i].task = u
        <5>1. /\ [kind |-> kind, task |-> u].kind = kind
              /\ [kind |-> kind, task |-> u].task = u
          OBVIOUS
        <5> QED
          BY <2>1, <5>1, Zenon
      <4> QED
        BY <4>1, Zenon DEF AckOf, AnswerOf
    <3> QED
      BY <1>6, <3>1
  <2> QED
    BY <1>4, <1>6, <2>1
<1> QED
  BY <1>2, <1>3, <1>5, <1>6, QueueChanges

LEMMA QuietStays ==
    ASSUME TypeOK, HomeInv, MailInv, Next, NEW t \in Tasks, Quiet(t)
    PROVE  Quiet(t)'
<1>1. request'[t].at \notin {"new", "reserved", "found"}
  BY DispatchedStays DEF Quiet
<1>2. worker'[t] # "sent"
  <2>1. ~Dispatch(t)
    BY DEF Dispatch, Quiet
  <2> QED
    BY <2>1, WorkerChanges DEF Quiet, Crash
<1>3. ASSUME NEW c \in Conns, NEW i \in 1 .. Len(queue'[c])
      PROVE  ~AckOf(queue'[c][i], t)
  <2> SUFFICES ASSUME AckOf(queue'[c][i], t) PROVE FALSE
    OBVIOUS
  <2>1. (\E k \in 1 .. Len(queue[c]) : queue'[c][i] = queue[c][k]) \/ worker[t] = "sent"
    BY MailSource
  <2> QED
    BY <2>1 DEF Quiet
<1> QED
  BY <1>1, <1>2, <1>3 DEF Quiet

\* After an answer is taken from its queue no ack of its task is left.
LEMMA QuietAfterAnswer ==
    ASSUME TypeOK, HomeInv, MailInv, NEW c \in Conns, FinalizeValidate(c),
           Task(c) \in Tasks, NEW t, t = Task(c)
    PROVE  Quiet(t)'
<1>1. /\ queue[c] # <<>> /\ queue[c] \in Seq(Messages)
      /\ Head(queue[c]).kind \in Answers \ {"ack", "nack"}
      /\ queue' = [queue EXCEPT ![c] = Tail(@)]
      /\ queue \in [Conns -> Seq(Messages)]
      /\ UNCHANGED <<request, worker>>
  BY DEF FinalizeValidate, Reading, TypeOK
<1>2. 1 \in 1 .. Len(queue[c]) /\ AnswerOf(queue[c][1], t)
  <2>1. Len(queue[c]) \in Nat \ {0} /\ Head(queue[c]) = queue[c][1]
    BY SMTT(30), <1>1
  <2> QED
    BY SMTT(30), <1>1, <2>1 DEF AnswerOf, Task
<1>3. worker[t] \in {"acked", "answered"} /\ SocketOf(t) = c
  BY <1>2 DEF MailInv
<1>4. request[t].at \notin {"new", "reserved", "found"}
  BY <1>3 DEF MailInv
<1>5. ASSUME NEW d \in Conns, NEW i \in 1 .. Len(queue'[d]), AckOf(queue'[d][i], t)
      PROVE  FALSE
  <2>1. CASE d # c
    <3>1. queue'[d] = queue[d]
      BY <1>1, <2>1
    <3>2. SocketOf(t) = d
      BY <1>5, <3>1 DEF MailInv
    <3> QED
      BY <1>3, <2>1, <3>2
  <2>2. CASE d = c
    <3>1. queue'[c] = Tail(queue[c])
      BY <1>1
    <3>2. /\ Len(queue'[c]) = Len(queue[c]) - 1 /\ Len(queue[c]) \in Nat
          /\ \A k \in 1 .. Len(queue'[c]) : queue'[c][k] = queue[c][k + 1]
      BY <1>1, <3>1, TailOfQueue, Zenon
    <3>3. i + 1 \in 1 .. Len(queue[c]) /\ AckOf(queue[c][i + 1], t)
      <4>1. i \in 1 .. Len(queue'[c]) /\ AckOf(queue'[c][i], t)
        BY <1>5, <2>2, Zenon
      <4>2. i + 1 \in 1 .. Len(queue[c])
        BY <3>2, <4>1, Shifted, Zenon
      <4> QED
        BY <3>2, <4>1, <4>2, Zenon
    <3>4. i + 1 < 1
      BY <1>2, <3>3 DEF MailInv
    <3> QED
      BY SMTT(30), <2>2, <3>2, <3>4
  <2> QED
    BY <2>1, <2>2
<1> QED
  BY <1>1, <1>3, <1>4, <1>5 DEF Quiet

LEMMA MailStep ==
    ASSUME TypeOK, HomeInv, MailInv, [Next]_vars
    PROVE  MailInv'
<1>1. CASE UNCHANGED vars
  BY <1>1 DEF vars, registry, MailInv, Quiet, SocketOf
<1>2. CASE Next
  <2>1. ASSUME NEW t \in Tasks
        PROVE  worker'[t] # "none" => request'[t].session # None
    <3>1. CASE Crash
      BY <3>1 DEF Crash
    <3>2. CASE worker[t] # "none"
      BY <1>2, <3>2, RequestStays DEF MailInv
    <3>3. CASE Dispatch(t)
      <4>1. request[t].session # None
        BY <3>3 DEF Dispatch, HomeInv
      <4> QED
        BY <4>1, RequestStays
    <3> QED
      BY <1>2, <3>1, <3>2, <3>3, WorkerChanges
  <2>2. ASSUME NEW t \in Tasks, request'[t].at \in {"new", "reserved", "found"}
        PROVE  worker'[t] = "none"
    <3>1. request[t].at \in {"new", "reserved", "found"} /\ ~Dispatch(t)
      BY <1>2, <2>2, DispatchedStays
    <3>2. worker[t] = "none"
      BY <3>1 DEF MailInv
    <3> QED
      BY <1>2, <3>1, <3>2, WorkerChanges DEF Crash
  <2>3. final \in [Conns -> Finals] /\ \A c \in Conns : final[c].task \in Tasks
    <3>1. final \in [Conns -> Finals]
      BY DEF TypeOK
    <3> QED
      BY <3>1 DEF Finals
  <2>4. ASSUME NEW t \in Tasks, journal'.status[t] = "complete"
        PROVE  Quiet(t)'
    <3>1. ASSUME NEW c \in Conns, FinalizeRecord(c), final[c].task = t
          PROVE  Quiet(t)
      BY <3>1 DEF FinalizeRecord, MailInv
    <3>2. Quiet(t)
      BY <1>2, <2>4, <3>1, StatusChanges DEF MailInv
    <3> QED
      BY <1>2, <3>2, QuietStays
  <2>5. ASSUME NEW c \in Conns, final'[c].step # "idle", NEW t \in Tasks,
               final'[c].task = t
        PROVE  Quiet(t)'
    <3>1. CASE final[c].step # "idle" /\ final[c].task = t
      BY <1>2, <3>1, QuietStays DEF MailInv
    <3>2. CASE FinalizeValidate(c)
      <4>1. \/ final'[c] = final[c]
            \/ Task(c) \in Tasks /\ final'[c].task = Task(c)
        BY <3>2, ValidatedAtHome, Zenon
      <4>2. CASE final'[c] = final[c]
        <5>1. final[c].step # "idle" /\ final[c].task = t
          BY SMTT(30), <2>5, <4>2
        <5> QED
          BY <3>1, <5>1
      <4>3. CASE Task(c) \in Tasks /\ final'[c].task = Task(c)
        <5>1. t = Task(c)
          BY <2>5, <4>3, Zenon
        <5> QED
          BY <3>2, <4>3, <5>1, QuietAfterAnswer, SMTT(30)
      <4> QED
        BY <4>1, <4>2, <4>3, Zenon
    <3>3. CASE FinalizeRecord(c)
      <4>1. final[c].step = "valid" /\ final[c].task = t
        BY <2>3, <2>5, <3>3 DEF FinalizeRecord, Finals
      <4> QED
        BY <3>1, <4>1
    <3>4. CASE FinalizeComplete(c) \/ Crash
      <4>1. final'[c] = Idle
        BY <2>3, <3>4 DEF FinalizeComplete, Crash
      <4>2. Idle.step = "idle"
        BY DEF Idle
      <4> QED
        BY <2>5, <4>1, <4>2, Zenon
    <3> QED
      BY <1>2, <2>5, <3>1, <3>2, <3>3, <3>4, FinalChanges, SMTT(30)
  <2>6. ASSUME NEW c \in Conns, NEW i \in 1 .. Len(queue'[c]), NEW t \in Tasks,
               AckOf(queue'[c][i], t) \/ AnswerOf(queue'[c][i], t)
        PROVE  worker'[t] \in {"acked", "answered"} /\ SocketOf(t)' = c
    <3>1. CASE /\ SocketOf(t) = c /\ worker[t] # "none"
               /\ worker'[t] \in {"acked", "answered"}
      BY <1>2, <3>1, RequestStays DEF MailInv
    <3>2. CASE \E k \in 1 .. Len(queue[c]) : queue'[c][i] = queue[c][k]
      <4>1. worker[t] \in {"acked", "answered"} /\ SocketOf(t) = c
        BY <2>6, <3>2 DEF MailInv
      <4>2. SocketOf(t)' = c
        BY <1>2, <4>1, RequestStays DEF MailInv
      <4>3. ~Crash
        <5>1. SUFFICES ASSUME Crash PROVE FALSE
          OBVIOUS
        <5>2. queue'[c] = <<>>
          BY <5>1 DEF Crash
        <5> QED
          BY SMTT(30), <5>2
      <4>4. ~Dispatch(t)
        BY <4>1 DEF Dispatch, MailInv
      <4> QED
        BY <1>2, <4>1, <4>2, <4>3, <4>4, WorkerChanges
    <3> QED
      BY <1>2, <2>6, <3>1, <3>2, MailSource
  <2>7. ASSUME NEW c \in Conns, NEW i \in 1 .. Len(queue'[c]),
               NEW j \in 1 .. Len(queue'[c]), NEW t \in Tasks,
               AnswerOf(queue'[c][i], t), AckOf(queue'[c][j], t)
        PROVE  j < i
    <3>1. queue[c] \in Seq(Messages)
      BY DEF TypeOK
    <3>2. \A k, l \in 1 .. Len(queue[c]) :
            AnswerOf(queue[c][k], t) /\ AckOf(queue[c][l], t) => l < k
      BY DEF MailInv
    <3>3. CASE queue'[c] \in {queue[c], <<>>}
      <4>1. CASE queue'[c] = queue[c]
        BY <2>7, <3>2, <4>1, Zenon
      <4>2. CASE queue'[c] = <<>>
        BY <4>2, NoMailInEmpty, Zenon
      <4> QED
        BY <3>3, <4>1, <4>2, Zenon
    <3>4. CASE queue[c] # <<>> /\ queue'[c] = Tail(queue[c])
      <4>1. /\ Len(queue'[c]) = Len(queue[c]) - 1 /\ Len(queue[c]) \in Nat
            /\ \A k \in 1 .. Len(queue'[c]) : queue'[c][k] = queue[c][k + 1]
        BY <3>1, <3>4, TailOfQueue, Zenon
      <4>2. i + 1 \in 1 .. Len(queue[c]) /\ j + 1 \in 1 .. Len(queue[c])
        BY <4>1, Shifted, Zenon
      <4>3. AnswerOf(queue[c][i + 1], t) /\ AckOf(queue[c][j + 1], t)
        BY <2>7, <4>1, Zenon
      <4>4. j + 1 < i + 1
        BY <3>2, <4>2, <4>3
      <4> QED
        BY SMTT(30), <4>4
    <3>5. ASSUME NEW m, queue'[c] = Append(queue[c], m)
          PROVE  /\ Len(queue'[c]) = Len(queue[c]) + 1 /\ Len(queue[c]) \in Nat
                 /\ \A k \in 1 .. Len(queue[c]) : queue'[c][k] = queue[c][k]
                 /\ queue'[c][Len(queue[c]) + 1] = m
      <4>1. /\ Len(Append(queue[c], m)) = Len(queue[c]) + 1 /\ Len(queue[c]) \in Nat
            /\ \A k \in 1 .. Len(queue[c]) : Append(queue[c], m)[k] = queue[c][k]
            /\ Append(queue[c], m)[Len(queue[c]) + 1] = m
        BY <3>1, AppendToQueue
      <4> QED
        BY <3>5, <4>1, Zenon
    <3>6. CASE \E m \in Messages : m.kind = "beat" /\ queue'[c] = Append(queue[c], m)
      <4>1. PICK m \in Messages : m.kind = "beat" /\ queue'[c] = Append(queue[c], m)
        BY <3>6
      <4>2. ~AnswerOf(m, t) /\ ~AckOf(m, t)
        BY <4>1 DEF AnswerOf, AckOf, Answers
      <4>3. i \in 1 .. Len(queue[c]) /\ j \in 1 .. Len(queue[c])
        BY <2>7, <3>5, <4>1, <4>2, SMTT(30)
      <4> QED
        BY <2>7, <3>2, <3>5, <4>1, <4>3
    <3>7. ASSUME NEW u \in Tasks, NEW kind \in Answers,
                 queue'[c] = Append(queue[c], [kind |-> kind, task |-> u]),
                 kind \in {"ack", "nack"} => worker[u] = "sent"
          PROVE  j < i
      <4> DEFINE m == [kind |-> kind, task |-> u]
      <4>1. /\ Len(queue'[c]) = Len(queue[c]) + 1 /\ Len(queue[c]) \in Nat
            /\ \A k \in 1 .. Len(queue[c]) : queue'[c][k] = queue[c][k]
            /\ queue'[c][Len(queue[c]) + 1] = m
        BY <3>5, <3>7
      <4>2. CASE j \in 1 .. Len(queue[c]) /\ i \in 1 .. Len(queue[c])
        BY <2>7, <3>2, <4>1, <4>2
      <4>3. CASE j \in 1 .. Len(queue[c]) /\ i = Len(queue[c]) + 1
        BY <4>1, <4>3, SMTT(30)
      <4>4. CASE j = Len(queue[c]) + 1
        <5>1. u = t /\ kind \in {"ack", "nack"}
          BY <2>7, <4>1, <4>4, SMTT(30) DEF AckOf
        <5>2. worker[t] = "sent"
          BY <3>7, <5>1
        <5>3. i # j
          BY <2>7 DEF AckOf, AnswerOf
        <5>4. i \in 1 .. Len(queue[c]) /\ AnswerOf(queue[c][i], t)
          BY <2>7, <4>1, <4>4, <5>3, SMTT(30)
        <5>5. worker[t] \in {"acked", "answered"}
          BY <5>4 DEF MailInv
        <5> QED
          BY <5>2, <5>5
      <4> QED
        BY SMTT(30), <4>1, <4>2, <4>3, <4>4
    <3>8. CASE \E u \in Tasks : \E kind \in Answers :
                /\ queue'[c] = Append(queue[c], [kind |-> kind, task |-> u])
                /\ SocketOf(u) = c /\ worker[u] # "none"
                /\ worker'[u] \in {"acked", "answered"}
                /\ kind \in {"ack", "nack"} => worker[u] = "sent"
      <4>1. PICK u \in Tasks : \E kind \in Answers :
                /\ queue'[c] = Append(queue[c], [kind |-> kind, task |-> u])
                /\ kind \in {"ack", "nack"} => worker[u] = "sent"
        BY <3>8, Zenon
      <4>2. PICK kind \in Answers :
                /\ queue'[c] = Append(queue[c], [kind |-> kind, task |-> u])
                /\ kind \in {"ack", "nack"} => worker[u] = "sent"
        BY <4>1, Zenon
      <4> QED
        BY <3>7, <4>2
    <3> QED
      BY <1>2, <3>3, <3>4, <3>6, <3>8, QueueChanges
  <2>8. \A c \in Conns : final'[c].task \in Tasks
    <3>1. final' \in [Conns -> Finals]
      BY TypeStep DEF TypeOK
    <3> QED
      BY <3>1 DEF Finals
  <2> QED
    BY <2>1, <2>2, <2>4, <2>5, <2>6, <2>7, <2>8 DEF MailInv, Quiet
<1> QED
  BY <1>1, <1>2

LEMMA FinalStep ==
    ASSUME TypeOK, RestInv, LeaseInv, HomeInv, DoneInv, MailInv, [Next]_vars,
           NEW t \in Tasks
    PROVE  /\ journal.lease[t] \in LeaseRows \ (Live \cup {"none"})
                => journal'.lease[t] = journal.lease[t]
           /\ journal.status[t] = "complete" => journal'.status[t] = "complete"
<1>1. CASE UNCHANGED vars
  BY <1>1 DEF vars
<1>2. CASE Next
  <2>1. ASSUME journal.lease[t] \in LeaseRows \ (Live \cup {"none"})
        PROVE  journal'.lease[t] = journal.lease[t]
    <3>1. lease[t] = None /\ request[t].at # "new"
      BY <2>1 DEF LeaseInv
    <3>2. CASE Crash
      BY <3>2 DEF Crash
    <3>3. ~RecoverLease(t)
      <4>1. t \notin recovery.leases
        BY <2>1 DEF RestInv
      <4> QED
        BY <4>1 DEF RecoverLease
    <3>4. CASE ~Crash
      <4>1. Kept(t) \/ Issued(t) \/ Acked(t) \/ Ended(t) \/ RecoverLease(t)
        BY <1>2, <3>4, Effects, MeshAssumption
      <4> QED
        BY <3>1, <3>3, <4>1 DEF Kept, Issued, Acked, Ended
    <3> QED
      BY <3>2, <3>4
  <2>2. ASSUME journal.status[t] = "complete"
        PROVE  journal'.status[t] = "complete"
    <3>1. ASSUME NEW c \in Conns, DispatchAck(c), Task(c) = t
          PROVE  FALSE
      <4>1. /\ queue[c] # <<>> /\ queue[c] \in Seq(Messages)
            /\ Head(queue[c]).kind \in {"ack", "nack"}
        BY <3>1 DEF DispatchAck, Reading, TypeOK
      <4>2. 1 \in 1 .. Len(queue[c]) /\ Head(queue[c]) = queue[c][1]
        <5>1. Len(queue[c]) \in Nat \ {0} /\ Head(queue[c]) = queue[c][1]
          BY SMTT(30), <4>1
        <5> QED
          BY SMTT(30), <5>1
      <4>3. AckOf(queue[c][1], t)
        BY <3>1, <4>1, <4>2 DEF AckOf, Task
      <4>4. Quiet(t)
        BY <2>2 DEF MailInv
      <4> QED
        BY <4>2, <4>3, <4>4 DEF Quiet
    <3>2. ASSUME NEW c \in Conns, FinalizeRecord(c), final[c].task = t
          PROVE  FALSE
      BY <2>2, <3>2 DEF FinalizeRecord, DoneInv
    <3> QED
      BY <1>2, <2>2, <3>1, <3>2, StatusChanges
  <2> QED
    BY <2>1, <2>2
<1> QED
  BY <1>1, <1>2

\* A lease that ended stays as it ended, over crashes and restarts, and a
\* task that was recorded complete is never recorded otherwise: the workers
\* ack before they answer, and a queue keeps their order.
THEOREM FinalIsFinalHolds == Spec => FinalIsFinal
<1> DEFINE IInv == RestInv /\ LeaseInv /\ HomeInv /\ DoneInv /\ MailInv
           Final == \A t \in Tasks :
                /\ journal.lease[t] \in LeaseRows \ (Live \cup {"none"})
                        => journal'.lease[t] = journal.lease[t]
                /\ journal.status[t] = "complete" => journal'.status[t] = "complete"
<1>1. Init => IInv
  <2>1. Init => HomeInv /\ DoneInv
    BY ReceiptsInit
  <2>2. Init => MailInv
    <3> SUFFICES ASSUME Init PROVE MailInv
      OBVIOUS
    <3>1. Idle.step = "idle" /\ Pending.at = "new"
      BY DEF Idle, Pending
    <3> QED
      BY FirstState, NoMailInEmpty, <3>1 DEF MailInv
  <2> QED
    BY <2>1, <2>2, MeshInit
<1>2. TypeOK /\ IInv /\ [Next]_vars => IInv'
  BY RestStep, LeaseStep, HomeStep, DoneStep, MailStep
<1>3. TypeOK /\ IInv /\ [Next]_vars => Final
  BY FinalStep
<1>4. TypeOK /\ IInv /\ [Next]_vars => [Final]_vars
  BY <1>3
<1> HIDE DEF IInv
<1> QED
  BY <1>1, <1>2, <1>4, MeshTypesCorrect, PTL DEF Spec, FinalIsFinal
=============================================================================
