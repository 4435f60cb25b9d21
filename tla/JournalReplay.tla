---------------------------- MODULE JournalReplay ----------------------------
(***************************************************************************)
(* OperatorSession::events_after (crates/heiwa_session/src/operator.rs):   *)
(* clients that poll one thread's rows.  A call pages through the whole    *)
(* stream, keeps the rows of the thread and returns at the limit or at the *)
(* end; the client keeps the cursor it got and calls again.  The number of *)
(* damaged lines in an answer is left out.                                 *)
(***************************************************************************)
EXTENDS OperatorJournal

CONSTANTS
    Thread,     \* the events of the thread that is polled
    PageSize,   \* PAGE_SIZE of events_after
    Limits      \* the limits clients pass (limit 0 reads nothing)

ASSUME PagingAssumption ==
    PageSize \in Nat \ {0} /\ Limits \subseteq Nat \ {0}

VARIABLES
    client    \* each client's call, and what it holds between calls

vars == <<journalVars, client>>

\* cursor and got are kept between calls, the others are a call's locals.
Idle == [at |-> "idle", limit |-> 0, collected |-> <<>>, cursor |-> None,
         got |-> <<>>]

Init == JournalInit /\ client = [r \in Readers |-> Idle]

TypeOK ==
    /\ JournalTypeOK
    /\ \A r \in Readers :
        /\ client[r].at \in {"idle", "reading"}
        /\ client[r].cursor \in Cursors \cup {None}
        /\ client[r].at = "reading" =>
               /\ client[r].limit \in Limits
               /\ Len(client[r].collected) < client[r].limit
        /\ client[r].got \in Seq(Thread)

EventsAfter(r, limit) ==
    /\ client[r].at = "idle"
    /\ Calls(r, client[r].cursor, PageSize)
    /\ client' = [client EXCEPT ![r] =
                    [@ EXCEPT !.at = "reading", !.limit = limit]]
    /\ UNCHANGED <<file, writer, used, acked, faults, replaced>>

-----------------------------------------------------------------------------
(* What a call does with the page it read.                                 *)

Page(r) == reader[r].page

HasPage(r) ==
    client[r].at = "reading" /\ reader[r].at = "done" /\ Page(r).status = "ok"

\* The page's rows of the thread, as positions in the page.
Matching(r) ==
    InOrder({n \in DOMAIN Page(r).events : Page(r).events[n].event \in Thread})

Collect(r, positions) ==
    client[r].collected
        \o [n \in DOMAIN positions |-> Page(r).events[positions[n]].event]

Room(r) == client[r].limit - Len(client[r].collected)

Answers(r, rows, next) ==
    /\ client' = [client EXCEPT ![r] =
                    [Idle EXCEPT !.cursor = next, !.got = client[r].got \o rows]]
    /\ reader' = [reader EXCEPT ![r] = NoRead]
    /\ UNCHANGED <<file, writer, used, acked, faults, replaced>>

\* Any error of read_after is the call's; the client keeps its cursor.
PageFails(r) ==
    /\ client[r].at = "reading"
    /\ reader[r].at = "done"
    /\ Page(r).status # "ok"
    /\ Answers(r, <<>>, client[r].cursor)

\* The end of the stream.
PageEmpty(r) ==
    /\ HasPage(r)
    /\ Page(r).events = <<>>
    /\ Answers(r, client[r].collected, Page(r).next)

\* Mutant of PageReachesLimit: the answer's cursor is the page's.
PageReachesLimitAtPageEnd(r) ==
    /\ HasPage(r)
    /\ Len(Matching(r)) >= Room(r)
    /\ Answers(r, Collect(r, SubSeq(Matching(r), 1, Room(r))), Page(r).next)

\* The limit-th match: the answer ends at that row.
PageReachesLimit(r) ==
    /\ HasPage(r)
    /\ Len(Matching(r)) >= Room(r)
    /\ Answers(r, Collect(r, SubSeq(Matching(r), 1, Room(r))),
               Page(r).events[Matching(r)[Room(r)]].cursor)

\* A whole page without reaching the limit: go on behind it.
PageScanned(r) ==
    /\ HasPage(r)
    /\ Page(r).events # <<>>
    /\ Len(Matching(r)) < Room(r)
    /\ Calls(r, Page(r).next, PageSize)
    /\ client' = [client EXCEPT ![r].collected = Collect(r, Matching(r))]
    /\ UNCHANGED <<file, writer, used, acked, faults, replaced>>

ClientStep(r) ==
    \/ \E limit \in Limits : EventsAfter(r, limit)
    \/ PageFails(r)
    \/ PageEmpty(r)
    \/ PageReachesLimit(r)
    \/ PageScanned(r)

Next ==
    \/ WriterNext /\ UNCHANGED client
    \/ \E r \in Readers : ReadStep(r) /\ UNCHANGED client
    \/ \E r \in Readers : ClientStep(r)

Spec == Init /\ [][Next]_vars

-----------------------------------------------------------------------------
(* Properties.                                                             *)

\* What a client got by polling is exactly the thread's rows up to its
\* cursor: no row is missed, repeated or out of order, whatever was torn,
\* repaired and written while it read (events_after advances over pages and
\* other threads' rows, and stops at the limit).
ReplayIsExact ==
    \A r \in Readers :
        client[r].got =
            EventsAt(file, {i \in ValidEnds(file) :
                              /\ i <= StartOf(client[r].cursor)
                              /\ EventAt(file, i) \in Thread})

\* A row whose append returned stays in the stream, although a later append
\* may find a torn line behind it and cut the file; and the cursor that the
\* append gave out can always be resumed from: it names the stream's anchor
\* and the end of a line that parses, also when the append wrote the first
\* row of the stream.
AcknowledgedIsDurable ==
    /\ {a.event : a \in acked} \subseteq {EventAt(file, i) : i \in ValidEnds(file)}
    /\ \A a \in acked : /\ a.cursor.offset \in ValidEnds(file)
                        /\ a.cursor.anchor = Anchor(file)

\* A file nobody replaces never fails a read with InvalidCursor or
\* UnstableLineage: read_after's three attempts are enough, and a cursor
\* that a page gave out, also while the stream got its first row, can always
\* be resumed from.
ReadsAreNotRefused ==
    /\ \A r \in Readers : reader[r].at = "done" =>
           Page(r).status \notin {"invalid", "unstable"}
    /\ \A r \in Readers : client[r].cursor # None =>
           /\ client[r].cursor.offset \in ValidEnds(file)
           /\ client[r].cursor.anchor = Anchor(file)
=============================================================================
