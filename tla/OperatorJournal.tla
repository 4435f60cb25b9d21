--------------------------- MODULE OperatorJournal ---------------------------
(***************************************************************************)
(* OperatorJournal (crates/heiwa_evidence/src/operator.rs): one JSONL file *)
(* that locked writers append to and lock-free readers page through.       *)
(*                                                                         *)
(* The file is a sequence of cells.  The line of event e is Size[e] cells  *)
(* <<e, 1>>, <<e, 2>>, ... and a newline, so a write can stop inside it,   *)
(* lines have different lengths, and a reader that took the length of the  *)
(* file earlier may cut a line that was written since.  The rows of a      *)
(* newer build whose event type this build does not know (Foreign) are     *)
(* lines that do not parse.  Event ids are unique: an event is appended    *)
(* once.  The sensitive-material and size gates of append refuse an event  *)
(* before the file is touched and are left out.                            *)
(*                                                                         *)
(* The stream lock admits one writer at a time, so one record holds the    *)
(* append in progress.  A reader runs one read_after call at a time; the   *)
(* modules that extend this one say who calls it and what for.             *)
(***************************************************************************)
EXTENDS Naturals, Sequences, FiniteSets, FiniteSetsExt

CONSTANTS
    Events,        \* operator events
    Foreign,       \* those whose lines this build cannot parse
    Size,          \* cells of an event's line before its newline
    Readers,       \* processes that read
    Chunk,         \* cells the buffered reader takes from the file at once
    MaxCorrupt,    \* MAX_OPERATOR_CORRUPT_LINES_PER_READ
    MaxFaults,     \* bound: appends that crash or report an error
    MaxReplaced,   \* bound: times the stream file is taken away
    None           \* an absent value; also the fingerprint "empty"

ASSUME SizeAssumption == Size \in [Events -> Nat \ {0}]

ASSUME ForeignAssumption == Foreign \subseteq Events /\ None \notin Events

ASSUME BoundsAssumption ==
    /\ Chunk \in Nat \ {0}
    /\ MaxCorrupt \in Nat
    /\ MaxFaults \in Nat
    /\ MaxReplaced \in Nat

\* Mutant of MaxAttempts: a changed lineage is never read again.
OneAttempt == 1

MaxAttempts == 3   \* MAX_OPERATOR_LINEAGE_READ_ATTEMPTS

VARIABLES
    file,      \* the cells of operator_events.jsonl
    writer,    \* the append that holds the stream lock
    used,      \* events that were handed to append
    acked,     \* [event, cursor] of the appends that returned
    reader,    \* each reader's read_after call
    faults,    \* failed appends so far
    replaced   \* replacements so far

journalVars == <<file, writer, used, acked, reader, faults, replaced>>

-----------------------------------------------------------------------------
(* Lines.                                                                  *)

NewLine == <<None, 0>>

Body(e) == [i \in 1..Size[e] |-> <<e, i>>]

Line(e) == Append(Body(e), NewLine)

\* Offsets just behind a newline: the boundaries of complete lines.
Ends(f) == {i \in DOMAIN f : f[i] = NewLine}

LastEnd(f) == Max(Ends(f) \cup {0})

\* Bytes behind the last newline: a torn line.
Torn(f) == Len(f) > LastEnd(f)

\* parse_operator_line on the complete line that ends at i.
EventAt(f, i) ==
    LET start == Max({j \in Ends(f) : j < i} \cup {0}) + 1
        e == f[start][1]
    IN IF e \in Events \ Foreign /\ SubSeq(f, start, i - 1) = Body(e)
       THEN e ELSE None

ValidEnds(f) == {i \in Ends(f) : EventAt(f, i) # None}

Damaged(f) == Ends(f) \ ValidEnds(f)

\* q lists the numbers of S in increasing order.
Lists(q, S) ==
    /\ \A m, n \in DOMAIN q : m < n => q[m] < q[n]
    /\ {q[n] : n \in DOMAIN q} = S

InOrder(S) == CHOOSE q \in [1..Cardinality(S) -> S] : Lists(q, S)

\* The events of the lines that end at these ends, in file order.
EventsAt(f, ends) == [n \in 1..Cardinality(ends) |-> EventAt(f, InOrder(ends)[n])]

\* What the stream says: its events in file order.
Log(f) == EventsAt(f, ValidEnds(f))

\* first_line_fingerprint: the first line that parses stands for its hash.
\* It gives up when more than MaxCorrupt lines, a torn one included, come
\* before it.
Anchor(f) ==
    IF ValidEnds(f) = {} THEN None ELSE EventAt(f, Min(ValidEnds(f)))

AnchorFails(f) ==
    Cardinality({i \in Damaged(f) : \A j \in ValidEnds(f) : i < j})
        + (IF ValidEnds(f) = {} /\ Torn(f) THEN 1 ELSE 0) > MaxCorrupt

-----------------------------------------------------------------------------
(* State.                                                                  *)

Cursors == [anchor : Events \cup {None}, offset : Nat]

ASSUME CursorAssumption == None \notin Cursors

NoPage == [status |-> "none", events |-> <<>>, next |-> None, skipped |-> 0]

NoAppend == [at |-> "idle", event |-> None, anchor |-> None, left |-> <<>>]

NoRead == [at |-> "idle", cursor |-> None, limit |-> 0, length |-> 0,
           anchor |-> None, attempt |-> 0, buf |-> <<>>, page |-> NoPage]

JournalTypeOK ==
    /\ \A i \in DOMAIN file : file[i] = NewLine
                              \/ file[i][2] \in 1..Size[file[i][1]]
    /\ writer.at \in {"idle", "repair", "write"}
    /\ used \subseteq Events
    /\ \A a \in acked : a.event \in used /\ a.cursor \in Cursors
    /\ \A r \in Readers :
        /\ reader[r].at \in {"idle", "length", "anchor", "page", "scan",
                             "verify", "done"}
        /\ reader[r].attempt \in 0..MaxAttempts
        /\ reader[r].page.status \in {"none", "ok", "invalid", "unstable",
                                      "error"}
    /\ faults \in 0..MaxFaults
    /\ replaced \in 0..MaxReplaced

JournalInit ==
    /\ file = <<>>
    /\ writer = NoAppend
    /\ used = {}
    /\ acked = {}
    /\ reader = [r \in Readers |-> NoRead]
    /\ faults = 0
    /\ replaced = 0

-----------------------------------------------------------------------------
(* append.                                                                 *)

\* Both locks are taken and the lineage is read.
LockStream(e) ==
    /\ writer.at = "idle"
    /\ e \in Events \ used
    /\ e \in Foreign \/ ~AnchorFails(file)
    /\ used' = used \cup {e}
    /\ writer' = [at |-> "repair", event |-> e, anchor |-> Anchor(file),
                  left |-> Line(e)]
    /\ UNCHANGED <<file, acked, reader, faults, replaced>>

\* Mutant of RepairTail: the line is appended to whatever is there.
SkipRepair ==
    /\ writer.at = "repair"
    /\ writer' = [writer EXCEPT !.at = "write"]
    /\ UNCHANGED <<file, used, acked, reader, faults, replaced>>

\* repair_unterminated_tail cuts a torn line off.
RepairTail ==
    /\ writer.at = "repair"
    /\ file' = SubSeq(file, 1, LastEnd(file))
    /\ writer' = [writer EXCEPT !.at = "write"]
    /\ UNCHANGED <<used, acked, reader, faults, replaced>>

\* write_all reaches the file piece by piece.
WriteCell ==
    /\ writer.at = "write"
    /\ writer.left # <<>>
    /\ file' = Append(file, Head(writer.left))
    /\ writer' = [writer EXCEPT !.left = Tail(@)]
    /\ UNCHANGED <<used, acked, reader, faults, replaced>>

\* The line is synced; the caller gets the cursor behind it.  (The cursor of
\* a newer build's append is that build's.)
AppendReturns ==
    /\ writer.at = "write"
    /\ writer.left = <<>>
    /\ acked' = IF writer.event \in Foreign THEN acked
                ELSE acked \cup
                     {[event |-> writer.event,
                       cursor |-> [anchor |-> IF writer.anchor = None
                                              THEN Anchor(file)
                                              ELSE writer.anchor,
                                   offset |-> Len(file)]]}
    /\ writer' = NoAppend
    /\ UNCHANGED <<file, used, reader, faults, replaced>>

\* The writer crashes, or a write or the sync fails: the caller has no
\* answer, the file keeps what was written and the lock is free.
AppendFails ==
    /\ writer.at # "idle"
    /\ faults < MaxFaults
    /\ faults' = faults + 1
    /\ writer' = NoAppend
    /\ UNCHANGED <<file, used, acked, reader, replaced>>

\* Somebody outside the program takes the file away while nothing appends.
ReplaceStream ==
    /\ writer.at = "idle"
    /\ file # <<>>
    /\ replaced < MaxReplaced
    /\ replaced' = replaced + 1
    /\ file' = <<>>
    /\ acked' = {}
    /\ UNCHANGED <<writer, used, reader, faults>>

WriterStep == RepairTail \/ WriteCell \/ AppendReturns

WriterNext ==
    \/ \E e \in Events : LockStream(e)
    \/ WriterStep
    \/ AppendFails

-----------------------------------------------------------------------------
(* read_after.                                                             *)

\* A call of read_after(cursor, limit).
Calls(r, cursor, limit) ==
    reader' = [reader EXCEPT ![r] =
                 [NoRead EXCEPT !.at = "length", !.cursor = cursor,
                                !.limit = limit, !.attempt = 1]]

Failed(status) == [NoPage EXCEPT !.status = status]

Returns(r, page) ==
    reader' = [reader EXCEPT ![r] =
                 [NoRead EXCEPT !.at = "done", !.page = page]]

\* The length and the fingerprint are two looks at the file.
ReadLength(r) ==
    /\ reader[r].at = "length"
    /\ reader' = [reader EXCEPT ![r] =
                    [@ EXCEPT !.at = "anchor", !.length = Len(file)]]
    /\ UNCHANGED <<file, writer, used, acked, faults, replaced>>

ReadAnchor(r) ==
    /\ reader[r].at = "anchor"
    /\ IF AnchorFails(file) THEN Returns(r, Failed("error"))
       ELSE reader' = [reader EXCEPT ![r] =
                         [@ EXCEPT !.at = "page", !.anchor = Anchor(file)]]
    /\ UNCHANGED <<file, writer, used, acked, faults, replaced>>

\* The page made of the cells buf read from offset start on: at most limit
\* events, and the damaged lines passed on the way; a torn line is one too if
\* the scan gets that far.
PageOf(buf, start, limit, anchor, cursor) ==
    LET valid == InOrder(ValidEnds(buf))
        full == Len(valid) >= limit
        rows == IF full THEN SubSeq(valid, 1, limit) ELSE valid
        events == [n \in 1..Len(rows) |->
                     [event |-> EventAt(buf, rows[n]),
                      cursor |-> [anchor |-> anchor,
                                  offset |-> start + rows[n]]]]
        passed == {i \in Damaged(buf) : full => i < valid[limit]}
        skipped == Cardinality(passed)
                       + (IF ~full /\ Torn(buf) THEN 1 ELSE 0)
    IN IF skipped > MaxCorrupt THEN Failed("error")
       ELSE [status |-> "ok", events |-> events, skipped |-> skipped,
             next |-> IF events = <<>> THEN cursor
                      ELSE events[Len(events)].cursor]

StartOf(cursor) == IF cursor = None THEN 0 ELSE cursor.offset

\* The cursor must be of this stream, and its offset, which is never 0 in a
\* cursor that was handed out, must follow a line that parses.
OpenPage(r) ==
    LET call == reader[r]
        stale == /\ call.cursor # None
                 /\ \/ call.cursor.anchor # call.anchor
                    \/ call.cursor.offset > call.length
                    \/ call.cursor.offset \notin ValidEnds(file)
    IN /\ call.at = "page"
       /\ reader' = [reader EXCEPT ![r] =
             IF stale THEN [@ EXCEPT !.at = "verify", !.page = Failed("invalid")]
             ELSE [@ EXCEPT !.at = "scan", !.buf = <<>>]]
       /\ UNCHANGED <<file, writer, used, acked, faults, replaced>>

\* The BufReader takes the next Chunk cells, up to the length taken before;
\* when there are none the page is complete.
ScanChunk(r) ==
    LET call == reader[r]
        pos == StartOf(call.cursor) + Len(call.buf)
        upto == Min({pos + Chunk, call.length, Len(file)})
    IN /\ call.at = "scan"
       /\ reader' = [reader EXCEPT ![r] =
             IF pos < upto
             THEN [@ EXCEPT !.buf = call.buf \o SubSeq(file, pos + 1, upto)]
             ELSE [@ EXCEPT !.at = "verify", !.buf = <<>>, !.length = 0,
                            !.page = PageOf(call.buf, StartOf(call.cursor),
                                            call.limit, call.anchor,
                                            call.cursor)]]
       /\ UNCHANGED <<file, writer, used, acked, faults, replaced>>

\* A page read under a fingerprint that changed meanwhile is not returned.
VerifyLineage(r) ==
    /\ reader[r].at = "verify"
    /\ IF AnchorFails(file) THEN Returns(r, Failed("error"))
       ELSE IF Anchor(file) = reader[r].anchor THEN Returns(r, reader[r].page)
       ELSE IF reader[r].cursor # None THEN Returns(r, Failed("invalid"))
       ELSE IF reader[r].attempt = MaxAttempts
       THEN Returns(r, Failed("unstable"))
       ELSE reader' = [reader EXCEPT ![r] =
                         [@ EXCEPT !.at = "length", !.page = NoPage,
                                   !.attempt = reader[r].attempt + 1]]
    /\ UNCHANGED <<file, writer, used, acked, faults, replaced>>

ReadStep(r) ==
    \/ ReadLength(r)
    \/ ReadAnchor(r)
    \/ OpenPage(r)
    \/ ScanChunk(r)
    \/ VerifyLineage(r)
=============================================================================
