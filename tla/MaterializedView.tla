--------------------------- MODULE MaterializedView ---------------------------
(***************************************************************************)
(* sync_materialized (crates/heiwa_session/src/operator.rs): each reader   *)
(* keeps a projection of the journal and catches it up page by page.  A    *)
(* page that may end the stream is followed by a probe, a second read from *)
(* the page's last row that tells the damage behind that row from the      *)
(* damage before it.  Of the projection the rows folded in, the cursor and *)
(* the two damage counts are kept; OperatorTurns has the fold itself.      *)
(***************************************************************************)
EXTENDS OperatorJournal

CONSTANT
    PageSize    \* PAGE_SIZE of sync_materialized_observing

ASSUME PagingAssumption == PageSize \in Nat \ {0}

VARIABLES
    view,    \* each reader's MaterializedJournal
    sync     \* its sync_materialized call

vars == <<journalVars, view, sync>>

EmptyView == [rows |-> <<>>, cursor |-> None, committed |-> 0, tail |-> 0]

\* page is the page that waits for its probe.
NoSync == [at |-> "idle", page |-> NoPage]

Init ==
    /\ JournalInit
    /\ view = [r \in Readers |-> EmptyView]
    /\ sync = [r \in Readers |-> NoSync]

TypeOK ==
    /\ JournalTypeOK
    /\ \A r \in Readers :
        /\ view[r].rows \in Seq(Events \ Foreign)
        /\ view[r].cursor \in Cursors \cup {None}
        /\ view[r].committed \in Nat
        /\ view[r].tail \in 0..MaxCorrupt
        /\ sync[r].at \in {"idle", "page", "probe"}

streamVars == <<file, writer, used, acked, faults, replaced>>

-----------------------------------------------------------------------------
(* The call.                                                               *)

Page(r) == reader[r].page

Has(r, at, status) ==
    sync[r].at = at /\ reader[r].at = "done" /\ Page(r).status = status

\* Reads the next page of the view.
ReadsOn(r, cursor) ==
    /\ Calls(r, cursor, PageSize)
    /\ sync' = [sync EXCEPT ![r] = [NoSync EXCEPT !.at = "page"]]

SyncEnds(r) ==
    /\ sync' = [sync EXCEPT ![r] = NoSync]
    /\ reader' = [reader EXCEPT ![r] = NoRead]

SyncMaterialized(r) ==
    /\ sync[r].at = "idle"
    /\ ReadsOn(r, view[r].cursor)
    /\ UNCHANGED <<streamVars, view>>

\* Mutant of Rebuild: the cursor is dropped, the fold is kept.
RebuildKeepsRows(r) ==
    /\ Has(r, "page", "invalid")
    /\ view' = [view EXCEPT ![r].cursor = None]
    /\ ReadsOn(r, None)
    /\ UNCHANGED streamVars

\* Mutant of Rebuild: an unknown lineage is an error like any other.
RebuildRefused(r) ==
    /\ Has(r, "page", "invalid")
    /\ SyncEnds(r)
    /\ UNCHANGED <<streamVars, view>>

\* An unknown lineage starts the fold again from nothing.
Rebuild(r) ==
    /\ Has(r, "page", "invalid")
    /\ view' = [view EXCEPT ![r] = EmptyView]
    /\ ReadsOn(r, None)
    /\ UNCHANGED streamVars

EndOfStream(r) ==
    /\ Has(r, "page", "ok")
    /\ Page(r).events = <<>>
    /\ view' = [view EXCEPT ![r].tail = Page(r).skipped]
    /\ SyncEnds(r)
    /\ UNCHANGED streamVars

\* The page's rows are folded in and the cursor moves behind them; trailing
\* is the damage that the probe found behind the last row.
Folded(v, page, trailing) ==
    [rows |-> v.rows \o [n \in DOMAIN page.events |-> page.events[n].event],
     cursor |-> page.next,
     committed |-> v.committed + Max({0, page.skipped - trailing}),
     tail |-> trailing]

FullPage(r) ==
    /\ Has(r, "page", "ok")
    /\ Len(Page(r).events) = PageSize
    /\ view' = [view EXCEPT ![r] = Folded(@, Page(r), 0)]
    /\ ReadsOn(r, Page(r).next)
    /\ UNCHANGED streamVars

ShortPage(r) ==
    /\ Has(r, "page", "ok")
    /\ Len(Page(r).events) \in 1..(PageSize - 1)
    /\ Calls(r, Page(r).next, 1)
    /\ sync' = [sync EXCEPT ![r] = [at |-> "probe", page |-> Page(r)]]
    /\ UNCHANGED <<streamVars, view>>

\* The probe found no row: the view is at the end of the stream.
ProbeEmpty(r) ==
    /\ Has(r, "probe", "ok")
    /\ Page(r).events = <<>>
    /\ view' = [view EXCEPT ![r] = Folded(@, sync[r].page, Page(r).skipped)]
    /\ SyncEnds(r)
    /\ UNCHANGED streamVars

\* The probe found a row: fold the page in and read on from its end.
ProbeFindsRow(r) ==
    /\ Has(r, "probe", "ok")
    /\ Page(r).events # <<>>
    /\ view' = [view EXCEPT ![r] = Folded(@, sync[r].page, 0)]
    /\ ReadsOn(r, sync[r].page.next)
    /\ UNCHANGED streamVars

\* Any other error is the call's; the view stays as it is.
SyncFails(r) ==
    /\ reader[r].at = "done"
    /\ Page(r).status # "ok"
    /\ ~Has(r, "page", "invalid")
    /\ SyncEnds(r)
    /\ UNCHANGED <<streamVars, view>>

SyncStep(r) ==
    \/ SyncMaterialized(r)
    \/ Rebuild(r)
    \/ EndOfStream(r)
    \/ FullPage(r)
    \/ ShortPage(r)
    \/ ProbeEmpty(r)
    \/ ProbeFindsRow(r)
    \/ SyncFails(r)

Next ==
    \/ (WriterNext \/ ReplaceStream) /\ UNCHANGED <<view, sync>>
    \/ \E r \in Readers : ReadStep(r) /\ UNCHANGED <<view, sync>>
    \/ \E r \in Readers : SyncStep(r)

Spec == Init /\ [][Next]_vars

Fairness ==
    \A r \in Readers : /\ WF_vars(ReadStep(r) /\ UNCHANGED <<view, sync>>)
                       /\ WF_vars(SyncStep(r))

FairSpec == Spec /\ Fairness

-----------------------------------------------------------------------------
(* Properties.                                                             *)

\* The view is of the file that is there, not of one that was taken away.
Current(r) == view[r].cursor # None /\ view[r].cursor.anchor = Anchor(file)

\* The rows folded into a view are exactly the stream's rows up to its
\* cursor, each once and in order: a page never overlaps the one before, a
\* probe is not folded, and after a replacement nothing of the old stream is
\* left (sync_materialized_observing).
ViewIsPrefix ==
    \A r \in Readers :
        IF Current(r)
        THEN view[r].rows = Log(SubSeq(file, 1, view[r].cursor.offset))
        ELSE view[r].cursor = None => view[r].rows = <<>>

\* Once nothing appends or replaces any more, a view that is synced again
\* and again comes to show every row of the stream, also when the file was
\* taken away under it (the rebuild of sync_materialized_observing).
ViewCatchesUp ==
    \A r \in Readers :
        <>[](writer.at = "idle") => <>[](view[r].rows = Log(file))
=============================================================================
