--------------------------- MODULE MCJournalReplay ---------------------------
(* Constants of the JournalReplay runs.                                    *)
EXTENDS JournalReplay

CONSTANTS a1, a2, a3, x, f

\* Rows of two threads and one of a newer build.
MCEvents == {a1, a2, x, f}

MCForeign == {f}

\* a2 is long: torn, it covers a later short row.
MCSize == [e \in MCEvents |-> IF e = a2 THEN 2 ELSE 1]

\* A torn row (x) that is longer than the two rows written over it.
MCChunkEvents == {a1, a2, a3, x}

MCChunkSize == [e \in MCChunkEvents |-> IF e = x THEN 4 ELSE 1]
=============================================================================
