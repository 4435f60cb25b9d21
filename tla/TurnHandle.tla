----------------------------- MODULE TurnHandle -----------------------------
(***************************************************************************)
(* OperatorTurnHandle::recv (apps/heiwa_shell/src/operator.rs): how the    *)
(* frames of one running turn reach the client that submitted it, or one   *)
(* that joined with the same request id.                                   *)
(*                                                                         *)
(* The task of the turn hands every frame first to the private channel of  *)
(* the submitting client, which is bounded and awaited, and then to the    *)
(* broadcast all clients of the runner share, which forgets its oldest     *)
(* frames.  request_cancel only broadcasts.  A receiver that fell behind   *)
(* the broadcast reads the journal again.                                  *)
(*                                                                         *)
(* Abstractions.  The journal holds the rows of the turn behind the user   *)
(* message; a row is named by its position.  Frames of other turns only    *)
(* take up room in the broadcast.  A client stops at the first terminal    *)
(* frame, as every caller of recv does, or drops its handle earlier.  The  *)
(* work of the turn is a script: what it appends and streams, in order.    *)
(* recv's branch for a private channel that closes before a terminal frame *)
(* is left out: the last frame of every task that does not panic is one.   *)
(***************************************************************************)
EXTENDS Naturals, Sequences

CONSTANTS
    DirectCap,  \* capacity of the private channel
    GlobalCap,  \* capacity of the broadcast
    PageSize,   \* rows one refill reads at most
    Script,     \* what the task does when nothing goes wrong
    MaxNoise    \* bound on the frames of other turns

Steps == {"row",     \* append_and_publish of a row
          "silent",  \* a row the model call executor appends by itself
          "delta",   \* a token: rows not yet published, then the token
          "drain",   \* the rows not yet published, after the call
          "done"}    \* append_and_publish of turn_completed

ASSUME ScriptAssumption ==
    /\ Script \in Seq(Steps)
    /\ DirectCap \in Nat \ {0} /\ GlobalCap \in Nat \ {0}
    /\ PageSize \in Nat \ {0} /\ MaxNoise \in Nat

\* What the work of a turn looks like.  turn_completed is the last thing it
\* appends.  The task looks for the executor's rows after the call and
\* before it appends one of its own, and the executor never appends more
\* than a page of them between two looks.
ASSUME WorkAssumption ==
    /\ \A i \in DOMAIN Script : Script[i] = "done" => i = Len(Script)
    /\ \A i \in DOMAIN Script :
        i < Len(Script) /\ Script[i] = "silent" =>
            Script[i + 1] \notin {"row", "done"}
    /\ \A i \in DOMAIN Script :
        i + PageSize <= Len(Script) =>
            \E j \in i .. i + PageSize : Script[j] # "silent"

VARIABLES
    journal,    \* kinds of the turn's durable rows
    feed,       \* the client's broadcast receiver: frames not yet read
    noise,      \* how many frames of other turns were broadcast
    direct,     \* the private channel: its frames and whether each end lives
    task,       \* the task: place in the script, frames still to publish
    cancel,     \* the request_cancel call about the turn
    handle,     \* the client's OperatorTurnHandle
    got         \* the frames recv returned to the client

handleVars == <<journal, feed, noise, direct, task, cancel, handle, got>>

Terminals == {"completed", "interrupted"}
RowKinds == {"row", "intent"} \cup Terminals

Row(n) == [frame |-> "row", n |-> n]
Delta(n) == [frame |-> "delta", n |-> n]
Error == [frame |-> "error", n |-> 0]
Noise == [frame |-> "noise", n |-> 0]
Frames == [frame : {"row", "delta", "error", "noise"}, n : Nat]

\* OperatorStreamFrame::is_terminal
IsTerminalFrame(f) ==
    \/ f.frame = "error"
    \/ f.frame = "row" /\ journal[f.n] \in Terminals

TurnIsOpen == \A n \in DOMAIN journal : journal[n] \notin Terminals
CancelIsDurable == \E n \in DOMAIN journal : journal[n] = "intent"

HandleTypeOK ==
    /\ journal \in Seq(RowKinds)
    /\ feed \in [queue : Seq(Frames), missed : BOOLEAN]
    /\ Len(feed.queue) <= GlobalCap /\ noise \in 0 .. MaxNoise
    /\ direct \in [queue : Seq(Frames), open : BOOLEAN, held : BOOLEAN]
    /\ Len(direct.queue) <= DirectCap
    /\ task \in [at : Nat, phase : {"work", "close", "publish", "ended"},
                 outbox : Seq(Frames), sent : BOOLEAN, cursor : Nat,
                 ends : BOOLEAN]
    /\ cancel \in {"none", "durable", "announced", "signalled"}
    /\ handle \in [pc : {"unborn", "recv", "direct", "over", "closed"},
                   replay : Seq(Frames), complete : BOOLEAN, cursor : Nat,
                   seen : SUBSET Nat, private : BOOLEAN,
                   lagged : BOOLEAN]
    /\ got \in Seq(Frames)

\* The handle of a new submission starts behind the user message and owns
\* the private channel; the one of a duplicate replays the thread first and
\* the caller that owned the channel is gone.
OriginalHandle ==
    [pc |-> "recv", replay |-> <<>>, complete |-> TRUE, cursor |-> 0,
     seen |-> {}, private |-> TRUE, lagged |-> FALSE]

DuplicateHandle ==
    [OriginalHandle EXCEPT !.pc = "unborn", !.complete = FALSE,
                           !.private = FALSE]

NoFrames == [queue |-> <<>>, missed |-> FALSE]

HandleInit ==
    /\ journal = <<>> /\ got = <<>> /\ noise = 0
    /\ feed = NoFrames
    /\ handle \in {OriginalHandle, DuplicateHandle}
    /\ direct = [queue |-> <<>>, open |-> TRUE, held |-> handle.private]
    /\ task = [at |-> 1, phase |-> "work", outbox |-> <<>>, sent |-> FALSE,
               cursor |-> 0, ends |-> FALSE]
    /\ cancel = "none"

-----------------------------------------------------------------------------
(* The broadcast: a receiver keeps the last GlobalCap frames it has not    *)
(* read, and is told once that it missed some.                             *)

Subscribed == handle.pc \in {"recv", "direct"}

Received(f) ==
    IF Len(feed.queue) < GlobalCap
    THEN [feed EXCEPT !.queue = Append(@, f)]
    ELSE [queue |-> Append(Tail(feed.queue), f), missed |-> TRUE]

Sent(f) == IF Subscribed THEN Received(f) ELSE feed

-----------------------------------------------------------------------------
(* The task of the turn.                                                   *)

RowsAfter(cursor) ==
    [i \in 1 .. Len(journal) - cursor |-> Row(cursor + i)]

\* The first PageSize rows behind a cursor (events_after).
Page(cursor) ==
    SubSeq(RowsAfter(cursor), 1,
           IF Len(journal) - cursor < PageSize THEN Len(journal) - cursor
                                               ELSE PageSize)

\* The session service refuses rows of a turn with a pending cancellation.
\* A refused row ends the work of the turn with an error.
Refused == [task EXCEPT !.phase = "close"]

\* Publishing frames and then going on at the next step of the script.
Publishing(frames, cursor) ==
    [task EXCEPT !.phase = "publish", !.outbox = frames, !.cursor = cursor,
                 !.at = @ + 1]

\* append_and_publish: durable first, then the frame.
AppendRow ==
    /\ task.phase = "work" /\ task.at \in DOMAIN Script
    /\ Script[task.at] \in {"row", "done"}
    /\ IF CancelIsDurable
       THEN task' = Refused /\ UNCHANGED journal
       ELSE LET kind == IF Script[task.at] = "done" THEN "completed" ELSE "row"
                n == Len(journal) + 1 IN
            /\ journal' = Append(journal, kind)
            /\ task' = Publishing(<<Row(n)>>, n)
    /\ UNCHANGED <<feed, noise, direct, cancel, handle, got>>

\* The executor appends a row through the session service; nobody publishes
\* it until the task looks behind its cursor.
SilentRow ==
    /\ task.phase = "work" /\ task.at \in DOMAIN Script
    /\ Script[task.at] = "silent"
    /\ IF CancelIsDurable
       THEN task' = Refused /\ UNCHANGED journal
       ELSE /\ journal' = Append(journal, "row")
            /\ task' = [task EXCEPT !.at = @ + 1]
    /\ UNCHANGED <<feed, noise, direct, cancel, handle, got>>

\* publish_durable_after, alone or ahead of a token.
Stream ==
    /\ task.phase = "work" /\ task.at \in DOMAIN Script
    /\ Script[task.at] \in {"delta", "drain"}
    /\ LET page == Page(task.cursor)
           token == IF Script[task.at] = "delta" THEN <<Delta(task.at)>>
                                                 ELSE <<>> IN
       task' = Publishing(page \o token, task.cursor + Len(page))
    /\ UNCHANGED <<journal, feed, noise, direct, cancel, handle, got>>

\* The work of the turn fails, or sees the cancellation signal.
WorkFails ==
    /\ task.phase = "work" /\ task.at \in DOMAIN Script
    /\ task' = Refused
    /\ UNCHANGED <<journal, feed, noise, direct, cancel, handle, got>>

\* run_and_close after an error: the turn is interrupted.  With a pending
\* cancellation only the cancelled closing is taken, and the task asks for
\* that once it sees the signal.
Interrupt ==
    /\ task.phase = "close"
    /\ CancelIsDurable => cancel = "signalled"
    /\ LET n == Len(journal) + 1 IN
       /\ journal' = Append(journal, "interrupted")
       /\ task' = [Publishing(<<Row(n)>>, n) EXCEPT !.ends = TRUE]
    /\ UNCHANGED <<feed, noise, direct, cancel, handle, got>>

\* Mutant of CloseFails: no frame tells the client.
CloseFailsSilently ==
    /\ task.phase = "close"
    /\ task' = [Publishing(<<>>, task.cursor) EXCEPT !.ends = TRUE]
    /\ UNCHANGED <<journal, feed, noise, direct, cancel, handle, got>>

\* The closing row is refused or fails: an error frame, which is not
\* durable, ends the stream and the turn stays an orphan.
CloseFails ==
    /\ task.phase = "close"
    /\ task' = [Publishing(<<Error>>, task.cursor) EXCEPT !.ends = TRUE]
    /\ UNCHANGED <<journal, feed, noise, direct, cancel, handle, got>>

\* Mutant of SendDirect: it does not notice that the receiver is gone.
SendDirectToNobody ==
    /\ task.phase = "publish" /\ task.outbox # <<>> /\ ~task.sent
    /\ Len(direct.queue) < DirectCap
    /\ direct' = [direct EXCEPT !.queue = Append(@, Head(task.outbox))]
    /\ task' = [task EXCEPT !.sent = TRUE]
    /\ UNCHANGED <<journal, feed, noise, cancel, handle, got>>

\* publish_frame: the private channel is awaited while its receiver lives.
SendDirect ==
    /\ task.phase = "publish" /\ task.outbox # <<>> /\ ~task.sent
    /\ direct.held => Len(direct.queue) < DirectCap
    /\ direct' = IF direct.held
                 THEN [direct EXCEPT !.queue = Append(@, Head(task.outbox))]
                 ELSE direct
    /\ task' = [task EXCEPT !.sent = TRUE]
    /\ UNCHANGED <<journal, feed, noise, cancel, handle, got>>

\* Then the broadcast, which never waits.
Broadcast ==
    /\ task.phase = "publish" /\ task.sent
    /\ feed' = Sent(Head(task.outbox))
    /\ task' = [task EXCEPT !.outbox = Tail(@), !.sent = FALSE]
    /\ UNCHANGED <<journal, noise, direct, cancel, handle, got>>

Published ==
    /\ task.phase = "publish" /\ task.outbox = <<>> /\ ~task.ends
    /\ task' = [task EXCEPT !.phase = "work"]
    /\ UNCHANGED <<journal, feed, noise, direct, cancel, handle, got>>

\* The task is over: its end of the private channel is dropped.
TaskEnds ==
    /\ task.outbox = <<>>
    /\ \/ task.phase = "publish" /\ task.ends
       \/ task.phase = "work" /\ task.at = Len(Script) + 1
    /\ task' = [task EXCEPT !.phase = "ended"]
    /\ direct' = [direct EXCEPT !.open = FALSE]
    /\ UNCHANGED <<journal, feed, noise, cancel, handle, got>>

-----------------------------------------------------------------------------
(* request_cancel, and the other turns of the runner.                      *)

CancelAppends ==
    /\ cancel = "none" /\ task.phase # "ended" /\ TurnIsOpen
    /\ journal' = Append(journal, "intent")
    /\ cancel' = "durable"
    /\ UNCHANGED <<feed, noise, direct, task, handle, got>>

CancelBroadcasts ==
    /\ cancel = "durable"
    /\ \E n \in DOMAIN journal :
        /\ journal[n] = "intent"
        /\ feed' = Sent(Row(n))
    /\ cancel' = "announced"
    /\ UNCHANGED <<journal, noise, direct, task, handle, got>>

CancelSignals ==
    /\ cancel = "announced"
    /\ cancel' = "signalled"
    /\ UNCHANGED <<journal, feed, noise, direct, task, handle, got>>

OtherTurnBroadcasts ==
    /\ noise < MaxNoise
    /\ noise' = noise + 1
    /\ feed' = Sent(Noise)
    /\ UNCHANGED <<journal, direct, task, cancel, handle, got>>

-----------------------------------------------------------------------------
(* The client.                                                             *)

\* A retry of the request: it subscribes, then replays the thread.  If the
\* task left the turn open, the retry recovers the orphan and broadcasts
\* the closing row.
Join ==
    /\ handle.pc = "unborn"
    /\ handle' = [handle EXCEPT !.pc = "recv"]
    /\ IF task.phase = "ended" /\ TurnIsOpen
       THEN /\ journal' = Append(journal, "interrupted")
            /\ feed' = Received(Row(Len(journal) + 1))
       ELSE UNCHANGED <<journal, feed>>
    /\ UNCHANGED <<noise, direct, task, cancel, got>>

\* accept_frame: the handle after looking at a frame, and whether it is
\* the client's.  A row moves the replay cursor even when it is a repeat.
Accept(h, f) ==
    IF f.frame = "row"
    THEN [handle |-> [h EXCEPT !.cursor = f.n, !.seen = @ \cup {f.n}],
          taken |-> f.n \notin h.seen]
    ELSE [handle |-> h, taken |-> f.frame # "noise"]

\* Mutant of AcceptGlobal: the broadcast may end the stream.
AcceptGlobalEnd(h, f) ==
    IF h.private /\ f.frame # "row"
    THEN [handle |-> h, taken |-> FALSE]
    ELSE Accept(h, f)

\* accept_global_frame: while the private channel is there, only rows that
\* do not end the turn are taken from the broadcast.
AcceptGlobal(h, f) ==
    IF h.private /\ (f.frame # "row" \/ IsTerminalFrame(f))
    THEN [handle |-> h, taken |-> FALSE]
    ELSE Accept(h, f)

\* Returning a frame to the client, or going round the loop.  A client
\* that sees a terminal frame drops the handle.
Deliver(verdict, f) ==
    LET ends == verdict.taken /\ IsTerminalFrame(f) IN
    /\ handle' = [verdict.handle EXCEPT !.pc = IF ends THEN "over" ELSE "recv"]
    /\ got' = IF verdict.taken THEN Append(got, f) ELSE got

\* What is left of the two receivers once the handle is gone.
Dropped(rest, private) ==
    IF handle'.pc = "over"
    THEN feed' = NoFrames /\ direct' = [private EXCEPT !.held = FALSE,
                                                      !.queue = <<>>]
    ELSE feed' = rest /\ direct' = private

\* Mutant of Refill: after a lag the handle goes on with the oldest frame
\* the broadcast still has.
RefillNothing(h) == [h EXCEPT !.complete = TRUE]

\* refill_replay: the next page of the journal behind the replay cursor.
Refill(h) ==
    LET page == Page(h.cursor) IN
    [h EXCEPT !.replay = @ \o page,
              !.cursor = @ + Len(page),
              !.complete = \/ Len(page) < PageSize
                           \/ \E i \in DOMAIN page : IsTerminalFrame(page[i])]

TakeReplay ==
    /\ handle.pc = "recv" /\ handle.replay # <<>>
    /\ LET f == Head(handle.replay) IN
       Deliver(Accept([handle EXCEPT !.replay = Tail(@)], f), f)
    /\ Dropped(feed, direct)
    /\ UNCHANGED <<journal, noise, task, cancel>>

RefillReplay ==
    /\ handle.pc = "recv" /\ handle.replay = <<>> /\ ~handle.complete
    /\ handle' = Refill(handle)
    /\ UNCHANGED <<journal, feed, noise, direct, task, cancel, got>>

Ready == handle.pc = "recv" /\ handle.replay = <<>> /\ handle.complete

ReadLagged ==
    /\ Ready /\ feed.missed
    /\ handle' = [Refill(handle) EXCEPT !.lagged = TRUE]
    /\ feed' = [feed EXCEPT !.missed = FALSE]
    /\ UNCHANGED <<journal, noise, direct, task, cancel, got>>

ReadGlobal ==
    /\ Ready /\ ~feed.missed /\ feed.queue # <<>>
    /\ LET f == Head(feed.queue) IN Deliver(AcceptGlobal(handle, f), f)
    /\ Dropped([feed EXCEPT !.queue = Tail(@)], direct)
    /\ UNCHANGED <<journal, noise, task, cancel>>

\* try_recv and the biased select find the broadcast empty: the private
\* channel is polled next, and other threads run in between.
GlobalIsEmpty ==
    /\ Ready /\ handle.private /\ feed = NoFrames
    /\ handle' = [handle EXCEPT !.pc = "direct"]
    /\ UNCHANGED <<journal, feed, noise, direct, task, cancel, got>>

ReadDirect ==
    /\ handle.pc = "direct" /\ direct.queue # <<>>
    /\ LET f == Head(direct.queue) IN Deliver(Accept(handle, f), f)
    /\ Dropped(feed, [direct EXCEPT !.queue = Tail(@)])
    /\ UNCHANGED <<journal, noise, task, cancel>>

\* Nothing there yet: the next wake-up polls the broadcast first.
DirectIsPending ==
    /\ handle.pc = "direct" /\ direct.queue = <<>> /\ direct.open
    /\ handle' = [handle EXCEPT !.pc = "recv"]
    /\ UNCHANGED <<journal, feed, noise, direct, task, cancel, got>>

\* The client gives up early.
Abandon ==
    /\ handle.pc = "recv" /\ direct.held
    /\ handle' = [handle EXCEPT !.pc = "closed"]
    /\ direct' = [direct EXCEPT !.held = FALSE, !.queue = <<>>]
    /\ feed' = NoFrames
    /\ UNCHANGED <<journal, noise, task, cancel, got>>

-----------------------------------------------------------------------------

TaskNext == AppendRow \/ SilentRow \/ Stream \/ WorkFails \/ Interrupt
            \/ CloseFails \/ SendDirect \/ Broadcast \/ Published \/ TaskEnds

CancelNext == CancelAppends \/ CancelBroadcasts \/ CancelSignals

Recv == TakeReplay \/ RefillReplay \/ ReadLagged \/ ReadGlobal
        \/ GlobalIsEmpty \/ ReadDirect \/ DirectIsPending

HandleNext == TaskNext \/ CancelNext \/ OtherTurnBroadcasts \/ Join \/ Recv
        \/ Abandon

HandleSpec == HandleInit /\ [][HandleNext]_handleVars

\* The task is polled until it ends, a request_cancel call runs through, and
\* a client that keeps its handle keeps calling recv.
Fairness == /\ WF_handleVars(TaskNext)
            /\ WF_handleVars(CancelBroadcasts \/ CancelSignals)
            /\ WF_handleVars(Recv)

HandleFairSpec == HandleSpec /\ Fairness

-----------------------------------------------------------------------------
(* Properties.                                                             *)

Numbers(frames, kind) ==
    {frames[i].n : i \in {j \in DOMAIN frames : frames[j].frame = kind}}

Rising(frames, kind) ==
    \A i, j \in DOMAIN frames :
        i < j /\ frames[i].frame = kind /\ frames[j].frame = kind =>
            frames[i].n < frames[j].n

Ended == handle.pc = "over"

\* The frame that ended the client's stream is turn_completed.
SawCompletion ==
    /\ Ended
    /\ got[Len(got)].frame = "row" /\ journal[got[Len(got)].n] = "completed"

Tokens == {i \in DOMAIN Script : Script[i] = "delta"}

\* Whatever mix of private channel, broadcast and replay a row came from
\* (duplicates of one row travel on all three), recv returns it once; and a
\* client that saw the turn complete has seen every row of the turn, even
\* when the broadcast dropped some of them and whoever published them.
RowsAreExact ==
    /\ \A i, j \in DOMAIN got :
        got[i].frame = "row" /\ got[i] = got[j] => i = j
    /\ SawCompletion => Numbers(got, "row") = DOMAIN journal

\* The client that submitted the turn gets the tokens in the order they were
\* streamed, each once and none before an earlier one; and if it never
\* lagged, all of them before the turn completes.
TokensInOrder ==
    handle.private =>
        /\ Rising(got, "delta")
        /\ \A n \in Numbers(got, "delta") :
            n \in Tokens /\ \A k \in Tokens : k < n => k \in Numbers(got, "delta")
        /\ SawCompletion /\ ~handle.lagged => Numbers(got, "delta") = Tokens

\* A bounded, awaited channel to a client that keeps receiving, or hangs
\* up, never wedges the task of the turn.
TaskIsReleased == <>(task.phase = "ended")

\* The client that submitted the turn hears its end, by a row or by the
\* error frame, unless it hung up.
OriginalHearsTheEnd == handle.private ~> handle.pc \in {"over", "closed"}
=============================================================================
