------------------------- MODULE HandleSteps_proofs -------------------------
(***************************************************************************)
(* What the steps of a turn's handle do, field by field, for every script, *)
(* channel capacity and page size; and the parts of the invariant that are *)
(* about rows: types and control, frames that name rows and tokens, the    *)
(* end of the journal, the rows nobody published yet, rows seen once and   *)
(* in order.                                                               *)
(***************************************************************************)
EXTENDS TurnHandle, TLAPS

-----------------------------------------------------------------------------
(* The handle of a turn: frames and their numbers.                         *)

USE ZenonT(30)

LEMMA FramesAre ==
    /\ \A n \in Nat : Row(n) \in Frames /\ Delta(n) \in Frames
    /\ Error \in Frames /\ Noise \in Frames
    /\ \A n : Row(n).frame = "row" /\ Row(n).n = n
    /\ \A n : Delta(n).frame = "delta" /\ Delta(n).n = n
    /\ Error.frame = "error" /\ Noise.frame = "noise"
BY SMTT(30) DEF Row, Delta, Error, Noise, Frames

LEMMA NumbersNat ==
    ASSUME NEW q \in Seq(Frames), NEW kind
    PROVE  Numbers(q, kind) \subseteq Nat
<1>1. \A i \in DOMAIN q : q[i] \in Frames
  BY SMTT(30)
<1>2. \A f \in Frames : f.n \in Nat
  BY SMTT(30) DEF Frames
<1> QED
  BY <1>1, <1>2 DEF Numbers

LEMMA NoNumbers ==
    ASSUME NEW kind
    PROVE  Numbers(<<>>, kind) = {} /\ Rising(<<>>, kind)
BY SMTT(30) DEF Numbers, Rising

\* One frame more.
LEMMA AppendNumbers ==
    ASSUME NEW q \in Seq(Frames), NEW f \in Frames, NEW kind
    PROVE  /\ Append(q, f) \in Seq(Frames)
           /\ Numbers(Append(q, f), kind) =
                Numbers(q, kind) \cup (IF f.frame = kind THEN {f.n} ELSE {})
           /\ Rising(q, kind)
              /\ (f.frame = kind => \A x \in Numbers(q, kind) : x < f.n)
              => Rising(Append(q, f), kind)
<1> DEFINE s == Append(q, f)
<1>1. /\ s \in Seq(Frames) /\ Len(s) = Len(q) + 1 /\ s[Len(q) + 1] = f
      /\ \A i \in 1 .. Len(q) : s[i] = q[i]
      /\ DOMAIN s = 1 .. Len(q) + 1 /\ DOMAIN q = 1 .. Len(q) /\ Len(q) \in Nat
  BY SMTT(30)
<1> HIDE DEF s
<1>2. \A i \in DOMAIN s : i \in DOMAIN q \/ i = Len(q) + 1
  BY SMTT(30), <1>1
<1>3. Numbers(s, kind) \subseteq
        Numbers(q, kind) \cup (IF f.frame = kind THEN {f.n} ELSE {})
  BY SMTT(30), <1>1, <1>2 DEF Numbers
<1>4. Numbers(q, kind) \subseteq Numbers(s, kind)
  BY SMTT(30), <1>1, <1>2 DEF Numbers
<1>5. f.frame = kind => f.n \in Numbers(s, kind)
  BY SMTT(30), <1>1 DEF Numbers
<1>6. ASSUME Rising(q, kind),
             f.frame = kind => \A x \in Numbers(q, kind) : x < f.n
      PROVE  Rising(s, kind)
  <2>1. SUFFICES ASSUME NEW i \in DOMAIN s, NEW j \in DOMAIN s, i < j,
                        s[i].frame = kind, s[j].frame = kind
                 PROVE  s[i].n < s[j].n
    BY DEF Rising
  <2>2. i \in 1 .. Len(q)
    BY SMTT(30), <2>1, <1>1
  <2>3. s[i].n \in Numbers(q, kind)
    BY SMTT(30), <2>1, <2>2, <1>1 DEF Numbers
  <2>4. CASE j \in 1 .. Len(q)
    BY SMTT(30), <2>4, <2>1, <2>2, <1>1, <1>6 DEF Rising
  <2>5. CASE j = Len(q) + 1
    BY SMTT(30), <2>5, <2>1, <2>3, <1>1, <1>6
  <2> QED
    BY SMTT(30), <2>4, <2>5, <1>1
<1> QED
  BY SMTT(30), <1>1, <1>3, <1>4, <1>5, <1>6 DEF s

\* One frame less.
LEMMA TailNumbers ==
    ASSUME NEW q \in Seq(Frames), q # <<>>, NEW kind
    PROVE  /\ Head(q) \in Frames /\ Tail(q) \in Seq(Frames)
           /\ Numbers(q, kind) = Numbers(Tail(q), kind)
                \cup (IF Head(q).frame = kind THEN {Head(q).n} ELSE {})
           /\ Rising(q, kind) =>
                /\ Rising(Tail(q), kind)
                /\ Head(q).frame = kind =>
                    \A x \in Numbers(Tail(q), kind) : Head(q).n < x
<1> DEFINE s == Tail(q)
<1>1. /\ s \in Seq(Frames) /\ Len(s) = Len(q) - 1 /\ Head(q) = q[1]
      /\ Head(q) \in Frames
      /\ \A i \in 1 .. Len(q) - 1 : s[i] = q[i + 1]
      /\ DOMAIN s = 1 .. Len(q) - 1 /\ DOMAIN q = 1 .. Len(q)
      /\ Len(q) \in Nat \ {0}
  BY SMTT(30)
<1> HIDE DEF s
<1>2. \A i \in DOMAIN q : i = 1 \/ (i - 1 \in DOMAIN s /\ s[i - 1] = q[i])
  BY SMTT(30), <1>1
<1>3. Numbers(q, kind) \subseteq Numbers(s, kind)
                \cup (IF Head(q).frame = kind THEN {Head(q).n} ELSE {})
  BY SMTT(30), <1>1, <1>2 DEF Numbers
<1>4. \A i \in DOMAIN s : i + 1 \in DOMAIN q /\ s[i] = q[i + 1] /\ 1 < i + 1
  BY SMTT(30), <1>1
<1>5. Numbers(s, kind) \subseteq Numbers(q, kind)
  BY SMTT(30), <1>4 DEF Numbers
<1>6. Head(q).frame = kind => Head(q).n \in Numbers(q, kind)
  BY SMTT(30), <1>1 DEF Numbers
<1>7. ASSUME Rising(q, kind)
      PROVE  Rising(s, kind)
  BY SMTT(30), <1>1, <1>4, <1>7 DEF Rising
<1>8. ASSUME Rising(q, kind), Head(q).frame = kind, NEW x \in Numbers(s, kind)
      PROVE  Head(q).n < x
  <2>1. PICK i \in DOMAIN s : s[i].frame = kind /\ s[i].n = x
    BY <1>8 DEF Numbers
  <2> QED
    BY SMTT(30), <2>1, <1>1, <1>4, <1>8 DEF Rising
<1> QED
  BY SMTT(30), <1>1, <1>3, <1>5, <1>6, <1>7, <1>8 DEF s

\* A page of the journal.
LEMMA PageIs ==
    ASSUME HandleTypeOK, NEW c \in Nat, c <= Len(journal)
    PROVE  /\ Page(c) \in Seq(Frames)
           /\ Len(Page(c)) = IF Len(journal) - c < PageSize
                             THEN Len(journal) - c ELSE PageSize
           /\ DOMAIN Page(c) = 1 .. Len(Page(c))
           /\ \A i \in DOMAIN Page(c) : Page(c)[i] = Row(c + i)
<1> DEFINE all == RowsAfter(c)
           m == IF Len(journal) - c < PageSize THEN Len(journal) - c ELSE PageSize
<1>1. Len(journal) \in Nat /\ PageSize \in Nat \ {0}
  BY SMTT(30), ScriptAssumption DEF HandleTypeOK
<1>2. m \in Nat /\ m <= Len(journal) - c /\ Len(journal) - c \in Nat
  BY SMTT(30), <1>1
<1>3. all \in Seq(Frames) /\ Len(all) = Len(journal) - c
  BY SMTT(30), <1>1, <1>2, FramesAre DEF RowsAfter
<1>4. \A i \in 1 .. Len(journal) - c : all[i] = Row(c + i)
  BY SMTT(30), <1>1 DEF RowsAfter
<1>5. Page(c) = SubSeq(all, 1, m)
  BY DEF Page
<1> HIDE DEF all, m
<1>6. SubSeq(all, 1, m) \in Seq(Frames) /\ Len(SubSeq(all, 1, m)) = m
      /\ \A i \in 1 .. m : SubSeq(all, 1, m)[i] = all[i]
  BY SMTT(30), <1>2, <1>3
<1> QED
  BY SMTT(30), <1>2, <1>3, <1>4, <1>5, <1>6 DEF m

-----------------------------------------------------------------------------
(* Types of the handle's state.                                            *)

TaskType == [at : Nat, phase : {"work", "close", "publish", "ended"},
             outbox : Seq(Frames), sent : BOOLEAN, cursor : Nat,
             ends : BOOLEAN]
HandleType == [pc : {"unborn", "recv", "direct", "over", "closed"},
               replay : Seq(Frames), complete : BOOLEAN, cursor : Nat,
               seen : SUBSET Nat, private : BOOLEAN, lagged : BOOLEAN]
FeedType == [queue : Seq(Frames), missed : BOOLEAN]
DirectType == [queue : Seq(Frames), open : BOOLEAN, held : BOOLEAN]

LEMMA TypesAre ==
    HandleTypeOK <=>
        /\ journal \in Seq(RowKinds) /\ noise \in 0 .. MaxNoise
        /\ feed \in FeedType /\ Len(feed.queue) <= GlobalCap
        /\ direct \in DirectType /\ Len(direct.queue) <= DirectCap
        /\ task \in TaskType /\ handle \in HandleType /\ got \in Seq(Frames)
        /\ cancel \in {"none", "durable", "announced", "signalled"}
BY DEF HandleTypeOK, TaskType, HandleType, FeedType, DirectType

\* A broadcast keeps the receiver's shape and its bound.
LEMMA SentType ==
    ASSUME HandleTypeOK, NEW f \in Frames
    PROVE  /\ Received(f) \in FeedType /\ Len(Received(f).queue) <= GlobalCap
           /\ Sent(f) \in FeedType /\ Len(Sent(f).queue) <= GlobalCap
<1>1. feed \in FeedType /\ Len(feed.queue) <= GlobalCap /\ feed.queue \in Seq(Frames)
  BY TypesAre DEF FeedType
<1>2. GlobalCap \in Nat \ {0}
  BY ScriptAssumption
<1>3. CASE Len(feed.queue) < GlobalCap
  <2>1. Append(feed.queue, f) \in Seq(Frames)
        /\ Len(Append(feed.queue, f)) = Len(feed.queue) + 1
    BY SMTT(30), <1>1
  <2>2. Received(f) = [feed EXCEPT !.queue = Append(feed.queue, f)]
    BY <1>3 DEF Received
  <2> QED
    BY SMTT(30), <1>1, <1>2, <1>3, <2>1, <2>2 DEF Sent, FeedType
<1>4. CASE ~(Len(feed.queue) < GlobalCap)
  <2>1. feed.queue # <<>> /\ Len(feed.queue) \in Nat
    BY SMTT(30), <1>1, <1>2, <1>4
  <2>2. Tail(feed.queue) \in Seq(Frames) /\ Len(Tail(feed.queue)) = Len(feed.queue) - 1
    BY SMTT(30), <1>1, <2>1
  <2>3. Append(Tail(feed.queue), f) \in Seq(Frames)
        /\ Len(Append(Tail(feed.queue), f)) = Len(feed.queue)
    BY SMTT(30), <1>1, <2>1, <2>2
  <2>4. Received(f) = [queue |-> Append(Tail(feed.queue), f), missed |-> TRUE]
    BY <1>4 DEF Received
  <2> QED
    BY SMTT(30), <1>1, <1>2, <1>4, <2>3, <2>4 DEF Sent, FeedType
<1> QED
  BY <1>3, <1>4

\* What a delivered frame does to the handle and to the client.
Took(replay, f) ==
    /\ handle'.replay = replay /\ handle'.complete = handle.complete
    /\ handle'.private = handle.private /\ handle'.lagged = handle.lagged
    /\ handle'.seen = IF f.frame = "row" THEN handle.seen \cup {f.n}
                                         ELSE handle.seen
    /\ handle'.cursor = IF f.frame = "row" THEN f.n ELSE handle.cursor
    /\ \/ /\ got' = got /\ handle'.pc = "recv"
          /\ \/ f.frame = "row" /\ f.n \in handle.seen
             \/ f.frame = "noise"
       \/ /\ got' = Append(got, f) /\ f.frame # "noise"
          /\ f.frame = "row" => f.n \notin handle.seen
          /\ handle'.pc = IF IsTerminalFrame(f) THEN "over" ELSE "recv"

LEMMA DeliverTakes ==
    ASSUME handle \in HandleType, NEW replay \in Seq(Frames), NEW h,
           h = [handle EXCEPT !.replay = replay],
           NEW f \in Frames, Deliver(Accept(h, f), f)
    PROVE  handle' \in HandleType /\ Took(replay, f)
<1> DEFINE v == Accept(h, f)
           seen == h.seen \cup {f.n}
           pc == IF v.taken /\ IsTerminalFrame(f) THEN "over" ELSE "recv"
<1>0. h \in HandleType /\ h.replay = replay
      /\ \A x \in {"complete", "private", "lagged", "seen", "cursor"} :
            h[x] = handle[x]
  BY DEF HandleType
<1>1. f.n \in Nat /\ f.frame \in {"row", "delta", "error", "noise"}
      /\ h.seen \in SUBSET Nat
  BY SMTT(30), <1>0 DEF Frames, HandleType
<1>2. seen \in SUBSET Nat /\ pc \in {"over", "recv"}
  BY <1>1
<1>3. /\ handle' = [v.handle EXCEPT !.pc = pc]
      /\ got' = IF v.taken THEN Append(got, f) ELSE got
  BY DEF Deliver
<1>4. f.frame = "row" =>
        v.handle = [h EXCEPT !.cursor = f.n, !.seen = seen]
        /\ v.taken = (f.n \notin h.seen)
  BY SMTT(30) DEF Accept
<1>5. f.frame # "row" => v.handle = h /\ v.taken = (f.frame # "noise")
  BY SMTT(30) DEF Accept
<1>6. pc = IF v.taken /\ IsTerminalFrame(f) THEN "over" ELSE "recv"
  OBVIOUS
<1>7. seen = h.seen \cup {f.n}
  OBVIOUS
<1> HIDE DEF v, seen, pc
<1>8. v.handle \in HandleType
  BY <1>0, <1>1, <1>2, <1>4, <1>5 DEF HandleType
<1>9. handle' \in HandleType /\ handle'.pc = pc
      /\ \A x \in {"replay", "complete", "private", "lagged", "seen", "cursor"} :
            handle'[x] = v.handle[x]
  BY <1>2, <1>3, <1>8 DEF HandleType
<1>10. /\ v.handle.replay = h.replay /\ v.handle.complete = h.complete
       /\ v.handle.private = h.private /\ v.handle.lagged = h.lagged
       /\ f.frame = "row" => v.handle.seen = seen /\ v.handle.cursor = f.n
       /\ f.frame # "row" => v.handle.seen = h.seen /\ v.handle.cursor = h.cursor
  BY <1>0, <1>4, <1>5 DEF HandleType
<1>11. v.taken => f.frame # "noise" /\ (f.frame = "row" => f.n \notin h.seen)
  BY <1>4, <1>5
<1>12. ~v.taken => f.frame = "noise" \/ (f.frame = "row" /\ f.n \in h.seen)
  BY <1>4, <1>5
<1>13. h.seen = handle.seen /\ h.cursor = handle.cursor
       /\ h.complete = handle.complete /\ h.private = handle.private
       /\ h.lagged = handle.lagged /\ h.replay = replay
  BY <1>0
<1> QED
  BY <1>3, <1>6, <1>7, <1>9, <1>10, <1>11, <1>12, <1>13 DEF Took

LEMMA RefillIs ==
    ASSUME HandleTypeOK, handle.cursor <= Len(journal), handle.replay = <<>>
    PROVE  /\ Refill(handle) \in HandleType
           /\ Refill(handle).replay = Page(handle.cursor)
           /\ Refill(handle).cursor = handle.cursor + Len(Page(handle.cursor))
           /\ Refill(handle).complete <=>
                \/ Len(Page(handle.cursor)) < PageSize
                \/ \E i \in DOMAIN Page(handle.cursor) :
                        IsTerminalFrame(Page(handle.cursor)[i])
           /\ \A x \in {"pc", "seen", "private", "lagged"} :
                Refill(handle)[x] = handle[x]
<1> DEFINE page == Page(handle.cursor)
           done == Len(page) < PageSize
                   \/ \E i \in DOMAIN page : IsTerminalFrame(page[i])
<1>1. handle \in HandleType /\ handle.cursor \in Nat
  BY SMTT(30), TypesAre DEF HandleType
<1>2. page \in Seq(Frames) /\ Len(page) \in Nat
  BY SMTT(30), <1>1, PageIs
<1>3. <<>> \o page = page
  BY SMTT(30), <1>2
<1> DEFINE next == handle.cursor + Len(page)
           rows == handle.replay \o page
<1>4. Refill(handle) =
        [handle EXCEPT !.replay = rows, !.cursor = next, !.complete = done]
  BY DEF Refill
<1>5. done \in BOOLEAN /\ rows = page /\ next \in Nat
  BY SMTT(30), <1>1, <1>2, <1>3
<1>7. next = handle.cursor + Len(page)
  OBVIOUS
<1> HIDE DEF page, done, next, rows
<1>6. /\ Refill(handle) \in HandleType
      /\ Refill(handle).replay = page
      /\ Refill(handle).cursor = handle.cursor + Len(page)
      /\ Refill(handle).complete = done
      /\ \A x \in {"pc", "seen", "private", "lagged"} :
            Refill(handle)[x] = handle[x]
  BY <1>1, <1>2, <1>4, <1>5, <1>7 DEF HandleType
<1> QED
  BY <1>6 DEF page, done

-----------------------------------------------------------------------------
(* The invariant.                                                          *)

\* Frames name rows of the journal and tokens of the script.
Sound(frames) ==
    /\ Numbers(frames, "row") \subseteq DOMAIN journal
    /\ Numbers(frames, "delta") \subseteq Tokens

\* Every number of p is below every number of q.
Below(p, q, kind) ==
    \A x \in Numbers(p, kind), y \in Numbers(q, kind) : x < y

\* The frames the private channel has not been handed yet.
Left == IF task.sent THEN Tail(task.outbox) ELSE task.outbox

\* The last step of the script whose frames were put into the outbox.
Streamed == IF task.ends THEN task.at - 2 ELSE task.at - 1

\* No intent and no interruption in the journal: the turn may complete.
Clean == \A n \in DOMAIN journal : journal[n] \in {"row", "completed"}

\* The task publishes only between two steps; the private channel lives as
\* long as its client; nothing is received before Join and after the end.
ControlInv ==
    /\ task.at >= 1
    /\ task.sent => task.phase = "publish" /\ task.outbox # <<>>
    /\ task.phase # "publish" => task.outbox = <<>>
    /\ task.ends => task.phase \in {"publish", "ended"} /\ task.at >= 2
    /\ direct.held <=> handle.private /\ Subscribed
    /\ handle.pc = "direct" =>
        handle.private /\ handle.replay = <<>> /\ handle.complete
    /\ handle.private /\ ~handle.lagged =>
        handle.replay = <<>> /\ handle.complete
    /\ handle.pc = "unborn" => ~handle.private /\ ~handle.complete
    /\ ~Subscribed => feed = NoFrames

SoundInv ==
    /\ Sound(feed.queue) /\ Sound(direct.queue) /\ Sound(task.outbox)
    /\ Sound(handle.replay) /\ Sound(got)
    /\ Numbers(handle.replay, "delta") = {}
    /\ task.cursor <= Len(journal) /\ handle.cursor <= Len(journal)

\* turn_completed is the last row, of a turn without intent, and the task has
\* nothing left to do.
CompletedInv ==
    \A n \in DOMAIN journal :
        /\ journal[n] = "completed" =>
            /\ n = Len(journal) /\ Clean
            /\ task.at = Len(Script) + 1 /\ ~task.ends /\ task.phase # "close"
        /\ journal[n] = "interrupted" => task.ends \/ task.phase = "ended"

\* The rows behind the task's cursor are those of the executor's steps since
\* the task last looked, and one page holds them.
SilentInv ==
    Clean /\ ~task.ends /\ task.phase # "close" =>
        /\ Len(journal) - task.cursor <= PageSize
        /\ Len(journal) - task.cursor < task.at
        /\ \A i \in DOMAIN Script :
            task.at <= i + (Len(journal) - task.cursor) /\ i < task.at =>
                Script[i] = "silent"

Once(frames) ==
    \A i, j \in DOMAIN frames :
        frames[i].frame = "row" /\ frames[i] = frames[j] => i = j

SeenInv == handle.seen = Numbers(got, "row") /\ Once(got)

\* What the replay cursor is past was seen or waits in the replay, in order.
ReplayInv ==
    Clean =>
        /\ Rising(handle.replay, "row")
        /\ \A n \in Numbers(handle.replay, "row") : \A k \in 1 .. n :
            k \in handle.seen \cup Numbers(handle.replay, "row")
        /\ \A k \in 1 .. handle.cursor :
            journal[k] = "row" =>
                k \in handle.seen \cup Numbers(handle.replay, "row")

OutboxInv ==
    Clean =>
        /\ Rising(task.outbox, "row")
        /\ \A n \in Numbers(task.outbox, "row") : n <= task.cursor

\* Every row the task published was seen, is in the private channel, or is
\* still to be put there, in that order.
DirectInv ==
    Clean /\ direct.held =>
        /\ Rising(direct.queue, "row") /\ Below(direct.queue, Left, "row")
        /\ \A n \in Numbers(direct.queue, "row") : n <= task.cursor
        /\ \A k \in 1 .. task.cursor :
            k \in handle.seen \cup Numbers(direct.queue, "row")
                  \cup Numbers(Left, "row")

\* The same of the broadcast, unless the receiver missed frames.
FeedInv ==
    Clean =>
        /\ Rising(feed.queue, "row") /\ Below(feed.queue, task.outbox, "row")
        /\ \A n \in Numbers(feed.queue, "row") : n <= task.cursor
        /\ Subscribed /\ handle.complete /\ ~feed.missed =>
            \A k \in 1 .. task.cursor : journal[k] = "row" =>
                k \in handle.seen \cup Numbers(handle.replay, "row")
                      \cup Numbers(feed.queue, "row")
                      \cup Numbers(task.outbox, "row")

\* Who saw turn_completed has seen every row.
ExactInv ==
    \A n \in handle.seen :
        journal[n] = "completed" => handle.seen = DOMAIN journal

RowInv == /\ CompletedInv /\ SilentInv /\ SeenInv /\ ReplayInv /\ OutboxInv
          /\ DirectInv /\ FeedInv /\ ExactInv

-----------------------------------------------------------------------------
(* What the steps do, field by field.                                      *)

\* No frame moves and no row is appended.
Quiet ==
    /\ journal' = journal /\ got' = got /\ feed' = feed
    /\ direct'.queue = direct.queue /\ direct'.held = direct.held
    /\ task'.outbox = task.outbox /\ task'.sent = task.sent
    /\ task'.cursor = task.cursor /\ task'.at = task.at
    /\ task'.ends = task.ends
    /\ handle'.replay = handle.replay /\ handle'.complete = handle.complete
    /\ handle'.cursor = handle.cursor /\ handle'.seen = handle.seen
    /\ handle'.private = handle.private /\ handle'.lagged = handle.lagged
    /\ Subscribed' <=> Subscribed

QuietSteps ==
    \/ AppendRow /\ CancelIsDurable
    \/ SilentRow /\ CancelIsDurable
    \/ WorkFails \/ Published \/ TaskEnds \/ CancelSignals
    \/ GlobalIsEmpty \/ DirectIsPending \/ UNCHANGED handleVars

LEMMA QuietStep ==
    ASSUME HandleTypeOK, QuietSteps
    PROVE  /\ HandleTypeOK' /\ Quiet
           /\ \/ task'.phase = task.phase /\ handle'.pc = handle.pc
              \/ task'.phase = "close" /\ task.phase = "work"
                 /\ task.at \in DOMAIN Script /\ handle' = handle
              \/ task'.phase \in {"work", "ended"} /\ task.outbox = <<>>
                 /\ task.phase = "publish" /\ handle' = handle
                 /\ (task.ends => task'.phase = "ended")
              \/ task'.phase = "ended" /\ task.phase = "work"
                 /\ task.outbox = <<>> /\ handle' = handle
              \/ task' = task /\ handle'.pc \in {"recv", "direct"}
                 /\ (handle'.pc = "direct" => Ready /\ handle.private)
<1> USE DEF Quiet, Subscribed
<1>1. /\ feed \in FeedType /\ direct \in DirectType
      /\ task \in TaskType /\ handle \in HandleType
  BY TypesAre
<1>2. CASE (AppendRow /\ CancelIsDurable) \/ (SilentRow /\ CancelIsDurable)
           \/ WorkFails
  <2>1. /\ task' = [task EXCEPT !.phase = "close"] /\ task.phase = "work"
        /\ task.at \in DOMAIN Script
        /\ UNCHANGED <<journal, feed, noise, direct, cancel, handle, got>>
    BY <1>2 DEF AppendRow, SilentRow, WorkFails, Refused
  <2>2. task' \in TaskType /\ task'.phase = "close" /\ task'.outbox = task.outbox
        /\ task'.sent = task.sent /\ task'.cursor = task.cursor
        /\ task'.at = task.at /\ task'.ends = task.ends
    BY <1>1, <2>1 DEF TaskType
  <2> QED
    BY <2>1, <2>2 DEF HandleTypeOK, TaskType
<1>3. CASE Published
  <2>1. task' \in TaskType /\ task'.phase = "work" /\ task'.outbox = task.outbox
        /\ task'.sent = task.sent /\ task'.cursor = task.cursor
        /\ task'.at = task.at /\ task'.ends = task.ends
    BY <1>1, <1>3 DEF Published, TaskType
  <2> QED
    BY <1>3, <2>1 DEF Published, HandleTypeOK, TaskType
<1>4. CASE TaskEnds
  <2>1. task' \in TaskType /\ task'.phase = "ended" /\ task'.outbox = task.outbox
        /\ task'.sent = task.sent /\ task'.cursor = task.cursor
        /\ task'.at = task.at /\ task'.ends = task.ends
    BY <1>1, <1>4 DEF TaskEnds, TaskType
  <2>2. direct' \in DirectType /\ direct'.queue = direct.queue
        /\ direct'.held = direct.held
    BY <1>1, <1>4 DEF TaskEnds, DirectType
  <2>3. task.outbox = <<>> /\ task.phase \in {"publish", "work"}
        /\ UNCHANGED <<journal, feed, noise, cancel, handle, got>>
    BY <1>4 DEF TaskEnds
  <2> QED
    BY <2>1, <2>2, <2>3 DEF HandleTypeOK, TaskType, DirectType
<1>5. CASE CancelSignals
  <2>1. UNCHANGED <<journal, feed, noise, direct, task, handle, got>>
        /\ cancel' = "signalled"
    BY <1>5 DEF CancelSignals
  <2>2. HandleTypeOK'
    BY <2>1 DEF HandleTypeOK
  <2>3. Quiet
    BY <2>1
  <2>4. task'.phase = task.phase /\ handle'.pc = handle.pc
    BY <2>1
  <2> QED
    BY <2>2, <2>3, <2>4
<1>6. CASE GlobalIsEmpty \/ DirectIsPending
  <2>1. handle' \in HandleType /\ handle'.pc \in {"recv", "direct"}
        /\ handle.pc \in {"recv", "direct"} /\ handle'.replay = handle.replay
        /\ handle'.complete = handle.complete /\ handle'.cursor = handle.cursor
        /\ handle'.seen = handle.seen /\ handle'.private = handle.private
        /\ handle'.lagged = handle.lagged
    BY <1>1, <1>6 DEF GlobalIsEmpty, DirectIsPending, HandleType, Ready
  <2>2. handle'.pc = "direct" => Ready /\ handle.private
    BY <1>1, <1>6 DEF GlobalIsEmpty, DirectIsPending, HandleType
  <2>3. UNCHANGED <<journal, feed, noise, direct, task, cancel, got>>
    BY <1>6 DEF GlobalIsEmpty, DirectIsPending
  <2> QED
    BY <2>1, <2>2, <2>3 DEF HandleTypeOK, HandleType
<1>7. CASE UNCHANGED handleVars
  <2>0. /\ journal' = journal /\ feed' = feed /\ noise' = noise /\ got' = got
        /\ direct' = direct /\ task' = task /\ cancel' = cancel
        /\ handle' = handle
    BY <1>7 DEF handleVars
  <2>1. HandleTypeOK'
    BY SMTT(30), <2>0 DEF HandleTypeOK
  <2>2. Quiet
    BY <2>0
  <2>3. task'.phase = task.phase /\ handle'.pc = handle.pc
    BY <2>0
  <2> QED
    BY <2>1, <2>2, <2>3
<1> QED
  BY <1>2, <1>3, <1>4, <1>5, <1>6, <1>7 DEF QuietSteps

\* Appending a row.
LEMMA JournalGrows ==
    ASSUME HandleTypeOK, NEW kind \in RowKinds, journal' = Append(journal, kind)
    PROVE  /\ journal' \in Seq(RowKinds) /\ Len(journal') = Len(journal) + 1
           /\ Len(journal) \in Nat /\ DOMAIN journal = 1 .. Len(journal)
           /\ DOMAIN journal' = 1 .. Len(journal) + 1
           /\ journal'[Len(journal) + 1] = kind
           /\ \A n \in DOMAIN journal : n \in DOMAIN journal' /\ journal'[n] = journal[n]
           /\ Clean' <=> Clean /\ kind \in {"row", "completed"}
<1>1. journal \in Seq(RowKinds)
  BY DEF HandleTypeOK
<1>2. /\ journal' \in Seq(RowKinds) /\ Len(journal') = Len(journal) + 1
      /\ Len(journal) \in Nat /\ DOMAIN journal = 1 .. Len(journal)
      /\ DOMAIN journal' = 1 .. Len(journal) + 1
      /\ journal'[Len(journal) + 1] = kind
      /\ \A n \in 1 .. Len(journal) : journal'[n] = journal[n]
  BY SMTT(30), <1>1
<1>3. \A n \in DOMAIN journal : n \in DOMAIN journal'
  BY SMTT(30), <1>2
<1>4. \A n \in DOMAIN journal' : n \in DOMAIN journal \/ n = Len(journal) + 1
  BY SMTT(30), <1>2
<1>5. Len(journal) + 1 \in DOMAIN journal'
  BY SMTT(30), <1>2
<1> QED
  BY <1>2, <1>3, <1>4, <1>5 DEF Clean

\* Handing frames to publish_frame.
LEMMA PublishingIs ==
    ASSUME HandleTypeOK, NEW frames \in Seq(Frames), NEW cursor \in Nat,
           NEW ends \in BOOLEAN,
           task' = IF ends THEN [Publishing(frames, cursor) EXCEPT !.ends = TRUE]
                           ELSE Publishing(frames, cursor)
    PROVE  /\ task' \in TaskType /\ task'.phase = "publish"
           /\ task'.outbox = frames /\ task'.sent = task.sent
           /\ task'.cursor = cursor /\ task'.at = task.at + 1
           /\ task'.ends = (ends \/ task.ends)
<1> DEFINE next == task.at + 1
<1>1. task \in TaskType
  BY TypesAre
<1>2. next \in Nat
  BY SMTT(30), <1>1 DEF TaskType
<1>3. Publishing(frames, cursor) = [task EXCEPT !.phase = "publish",
            !.outbox = frames, !.cursor = cursor, !.at = next]
  BY DEF Publishing
<1>4. next = task.at + 1
  OBVIOUS
<1> HIDE DEF next
<1>5. CASE ends
  BY <1>1, <1>2, <1>3, <1>4, <1>5 DEF TaskType
<1>6. CASE ~ends
  BY <1>1, <1>2, <1>3, <1>4, <1>6 DEF TaskType
<1> QED
  BY <1>5, <1>6

LEMMA OneFrame ==
    ASSUME NEW f \in Frames
    PROVE  /\ <<f>> \in Seq(Frames) /\ <<f>> # <<>> /\ Tail(<<f>>) = <<>>
           /\ \A kind : /\ Numbers(<<f>>, kind) = IF f.frame = kind THEN {f.n} ELSE {}
                        /\ Rising(<<f>>, kind)
<1>1. <<f>> \in Seq(Frames) /\ <<f>> # <<>> /\ Tail(<<f>>) = <<>> /\ Head(<<f>>) = f
      /\ DOMAIN <<f>> = {1} /\ <<f>>[1] = f
  BY SMTT(30)
<1>2. ASSUME NEW kind
      PROVE  /\ Numbers(<<f>>, kind) = IF f.frame = kind THEN {f.n} ELSE {}
             /\ Rising(<<f>>, kind)
  <2>1. Numbers(<<f>>, kind) = IF f.frame = kind THEN {f.n} ELSE {}
    BY <1>1, <1>2 DEF Numbers
  <2>2. ~(1 < 1)
    BY SMTT(30)
  <2> QED
    BY <1>1, <2>1, <2>2 DEF Rising
<1> QED
  BY <1>1, <1>2

LEMMA PageNumbers ==
    ASSUME HandleTypeOK, NEW c \in Nat, c <= Len(journal)
    PROVE  /\ Numbers(Page(c), "row") = c + 1 .. c + Len(Page(c))
           /\ Numbers(Page(c), "delta") = {}
           /\ Rising(Page(c), "row") /\ Rising(Page(c), "delta")
           /\ Len(Page(c)) \in Nat
<1> DEFINE p == Page(c)
<1>1. /\ p \in Seq(Frames) /\ DOMAIN p = 1 .. Len(p) /\ Len(p) \in Nat
      /\ \A i \in DOMAIN p : p[i] = Row(c + i)
  BY SMTT(30), PageIs
<1> HIDE DEF p
<1>2. \A i \in DOMAIN p : p[i].frame = "row" /\ p[i].n = c + i
  BY <1>1, FramesAre
<1>3. Numbers(p, "row") = {c + i : i \in DOMAIN p}
  BY SMTT(30), <1>2 DEF Numbers
<1>4. {c + i : i \in DOMAIN p} = c + 1 .. c + Len(p)
  <2>1. ASSUME NEW x \in c + 1 .. c + Len(p)
        PROVE  x \in {c + i : i \in DOMAIN p}
    <3>1. x - c \in DOMAIN p /\ x = c + (x - c)
      BY SMTT(30), <1>1
    <3> QED
      BY <3>1
  <2>2. ASSUME NEW i \in DOMAIN p
        PROVE  c + i \in c + 1 .. c + Len(p)
    BY SMTT(30), <1>1
  <2> QED
    BY <2>1, <2>2
<1>5. Numbers(p, "delta") = {}
  BY SMTT(30), <1>2 DEF Numbers
<1>6. Rising(p, "row") /\ Rising(p, "delta")
  BY SMTT(30), <1>1, <1>2 DEF Rising
<1> QED
  BY <1>1, <1>3, <1>4, <1>5, <1>6 DEF p

\* What a broadcast does to the receiver's frames.
LEMMA ReceivedIs ==
    ASSUME HandleTypeOK, NEW f \in Frames, NEW kind
    PROVE  /\ Numbers(Received(f).queue, kind) \subseteq
                Numbers(feed.queue, kind) \cup (IF f.frame = kind THEN {f.n} ELSE {})
           /\ ~Received(f).missed =>
                /\ ~feed.missed
                /\ Numbers(Received(f).queue, kind) =
                    Numbers(feed.queue, kind)
                        \cup (IF f.frame = kind THEN {f.n} ELSE {})
           /\ Rising(feed.queue, kind)
              /\ (f.frame = kind => \A x \in Numbers(feed.queue, kind) : x < f.n)
              => Rising(Received(f).queue, kind)
<1>1. feed \in FeedType /\ Len(feed.queue) <= GlobalCap /\ feed.queue \in Seq(Frames)
  BY TypesAre DEF FeedType
<1>2. CASE Len(feed.queue) < GlobalCap
  <2>1. Received(f).queue = Append(feed.queue, f)
        /\ Received(f).missed = feed.missed
    BY <1>1, <1>2 DEF Received, FeedType
  <2>2. /\ Numbers(Append(feed.queue, f), kind) =
            Numbers(feed.queue, kind) \cup (IF f.frame = kind THEN {f.n} ELSE {})
        /\ Rising(feed.queue, kind)
           /\ (f.frame = kind => \A x \in Numbers(feed.queue, kind) : x < f.n)
           => Rising(Append(feed.queue, f), kind)
    BY ONLY <1>1, f \in Frames, AppendNumbers
  <2> QED
    BY <2>1, <2>2
<1>3. CASE ~(Len(feed.queue) < GlobalCap)
  <2>1. Received(f).queue = Append(Tail(feed.queue), f) /\ Received(f).missed
    BY <1>3 DEF Received
  <2>2. feed.queue # <<>>
    BY SMTT(30), <1>1, <1>3, ScriptAssumption
  <2>3. /\ Tail(feed.queue) \in Seq(Frames)
        /\ Numbers(Tail(feed.queue), kind) \subseteq Numbers(feed.queue, kind)
        /\ Rising(feed.queue, kind) => Rising(Tail(feed.queue), kind)
    <3>1. /\ Tail(feed.queue) \in Seq(Frames)
          /\ Numbers(feed.queue, kind) = Numbers(Tail(feed.queue), kind)
                \cup (IF Head(feed.queue).frame = kind
                      THEN {Head(feed.queue).n} ELSE {})
          /\ Rising(feed.queue, kind) => Rising(Tail(feed.queue), kind)
      BY ONLY <1>1, <2>2, TailNumbers
    <3> QED
      BY <3>1
  <2>4. /\ Numbers(Append(Tail(feed.queue), f), kind) =
            Numbers(Tail(feed.queue), kind)
                \cup (IF f.frame = kind THEN {f.n} ELSE {})
        /\ Rising(Tail(feed.queue), kind)
           /\ (f.frame = kind => \A x \in Numbers(Tail(feed.queue), kind) : x < f.n)
           => Rising(Append(Tail(feed.queue), f), kind)
    BY ONLY <2>3, f \in Frames, AppendNumbers
  <2> QED
    BY <2>1, <2>3, <2>4
<1> QED
  BY <1>2, <1>3

\* append_and_publish of the next row.
LEMMA AppendRowIs ==
    ASSUME HandleTypeOK, AppendRow, ~CancelIsDurable
    PROVE  \E kind \in {"row", "completed"} :
            /\ kind = "completed" <=> Script[task.at] = "done"
            /\ journal' = Append(journal, kind)
            /\ task.phase = "work" /\ task.at \in DOMAIN Script
            /\ Script[task.at] \in {"row", "done"}
            /\ task'.phase = "publish" /\ task'.outbox = <<Row(Len(journal) + 1)>>
            /\ task'.sent = task.sent /\ task'.cursor = Len(journal) + 1
            /\ task'.at = task.at + 1 /\ task'.ends = task.ends
            /\ feed' = feed /\ direct' = direct /\ handle' = handle /\ got' = got
            /\ Len(journal) + 1 \in Nat
            /\ HandleTypeOK'
<1> DEFINE kind == IF Script[task.at] = "done" THEN "completed" ELSE "row"
           n == Len(journal) + 1
<1>1. n \in Nat /\ kind \in {"row", "completed"} /\ kind \in RowKinds
  BY SMTT(30) DEF HandleTypeOK, RowKinds, Terminals
<1>2. /\ journal' = Append(journal, kind) /\ task' = Publishing(<<Row(n)>>, n)
      /\ task.phase = "work" /\ task.at \in DOMAIN Script
      /\ Script[task.at] \in {"row", "done"}
      /\ UNCHANGED <<feed, noise, direct, cancel, handle, got>>
  BY DEF AppendRow
<1>3. <<Row(n)>> \in Seq(Frames)
  BY <1>1, FramesAre, OneFrame
<1>4. /\ task' \in TaskType /\ task'.phase = "publish"
      /\ task'.outbox = <<Row(n)>> /\ task'.sent = task.sent
      /\ task'.cursor = n /\ task'.at = task.at + 1
      /\ task'.ends = (FALSE \/ task.ends)
  BY <1>1, <1>2, <1>3, PublishingIs
<1>5. kind = "completed" <=> Script[task.at] = "done"
  OBVIOUS
<1> HIDE DEF kind, n
<1>6. journal' \in Seq(RowKinds)
  BY <1>1, <1>2, JournalGrows
<1>7. HandleTypeOK'
  BY <1>2, <1>4, <1>6 DEF HandleTypeOK, TaskType
<1>8. task'.ends = task.ends
  BY <1>4, TypesAre DEF TaskType
<1> QED
  BY <1>1, <1>2, <1>4, <1>5, <1>7, <1>8 DEF n

LEMMA SilentRowIs ==
    ASSUME HandleTypeOK, SilentRow, ~CancelIsDurable
    PROVE  /\ journal' = Append(journal, "row") /\ "row" \in RowKinds
           /\ task.phase = "work" /\ task.at \in DOMAIN Script
           /\ Script[task.at] = "silent"
           /\ task'.phase = task.phase /\ task'.outbox = task.outbox
           /\ task'.sent = task.sent /\ task'.cursor = task.cursor
           /\ task'.at = task.at + 1 /\ task'.ends = task.ends
           /\ feed' = feed /\ direct' = direct /\ handle' = handle /\ got' = got
           /\ HandleTypeOK'
<1> DEFINE next == task.at + 1
<1>1. /\ journal' = Append(journal, "row") /\ task' = [task EXCEPT !.at = next]
      /\ task.phase = "work" /\ task.at \in DOMAIN Script
      /\ Script[task.at] = "silent"
      /\ UNCHANGED <<feed, noise, direct, cancel, handle, got>>
  BY DEF SilentRow
<1>2. task \in TaskType /\ next \in Nat /\ "row" \in RowKinds
  BY SMTT(30), TypesAre DEF TaskType, RowKinds
<1> HIDE DEF next
<1>3. /\ task' \in TaskType
      /\ task'.phase = task.phase /\ task'.outbox = task.outbox
      /\ task'.sent = task.sent /\ task'.cursor = task.cursor
      /\ task'.at = next /\ task'.ends = task.ends
  BY <1>1, <1>2 DEF TaskType
<1>4. journal' \in Seq(RowKinds)
  BY <1>1, <1>2, JournalGrows
<1>5. HandleTypeOK'
  BY <1>1, <1>3, <1>4 DEF HandleTypeOK, TaskType
<1> QED
  BY <1>1, <1>2, <1>3, <1>5 DEF next

LEMMA StreamIs ==
    ASSUME HandleTypeOK, Stream, task.cursor <= Len(journal)
    PROVE  LET page == Page(task.cursor) IN
           /\ page \in Seq(Frames) /\ task.cursor \in Nat
           /\ \/ Script[task.at] = "delta" /\ task'.outbox = Append(page, Delta(task.at))
              \/ Script[task.at] = "drain" /\ task'.outbox = page
           /\ task.phase = "work" /\ task.at \in DOMAIN Script
           /\ task'.phase = "publish" /\ task'.sent = task.sent
           /\ task'.cursor = task.cursor + Len(page)
           /\ task'.at = task.at + 1 /\ task'.ends = task.ends
           /\ journal' = journal /\ feed' = feed /\ direct' = direct
           /\ handle' = handle /\ got' = got
           /\ HandleTypeOK'
<1> DEFINE page == Page(task.cursor)
           token == IF Script[task.at] = "delta" THEN <<Delta(task.at)>> ELSE <<>>
           frames == page \o token
           next == task.cursor + Len(page)
<1>1. task \in TaskType /\ task.cursor \in Nat /\ task.at \in Nat
  BY SMTT(30), TypesAre DEF TaskType
<1>2. page \in Seq(Frames) /\ Len(page) \in Nat
  BY <1>1, PageIs, PageNumbers
<1>3. /\ task.phase = "work" /\ task.at \in DOMAIN Script
      /\ Script[task.at] \in {"delta", "drain"}
      /\ task' = Publishing(frames, next)
      /\ UNCHANGED <<journal, feed, noise, direct, cancel, handle, got>>
  BY DEF Stream
<1>4. next \in Nat
  BY SMTT(30), <1>1, <1>2
<1> HIDE DEF page, next
<1>5. Script[task.at] = "delta" =>
        frames = Append(page, Delta(task.at)) /\ frames \in Seq(Frames)
  <2>1. Delta(task.at) \in Frames
    BY <1>1, FramesAre
  <2>2. Append(page, Delta(task.at)) = page \o <<Delta(task.at)>>
        /\ Append(page, Delta(task.at)) \in Seq(Frames)
    BY SMTT(30), <1>2, <2>1
  <2> QED
    BY <2>2
<1>6. Script[task.at] = "drain" => frames = page
  BY SMTT(30), <1>2
<1>7. frames \in Seq(Frames)
  BY <1>2, <1>3, <1>5, <1>6
<1> HIDE DEF frames
<1>8. /\ task' \in TaskType /\ task'.phase = "publish"
      /\ task'.outbox = frames /\ task'.sent = task.sent
      /\ task'.cursor = next /\ task'.at = task.at + 1
      /\ task'.ends = (FALSE \/ task.ends)
  BY <1>3, <1>4, <1>7, PublishingIs
<1>9. task'.ends = task.ends
  BY <1>1, <1>8 DEF TaskType
<1>10. HandleTypeOK'
  BY <1>3, <1>8 DEF HandleTypeOK, TaskType
<1> QED
  BY <1>1, <1>2, <1>3, <1>5, <1>6, <1>8, <1>9, <1>10 DEF page, next

LEMMA InterruptIs ==
    ASSUME HandleTypeOK, Interrupt
    PROVE  /\ journal' = Append(journal, "interrupted") /\ "interrupted" \in RowKinds
           /\ task.phase = "close"
           /\ task'.phase = "publish" /\ task'.outbox = <<Row(Len(journal) + 1)>>
           /\ task'.sent = task.sent /\ task'.cursor = Len(journal) + 1
           /\ task'.at = task.at + 1 /\ task'.ends = TRUE
           /\ feed' = feed /\ direct' = direct /\ handle' = handle /\ got' = got
           /\ Len(journal) + 1 \in Nat
           /\ HandleTypeOK'
<1> DEFINE n == Len(journal) + 1
<1>1. n \in Nat /\ "interrupted" \in RowKinds
  BY SMTT(30) DEF HandleTypeOK, RowKinds, Terminals
<1>2. /\ journal' = Append(journal, "interrupted") /\ task.phase = "close"
      /\ task' = [Publishing(<<Row(n)>>, n) EXCEPT !.ends = TRUE]
      /\ UNCHANGED <<feed, noise, direct, cancel, handle, got>>
  BY DEF Interrupt
<1>3. <<Row(n)>> \in Seq(Frames)
  BY <1>1, FramesAre, OneFrame
<1>4. /\ task' \in TaskType /\ task'.phase = "publish"
      /\ task'.outbox = <<Row(n)>> /\ task'.sent = task.sent
      /\ task'.cursor = n /\ task'.at = task.at + 1
      /\ task'.ends = (TRUE \/ task.ends)
  BY <1>1, <1>2, <1>3, PublishingIs
<1> HIDE DEF n
<1>5. journal' \in Seq(RowKinds)
  BY <1>1, <1>2, JournalGrows
<1>6. HandleTypeOK'
  BY <1>2, <1>4, <1>5 DEF HandleTypeOK, TaskType
<1> QED
  BY <1>1, <1>2, <1>4, <1>6 DEF n

LEMMA CloseFailsIs ==
    ASSUME HandleTypeOK, CloseFails
    PROVE  /\ task.phase = "close"
           /\ task'.phase = "publish" /\ task'.outbox = <<Error>>
           /\ task'.sent = task.sent /\ task'.cursor = task.cursor
           /\ task'.at = task.at + 1 /\ task'.ends = TRUE
           /\ journal' = journal /\ feed' = feed /\ direct' = direct
           /\ handle' = handle /\ got' = got
           /\ HandleTypeOK'
<1>1. /\ task.phase = "close"
      /\ task' = [Publishing(<<Error>>, task.cursor) EXCEPT !.ends = TRUE]
      /\ UNCHANGED <<journal, feed, noise, direct, cancel, handle, got>>
  BY DEF CloseFails
<1>2. <<Error>> \in Seq(Frames) /\ task.cursor \in Nat
  BY FramesAre, OneFrame, TypesAre DEF TaskType
<1>3. /\ task' \in TaskType /\ task'.phase = "publish"
      /\ task'.outbox = <<Error>> /\ task'.sent = task.sent
      /\ task'.cursor = task.cursor /\ task'.at = task.at + 1
      /\ task'.ends = (TRUE \/ task.ends)
  BY <1>1, <1>2, PublishingIs
<1>4. HandleTypeOK'
  BY <1>1, <1>3 DEF HandleTypeOK, TaskType
<1> QED
  BY <1>1, <1>3, <1>4

LEMMA SendDirectIs ==
    ASSUME HandleTypeOK, SendDirect
    PROVE  /\ task.outbox \in Seq(Frames) /\ direct.queue \in Seq(Frames)
           /\ task.phase = "publish" /\ task.outbox # <<>> /\ ~task.sent
           /\ task'.phase = task.phase /\ task'.outbox = task.outbox
           /\ task'.sent = TRUE /\ task'.cursor = task.cursor
           /\ task'.at = task.at /\ task'.ends = task.ends
           /\ direct'.held = direct.held
           /\ direct'.queue = IF direct.held
                              THEN Append(direct.queue, Head(task.outbox))
                              ELSE direct.queue
           /\ journal' = journal /\ feed' = feed /\ handle' = handle /\ got' = got
           /\ HandleTypeOK'
<1> DEFINE more == Append(direct.queue, Head(task.outbox))
<1>1. task \in TaskType /\ direct \in DirectType /\ Len(direct.queue) <= DirectCap
  BY TypesAre
<1>2. /\ task.phase = "publish" /\ task.outbox # <<>> /\ ~task.sent
      /\ direct.held => Len(direct.queue) < DirectCap
      /\ direct' = IF direct.held THEN [direct EXCEPT !.queue = more] ELSE direct
      /\ task' = [task EXCEPT !.sent = TRUE]
      /\ UNCHANGED <<journal, feed, noise, cancel, handle, got>>
  BY DEF SendDirect
<1>3. task.outbox \in Seq(Frames) /\ direct.queue \in Seq(Frames)
  BY <1>1 DEF TaskType, DirectType
<1>4. Head(task.outbox) \in Frames
  BY ONLY <1>2, <1>3, TailNumbers
<1>5. more \in Seq(Frames) /\ Len(more) = Len(direct.queue) + 1
  BY SMTT(30), <1>3, <1>4
<1>6. direct.held => Len(more) <= DirectCap
  BY SMTT(30), <1>2, <1>3, <1>5, ScriptAssumption
<1> HIDE DEF more
<1>7. /\ task' \in TaskType
      /\ task'.phase = task.phase /\ task'.outbox = task.outbox
      /\ task'.sent = TRUE /\ task'.cursor = task.cursor
      /\ task'.at = task.at /\ task'.ends = task.ends
  BY <1>1, <1>2 DEF TaskType
<1>8. /\ direct' \in DirectType /\ direct'.held = direct.held
      /\ direct'.queue = IF direct.held THEN more ELSE direct.queue
  BY <1>1, <1>2, <1>5 DEF DirectType
<1>9. Len(direct'.queue) <= DirectCap
  BY <1>1, <1>6, <1>8
<1>10. HandleTypeOK'
  BY <1>2, <1>7, <1>8, <1>9 DEF HandleTypeOK, TaskType, DirectType
<1> QED
  BY <1>2, <1>3, <1>7, <1>8, <1>10 DEF more

LEMMA BroadcastIs ==
    ASSUME HandleTypeOK, ControlInv, Broadcast
    PROVE  /\ task.outbox \in Seq(Frames) /\ task.outbox # <<>>
           /\ Head(task.outbox) \in Frames
           /\ task.phase = "publish" /\ task.sent
           /\ feed' = Sent(Head(task.outbox))
           /\ task'.phase = task.phase /\ task'.outbox = Tail(task.outbox)
           /\ task'.sent = FALSE /\ task'.cursor = task.cursor
           /\ task'.at = task.at /\ task'.ends = task.ends
           /\ journal' = journal /\ direct' = direct /\ handle' = handle
           /\ got' = got
           /\ HandleTypeOK'
<1> DEFINE rest == Tail(task.outbox)
<1>1. task \in TaskType
  BY TypesAre
<1>2. /\ task.phase = "publish" /\ task.sent
      /\ feed' = Sent(Head(task.outbox))
      /\ task' = [task EXCEPT !.outbox = rest, !.sent = FALSE]
      /\ UNCHANGED <<journal, noise, direct, cancel, handle, got>>
  BY DEF Broadcast
<1>3. task.outbox \in Seq(Frames) /\ task.outbox # <<>>
  BY <1>1, <1>2 DEF TaskType, ControlInv
<1>4. Head(task.outbox) \in Frames /\ rest \in Seq(Frames)
  BY ONLY <1>3, TailNumbers
<1>5. feed' \in FeedType /\ Len(feed'.queue) <= GlobalCap
  BY <1>2, <1>4, SentType
<1> HIDE DEF rest
<1>6. /\ task' \in TaskType
      /\ task'.phase = task.phase /\ task'.outbox = rest
      /\ task'.sent = FALSE /\ task'.cursor = task.cursor
      /\ task'.at = task.at /\ task'.ends = task.ends
  BY <1>1, <1>2, <1>4 DEF TaskType
<1>7. HandleTypeOK'
  BY <1>2, <1>5, <1>6 DEF HandleTypeOK, TaskType, FeedType
<1> QED
  BY <1>2, <1>3, <1>4, <1>6, <1>7 DEF rest

LEMMA CancelAppendsIs ==
    ASSUME HandleTypeOK, CancelAppends
    PROVE  /\ TurnIsOpen /\ journal' = Append(journal, "intent")
           /\ "intent" \in RowKinds
           /\ feed' = feed /\ direct' = direct /\ task' = task
           /\ handle' = handle /\ got' = got
           /\ HandleTypeOK'
<1>1. /\ journal' = Append(journal, "intent") /\ cancel' = "durable" /\ TurnIsOpen
      /\ UNCHANGED <<feed, noise, direct, task, handle, got>>
  BY DEF CancelAppends
<1>2. "intent" \in RowKinds
  BY DEF RowKinds
<1>3. journal' \in Seq(RowKinds)
  BY <1>1, <1>2, JournalGrows
<1>4. HandleTypeOK'
  BY SMTT(30), <1>1, <1>3 DEF HandleTypeOK
<1> QED
  BY <1>1, <1>2, <1>4

\* A frame the task does not publish: the intent row, or one of another turn.
LEMMA OthersBroadcastIs ==
    ASSUME HandleTypeOK, CancelBroadcasts \/ OtherTurnBroadcasts
    PROVE  /\ \E f \in Frames :
                /\ feed' = Sent(f)
                /\ \/ f = Noise
                   \/ f.frame = "row" /\ f.n \in DOMAIN journal
                      /\ journal[f.n] = "intent" /\ ~Clean
           /\ journal' = journal /\ direct' = direct /\ task' = task
           /\ handle' = handle /\ got' = got
           /\ HandleTypeOK'
<1>1. CASE CancelBroadcasts
  <2>1. PICK n \in DOMAIN journal : journal[n] = "intent" /\ feed' = Sent(Row(n))
    BY <1>1 DEF CancelBroadcasts
  <2>2. UNCHANGED <<journal, noise, direct, task, handle, got>>
        /\ cancel' = "announced"
    BY <1>1 DEF CancelBroadcasts
  <2>3. n \in Nat /\ ~Clean
    <3>1. journal \in Seq(RowKinds)
      BY DEF HandleTypeOK
    <3>2. n \in Nat
      BY SMTT(30), <3>1
    <3>3. "intent" \notin {"row", "completed"}
      OBVIOUS
    <3> QED
      BY <2>1, <3>2, <3>3 DEF Clean
  <2>4. Row(n) \in Frames /\ Row(n).frame = "row" /\ Row(n).n = n
    BY <2>3, FramesAre
  <2>5. feed' \in FeedType /\ Len(feed'.queue) <= GlobalCap
    BY <2>1, <2>4, SentType
  <2>6. HandleTypeOK'
    BY <2>2, <2>5 DEF HandleTypeOK, FeedType
  <2> QED
    BY <2>1, <2>2, <2>3, <2>4, <2>6
<1>2. CASE OtherTurnBroadcasts
  <2>1. feed' = Sent(Noise) /\ noise < MaxNoise /\ noise' = noise + 1
        /\ UNCHANGED <<journal, direct, task, cancel, handle, got>>
    BY <1>2 DEF OtherTurnBroadcasts
  <2>2. noise' \in 0 .. MaxNoise
    BY SMTT(30), <2>1, ScriptAssumption DEF HandleTypeOK
  <2>3. Noise \in Frames
    BY FramesAre
  <2>4. feed' \in FeedType /\ Len(feed'.queue) <= GlobalCap
    BY <2>1, <2>3, SentType
  <2>5. HandleTypeOK'
    BY SMTT(30), <2>1, <2>2, <2>4 DEF HandleTypeOK, FeedType
  <2> QED
    BY <2>1, <2>3, <2>5
<1> QED
  BY <1>1, <1>2

LEMMA JoinIs ==
    ASSUME HandleTypeOK, Join
    PROVE  /\ handle.pc = "unborn" /\ handle'.pc = "recv"
           /\ handle'.replay = handle.replay /\ handle'.complete = handle.complete
           /\ handle'.cursor = handle.cursor /\ handle'.seen = handle.seen
           /\ handle'.private = handle.private /\ handle'.lagged = handle.lagged
           /\ \/ journal' = journal /\ feed' = feed
              \/ /\ TurnIsOpen /\ task.phase = "ended"
                 /\ journal' = Append(journal, "interrupted")
                 /\ "interrupted" \in RowKinds
                 /\ feed' = Received(Row(Len(journal) + 1))
                 /\ Row(Len(journal) + 1) \in Frames
           /\ direct' = direct /\ task' = task /\ got' = got
           /\ HandleTypeOK'
<1> DEFINE n == Len(journal) + 1
<1>1. handle \in HandleType /\ n \in Nat /\ "interrupted" \in RowKinds
  BY SMTT(30), TypesAre DEF RowKinds, Terminals
<1>2. /\ handle.pc = "unborn" /\ handle' = [handle EXCEPT !.pc = "recv"]
      /\ IF task.phase = "ended" /\ TurnIsOpen
         THEN /\ journal' = Append(journal, "interrupted")
              /\ feed' = Received(Row(n))
         ELSE UNCHANGED <<journal, feed>>
      /\ UNCHANGED <<noise, direct, task, cancel, got>>
  BY DEF Join
<1> HIDE DEF n
<1>3. /\ handle' \in HandleType /\ handle'.pc = "recv"
      /\ handle'.replay = handle.replay /\ handle'.complete = handle.complete
      /\ handle'.cursor = handle.cursor /\ handle'.seen = handle.seen
      /\ handle'.private = handle.private /\ handle'.lagged = handle.lagged
  BY <1>1, <1>2 DEF HandleType
<1>4. Row(n) \in Frames
  BY <1>1, FramesAre
<1>5. CASE task.phase = "ended" /\ TurnIsOpen
  <2>1. journal' \in Seq(RowKinds)
    BY <1>1, <1>2, <1>5, JournalGrows
  <2>2. feed' \in FeedType /\ Len(feed'.queue) <= GlobalCap
    BY <1>2, <1>4, <1>5, SentType
  <2>3. HandleTypeOK'
    BY <1>2, <1>3, <2>1, <2>2 DEF HandleTypeOK, HandleType, FeedType
  <2> QED
    BY <1>1, <1>2, <1>3, <1>4, <1>5, <2>3 DEF n
<1>6. CASE ~(task.phase = "ended" /\ TurnIsOpen)
  <2>1. journal' = journal /\ feed' = feed
    BY <1>2, <1>6
  <2>2. HandleTypeOK'
    BY <1>2, <1>3, <2>1 DEF HandleTypeOK, HandleType
  <2> QED
    BY <1>2, <1>3, <2>1, <2>2
<1> QED
  BY <1>5, <1>6

\* The receivers once the handle is gone.
Gone == feed' = NoFrames /\ direct'.queue = <<>> /\ direct'.held = FALSE

LEMMA GoneType ==
    NoFrames \in FeedType /\ NoFrames.queue = <<>> /\ ~NoFrames.missed
    /\ Len(NoFrames.queue) <= GlobalCap
<1>1. <<>> \in Seq(Frames) /\ Len(<<>>) <= GlobalCap
  BY SMTT(30), ScriptAssumption
<1> QED
  BY <1>1 DEF NoFrames, FeedType

LEMMA DroppedIs ==
    ASSUME HandleTypeOK, NEW rest \in FeedType, NEW private \in DirectType,
           Len(rest.queue) <= GlobalCap, Len(private.queue) <= DirectCap,
           Dropped(rest, private)
    PROVE  /\ handle'.pc = "over" => Gone
           /\ handle'.pc # "over" => feed' = rest /\ direct' = private
           /\ feed' \in FeedType /\ Len(feed'.queue) <= GlobalCap
           /\ direct' \in DirectType /\ Len(direct'.queue) <= DirectCap
<1>1. <<>> \in Seq(Frames) /\ Len(<<>>) <= DirectCap
  BY SMTT(30), ScriptAssumption
<1>2. CASE handle'.pc = "over"
  <2>1. feed' = NoFrames
        /\ direct' = [private EXCEPT !.held = FALSE, !.queue = <<>>]
    BY <1>2 DEF Dropped
  <2>2. direct' \in DirectType /\ direct'.queue = <<>> /\ direct'.held = FALSE
    BY <1>1, <2>1 DEF DirectType
  <2> QED
    BY <1>1, <1>2, <2>1, <2>2, GoneType DEF Gone
<1>3. CASE handle'.pc # "over"
  BY <1>3 DEF Dropped
<1> QED
  BY <1>2, <1>3

LEMMA AbandonIs ==
    ASSUME HandleTypeOK, Abandon
    PROVE  /\ handle.pc = "recv" /\ handle'.pc = "closed" /\ Gone
           /\ handle'.replay = handle.replay /\ handle'.complete = handle.complete
           /\ handle'.cursor = handle.cursor /\ handle'.seen = handle.seen
           /\ handle'.private = handle.private /\ handle'.lagged = handle.lagged
           /\ journal' = journal /\ task' = task /\ got' = got
           /\ HandleTypeOK'
<1>1. /\ handle.pc = "recv" /\ handle' = [handle EXCEPT !.pc = "closed"]
      /\ direct' = [direct EXCEPT !.held = FALSE, !.queue = <<>>]
      /\ feed' = NoFrames
      /\ UNCHANGED <<journal, noise, task, cancel, got>>
  BY DEF Abandon
<1>2. handle \in HandleType /\ direct \in DirectType
  BY TypesAre
<1>3. <<>> \in Seq(Frames) /\ Len(<<>>) <= DirectCap
  BY SMTT(30), ScriptAssumption
<1>4. /\ handle' \in HandleType /\ handle'.pc = "closed"
      /\ handle'.replay = handle.replay /\ handle'.complete = handle.complete
      /\ handle'.cursor = handle.cursor /\ handle'.seen = handle.seen
      /\ handle'.private = handle.private /\ handle'.lagged = handle.lagged
  BY <1>1, <1>2 DEF HandleType
<1>5. direct' \in DirectType /\ direct'.queue = <<>> /\ direct'.held = FALSE
  BY <1>1, <1>2, <1>3 DEF DirectType
<1>6. HandleTypeOK'
  BY <1>1, <1>3, <1>4, <1>5, GoneType DEF HandleTypeOK, HandleType, DirectType, FeedType
<1> QED
  BY <1>1, <1>4, <1>5, <1>6 DEF Gone

LEMMA TakeReplayIs ==
    ASSUME HandleTypeOK, TakeReplay
    PROVE  /\ handle.pc = "recv" /\ handle.replay \in Seq(Frames)
           /\ handle.replay # <<>> /\ Head(handle.replay) \in Frames
           /\ Took(Tail(handle.replay), Head(handle.replay))
           /\ handle'.pc = "over" => Gone
           /\ handle'.pc # "over" => feed' = feed /\ direct' = direct
           /\ journal' = journal /\ task' = task
           /\ HandleTypeOK'
<1> DEFINE f == Head(handle.replay)
           rest == Tail(handle.replay)
           h == [handle EXCEPT !.replay = rest]
<1>1. /\ handle \in HandleType /\ feed \in FeedType /\ direct \in DirectType
      /\ Len(feed.queue) <= GlobalCap /\ Len(direct.queue) <= DirectCap
  BY TypesAre
<1>2. /\ handle.pc = "recv" /\ handle.replay # <<>>
      /\ Deliver(Accept(h, f), f)
      /\ Dropped(feed, direct)
      /\ UNCHANGED <<journal, noise, task, cancel>>
  BY DEF TakeReplay
<1>3. handle.replay \in Seq(Frames)
  BY <1>1 DEF HandleType
<1>4. f \in Frames /\ rest \in Seq(Frames)
  BY ONLY <1>2, <1>3, TailNumbers
<1>5. h = [handle EXCEPT !.replay = rest]
  OBVIOUS
<1> HIDE DEF f, rest, h
<1>6. handle' \in HandleType /\ Took(rest, f)
  BY <1>1, <1>2, <1>4, <1>5, DeliverTakes
<1>7. /\ handle'.pc = "over" => Gone
      /\ handle'.pc # "over" => feed' = feed /\ direct' = direct
      /\ feed' \in FeedType /\ Len(feed'.queue) <= GlobalCap
      /\ direct' \in DirectType /\ Len(direct'.queue) <= DirectCap
  BY <1>1, <1>2, DroppedIs
<1>8. got' \in Seq(Frames)
  <2>1. got' = got \/ got' = Append(got, f)
    BY <1>6 DEF Took
  <2>2. got \in Seq(Frames)
    BY DEF HandleTypeOK
  <2> QED
    BY SMTT(30), <1>4, <2>1, <2>2
<1>9. HandleTypeOK'
  BY SMTT(30), <1>2, <1>6, <1>7, <1>8 DEF HandleTypeOK, HandleType, FeedType, DirectType
<1> QED
  BY <1>2, <1>3, <1>4, <1>6, <1>7, <1>9 DEF f, rest

\* While the private channel is there, the broadcast is asked only for rows
\* that do not end the turn.
LEMMA ReadGlobalIs ==
    ASSUME HandleTypeOK, ReadGlobal
    PROVE  LET f == Head(feed.queue) IN
           /\ Ready /\ ~feed.missed /\ feed.queue \in Seq(Frames)
           /\ feed.queue # <<>> /\ f \in Frames
           /\ \/ /\ handle.private /\ (f.frame # "row" \/ IsTerminalFrame(f))
                 /\ handle' = handle /\ got' = got
              \/ /\ ~handle.private \/ (f.frame = "row" /\ ~IsTerminalFrame(f))
                 /\ Took(<<>>, f)
           /\ handle'.pc = "over" => Gone
           /\ handle'.pc # "over" =>
                /\ feed'.queue = Tail(feed.queue) /\ feed'.missed = feed.missed
                /\ direct' = direct
           /\ journal' = journal /\ task' = task
           /\ HandleTypeOK'
<1> DEFINE f == Head(feed.queue)
           rest == Tail(feed.queue)
           less == [feed EXCEPT !.queue = rest]
           skip == handle.private /\ (f.frame # "row" \/ IsTerminalFrame(f))
<1>1. /\ handle \in HandleType /\ feed \in FeedType /\ direct \in DirectType
      /\ Len(feed.queue) <= GlobalCap /\ Len(direct.queue) <= DirectCap
  BY TypesAre
<1>2. /\ Ready /\ ~feed.missed /\ feed.queue # <<>>
      /\ Deliver(AcceptGlobal(handle, f), f)
      /\ Dropped(less, direct)
      /\ UNCHANGED <<journal, noise, task, cancel>>
  BY DEF ReadGlobal
<1>3. feed.queue \in Seq(Frames)
  BY <1>1 DEF FeedType
<1>4. f \in Frames /\ rest \in Seq(Frames)
  BY ONLY <1>2, <1>3, TailNumbers
<1>5. Len(rest) <= GlobalCap
  BY SMTT(30), <1>1, <1>2, <1>3, ScriptAssumption
<1> HIDE DEF rest
<1>6. less \in FeedType /\ less.queue = rest /\ less.missed = feed.missed
  BY <1>1, <1>4 DEF FeedType
<1> HIDE DEF less
<1>7. handle.replay = <<>> /\ handle.pc = "recv"
  BY <1>2 DEF Ready
<1>8. /\ handle' \in HandleType /\ got' \in Seq(Frames)
      /\ \/ skip /\ handle' = handle /\ got' = got
         \/ ~skip /\ Took(<<>>, f)
  <2>1. CASE skip
    <3>1. AcceptGlobal(handle, f) = [handle |-> handle, taken |-> FALSE]
      BY <2>1 DEF AcceptGlobal
    <3>2. handle' = [handle EXCEPT !.pc = "recv"] /\ got' = got
      <4>1. AcceptGlobal(handle, f).handle = handle
            /\ AcceptGlobal(handle, f).taken = FALSE
        BY SMTT(30), <3>1
      <4> QED
        BY <1>2, <4>1 DEF Deliver
    <3>3. handle' = handle
      BY SMTT(30), <1>1, <1>7, <3>2 DEF HandleType
    <3> QED
      BY <1>1, <2>1, <3>2, <3>3 DEF HandleTypeOK
  <2>2. CASE ~skip
    <3>1. Deliver(Accept(handle, f), f)
      BY <1>2, <2>2 DEF AcceptGlobal
    <3>2. handle = [handle EXCEPT !.replay = <<>>] /\ <<>> \in Seq(Frames)
      BY SMTT(30), <1>1, <1>7 DEF HandleType
    <3>3. handle' \in HandleType /\ Took(<<>>, f)
      BY <1>1, <1>4, <3>1, <3>2, DeliverTakes
    <3>4. got' \in Seq(Frames)
      <4>1. got' = got \/ got' = Append(got, f)
        BY <3>3 DEF Took
      <4>2. got \in Seq(Frames)
        BY DEF HandleTypeOK
      <4> QED
        BY SMTT(30), <1>4, <4>1, <4>2
    <3> QED
      BY <2>2, <3>3, <3>4
  <2> QED
    BY <2>1, <2>2
<1>9. /\ handle'.pc = "over" => Gone
      /\ handle'.pc # "over" => feed' = less /\ direct' = direct
      /\ feed' \in FeedType /\ Len(feed'.queue) <= GlobalCap
      /\ direct' \in DirectType /\ Len(direct'.queue) <= DirectCap
  BY <1>1, <1>2, <1>5, <1>6, DroppedIs
<1>10. HandleTypeOK'
  BY SMTT(30), <1>2, <1>8, <1>9 DEF HandleTypeOK, HandleType, FeedType, DirectType
<1> QED
  BY <1>2, <1>3, <1>4, <1>6, <1>8, <1>9, <1>10 DEF rest

LEMMA ReadDirectIs ==
    ASSUME HandleTypeOK, ControlInv, ReadDirect
    PROVE  LET f == Head(direct.queue) IN
           /\ handle.pc = "direct" /\ direct.queue \in Seq(Frames)
           /\ direct.queue # <<>> /\ f \in Frames
           /\ handle.replay = <<>> /\ handle.complete
           /\ Took(<<>>, f)
           /\ handle'.pc = "over" => Gone
           /\ handle'.pc # "over" =>
                /\ feed' = feed
                /\ direct'.queue = Tail(direct.queue) /\ direct'.held = direct.held
           /\ journal' = journal /\ task' = task
           /\ HandleTypeOK'
<1> DEFINE f == Head(direct.queue)
           rest == Tail(direct.queue)
           less == [direct EXCEPT !.queue = rest]
<1>1. /\ handle \in HandleType /\ feed \in FeedType /\ direct \in DirectType
      /\ Len(feed.queue) <= GlobalCap /\ Len(direct.queue) <= DirectCap
  BY TypesAre
<1>2. /\ handle.pc = "direct" /\ direct.queue # <<>>
      /\ Deliver(Accept(handle, f), f)
      /\ Dropped(feed, less)
      /\ UNCHANGED <<journal, noise, task, cancel>>
  BY DEF ReadDirect
<1>3. direct.queue \in Seq(Frames)
  BY <1>1 DEF DirectType
<1>4. f \in Frames /\ rest \in Seq(Frames)
  BY ONLY <1>2, <1>3, TailNumbers
<1>5. Len(rest) <= DirectCap
  BY SMTT(30), <1>1, <1>2, <1>3, ScriptAssumption
<1> HIDE DEF f, rest
<1>6. less \in DirectType /\ less.queue = rest /\ less.held = direct.held
  BY <1>1, <1>4 DEF DirectType
<1> HIDE DEF less
<1>7. handle.replay = <<>> /\ handle.complete
  BY <1>2 DEF ControlInv
<1>8. handle = [handle EXCEPT !.replay = <<>>] /\ <<>> \in Seq(Frames)
  BY SMTT(30), <1>1, <1>7 DEF HandleType
<1>9. handle' \in HandleType /\ Took(<<>>, f)
  BY <1>1, <1>2, <1>4, <1>8, DeliverTakes
<1>10. got' \in Seq(Frames)
  <2>1. got' = got \/ got' = Append(got, f)
    BY <1>9 DEF Took
  <2>2. got \in Seq(Frames)
    BY DEF HandleTypeOK
  <2> QED
    BY SMTT(30), <1>4, <2>1, <2>2
<1>11. /\ handle'.pc = "over" => Gone
       /\ handle'.pc # "over" => feed' = feed /\ direct' = less
       /\ feed' \in FeedType /\ Len(feed'.queue) <= GlobalCap
       /\ direct' \in DirectType /\ Len(direct'.queue) <= DirectCap
  BY <1>1, <1>2, <1>5, <1>6, DroppedIs
<1>12. HandleTypeOK'
  BY SMTT(30), <1>2, <1>9, <1>10, <1>11 DEF HandleTypeOK, HandleType, FeedType, DirectType
<1> QED
  BY <1>2, <1>3, <1>4, <1>6, <1>7, <1>9, <1>11, <1>12 DEF f, rest

\* Both refills read the page behind the replay cursor.
LEMMA RefillStepIs ==
    ASSUME HandleTypeOK, handle.cursor <= Len(journal), RefillReplay \/ ReadLagged
    PROVE  LET page == Page(handle.cursor) IN
           /\ handle.pc = "recv" /\ handle'.pc = handle.pc
           /\ handle.replay = <<>> /\ handle.cursor \in Nat
           /\ handle'.replay = page /\ handle'.cursor = handle.cursor + Len(page)
           /\ handle'.complete <=>
                \/ Len(page) < PageSize
                \/ \E i \in DOMAIN page : IsTerminalFrame(page[i])
           /\ handle'.seen = handle.seen /\ handle'.private = handle.private
           /\ \/ handle'.lagged
              \/ handle'.lagged = handle.lagged /\ ~handle.complete
           /\ feed'.queue = feed.queue
           /\ journal' = journal /\ direct' = direct /\ task' = task /\ got' = got
           /\ HandleTypeOK'
<1> DEFINE page == Page(handle.cursor)
           done == \/ Len(page) < PageSize
                   \/ \E i \in DOMAIN page : IsTerminalFrame(page[i])
<1>1. handle.pc = "recv" /\ handle.replay = <<>>
      /\ UNCHANGED <<journal, noise, direct, task, cancel, got>>
  BY DEF RefillReplay, ReadLagged, Ready
<1>2. handle \in HandleType /\ feed \in FeedType
  BY TypesAre
<1>3. handle.cursor \in Nat
  BY <1>2 DEF HandleType
<1>4. /\ Refill(handle) \in HandleType
      /\ Refill(handle).replay = page
      /\ Refill(handle).cursor = handle.cursor + Len(page)
      /\ Refill(handle).complete <=> done
      /\ Refill(handle).pc = handle.pc /\ Refill(handle).seen = handle.seen
      /\ Refill(handle).private = handle.private
      /\ Refill(handle).lagged = handle.lagged
  BY <1>1, RefillIs
<1> HIDE DEF page, done
<1>5. CASE RefillReplay
  <2>1. handle' = Refill(handle) /\ ~handle.complete /\ feed' = feed
    BY <1>5 DEF RefillReplay
  <2>2. HandleTypeOK'
    BY SMTT(30), <1>1, <1>4, <2>1 DEF HandleTypeOK, HandleType
  <2> QED
    BY <1>1, <1>3, <1>4, <2>1, <2>2 DEF page, done
<1>6. CASE ReadLagged
  <2>1. handle' = [Refill(handle) EXCEPT !.lagged = TRUE]
        /\ feed' = [feed EXCEPT !.missed = FALSE]
    BY <1>6 DEF ReadLagged
  <2>2. feed' \in FeedType /\ feed'.queue = feed.queue
    BY <1>2, <2>1 DEF FeedType
  <2>3. /\ handle' \in HandleType /\ handle'.lagged
        /\ handle'.replay = page /\ handle'.cursor = handle.cursor + Len(page)
        /\ handle'.complete <=> done
        /\ handle'.pc = handle.pc /\ handle'.seen = handle.seen
        /\ handle'.private = handle.private
    BY <1>4, <2>1 DEF HandleType
  <2>4. Len(feed'.queue) <= GlobalCap
    BY <2>2, TypesAre
  <2>5. HandleTypeOK'
    BY SMTT(30), <1>1, <2>2, <2>3, <2>4 DEF HandleTypeOK, HandleType, FeedType
  <2> QED
    BY <1>1, <1>3, <2>2, <2>3, <2>5 DEF page, done
<1> QED
  BY <1>5, <1>6

LEMMA StepCases ==
    ASSUME [HandleNext]_handleVars
    PROVE  \/ QuietSteps
           \/ AppendRow /\ ~CancelIsDurable
           \/ SilentRow /\ ~CancelIsDurable
           \/ Stream \/ Interrupt \/ CloseFails \/ SendDirect \/ Broadcast
           \/ CancelAppends
           \/ CancelBroadcasts \/ OtherTurnBroadcasts
           \/ Join \/ Abandon \/ TakeReplay
           \/ RefillReplay \/ ReadLagged
           \/ ReadGlobal \/ ReadDirect
BY DEF HandleNext, TaskNext, CancelNext, Recv, QuietSteps

-----------------------------------------------------------------------------
(* Control.                                                                *)

LEMMA ControlStep ==
    ASSUME HandleTypeOK, ControlInv, task.cursor <= Len(journal),
           handle.cursor <= Len(journal), [HandleNext]_handleVars
    PROVE  HandleTypeOK' /\ ControlInv'
<1>0. task.at \in Nat /\ (task.at >= 1 => task.at + 1 >= 2 /\ task.at + 1 >= 1)
  BY SMTT(30), TypesAre DEF TaskType
<1>1. CASE QuietSteps
  <2>1. HandleTypeOK' /\ Quiet
    BY <1>1, QuietStep
  <2>2. \/ task'.phase = task.phase /\ handle'.pc = handle.pc
        \/ task'.phase = "close" /\ task.phase = "work"
           /\ task.at \in DOMAIN Script /\ handle' = handle
        \/ task'.phase \in {"work", "ended"} /\ task.outbox = <<>>
           /\ task.phase = "publish" /\ handle' = handle
           /\ (task.ends => task'.phase = "ended")
        \/ task'.phase = "ended" /\ task.phase = "work"
           /\ task.outbox = <<>> /\ handle' = handle
        \/ task' = task /\ handle'.pc \in {"recv", "direct"}
           /\ (handle'.pc = "direct" => Ready /\ handle.private)
    BY <1>1, QuietStep
  <2>3. /\ task'.at >= 1
        /\ task'.sent => task'.phase = "publish" /\ task'.outbox # <<>>
        /\ task'.phase # "publish" => task'.outbox = <<>>
        /\ task'.ends => task'.phase \in {"publish", "ended"} /\ task'.at >= 2
    BY <2>1, <2>2 DEF ControlInv, Quiet
  <2>4. /\ direct'.held <=> handle'.private /\ Subscribed'
        /\ ~Subscribed' => feed' = NoFrames
        /\ handle'.private /\ ~handle'.lagged =>
              handle'.replay = <<>> /\ handle'.complete
    BY <2>1 DEF ControlInv, Quiet
  <2>5. /\ handle'.pc = "direct" =>
            handle'.private /\ handle'.replay = <<>> /\ handle'.complete
        /\ handle'.pc = "unborn" => ~handle'.private /\ ~handle'.complete
    BY <2>1, <2>2 DEF ControlInv, Quiet, Ready
  <2> QED
    BY <2>1, <2>3, <2>4, <2>5 DEF ControlInv
<1>2. CASE AppendRow /\ ~CancelIsDurable
  BY <1>0, <1>2, AppendRowIs, SMTT(30) DEF ControlInv, Subscribed
<1>3. CASE SilentRow /\ ~CancelIsDurable
  BY <1>0, <1>3, SilentRowIs, SMTT(30) DEF ControlInv, Subscribed
<1>4. CASE Stream
  BY <1>0, <1>4, StreamIs, SMTT(30) DEF ControlInv, Subscribed
<1>5. CASE Interrupt
  BY <1>0, <1>5, InterruptIs, SMTT(30) DEF ControlInv, Subscribed
<1>6. CASE CloseFails
  BY <1>0, <1>6, CloseFailsIs, SMTT(30) DEF ControlInv, Subscribed
<1>7. CASE SendDirect
  BY <1>7, SendDirectIs, SMTT(30) DEF ControlInv, Subscribed
<1>8. CASE Broadcast
  <2>1. /\ task'.phase = "publish" /\ task'.sent = FALSE /\ task'.at = task.at
        /\ task'.ends = task.ends /\ feed' = Sent(Head(task.outbox))
        /\ direct' = direct /\ handle' = handle /\ HandleTypeOK'
    BY <1>8, BroadcastIs
  <2>2. ~Subscribed => feed' = feed
    BY <2>1 DEF Sent
  <2> QED
    BY <2>1, <2>2 DEF ControlInv, Subscribed
<1>9. CASE CancelAppends
  BY <1>9, CancelAppendsIs, SMTT(30) DEF ControlInv, Subscribed
<1>10. CASE CancelBroadcasts \/ OtherTurnBroadcasts
  BY <1>10, OthersBroadcastIs, SMTT(30) DEF ControlInv, Subscribed, Sent
<1>11. CASE Join
  BY <1>11, JoinIs, SMTT(30) DEF ControlInv, Subscribed
<1>12. CASE Abandon
  <2>1. /\ handle'.pc = "closed" /\ Gone /\ task' = task /\ HandleTypeOK'
        /\ handle'.replay = handle.replay /\ handle'.complete = handle.complete
        /\ handle'.private = handle.private /\ handle'.lagged = handle.lagged
    BY <1>12, AbandonIs
  <2> QED
    BY <2>1 DEF ControlInv, Subscribed, Gone
<1>13. CASE TakeReplay
  <2>1. /\ handle.pc = "recv" /\ handle'.pc \in {"recv", "over"} /\ task' = task
        /\ handle'.private = handle.private /\ handle'.lagged = handle.lagged
        /\ handle'.complete = handle.complete /\ handle.replay # <<>>
    BY <1>13, TakeReplayIs DEF Took
  <2>2. /\ handle'.pc = "over" => direct'.held = FALSE /\ feed' = NoFrames
        /\ handle'.pc # "over" => direct' = direct
    BY <1>13, TakeReplayIs DEF Gone
  <2>3. HandleTypeOK'
    BY <1>13, TakeReplayIs
  <2> QED
    BY <2>1, <2>2, <2>3 DEF ControlInv, Subscribed
<1>14. CASE RefillReplay \/ ReadLagged
  BY <1>14, RefillStepIs, SMTT(30) DEF ControlInv, Subscribed
<1>15. CASE ReadGlobal
  <2>1. /\ handle.pc = "recv" /\ handle.replay = <<>> /\ handle.complete
    BY <1>15, ReadGlobalIs DEF Ready
  <2>2. /\ handle'.pc \in {"recv", "over"} /\ task' = task
        /\ handle'.private = handle.private /\ handle'.lagged = handle.lagged
        /\ handle'.complete = handle.complete /\ handle'.replay = <<>>
    BY <1>15, <2>1, ReadGlobalIs DEF Took
  <2>3. /\ handle'.pc = "over" => direct'.held = FALSE /\ feed' = NoFrames
        /\ handle'.pc # "over" => direct' = direct
    BY <1>15, ReadGlobalIs DEF Gone
  <2>4. HandleTypeOK'
    BY <1>15, ReadGlobalIs
  <2> QED
    BY <2>1, <2>2, <2>3, <2>4 DEF ControlInv, Subscribed
<1>16. CASE ReadDirect
  <2>1. /\ handle.pc = "direct" /\ handle.replay = <<>> /\ handle.complete
        /\ task' = task /\ HandleTypeOK'
    BY <1>16, ReadDirectIs
  <2>2. /\ handle'.pc \in {"recv", "over"}
        /\ handle'.private = handle.private /\ handle'.lagged = handle.lagged
        /\ handle'.complete = handle.complete /\ handle'.replay = <<>>
    BY <1>16, ReadDirectIs DEF Took
  <2>3. /\ handle'.pc = "over" => direct'.held = FALSE /\ feed' = NoFrames
        /\ handle'.pc # "over" => direct'.held = direct.held
    BY <1>16, ReadDirectIs DEF Gone
  <2> QED
    BY <2>1, <2>2, <2>3 DEF ControlInv, Subscribed
<1> QED
  BY StepCases, <1>1, <1>2, <1>3, <1>4, <1>5, <1>6, <1>7, <1>8, <1>9, <1>10,
     <1>11, <1>12, <1>13, <1>14, <1>15, <1>16

-----------------------------------------------------------------------------
(* Frames name rows and tokens that exist.                                 *)

SoundFrame(f) == /\ f.frame = "row" => f.n \in DOMAIN journal
                 /\ f.frame = "delta" => f.n \in Tokens

LEMMA SoundAppend ==
    ASSUME NEW q \in Seq(Frames), NEW f \in Frames, Sound(q), SoundFrame(f)
    PROVE  Sound(Append(q, f))
<1>1. ASSUME NEW kind
      PROVE  Numbers(Append(q, f), kind) =
                Numbers(q, kind) \cup (IF f.frame = kind THEN {f.n} ELSE {})
  BY AppendNumbers
<1> QED
  BY <1>1 DEF Sound, SoundFrame

LEMMA SoundTail ==
    ASSUME NEW q \in Seq(Frames), q # <<>>, Sound(q)
    PROVE  Sound(Tail(q)) /\ SoundFrame(Head(q))
<1>1. ASSUME NEW kind
      PROVE  Numbers(q, kind) = Numbers(Tail(q), kind)
                \cup (IF Head(q).frame = kind THEN {Head(q).n} ELSE {})
  BY TailNumbers
<1> QED
  BY <1>1 DEF Sound, SoundFrame

LEMMA SoundSent ==
    ASSUME HandleTypeOK, Sound(feed.queue), NEW f \in Frames, SoundFrame(f)
    PROVE  Sound(Sent(f).queue) /\ Sound(Received(f).queue)
<1>1. ASSUME NEW kind
      PROVE  Numbers(Received(f).queue, kind) \subseteq
                Numbers(feed.queue, kind) \cup (IF f.frame = kind THEN {f.n} ELSE {})
  BY ReceivedIs
<1>2. Sound(Received(f).queue)
  BY <1>1 DEF Sound, SoundFrame
<1> QED
  BY <1>2 DEF Sent

LEMMA SoundEmpty == Sound(<<>>)
BY NoNumbers DEF Sound

LEMMA SoundPage ==
    ASSUME HandleTypeOK, NEW c \in Nat, c <= Len(journal)
    PROVE  Sound(Page(c)) /\ c + Len(Page(c)) <= Len(journal)
           /\ Numbers(Page(c), "delta") = {}
<1>1. /\ Numbers(Page(c), "row") = c + 1 .. c + Len(Page(c))
      /\ Numbers(Page(c), "delta") = {}
  BY PageNumbers
<1>2. Len(Page(c)) = IF Len(journal) - c < PageSize
                     THEN Len(journal) - c ELSE PageSize
  BY PageIs
<1>3. Len(journal) \in Nat /\ DOMAIN journal = 1 .. Len(journal)
  BY SMTT(30) DEF HandleTypeOK
<1> DEFINE m == Len(Page(c))
<1>4. m \in Nat /\ m <= Len(journal) - c
  <2>1. PageSize \in Nat
    BY ScriptAssumption
  <2>2. m = IF Len(journal) - c < PageSize THEN Len(journal) - c ELSE PageSize
    BY <1>2
  <2>3. c <= Len(journal) /\ Len(journal) \in Nat
    BY <1>3
  <2> HIDE DEF m
  <2>4. CASE Len(journal) - c < PageSize
    BY ONLY SMTT(30), <2>2, <2>3, <2>4, c \in Nat
  <2>5. CASE ~(Len(journal) - c < PageSize)
    BY ONLY SMTT(30), <2>1, <2>2, <2>3, <2>5, c \in Nat
  <2> QED
    BY <2>4, <2>5
<1> HIDE DEF m
<1>5. c + m <= Len(journal) /\ c + 1 .. c + m \subseteq 1 .. Len(journal)
  BY SMTT(30), <1>3, <1>4
<1> QED
  BY <1>1, <1>3, <1>5 DEF Sound, m

\* Old frames stay sound when the journal grows.
LEMMA SoundGrows ==
    ASSUME HandleTypeOK, NEW kind \in RowKinds, journal' = Append(journal, kind)
    PROVE  /\ \A q : Sound(q) => /\ Numbers(q, "row") \subseteq DOMAIN journal'
                                 /\ Numbers(q, "delta") \subseteq Tokens
           /\ \A n \in Nat : n <= Len(journal) => n <= Len(journal')
           /\ Numbers(<<Row(Len(journal) + 1)>>, "row") \subseteq DOMAIN journal'
           /\ Numbers(<<Row(Len(journal) + 1)>>, "delta") = {}
           /\ Len(journal) + 1 <= Len(journal')
<1>1. /\ Len(journal') = Len(journal) + 1 /\ Len(journal) \in Nat
      /\ DOMAIN journal' = 1 .. Len(journal) + 1
      /\ \A n \in DOMAIN journal : n \in DOMAIN journal'
  BY JournalGrows
<1>2. Row(Len(journal) + 1) \in Frames /\ Len(journal) + 1 \in DOMAIN journal'
      /\ Len(journal) + 1 <= Len(journal')
      /\ \A n \in Nat : n <= Len(journal) => n <= Len(journal')
  BY SMTT(30), <1>1, FramesAre
<1>3. /\ Numbers(<<Row(Len(journal) + 1)>>, "row") = {Len(journal) + 1}
      /\ Numbers(<<Row(Len(journal) + 1)>>, "delta") = {}
  BY <1>2, OneFrame, FramesAre
<1> QED
  BY <1>1, <1>2, <1>3 DEF Sound

LEMMA SoundStep ==
    ASSUME HandleTypeOK, ControlInv, SoundInv, [HandleNext]_handleVars
    PROVE  SoundInv'
<1>0. /\ task.cursor \in Nat /\ handle.cursor \in Nat
      /\ got \in Seq(Frames) /\ direct.queue \in Seq(Frames)
      /\ task.cursor <= Len(journal) /\ handle.cursor <= Len(journal)
  BY TypesAre DEF TaskType, HandleType, DirectType, SoundInv
<1>1. CASE QuietSteps
  <2>1. Quiet
    BY <1>1, QuietStep
  <2> QED
    BY <2>1 DEF Quiet, SoundInv, Sound
<1>2. CASE AppendRow /\ ~CancelIsDurable
  <2>1. PICK kind \in {"row", "completed"} :
            /\ journal' = Append(journal, kind)
            /\ task'.outbox = <<Row(Len(journal) + 1)>>
            /\ task'.cursor = Len(journal) + 1
            /\ feed' = feed /\ direct' = direct /\ handle' = handle /\ got' = got
    BY <1>2, AppendRowIs
  <2>2. kind \in RowKinds
    BY DEF RowKinds, Terminals
  <2> QED
    BY <1>0, <2>1, <2>2, SoundGrows DEF SoundInv, Sound
<1>3. CASE SilentRow /\ ~CancelIsDurable
  <2>1. /\ journal' = Append(journal, "row") /\ "row" \in RowKinds
        /\ task'.outbox = task.outbox /\ task'.cursor = task.cursor
        /\ feed' = feed /\ direct' = direct /\ handle' = handle /\ got' = got
    BY <1>3, SilentRowIs
  <2> QED
    BY <1>0, <2>1, SoundGrows DEF SoundInv, Sound
<1>4. CASE Stream
  <2> DEFINE page == Page(task.cursor)
  <2>1. /\ page \in Seq(Frames)
        /\ \/ Script[task.at] = "delta" /\ task'.outbox = Append(page, Delta(task.at))
           \/ Script[task.at] = "drain" /\ task'.outbox = page
        /\ task.at \in DOMAIN Script
        /\ task'.cursor = task.cursor + Len(page)
        /\ journal' = journal /\ feed' = feed /\ direct' = direct
        /\ handle' = handle /\ got' = got
    BY <1>0, <1>4, StreamIs
  <2>2. Sound(page) /\ task.cursor + Len(page) <= Len(journal)
    BY <1>0, SoundPage
  <2>3. Script[task.at] = "delta" =>
            Delta(task.at) \in Frames /\ SoundFrame(Delta(task.at))
    <3>1. task.at \in Nat
      BY TypesAre DEF TaskType
    <3> QED
      BY <2>1, <3>1, FramesAre DEF SoundFrame, Tokens
  <2> HIDE DEF page
  <2>4. Sound(task'.outbox)
    BY <2>1, <2>2, <2>3, SoundAppend
  <2> QED
    BY <2>1, <2>2, <2>4 DEF SoundInv, Sound
<1>5. CASE Interrupt
  <2>1. /\ journal' = Append(journal, "interrupted") /\ "interrupted" \in RowKinds
        /\ task'.outbox = <<Row(Len(journal) + 1)>>
        /\ task'.cursor = Len(journal) + 1
        /\ feed' = feed /\ direct' = direct /\ handle' = handle /\ got' = got
    BY <1>5, InterruptIs
  <2> QED
    BY <1>0, <2>1, SoundGrows DEF SoundInv, Sound
<1>6. CASE CloseFails
  <2>1. /\ task'.outbox = <<Error>> /\ task'.cursor = task.cursor
        /\ journal' = journal /\ feed' = feed /\ direct' = direct
        /\ handle' = handle /\ got' = got
    BY <1>6, CloseFailsIs
  <2>2. Numbers(<<Error>>, "row") = {} /\ Numbers(<<Error>>, "delta") = {}
    BY FramesAre, OneFrame
  <2> QED
    BY <2>1, <2>2 DEF SoundInv, Sound
<1>7. CASE SendDirect
  <2>1. /\ task.outbox \in Seq(Frames) /\ task.outbox # <<>>
        /\ task'.outbox = task.outbox /\ task'.cursor = task.cursor
        /\ direct'.queue = IF direct.held
                           THEN Append(direct.queue, Head(task.outbox))
                           ELSE direct.queue
        /\ journal' = journal /\ feed' = feed /\ handle' = handle /\ got' = got
    BY <1>7, SendDirectIs
  <2>2. Head(task.outbox) \in Frames /\ SoundFrame(Head(task.outbox))
    BY <2>1, SoundTail, TailNumbers DEF SoundInv
  <2>3. Sound(direct'.queue)
    BY <1>0, <2>1, <2>2, SoundAppend DEF SoundInv
  <2> QED
    BY <2>1, <2>3 DEF SoundInv, Sound
<1>8. CASE Broadcast
  <2>1. /\ task.outbox \in Seq(Frames) /\ task.outbox # <<>>
        /\ Head(task.outbox) \in Frames /\ feed' = Sent(Head(task.outbox))
        /\ task'.outbox = Tail(task.outbox) /\ task'.cursor = task.cursor
        /\ journal' = journal /\ direct' = direct /\ handle' = handle /\ got' = got
    BY <1>8, BroadcastIs
  <2>2. SoundFrame(Head(task.outbox)) /\ Sound(Tail(task.outbox))
    BY <2>1, SoundTail DEF SoundInv
  <2>3. Sound(feed'.queue)
    BY <2>1, <2>2, SoundSent DEF SoundInv
  <2> QED
    BY <2>1, <2>2, <2>3 DEF SoundInv, Sound
<1>9. CASE CancelAppends
  <2>1. /\ journal' = Append(journal, "intent") /\ "intent" \in RowKinds
        /\ feed' = feed /\ direct' = direct /\ task' = task
        /\ handle' = handle /\ got' = got
    BY <1>9, CancelAppendsIs
  <2> QED
    BY <1>0, <2>1, SoundGrows DEF SoundInv, Sound
<1>10. CASE CancelBroadcasts \/ OtherTurnBroadcasts
  <2>1. PICK f \in Frames :
            /\ feed' = Sent(f)
            /\ \/ f = Noise
               \/ f.frame = "row" /\ f.n \in DOMAIN journal
    BY <1>10, OthersBroadcastIs
  <2>2. journal' = journal /\ direct' = direct /\ task' = task
        /\ handle' = handle /\ got' = got
    BY <1>10, OthersBroadcastIs
  <2>3. SoundFrame(f)
    BY <2>1, FramesAre DEF SoundFrame
  <2>4. Sound(feed'.queue)
    BY <2>1, <2>3, SoundSent DEF SoundInv
  <2> QED
    BY <2>2, <2>4 DEF SoundInv, Sound
<1>11. CASE Join
  <2>1. /\ handle'.replay = handle.replay /\ handle'.cursor = handle.cursor
        /\ direct' = direct /\ task' = task /\ got' = got
    BY <1>11, JoinIs
  <2>2. CASE journal' = journal /\ feed' = feed
    BY <2>1, <2>2 DEF SoundInv, Sound
  <2>3. CASE /\ journal' = Append(journal, "interrupted")
             /\ "interrupted" \in RowKinds
             /\ feed' = Received(Row(Len(journal) + 1))
             /\ Row(Len(journal) + 1) \in Frames
    <3>1. ASSUME NEW kind
          PROVE  Numbers(feed'.queue, kind) \subseteq Numbers(feed.queue, kind)
                    \cup (IF Row(Len(journal) + 1).frame = kind
                          THEN {Row(Len(journal) + 1).n} ELSE {})
      BY <2>3, ReceivedIs
    <3>2. Len(journal) + 1 \in DOMAIN journal'
      BY SMTT(30), <2>3, JournalGrows
    <3>3. /\ Numbers(feed'.queue, "row") \subseteq DOMAIN journal'
          /\ Numbers(feed'.queue, "delta") \subseteq Tokens
      <4>1. Numbers(feed'.queue, "row") \subseteq
                Numbers(feed.queue, "row") \cup {Len(journal) + 1}
        BY <3>1, FramesAre
      <4>2. Numbers(feed'.queue, "delta") \subseteq Numbers(feed.queue, "delta")
        BY <3>1, FramesAre
      <4>3. /\ Numbers(feed.queue, "row") \subseteq DOMAIN journal'
            /\ Numbers(feed.queue, "delta") \subseteq Tokens
        BY <2>3, SoundGrows DEF SoundInv
      <4> QED
        BY <3>2, <4>1, <4>2, <4>3
    <3> QED
      BY <1>0, <2>1, <2>3, <3>3, SoundGrows DEF SoundInv, Sound
  <2> QED
    BY <1>11, <2>2, <2>3, JoinIs
<1>12. CASE Abandon
  <2>1. /\ feed'.queue = <<>> /\ direct'.queue = <<>>
        /\ handle'.replay = handle.replay /\ handle'.cursor = handle.cursor
        /\ journal' = journal /\ task' = task /\ got' = got
    BY <1>12, AbandonIs, GoneType DEF Gone
  <2> QED
    BY <2>1, SoundEmpty DEF SoundInv, Sound
<1>13. CASE TakeReplay
  <2> DEFINE f == Head(handle.replay)
  <2>1. /\ handle.replay \in Seq(Frames) /\ handle.replay # <<>> /\ f \in Frames
        /\ Took(Tail(handle.replay), f)
        /\ handle'.pc = "over" => Gone
        /\ handle'.pc # "over" => feed' = feed /\ direct' = direct
        /\ journal' = journal /\ task' = task
    BY <1>13, TakeReplayIs
  <2>2. SoundFrame(f) /\ Sound(Tail(handle.replay))
        /\ Numbers(Tail(handle.replay), "delta") = {}
    <3>1. SoundFrame(f) /\ Sound(Tail(handle.replay))
      BY <2>1, SoundTail DEF SoundInv
    <3>2. Numbers(handle.replay, "delta") = Numbers(Tail(handle.replay), "delta")
             \cup (IF f.frame = "delta" THEN {f.n} ELSE {})
      BY <2>1, TailNumbers
    <3> QED
      BY <3>1, <3>2 DEF SoundInv
  <2>3. Sound(feed'.queue) /\ Sound(direct'.queue)
    BY <2>1, SoundEmpty, GoneType DEF Gone, SoundInv
  <2>4. Sound(got')
    BY <1>0, <2>1, <2>2, SoundAppend DEF Took, SoundInv
  <2>5. f.frame = "row" => f.n <= Len(journal)
    BY SMTT(30), <2>2 DEF SoundFrame, HandleTypeOK
  <2>6. handle'.cursor <= Len(journal)
    BY <1>0, <2>1, <2>5 DEF Took
  <2>7. handle'.replay = Tail(handle.replay)
    BY <2>1 DEF Took
  <2> QED
    BY <2>1, <2>2, <2>3, <2>4, <2>6, <2>7 DEF SoundInv, Sound
<1>14. CASE RefillReplay \/ ReadLagged
  <2>1. /\ handle'.replay = Page(handle.cursor)
        /\ handle'.cursor = handle.cursor + Len(Page(handle.cursor))
        /\ feed'.queue = feed.queue
        /\ journal' = journal /\ direct' = direct /\ task' = task /\ got' = got
    BY <1>0, <1>14, RefillStepIs
  <2>2. /\ Sound(Page(handle.cursor))
        /\ handle.cursor + Len(Page(handle.cursor)) <= Len(journal)
        /\ Numbers(Page(handle.cursor), "delta") = {}
    BY <1>0, SoundPage
  <2> QED
    BY <2>1, <2>2 DEF SoundInv, Sound
<1>15. CASE ReadGlobal
  <2> DEFINE f == Head(feed.queue)
  <2>1. /\ feed.queue \in Seq(Frames) /\ feed.queue # <<>> /\ f \in Frames
        /\ \/ handle' = handle /\ got' = got
           \/ Took(<<>>, f)
        /\ handle'.pc = "over" => Gone
        /\ handle'.pc # "over" => feed'.queue = Tail(feed.queue) /\ direct' = direct
        /\ journal' = journal /\ task' = task
    BY <1>15, ReadGlobalIs
  <2>2. SoundFrame(f) /\ Sound(Tail(feed.queue))
    BY <2>1, SoundTail DEF SoundInv
  <2>3. Sound(feed'.queue) /\ Sound(direct'.queue)
    BY <2>1, <2>2, SoundEmpty, GoneType DEF Gone, SoundInv
  <2>4. Sound(got')
    BY <1>0, <2>1, <2>2, SoundAppend DEF Took, SoundInv
  <2>5. f.frame = "row" => f.n <= Len(journal)
    BY SMTT(30), <2>2 DEF SoundFrame, HandleTypeOK
  <2>6. handle'.cursor <= Len(journal)
    BY <1>0, <2>1, <2>5 DEF Took
  <2>7. handle'.replay = handle.replay \/ handle'.replay = <<>>
    BY <2>1 DEF Took
  <2>8. Sound(handle'.replay) /\ Numbers(handle'.replay, "delta") = {}
    BY <2>7, SoundEmpty, NoNumbers DEF SoundInv
  <2> QED
    BY <2>1, <2>3, <2>4, <2>6, <2>8 DEF SoundInv, Sound
<1>16. CASE ReadDirect
  <2> DEFINE f == Head(direct.queue)
  <2>1. /\ direct.queue # <<>> /\ f \in Frames /\ Took(<<>>, f)
        /\ handle'.pc = "over" => Gone
        /\ handle'.pc # "over" =>
            feed' = feed /\ direct'.queue = Tail(direct.queue)
        /\ journal' = journal /\ task' = task
    BY <1>16, ReadDirectIs
  <2>2. SoundFrame(f) /\ Sound(Tail(direct.queue))
    BY <1>0, <2>1, SoundTail DEF SoundInv
  <2>3. Sound(feed'.queue) /\ Sound(direct'.queue)
    BY <2>1, <2>2, SoundEmpty, GoneType DEF Gone, SoundInv
  <2>4. Sound(got')
    BY <1>0, <2>1, <2>2, SoundAppend DEF Took, SoundInv
  <2>5. f.frame = "row" => f.n <= Len(journal)
    BY SMTT(30), <2>2 DEF SoundFrame, HandleTypeOK
  <2>6. handle'.cursor <= Len(journal)
    BY <1>0, <2>1, <2>5 DEF Took
  <2>7. Sound(handle'.replay) /\ Numbers(handle'.replay, "delta") = {}
    BY <2>1, SoundEmpty, NoNumbers DEF Took
  <2> QED
    BY <2>1, <2>3, <2>4, <2>6, <2>7 DEF SoundInv, Sound
<1> QED
  BY StepCases, <1>1, <1>2, <1>3, <1>4, <1>5, <1>6, <1>7, <1>8, <1>9, <1>10,
     <1>11, <1>12, <1>13, <1>14, <1>15, <1>16

-----------------------------------------------------------------------------
(* The end of the journal and the rows nobody published yet.               *)

\* The task still has a step to do, or a failure to report.
Busy == task.at \in DOMAIN Script \/ task.phase = "close"

LEMMA BusyIsOpen ==
    ASSUME HandleTypeOK, CompletedInv, Busy
    PROVE  \A n \in DOMAIN journal : journal[n] # "completed"
<1>1. task.at = Len(Script) + 1 => task.at \notin DOMAIN Script
  BY SMTT(30), ScriptAssumption
<1> QED
  BY <1>1 DEF CompletedInv, Busy

LEMMA CompletedStep ==
    ASSUME HandleTypeOK, ControlInv, SoundInv, CompletedInv,
           [HandleNext]_handleVars
    PROVE  CompletedInv'
<1>0. task.cursor <= Len(journal) /\ handle.cursor <= Len(journal)
  BY DEF SoundInv
<1>a. ASSUME journal' = journal, task' = task
      PROVE  CompletedInv'
  BY <1>a DEF CompletedInv, Clean
<1>b. ASSUME journal' = journal, task'.at = task.at, task'.ends = task.ends,
             task'.phase = task.phase
      PROVE  CompletedInv'
  BY <1>b DEF CompletedInv, Clean
<1>1. CASE QuietSteps
  <2>1. Quiet
    BY <1>1, QuietStep
  <2>2. \/ task'.phase = task.phase
        \/ task'.phase = "close" /\ task.at \in DOMAIN Script
        \/ task.phase \in {"publish", "work"} /\ task'.phase \in {"work", "ended"}
    BY <1>1, QuietStep
  <2>3. CASE task'.phase = "close" /\ task.at \in DOMAIN Script
    <3>1. \A n \in DOMAIN journal : journal[n] # "completed"
      BY <2>3, BusyIsOpen DEF Busy
    <3>2. task.phase # "ended"
      BY <1>1, <2>3, QuietStep
    <3> QED
      BY <2>1, <2>3, <3>1, <3>2 DEF CompletedInv, Quiet
  <2>4. CASE task.phase \in {"publish", "work"} /\ task'.phase \in {"work", "ended"}
    BY <2>1, <2>4 DEF CompletedInv, Clean, Quiet
  <2> QED
    BY <1>b, <2>1, <2>2, <2>3, <2>4 DEF Quiet
<1>2. CASE AppendRow /\ ~CancelIsDurable
  <2>1. PICK kind \in {"row", "completed"} :
            /\ kind = "completed" <=> Script[task.at] = "done"
            /\ journal' = Append(journal, kind)
            /\ task.phase = "work" /\ task.at \in DOMAIN Script
            /\ task'.phase = "publish" /\ task'.at = task.at + 1
            /\ task'.ends = task.ends
    BY <1>2, AppendRowIs
  <2>2. \A n \in DOMAIN journal : journal[n] # "completed"
    BY <2>1, BusyIsOpen DEF Busy
  <2>3. ~task.ends
    BY <2>1 DEF ControlInv
  <2>4. \A n \in DOMAIN journal : journal[n] \notin {"interrupted", "intent"}
    BY <1>2, <2>1, <2>3 DEF CompletedInv, CancelIsDurable
  <2>5. Clean
    <3>1. \A n \in DOMAIN journal : journal[n] \in RowKinds
      BY SMTT(30) DEF HandleTypeOK
    <3> QED
      BY <2>2, <2>4, <3>1 DEF Clean, RowKinds, Terminals
  <2>6. kind \in RowKinds
    BY DEF RowKinds, Terminals
  <2>7. /\ Len(journal') = Len(journal) + 1
        /\ DOMAIN journal = 1 .. Len(journal) /\ Len(journal) \in Nat
        /\ DOMAIN journal' = 1 .. Len(journal) + 1
        /\ journal'[Len(journal) + 1] = kind
        /\ \A n \in DOMAIN journal : journal'[n] = journal[n]
        /\ Clean'
    BY <2>1, <2>5, <2>6, JournalGrows
  <2>8. \A n \in DOMAIN journal' : n \in DOMAIN journal \/ n = Len(journal')
    BY SMTT(30), <2>7
  <2>9. kind = "completed" => task'.at = Len(Script) + 1
    BY <2>1, WorkAssumption
  <2> QED
    BY <2>1, <2>2, <2>3, <2>4, <2>7, <2>8, <2>9 DEF CompletedInv
<1>3. CASE SilentRow /\ ~CancelIsDurable
  <2>1. /\ journal' = Append(journal, "row") /\ "row" \in RowKinds
        /\ task.at \in DOMAIN Script /\ task'.phase = task.phase
        /\ task'.ends = task.ends
    BY <1>3, SilentRowIs
  <2>2. \A n \in DOMAIN journal : journal[n] # "completed"
    BY <2>1, BusyIsOpen DEF Busy
  <2>3. /\ \A n \in DOMAIN journal' : n \in DOMAIN journal \/ n = Len(journal) + 1
        /\ journal'[Len(journal) + 1] = "row"
        /\ \A n \in DOMAIN journal : journal'[n] = journal[n]
    BY SMTT(30), <2>1, JournalGrows
  <2> QED
    BY <2>1, <2>2, <2>3 DEF CompletedInv
<1>4. CASE Stream
  <2>1. /\ journal' = journal /\ task.at \in DOMAIN Script
        /\ task'.ends = task.ends /\ task.phase = "work"
    BY <1>0, <1>4, StreamIs
  <2>2. \A n \in DOMAIN journal : journal[n] # "completed"
    BY <2>1, BusyIsOpen DEF Busy
  <2> QED
    BY <2>1, <2>2 DEF CompletedInv
<1>5. CASE Interrupt
  <2>1. /\ journal' = Append(journal, "interrupted") /\ "interrupted" \in RowKinds
        /\ task.phase = "close" /\ task'.ends = TRUE
    BY <1>5, InterruptIs
  <2>2. \A n \in DOMAIN journal : journal[n] # "completed"
    BY <2>1, BusyIsOpen DEF Busy
  <2>3. /\ \A n \in DOMAIN journal' : n \in DOMAIN journal \/ n = Len(journal) + 1
        /\ journal'[Len(journal) + 1] = "interrupted"
        /\ \A n \in DOMAIN journal : journal'[n] = journal[n]
    BY SMTT(30), <2>1, JournalGrows
  <2> QED
    BY <2>1, <2>2, <2>3 DEF CompletedInv
<1>6. CASE CloseFails
  <2>1. journal' = journal /\ task.phase = "close" /\ task'.ends = TRUE
    BY <1>6, CloseFailsIs
  <2>2. \A n \in DOMAIN journal : journal[n] # "completed"
    BY <2>1, BusyIsOpen DEF Busy
  <2> QED
    BY <2>1, <2>2 DEF CompletedInv
<1>7. CASE SendDirect
  BY <1>b, <1>7, SendDirectIs
<1>8. CASE Broadcast
  BY <1>b, <1>8, BroadcastIs
<1>9. CASE CancelAppends
  <2>1. /\ journal' = Append(journal, "intent") /\ "intent" \in RowKinds
        /\ TurnIsOpen /\ task' = task
    BY <1>9, CancelAppendsIs
  <2>2. \A n \in DOMAIN journal : journal[n] # "completed"
    BY <2>1 DEF TurnIsOpen, Terminals
  <2>3. /\ \A n \in DOMAIN journal' : n \in DOMAIN journal \/ n = Len(journal) + 1
        /\ journal'[Len(journal) + 1] = "intent"
        /\ \A n \in DOMAIN journal : journal'[n] = journal[n]
    BY SMTT(30), <2>1, JournalGrows
  <2> QED
    BY <2>1, <2>2, <2>3 DEF CompletedInv
<1>10. CASE CancelBroadcasts \/ OtherTurnBroadcasts
  BY <1>a, <1>10, OthersBroadcastIs
<1>11. CASE Join
  <2>1. CASE journal' = journal
    BY <1>a, <1>11, <2>1, JoinIs
  <2>2. CASE /\ TurnIsOpen /\ task.phase = "ended"
             /\ journal' = Append(journal, "interrupted")
             /\ "interrupted" \in RowKinds
    <3>1. \A n \in DOMAIN journal : journal[n] # "completed"
      BY <2>2 DEF TurnIsOpen, Terminals
    <3>2. /\ \A n \in DOMAIN journal' : n \in DOMAIN journal \/ n = Len(journal) + 1
          /\ journal'[Len(journal) + 1] = "interrupted"
          /\ \A n \in DOMAIN journal : journal'[n] = journal[n]
      BY SMTT(30), <2>2, JournalGrows
    <3>3. task' = task
      BY <1>11, JoinIs
    <3> QED
      BY <2>2, <3>1, <3>2, <3>3 DEF CompletedInv
  <2> QED
    BY <1>11, <2>1, <2>2, JoinIs
<1>12. CASE Abandon
  BY <1>a, <1>12, AbandonIs
<1>13. CASE TakeReplay
  BY <1>a, <1>13, TakeReplayIs
<1>14. CASE RefillReplay \/ ReadLagged
  BY <1>0, <1>a, <1>14, RefillStepIs
<1>15. CASE ReadGlobal
  BY <1>a, <1>15, ReadGlobalIs
<1>16. CASE ReadDirect
  BY <1>a, <1>16, ReadDirectIs
<1> QED
  BY StepCases, <1>1, <1>2, <1>3, <1>4, <1>5, <1>6, <1>7, <1>8, <1>9, <1>10,
     <1>11, <1>12, <1>13, <1>14, <1>15, <1>16

\* Steps that leave the rows behind the cursor alone.
SameRows == /\ journal' = journal /\ task'.cursor = task.cursor
            /\ task'.at = task.at /\ task'.ends = task.ends

LEMMA SilentStep ==
    ASSUME HandleTypeOK, ControlInv, SoundInv, SilentInv, CompletedInv,
           [HandleNext]_handleVars
    PROVE  SilentInv'
<1>0. /\ task.cursor <= Len(journal) /\ handle.cursor <= Len(journal)
      /\ task.cursor \in Nat /\ task.at \in Nat /\ Len(journal) \in Nat
      /\ task.at >= 1 /\ PageSize \in Nat \ {0}
      /\ Script \in Seq(Steps) /\ Len(Script) \in Nat
      /\ DOMAIN Script = 1 .. Len(Script)
  <2>1. task.cursor <= Len(journal) /\ handle.cursor <= Len(journal)
        /\ task.at >= 1
    BY DEF SoundInv, ControlInv
  <2>2. task \in TaskType /\ journal \in Seq(RowKinds)
    BY TypesAre
  <2>3. task.cursor \in Nat /\ task.at \in Nat
    BY <2>2 DEF TaskType
  <2>4. Len(journal) \in Nat /\ Len(Script) \in Nat /\ DOMAIN Script = 1 .. Len(Script)
    BY SMTT(30), <2>2, ScriptAssumption
  <2> QED
    BY <2>1, <2>3, <2>4, ScriptAssumption
<1>a. ASSUME SameRows, task'.phase = task.phase
      PROVE  SilentInv'
  BY <1>a DEF SilentInv, SameRows, Clean
<1>b. ASSUME journal' = journal, task' = task
      PROVE  SilentInv'
  BY <1>b DEF SilentInv, Clean
<1>c. ASSUME ~Clean'
      PROVE  SilentInv'
  BY <1>c DEF SilentInv
<1>d. ASSUME task'.ends
      PROVE  SilentInv'
  BY <1>d DEF SilentInv
<1>e. ASSUME Len(journal') = task'.cursor, task'.at \in Nat, task'.at >= 1,
             task'.cursor \in Nat
      PROVE  SilentInv'
  <2>1. Len(journal') - task'.cursor = 0
    BY SMTT(30), <1>e
  <2>2. \A i \in DOMAIN Script : ~(task'.at <= i + 0 /\ i < task'.at)
    BY SMTT(30), <1>0, <1>e
  <2>3. 0 <= PageSize /\ 0 < task'.at
    BY SMTT(30), <1>0, <1>e
  <2> QED
    BY <2>1, <2>2, <2>3 DEF SilentInv
<1>1. CASE QuietSteps
  <2>1. SameRows
    BY <1>1, QuietStep DEF Quiet, SameRows
  <2>2. task'.phase = "close" \/ task.phase # "close"
    BY <1>1, QuietStep
  <2> QED
    BY <2>1, <2>2 DEF SilentInv, SameRows, Clean
<1>2. CASE AppendRow /\ ~CancelIsDurable
  <2>1. PICK kind \in {"row", "completed"} :
            /\ journal' = Append(journal, kind)
            /\ task'.cursor = Len(journal) + 1 /\ task'.at = task.at + 1
    BY <1>2, AppendRowIs
  <2>2. kind \in RowKinds
    BY DEF RowKinds, Terminals
  <2>3. Len(journal') = Len(journal) + 1
    BY <2>1, <2>2, JournalGrows
  <2>4. task.at + 1 \in Nat /\ task.at + 1 >= 1 /\ Len(journal) + 1 \in Nat
    BY SMTT(30), <1>0
  <2> QED
    BY <1>e, <2>1, <2>3, <2>4
<1>3. CASE SilentRow /\ ~CancelIsDurable
  <2>1. /\ journal' = Append(journal, "row") /\ "row" \in RowKinds
        /\ task.phase = "work" /\ task.at \in DOMAIN Script
        /\ Script[task.at] = "silent" /\ task'.phase = task.phase
        /\ task'.cursor = task.cursor /\ task'.at = task.at + 1
        /\ task'.ends = task.ends
    BY <1>3, SilentRowIs
  <2>2. Len(journal') = Len(journal) + 1 /\ (Clean' <=> Clean)
    BY <2>1, JournalGrows
  <2>3. SUFFICES ASSUME Clean', ~task'.ends
                 PROVE  /\ Len(journal') - task'.cursor <= PageSize
                        /\ Len(journal') - task'.cursor < task'.at
                        /\ \A i \in DOMAIN Script :
                            task'.at <= i + (Len(journal') - task'.cursor)
                                /\ i < task'.at => Script[i] = "silent"
    BY DEF SilentInv
  <2> DEFINE d == Len(journal) - task.cursor
  <2>4. /\ d <= PageSize /\ d < task.at
        /\ \A i \in DOMAIN Script :
            task.at <= i + d /\ i < task.at => Script[i] = "silent"
    BY <2>1, <2>2, <2>3 DEF SilentInv
  <2>5. d \in Nat /\ Len(journal') - task'.cursor = d + 1
    <3>1. d \in Nat /\ (Len(journal) + 1) - task.cursor = d + 1
      BY SMTT(30), <1>0
    <3> QED
      BY <2>1, <2>2, <3>1
  <2> HIDE DEF d
  <2>6. d < PageSize
    <3>1. SUFFICES ASSUME d = PageSize PROVE FALSE
      BY SMTT(30), <1>0, <2>4, <2>5
    <3> DEFINE i == task.at - d
    <3>2. i \in DOMAIN Script /\ i + PageSize <= Len(Script)
          /\ i + PageSize = task.at
      BY SMTT(30), <1>0, <2>1, <2>4, <2>5, <3>1
    <3> HIDE DEF i
    <3>3. PICK j \in i .. i + PageSize : Script[j] # "silent"
      BY <3>2, WorkAssumption
    <3>4. j \in DOMAIN Script /\ (j < task.at \/ j = task.at)
      BY SMTT(30), <1>0, <3>2, <3>3
    <3>5. j # task.at
      BY <2>1, <3>3
    <3>6. task.at <= j + d
      BY SMTT(30), <1>0, <3>1, <3>2, <3>3
    <3> QED
      BY <2>4, <3>3, <3>4, <3>5, <3>6
  <2>7. d + 1 <= PageSize /\ d + 1 < task.at + 1
    BY SMTT(30), <1>0, <2>4, <2>5, <2>6
  <2>8. ASSUME NEW i \in DOMAIN Script, task.at + 1 <= i + (d + 1), i < task.at + 1
        PROVE  Script[i] = "silent"
    <3>1. i = task.at \/ (i < task.at /\ task.at <= i + d)
      BY SMTT(30), <1>0, <2>5, <2>8
    <3> QED
      BY <2>1, <2>4, <3>1
  <2> QED
    BY <2>1, <2>5, <2>7, <2>8
<1>4. CASE Stream
  <2>1. /\ task'.cursor = task.cursor + Len(Page(task.cursor))
        /\ task'.at = task.at + 1 /\ journal' = journal
        /\ task.phase = "work" /\ task'.ends = task.ends
    BY <1>0, <1>4, StreamIs
  <2>2. CASE Clean /\ ~task.ends
    <3>1. Len(journal) - task.cursor <= PageSize
      BY <2>1, <2>2 DEF SilentInv
    <3>2. Len(Page(task.cursor)) = IF Len(journal) - task.cursor < PageSize
                                   THEN Len(journal) - task.cursor ELSE PageSize
      BY <1>0, PageIs
    <3>3. Len(Page(task.cursor)) = Len(journal) - task.cursor
      BY SMTT(30), <1>0, <3>1, <3>2
    <3>4. task'.cursor = Len(journal) /\ task.at + 1 \in Nat /\ task.at + 1 >= 1
      BY SMTT(30), <1>0, <2>1, <3>3
    <3> QED
      BY <1>0, <1>e, <2>1, <3>4
  <2>3. CASE ~Clean
    BY <1>c, <2>1, <2>3 DEF Clean
  <2>4. CASE task.ends
    BY <1>d, <2>1, <2>4
  <2> QED
    BY <2>2, <2>3, <2>4
<1>5. CASE Interrupt
  BY <1>d, <1>5, InterruptIs
<1>6. CASE CloseFails
  BY <1>d, <1>6, CloseFailsIs
<1>7. CASE SendDirect
  BY <1>a, <1>7, SendDirectIs DEF SameRows
<1>8. CASE Broadcast
  BY <1>a, <1>8, BroadcastIs DEF SameRows
<1>9. CASE CancelAppends
  <2>1. journal' = Append(journal, "intent") /\ "intent" \in RowKinds
    BY <1>9, CancelAppendsIs
  <2>2. ~Clean'
    BY <2>1, JournalGrows
  <2> QED
    BY <1>c, <2>2
<1>10. CASE CancelBroadcasts \/ OtherTurnBroadcasts
  BY <1>b, <1>10, OthersBroadcastIs
<1>11. CASE Join
  <2>1. CASE journal' = journal
    BY <1>b, <1>11, <2>1, JoinIs
  <2>2. CASE /\ journal' = Append(journal, "interrupted")
             /\ "interrupted" \in RowKinds
    <3>1. ~Clean'
      BY <2>2, JournalGrows
    <3> QED
      BY <1>c, <3>1
  <2> QED
    BY <1>11, <2>1, <2>2, JoinIs
<1>12. CASE Abandon
  BY <1>b, <1>12, AbandonIs
<1>13. CASE TakeReplay
  BY <1>b, <1>13, TakeReplayIs
<1>14. CASE RefillReplay \/ ReadLagged
  BY <1>0, <1>b, <1>14, RefillStepIs
<1>15. CASE ReadGlobal
  BY <1>b, <1>15, ReadGlobalIs
<1>16. CASE ReadDirect
  BY <1>b, <1>16, ReadDirectIs
<1> QED
  BY StepCases, <1>1, <1>2, <1>3, <1>4, <1>5, <1>6, <1>7, <1>8, <1>9, <1>10,
     <1>11, <1>12, <1>13, <1>14, <1>15, <1>16

-----------------------------------------------------------------------------
(* Rows the client has seen.                                               *)

LEMMA OnceMore ==
    ASSUME NEW q \in Seq(Frames), NEW f \in Frames, Once(q),
           f.frame = "row" => f.n \notin Numbers(q, "row")
    PROVE  Once(Append(q, f))
<1> DEFINE s == Append(q, f)
<1>1. /\ s[Len(q) + 1] = f /\ \A i \in 1 .. Len(q) : s[i] = q[i]
      /\ DOMAIN s = 1 .. Len(q) + 1 /\ DOMAIN q = 1 .. Len(q) /\ Len(q) \in Nat
  BY SMTT(30)
<1> HIDE DEF s
<1>2. \A i \in DOMAIN s : (i \in DOMAIN q /\ s[i] = q[i]) \/ (i = Len(q) + 1 /\ s[i] = f)
  BY SMTT(30), <1>1
<1>3. \A i \in DOMAIN q : f.frame = "row" => q[i] # f
  BY DEF Numbers
<1> QED
  BY <1>2, <1>3 DEF Once, s

LEMMA SeenTook ==
    ASSUME HandleTypeOK, SeenInv, NEW replay, NEW f \in Frames, Took(replay, f)
    PROVE  SeenInv'
<1>1. got \in Seq(Frames)
  BY DEF HandleTypeOK
<1>2. CASE got' = got /\ ((f.frame = "row" /\ f.n \in handle.seen) \/ f.frame = "noise")
  <2>1. handle'.seen = handle.seen
    BY <1>2 DEF Took
  <2> QED
    BY <1>2, <2>1 DEF SeenInv
<1>3. CASE got' = Append(got, f) /\ (f.frame = "row" => f.n \notin handle.seen)
  <2>1. Numbers(got', "row") =
            Numbers(got, "row") \cup (IF f.frame = "row" THEN {f.n} ELSE {})
    BY <1>1, <1>3, AppendNumbers
  <2>2. handle'.seen =
            handle.seen \cup (IF f.frame = "row" THEN {f.n} ELSE {})
    BY DEF Took
  <2>3. Once(got')
    BY <1>1, <1>3, OnceMore DEF SeenInv
  <2> QED
    BY <2>1, <2>2, <2>3 DEF SeenInv
<1> QED
  BY <1>2, <1>3 DEF Took

LEMMA SeenStep ==
    ASSUME HandleTypeOK, ControlInv, SoundInv, SeenInv, [HandleNext]_handleVars
    PROVE  SeenInv'
<1>0. task.cursor <= Len(journal) /\ handle.cursor <= Len(journal)
  BY DEF SoundInv
<1>a. ASSUME got' = got, handle'.seen = handle.seen
      PROVE  SeenInv'
  BY <1>a DEF SeenInv
<1>1. CASE QuietSteps
  BY <1>1, <1>a, QuietStep DEF Quiet
<1>2. CASE AppendRow /\ ~CancelIsDurable
  BY <1>2, <1>a, AppendRowIs
<1>3. CASE SilentRow /\ ~CancelIsDurable
  BY <1>3, <1>a, SilentRowIs
<1>4. CASE Stream
  BY <1>0, <1>4, <1>a, StreamIs
<1>5. CASE Interrupt
  BY <1>5, <1>a, InterruptIs
<1>6. CASE CloseFails
  BY <1>6, <1>a, CloseFailsIs
<1>7. CASE SendDirect
  BY <1>7, <1>a, SendDirectIs
<1>8. CASE Broadcast
  BY <1>8, <1>a, BroadcastIs
<1>9. CASE CancelAppends
  BY <1>9, <1>a, CancelAppendsIs
<1>10. CASE CancelBroadcasts \/ OtherTurnBroadcasts
  BY <1>10, <1>a, OthersBroadcastIs
<1>11. CASE Join
  BY <1>11, <1>a, JoinIs
<1>12. CASE Abandon
  BY <1>12, <1>a, AbandonIs
<1>13. CASE TakeReplay
  BY <1>13, TakeReplayIs, SeenTook
<1>14. CASE RefillReplay \/ ReadLagged
  BY <1>0, <1>14, <1>a, RefillStepIs
<1>15. CASE ReadGlobal
  BY <1>15, <1>a, ReadGlobalIs, SeenTook
<1>16. CASE ReadDirect
  BY <1>16, ReadDirectIs, SeenTook
<1> QED
  BY StepCases, <1>1, <1>2, <1>3, <1>4, <1>5, <1>6, <1>7, <1>8, <1>9, <1>10,
     <1>11, <1>12, <1>13, <1>14, <1>15, <1>16

-----------------------------------------------------------------------------
(* The order of rows.                                                      *)

LEMMA CleanBefore ==
    ASSUME HandleTypeOK, ControlInv, SoundInv, [HandleNext]_handleVars, Clean'
    PROVE  /\ Clean
           /\ \A n \in DOMAIN journal : journal'[n] = journal[n]
           /\ DOMAIN journal \subseteq DOMAIN journal'
<1>0. task.cursor <= Len(journal) /\ handle.cursor <= Len(journal)
  BY DEF SoundInv
<1>1. journal' = journal \/ \E kind \in RowKinds : journal' = Append(journal, kind)
  <2>1. CASE AppendRow /\ ~CancelIsDurable
    <3>1. {"row", "completed"} \subseteq RowKinds
      BY DEF RowKinds, Terminals
    <3> QED
      BY <2>1, <3>1, AppendRowIs
  <2>2. CASE Join
    BY <2>2, JoinIs
  <2>3. CASE Interrupt \/ CancelAppends
    BY <2>3, InterruptIs, CancelAppendsIs
  <2>4. CASE SilentRow /\ ~CancelIsDurable
    BY <2>4, SilentRowIs
  <2>5. CASE QuietSteps
    BY <2>5, QuietStep DEF Quiet
  <2>6. CASE Stream
    BY <1>0, <2>6, StreamIs
  <2>7. CASE CloseFails \/ SendDirect \/ Broadcast \/ Abandon
    BY <2>7, CloseFailsIs, SendDirectIs, BroadcastIs, AbandonIs
  <2>8. CASE CancelBroadcasts \/ OtherTurnBroadcasts
    BY <2>8, OthersBroadcastIs
  <2>9. CASE TakeReplay \/ ReadGlobal \/ ReadDirect
    BY <2>9, TakeReplayIs, ReadGlobalIs, ReadDirectIs
  <2>10. CASE RefillReplay \/ ReadLagged
    BY <1>0, <2>10, RefillStepIs
  <2> QED
    BY StepCases, <2>1, <2>2, <2>3, <2>4, <2>5, <2>6, <2>7, <2>8, <2>9, <2>10
<1>2. CASE journal' = journal
  BY <1>2 DEF Clean
<1>3. ASSUME NEW kind \in RowKinds, journal' = Append(journal, kind)
      PROVE  /\ Clean
             /\ \A n \in DOMAIN journal : journal'[n] = journal[n]
             /\ DOMAIN journal \subseteq DOMAIN journal'
  BY <1>3, JournalGrows
<1> QED
  BY <1>1, <1>2, <1>3

\* A row the task appends itself finds nothing unpublished before it.
LEMMA NoGap ==
    ASSUME HandleTypeOK, ControlInv, SoundInv, SilentInv, Clean, AppendRow,
           ~CancelIsDurable
    PROVE  task.cursor = Len(journal)
<1>1. /\ task.phase = "work" /\ task.at \in DOMAIN Script
      /\ Script[task.at] \in {"row", "done"}
  BY AppendRowIs
<1>2. ~task.ends /\ task.at >= 1 /\ task.cursor <= Len(journal)
  BY <1>1 DEF ControlInv, SoundInv
<1>3. /\ Len(journal) - task.cursor < task.at
      /\ \A i \in DOMAIN Script :
            task.at <= i + (Len(journal) - task.cursor) /\ i < task.at =>
                Script[i] = "silent"
  BY <1>1, <1>2 DEF SilentInv
<1>4. task.cursor \in Nat /\ task.at \in Nat
  BY TypesAre DEF TaskType
<1>5. Len(journal) \in Nat /\ DOMAIN Script = 1 .. Len(Script) /\ Len(Script) \in Nat
  <2>1. journal \in Seq(RowKinds)
    BY TypesAre
  <2> QED
    BY SMTT(30), <2>1, ScriptAssumption
<1>6. SUFFICES ASSUME task.cursor # Len(journal) PROVE FALSE
  OBVIOUS
<1> DEFINE i == task.at - 1
<1>7. i \in DOMAIN Script /\ i < Len(Script) /\ i < task.at
      /\ task.at <= i + (Len(journal) - task.cursor) /\ i + 1 = task.at
  BY SMTT(30), <1>1, <1>2, <1>3, <1>4, <1>5, <1>6
<1> HIDE DEF i
<1>8. Script[i] = "silent"
  BY <1>3, <1>7
<1> QED
  BY <1>1, <1>7, <1>8, WorkAssumption

\* The frames of the outbox, by what put them there.
LEMMA OutboxStep ==
    ASSUME HandleTypeOK, ControlInv, SoundInv, OutboxInv, [HandleNext]_handleVars
    PROVE  OutboxInv'
<1>0. /\ task.cursor <= Len(journal) /\ handle.cursor <= Len(journal)
      /\ task.cursor \in Nat
  BY TypesAre DEF SoundInv, TaskType
<1>1. SUFFICES ASSUME Clean'
               PROVE  /\ Rising(task'.outbox, "row")
                      /\ \A n \in Numbers(task'.outbox, "row") : n <= task'.cursor
  BY DEF OutboxInv
<1>2. /\ Rising(task.outbox, "row")
      /\ \A n \in Numbers(task.outbox, "row") : n <= task.cursor
  BY <1>1, CleanBefore DEF OutboxInv
<1>3. CASE task'.outbox = task.outbox /\ task'.cursor = task.cursor
  BY <1>2, <1>3
<1>4. ASSUME Row(Len(journal) + 1) \in Frames,
             task'.outbox = <<Row(Len(journal) + 1)>>,
             task'.cursor = Len(journal) + 1
      PROVE  /\ Rising(task'.outbox, "row")
             /\ \A n \in Numbers(task'.outbox, "row") : n <= task'.cursor
  <2>1. /\ Numbers(task'.outbox, "row") = {Len(journal) + 1}
        /\ Rising(task'.outbox, "row")
    BY <1>4, OneFrame, FramesAre
  <2>2. Len(journal) + 1 <= Len(journal) + 1
    BY SMTT(30) DEF HandleTypeOK
  <2> QED
    BY <1>4, <2>1, <2>2
<1>5. CASE AppendRow /\ ~CancelIsDurable
  BY <1>4, <1>5, AppendRowIs, FramesAre
<1>6. CASE Interrupt
  BY <1>4, <1>6, InterruptIs, FramesAre
<1>7. CASE Stream
  <2> DEFINE page == Page(task.cursor)
  <2>1. /\ page \in Seq(Frames)
        /\ \/ Script[task.at] = "delta" /\ task'.outbox = Append(page, Delta(task.at))
           \/ Script[task.at] = "drain" /\ task'.outbox = page
        /\ task'.cursor = task.cursor + Len(page)
    BY <1>0, <1>7, StreamIs
  <2>2. /\ Numbers(page, "row") = task.cursor + 1 .. task.cursor + Len(page)
        /\ Rising(page, "row") /\ Len(page) \in Nat
    BY <1>0, PageNumbers
  <2>3. task.at \in Nat
    BY TypesAre DEF TaskType
  <2> HIDE DEF page
  <2>4. Delta(task.at) \in Frames /\ Delta(task.at).frame # "row"
    BY <2>3, FramesAre
  <2>5. Numbers(Append(page, Delta(task.at)), "row") = Numbers(page, "row")
        /\ Rising(Append(page, Delta(task.at)), "row")
    BY <2>1, <2>2, <2>4, AppendNumbers
  <2>6. \A n \in Numbers(page, "row") : n <= task.cursor + Len(page)
    BY SMTT(30), <1>0, <2>2
  <2> QED
    BY <2>1, <2>2, <2>5, <2>6
<1>8. CASE CloseFails
  <2>1. task'.outbox = <<Error>>
    BY <1>8, CloseFailsIs
  <2>2. Numbers(<<Error>>, "row") = {} /\ Rising(<<Error>>, "row")
    BY FramesAre, OneFrame
  <2> QED
    BY <2>1, <2>2
<1>9. CASE Broadcast
  <2>1. /\ task.outbox \in Seq(Frames) /\ task.outbox # <<>>
        /\ task'.outbox = Tail(task.outbox) /\ task'.cursor = task.cursor
    BY <1>9, BroadcastIs
  <2>2. /\ Numbers(task.outbox, "row") = Numbers(Tail(task.outbox), "row")
            \cup (IF Head(task.outbox).frame = "row"
                  THEN {Head(task.outbox).n} ELSE {})
        /\ Rising(Tail(task.outbox), "row")
    BY <1>2, <2>1, TailNumbers
  <2> QED
    BY <1>2, <2>1, <2>2
<1>10. CASE QuietSteps
  BY <1>3, <1>10, QuietStep DEF Quiet
<1>11. CASE SilentRow /\ ~CancelIsDurable
  BY <1>3, <1>11, SilentRowIs
<1>12. CASE SendDirect \/ Abandon \/ CancelAppends \/ Join
  BY <1>3, <1>12, SendDirectIs, AbandonIs, CancelAppendsIs, JoinIs
<1>13. CASE CancelBroadcasts \/ OtherTurnBroadcasts
  BY <1>3, <1>13, OthersBroadcastIs
<1>14. CASE TakeReplay \/ ReadGlobal \/ ReadDirect
  BY <1>3, <1>14, TakeReplayIs, ReadGlobalIs, ReadDirectIs
<1>15. CASE RefillReplay \/ ReadLagged
  BY <1>0, <1>3, <1>15, RefillStepIs
<1> QED
  BY StepCases, <1>5, <1>6, <1>7, <1>8, <1>9, <1>10, <1>11, <1>12, <1>13,
     <1>14, <1>15

\* Every row before f was seen: nothing the client is handed comes early.
InTurn(f) ==
    Clean /\ f.frame = "row" =>
        \A k \in 1 .. f.n : k = f.n \/ k \in handle.seen

\* Rows of a clean journal before another one are plain.
LEMMA PlainBefore ==
    ASSUME HandleTypeOK, CompletedInv, Clean, NEW n \in DOMAIN journal,
           NEW k \in 1 .. n, k # n
    PROVE  journal[k] = "row" /\ k \in DOMAIN journal
<1>1. DOMAIN journal = 1 .. Len(journal) /\ Len(journal) \in Nat
  BY SMTT(30) DEF HandleTypeOK
<1>2. n \in Nat /\ n <= Len(journal)
  BY SMTT(30), <1>1
<1>3. k \in Nat /\ k >= 1 /\ k < n
  BY SMTT(30), <1>2
<1>4. k \in 1 .. Len(journal) /\ k # Len(journal)
  <2> DEFINE l == Len(journal)
  <2>1. l \in Nat /\ n \in Nat /\ n <= l
    BY <1>1, <1>2
  <2> HIDE DEF l
  <2>2. k \in 1 .. l /\ k # l
    BY ONLY SMTT(30), <2>1, <1>3
  <2> QED
    BY <2>2 DEF l
<1>5. k \in DOMAIN journal
  BY <1>1, <1>4
<1>6. journal[k] # "completed"
  BY <1>4, <1>5 DEF CompletedInv
<1> QED
  BY <1>5, <1>6 DEF Clean

LEMMA ReplayHeadInTurn ==
    ASSUME HandleTypeOK, ReplayInv, handle.replay \in Seq(Frames),
           handle.replay # <<>>
    PROVE  InTurn(Head(handle.replay))
<1> DEFINE f == Head(handle.replay)
<1>1. SUFFICES ASSUME Clean, f.frame = "row", NEW k \in 1 .. f.n, k # f.n
               PROVE  k \in handle.seen
  BY DEF InTurn
<1>2. /\ f \in Frames /\ Tail(handle.replay) \in Seq(Frames)
      /\ Numbers(handle.replay, "row") = Numbers(Tail(handle.replay), "row")
            \cup (IF f.frame = "row" THEN {f.n} ELSE {})
      /\ \A x \in Numbers(Tail(handle.replay), "row") : f.n < x
  BY <1>1, TailNumbers DEF ReplayInv
<1>3. k \in handle.seen \cup Numbers(handle.replay, "row")
  BY <1>1, <1>2 DEF ReplayInv
<1>4. f.n \in Nat /\ ~(f.n < k)
  BY SMTT(30), <1>1, <1>2 DEF Frames
<1> QED
  BY <1>1, <1>2, <1>3, <1>4

LEMMA DirectHeadInTurn ==
    ASSUME HandleTypeOK, DirectInv, direct.held, direct.queue # <<>>
    PROVE  InTurn(Head(direct.queue))
<1> DEFINE f == Head(direct.queue)
<1>1. SUFFICES ASSUME Clean, f.frame = "row", NEW k \in 1 .. f.n, k # f.n
               PROVE  k \in handle.seen
  BY DEF InTurn
<1>2. direct.queue \in Seq(Frames) /\ task.cursor \in Nat
  BY TypesAre DEF DirectType, TaskType
<1>3. /\ Rising(direct.queue, "row") /\ Below(direct.queue, Left, "row")
      /\ \A n \in Numbers(direct.queue, "row") : n <= task.cursor
      /\ \A j \in 1 .. task.cursor :
            j \in handle.seen \cup Numbers(direct.queue, "row")
                  \cup Numbers(Left, "row")
  BY <1>1 DEF DirectInv
<1>4. /\ f \in Frames
      /\ Numbers(direct.queue, "row") = Numbers(Tail(direct.queue), "row")
            \cup (IF f.frame = "row" THEN {f.n} ELSE {})
      /\ \A x \in Numbers(Tail(direct.queue), "row") : f.n < x
  BY <1>1, <1>2, <1>3, TailNumbers
<1>5. f.n \in Numbers(direct.queue, "row") /\ f.n <= task.cursor
  BY <1>1, <1>3, <1>4
<1>6. f.n \in Nat /\ ~(f.n < k) /\ k \in 1 .. task.cursor
  <2>1. f.n \in Nat
    BY <1>4 DEF Frames
  <2> QED
    BY SMTT(30), <1>1, <1>2, <1>5, <2>1
<1>7. k \notin Numbers(Left, "row")
  BY <1>3, <1>5, <1>6 DEF Below
<1> QED
  BY <1>1, <1>3, <1>4, <1>6, <1>7

LEMMA FeedHeadInTurn ==
    ASSUME HandleTypeOK, SoundInv, CompletedInv, FeedInv, Ready, ~feed.missed,
           feed.queue # <<>>
    PROVE  InTurn(Head(feed.queue))
<1> DEFINE f == Head(feed.queue)
<1>1. SUFFICES ASSUME Clean, f.frame = "row", NEW k \in 1 .. f.n, k # f.n
               PROVE  k \in handle.seen
  BY DEF InTurn
<1>2. feed.queue \in Seq(Frames) /\ task.cursor \in Nat
  BY TypesAre DEF FeedType, TaskType
<1>3. Subscribed /\ handle.complete /\ Numbers(handle.replay, "row") = {}
  BY NoNumbers DEF Ready, Subscribed
<1>4. /\ Rising(feed.queue, "row") /\ Below(feed.queue, task.outbox, "row")
      /\ \A n \in Numbers(feed.queue, "row") : n <= task.cursor
      /\ \A j \in 1 .. task.cursor : journal[j] = "row" =>
            j \in handle.seen \cup Numbers(handle.replay, "row")
                  \cup Numbers(feed.queue, "row")
                  \cup Numbers(task.outbox, "row")
  BY <1>1, <1>3 DEF FeedInv
<1>5. /\ f \in Frames
      /\ Numbers(feed.queue, "row") = Numbers(Tail(feed.queue), "row")
            \cup (IF f.frame = "row" THEN {f.n} ELSE {})
      /\ \A x \in Numbers(Tail(feed.queue), "row") : f.n < x
  BY <1>1, <1>2, <1>4, TailNumbers
<1>6. f.n \in Numbers(feed.queue, "row") /\ f.n <= task.cursor
  BY <1>1, <1>4, <1>5
<1>7. f.n \in Nat /\ ~(f.n < k) /\ k \in 1 .. task.cursor
  <2>1. f.n \in Nat
    BY <1>5 DEF Frames
  <2> QED
    BY SMTT(30), <1>1, <1>2, <1>6, <2>1
<1>8. f.n \in DOMAIN journal
  BY <1>6 DEF SoundInv, Sound
<1>9. journal[k] = "row"
  BY <1>1, <1>8, PlainBefore
<1>10. k \notin Numbers(task.outbox, "row")
  BY <1>4, <1>6, <1>7 DEF Below
<1> QED
  BY <1>1, <1>3, <1>4, <1>5, <1>7, <1>9, <1>10

LEMMA ExactTook ==
    ASSUME HandleTypeOK, CompletedInv, ExactInv, SoundInv', SeenInv',
           NEW replay, NEW f \in Frames, InTurn(f), SoundFrame(f),
           Took(replay, f), journal' = journal
    PROVE  ExactInv'
<1>1. DOMAIN journal = 1 .. Len(journal) /\ Len(journal) \in Nat
  BY SMTT(30) DEF HandleTypeOK
<1>2. handle'.seen \subseteq DOMAIN journal
  BY DEF SoundInv, SeenInv, Sound
<1>3. handle'.seen = handle.seen \cup (IF f.frame = "row" THEN {f.n} ELSE {})
  BY DEF Took
<1>4. SUFFICES ASSUME NEW n \in handle'.seen, journal[n] = "completed"
               PROVE  DOMAIN journal \subseteq handle'.seen
  BY <1>2 DEF ExactInv
<1>5. CASE n \in handle.seen
  BY <1>3, <1>4, <1>5 DEF ExactInv
<1>6. CASE f.frame = "row" /\ n = f.n
  <2>1. n \in DOMAIN journal /\ n = Len(journal) /\ Clean
    BY <1>4, <1>6 DEF CompletedInv, SoundFrame
  <2> QED
    BY <1>1, <1>3, <1>6, <2>1 DEF InTurn
<1> QED
  BY <1>3, <1>4, <1>5, <1>6

LEMMA ExactStep ==
    ASSUME HandleTypeOK, ControlInv, SoundInv, RowInv, SoundInv', SeenInv',
           [HandleNext]_handleVars
    PROVE  ExactInv'
<1>0. /\ task.cursor <= Len(journal) /\ handle.cursor <= Len(journal)
      /\ CompletedInv /\ ExactInv /\ ReplayInv /\ DirectInv /\ FeedInv
      /\ SeenInv
  BY DEF SoundInv, RowInv
<1>a. ASSUME journal' = journal, handle'.seen = handle.seen
      PROVE  ExactInv'
  BY <1>0, <1>a DEF ExactInv
<1>b. ASSUME NEW kind \in RowKinds, journal' = Append(journal, kind),
             handle'.seen = handle.seen,
             \A n \in DOMAIN journal : journal[n] # "completed"
      PROVE  ExactInv'
  <2>1. handle.seen \subseteq DOMAIN journal
    BY <1>0 DEF SoundInv, Sound, SeenInv
  <2>2. \A n \in DOMAIN journal : journal'[n] = journal[n]
    BY <1>b, JournalGrows
  <2> QED
    BY <1>b, <2>1, <2>2 DEF ExactInv
<1>1. CASE QuietSteps
  BY <1>1, <1>a, QuietStep DEF Quiet
<1>2. CASE AppendRow /\ ~CancelIsDurable
  <2>1. PICK kind \in {"row", "completed"} :
            /\ journal' = Append(journal, kind) /\ task.at \in DOMAIN Script
            /\ handle' = handle
    BY <1>2, AppendRowIs
  <2>2. kind \in RowKinds
    BY DEF RowKinds, Terminals
  <2>3. \A n \in DOMAIN journal : journal[n] # "completed"
    BY <1>0, <2>1, BusyIsOpen DEF Busy
  <2> QED
    BY <1>b, <2>1, <2>2, <2>3
<1>3. CASE SilentRow /\ ~CancelIsDurable
  <2>1. /\ journal' = Append(journal, "row") /\ "row" \in RowKinds
        /\ task.at \in DOMAIN Script /\ handle' = handle
    BY <1>3, SilentRowIs
  <2>2. \A n \in DOMAIN journal : journal[n] # "completed"
    BY <1>0, <2>1, BusyIsOpen DEF Busy
  <2> QED
    BY <1>b, <2>1, <2>2
<1>4. CASE Stream
  BY <1>0, <1>4, <1>a, StreamIs
<1>5. CASE Interrupt
  <2>1. /\ journal' = Append(journal, "interrupted") /\ "interrupted" \in RowKinds
        /\ task.phase = "close" /\ handle' = handle
    BY <1>5, InterruptIs
  <2>2. \A n \in DOMAIN journal : journal[n] # "completed"
    BY <1>0, <2>1, BusyIsOpen DEF Busy
  <2> QED
    BY <1>b, <2>1, <2>2
<1>6. CASE CloseFails \/ SendDirect \/ Broadcast \/ Abandon
  BY <1>6, <1>a, CloseFailsIs, SendDirectIs, BroadcastIs, AbandonIs
<1>7. CASE CancelAppends
  <2>1. /\ journal' = Append(journal, "intent") /\ "intent" \in RowKinds
        /\ TurnIsOpen /\ handle' = handle
    BY <1>7, CancelAppendsIs
  <2>2. \A n \in DOMAIN journal : journal[n] # "completed"
    BY <2>1 DEF TurnIsOpen, Terminals
  <2> QED
    BY <1>b, <2>1, <2>2
<1>8. CASE CancelBroadcasts \/ OtherTurnBroadcasts
  BY <1>8, <1>a, OthersBroadcastIs
<1>9. CASE Join
  <2>1. handle'.seen = handle.seen
    BY <1>9, JoinIs
  <2>2. CASE journal' = journal
    BY <1>a, <2>1, <2>2
  <2>3. CASE /\ journal' = Append(journal, "interrupted")
             /\ "interrupted" \in RowKinds /\ TurnIsOpen
    <3>1. \A n \in DOMAIN journal : journal[n] # "completed"
      BY <2>3 DEF TurnIsOpen, Terminals
    <3> QED
      BY <1>b, <2>1, <2>3, <3>1
  <2> QED
    BY <1>9, <2>2, <2>3, JoinIs
<1>10. CASE TakeReplay
  <2>1. /\ handle.replay \in Seq(Frames) /\ handle.replay # <<>>
        /\ Head(handle.replay) \in Frames /\ journal' = journal
        /\ Took(Tail(handle.replay), Head(handle.replay))
    BY <1>10, TakeReplayIs
  <2>2. InTurn(Head(handle.replay)) /\ SoundFrame(Head(handle.replay))
    BY <1>0, <2>1, ReplayHeadInTurn, SoundTail DEF SoundInv
  <2> QED
    BY <1>0, <2>1, <2>2, ExactTook
<1>11. CASE RefillReplay \/ ReadLagged
  BY <1>0, <1>11, <1>a, RefillStepIs
<1>12. CASE ReadGlobal
  <2> DEFINE f == Head(feed.queue)
  <2>1. /\ feed.queue \in Seq(Frames) /\ feed.queue # <<>> /\ f \in Frames
        /\ Ready /\ ~feed.missed /\ journal' = journal
        /\ handle' = handle \/ Took(<<>>, f)
    BY <1>12, ReadGlobalIs
  <2>2. InTurn(f) /\ SoundFrame(f)
    BY <1>0, <2>1, FeedHeadInTurn, SoundTail DEF SoundInv
  <2> QED
    BY <1>0, <1>a, <2>1, <2>2, ExactTook
<1>13. CASE ReadDirect
  <2> DEFINE f == Head(direct.queue)
  <2>1. /\ direct.queue \in Seq(Frames) /\ direct.queue # <<>> /\ f \in Frames
        /\ journal' = journal /\ Took(<<>>, f) /\ handle.pc = "direct"
    BY <1>13, ReadDirectIs
  <2>2. SoundFrame(f)
    BY <2>1, SoundTail DEF SoundInv
  <2>3. direct.held
    BY <2>1 DEF ControlInv, Subscribed
  <2> QED
    BY <1>0, <2>1, <2>2, <2>3, DirectHeadInTurn, ExactTook
<1> QED
  BY StepCases, <1>1, <1>2, <1>3, <1>4, <1>5, <1>6, <1>7, <1>8, <1>9, <1>10,
     <1>11, <1>12, <1>13

LEMMA ReplayTook ==
    ASSUME HandleTypeOK, ReplayInv, NEW replay \in Seq(Frames),
           NEW f \in Frames, InTurn(f), Took(replay, f), journal' = journal,
           Numbers(replay, "row") \subseteq Numbers(handle.replay, "row"),
           Numbers(handle.replay, "row") \subseteq
               Numbers(replay, "row") \cup (IF f.frame = "row" THEN {f.n} ELSE {}),
           Clean => Rising(replay, "row")
    PROVE  ReplayInv'
<1>1. SUFFICES ASSUME Clean
               PROVE  /\ Rising(replay, "row")
                      /\ \A n \in Numbers(replay, "row") : \A k \in 1 .. n :
                            k \in handle'.seen \cup Numbers(replay, "row")
                      /\ \A k \in 1 .. handle'.cursor :
                            journal[k] = "row" =>
                                k \in handle'.seen \cup Numbers(replay, "row")
  BY DEF ReplayInv, Clean, Took
<1>2. /\ handle'.seen = IF f.frame = "row" THEN handle.seen \cup {f.n}
                                           ELSE handle.seen
      /\ handle'.cursor = IF f.frame = "row" THEN f.n ELSE handle.cursor
  BY DEF Took
<1>3. handle.seen \cup Numbers(handle.replay, "row")
        \subseteq handle'.seen \cup Numbers(replay, "row")
  BY <1>2
<1>4. \A n \in Numbers(replay, "row") : \A k \in 1 .. n :
            k \in handle'.seen \cup Numbers(replay, "row")
  BY <1>1, <1>3 DEF ReplayInv
<1>5. ASSUME NEW k \in 1 .. handle'.cursor, journal[k] = "row"
      PROVE  k \in handle'.seen \cup Numbers(replay, "row")
  <2>1. CASE f.frame = "row"
    BY <1>1, <1>2, <1>5, <2>1 DEF InTurn
  <2>2. CASE f.frame # "row"
    BY <1>1, <1>2, <1>3, <1>5, <2>2 DEF ReplayInv
  <2> QED
    BY <2>1, <2>2
<1> QED
  BY <1>1, <1>4, <1>5

\* A page continues the rows the client has seen.
LEMMA ReplayPage ==
    ASSUME HandleTypeOK, SoundInv, CompletedInv, ReplayInv, journal' = journal,
           RefillReplay \/ ReadLagged
    PROVE  ReplayInv'
<1> DEFINE c == handle.cursor
           page == Page(c)
<1>1. /\ c \in Nat /\ c <= Len(journal) /\ handle.replay = <<>>
      /\ handle'.replay = page /\ handle'.cursor = c + Len(page)
      /\ handle'.seen = handle.seen
  BY RefillStepIs DEF SoundInv
<1>2. /\ Numbers(page, "row") = c + 1 .. c + Len(page)
      /\ Rising(page, "row") /\ Len(page) \in Nat
  BY <1>1, PageNumbers
<1>3. Numbers(page, "row") \subseteq DOMAIN journal
  BY <1>1, SoundPage DEF Sound
<1> HIDE DEF page
<1>4. SUFFICES ASSUME Clean
               PROVE  /\ \A n \in Numbers(page, "row") : \A k \in 1 .. n :
                            k \in handle.seen \cup Numbers(page, "row")
                      /\ \A k \in 1 .. c + Len(page) :
                            journal[k] = "row" =>
                                k \in handle.seen \cup Numbers(page, "row")
  BY <1>1, <1>2 DEF ReplayInv, Clean
<1>5. \A k \in 1 .. c : journal[k] = "row" => k \in handle.seen
  BY <1>1, <1>4, NoNumbers DEF ReplayInv
<1>6. ASSUME NEW n \in Numbers(page, "row"), NEW k \in 1 .. n
      PROVE  k \in handle.seen \cup Numbers(page, "row")
  <2>1. n \in c + 1 .. c + Len(page) /\ n \in DOMAIN journal
    BY <1>2, <1>3, <1>6
  <2>2. CASE k <= c
    <3>1. k \in 1 .. c /\ k # n
      BY SMTT(30), <1>1, <1>2, <1>6, <2>1, <2>2
    <3>2. journal[k] = "row"
      BY <1>4, <2>1, <3>1, PlainBefore
    <3> QED
      BY <1>5, <3>1, <3>2
  <2>3. CASE ~(k <= c)
    <3>1. k \in c + 1 .. c + Len(page)
      BY SMTT(30), <1>1, <1>2, <1>6, <2>1, <2>3
    <3> QED
      BY <1>2, <3>1
  <2> QED
    BY <2>2, <2>3
<1>7. ASSUME NEW k \in 1 .. c + Len(page), journal[k] = "row"
      PROVE  k \in handle.seen \cup Numbers(page, "row")
  <2>1. k \in 1 .. c \/ k \in c + 1 .. c + Len(page)
    BY SMTT(30), <1>1, <1>2, <1>7
  <2> QED
    BY <1>2, <1>5, <1>7, <2>1
<1> QED
  BY <1>6, <1>7

LEMMA ReplayStep ==
    ASSUME HandleTypeOK, ControlInv, SoundInv, RowInv, [HandleNext]_handleVars
    PROVE  ReplayInv'
<1>0. /\ task.cursor <= Len(journal) /\ handle.cursor <= Len(journal)
      /\ CompletedInv /\ ReplayInv /\ DirectInv /\ FeedInv
  BY DEF SoundInv, RowInv
<1>a. ASSUME handle'.replay = handle.replay, handle'.seen = handle.seen,
             handle'.cursor = handle.cursor
      PROVE  ReplayInv'
  <2>1. 1 .. handle.cursor \subseteq DOMAIN journal
    <3>1. handle.cursor \in Nat /\ journal \in Seq(RowKinds)
      BY TypesAre DEF HandleType
    <3> QED
      BY SMTT(30), <1>0, <3>1
  <2>2. SUFFICES ASSUME Clean' PROVE ReplayInv'
    BY DEF ReplayInv
  <2>3. Clean /\ \A n \in DOMAIN journal : journal'[n] = journal[n]
    BY <2>2, CleanBefore
  <2> QED
    BY <1>0, <1>a, <2>1, <2>3 DEF ReplayInv
<1>1. CASE TakeReplay
  <2> DEFINE q == handle.replay
  <2>1. /\ q \in Seq(Frames) /\ q # <<>> /\ Head(q) \in Frames
        /\ journal' = journal /\ Took(Tail(q), Head(q))
    BY <1>1, TakeReplayIs
  <2>2. /\ Tail(q) \in Seq(Frames)
        /\ Numbers(q, "row") = Numbers(Tail(q), "row")
            \cup (IF Head(q).frame = "row" THEN {Head(q).n} ELSE {})
        /\ Rising(q, "row") => Rising(Tail(q), "row")
    BY <2>1, TailNumbers
  <2>3. Numbers(Tail(q), "row") \subseteq Numbers(q, "row")
    BY <2>2
  <2>4. InTurn(Head(q)) /\ (Clean => Rising(Tail(q), "row"))
    BY <1>0, <2>1, <2>2, ReplayHeadInTurn DEF ReplayInv
  <2> QED
    BY <1>0, <2>1, <2>2, <2>3, <2>4, ReplayTook
<1>2. ASSUME NEW f \in Frames, InTurn(f), Took(<<>>, f), handle.replay = <<>>,
             journal' = journal
      PROVE  ReplayInv'
  <2>1. <<>> \in Seq(Frames) /\ Rising(<<>>, "row")
    BY NoNumbers, SMTT(30)
  <2>2. /\ Numbers(<<>>, "row") \subseteq Numbers(handle.replay, "row")
        /\ Numbers(handle.replay, "row") \subseteq
           Numbers(<<>>, "row") \cup (IF f.frame = "row" THEN {f.n} ELSE {})
    BY <1>2
  <2> QED
    BY <1>0, <1>2, <2>1, <2>2, ReplayTook
<1>3. CASE ReadGlobal
  <2> DEFINE f == Head(feed.queue)
  <2>1. /\ Ready /\ ~feed.missed /\ feed.queue # <<>> /\ f \in Frames
        /\ journal' = journal
        /\ handle' = handle \/ Took(<<>>, f)
    BY <1>3, ReadGlobalIs
  <2>2. InTurn(f) /\ handle.replay = <<>>
    BY <1>0, <2>1, FeedHeadInTurn DEF Ready
  <2> QED
    BY <1>a, <1>2, <2>1, <2>2
<1>4. CASE ReadDirect
  <2> DEFINE f == Head(direct.queue)
  <2>1. /\ direct.queue # <<>> /\ f \in Frames /\ journal' = journal
        /\ Took(<<>>, f) /\ handle.pc = "direct" /\ handle.replay = <<>>
    BY <1>4, ReadDirectIs
  <2>2. direct.held
    BY <2>1 DEF ControlInv, Subscribed
  <2> QED
    BY <1>0, <1>2, <2>1, <2>2, DirectHeadInTurn
<1>5. CASE RefillReplay \/ ReadLagged
  BY <1>0, <1>5, RefillStepIs, ReplayPage
<1>6. CASE QuietSteps
  BY <1>6, <1>a, QuietStep DEF Quiet
<1>7. CASE AppendRow /\ ~CancelIsDurable
  BY <1>7, <1>a, AppendRowIs
<1>8. CASE SilentRow /\ ~CancelIsDurable
  BY <1>8, <1>a, SilentRowIs
<1>9. CASE Stream
  BY <1>0, <1>9, <1>a, StreamIs
<1>10. CASE Interrupt \/ CloseFails \/ SendDirect \/ Broadcast
  BY <1>10, <1>a, InterruptIs, CloseFailsIs, SendDirectIs, BroadcastIs
<1>11. CASE Abandon \/ CancelAppends \/ Join
  BY <1>11, <1>a, AbandonIs, CancelAppendsIs, JoinIs
<1>12. CASE CancelBroadcasts \/ OtherTurnBroadcasts
  BY <1>12, <1>a, OthersBroadcastIs
<1> QED
  BY StepCases, <1>1, <1>3, <1>4, <1>5, <1>6, <1>7, <1>8, <1>9, <1>10,
     <1>11, <1>12

\* The steps that fill the outbox.
Fills == (AppendRow /\ ~CancelIsDurable) \/ Stream \/ CloseFails

\* They put there exactly the rows they move the task's cursor over.
LEMMA FillIs ==
    ASSUME HandleTypeOK, ControlInv, SoundInv, SilentInv, Clean, Fills
    PROVE  /\ Numbers(task'.outbox, "row") = task.cursor + 1 .. task'.cursor
           /\ task.outbox = <<>> /\ ~task.sent /\ ~task'.sent
           /\ task.cursor \in Nat /\ task'.cursor \in Nat
           /\ task.cursor <= task'.cursor
           /\ feed' = feed /\ direct' = direct /\ handle' = handle /\ got' = got
<1>0. task.cursor <= Len(journal) /\ task.cursor \in Nat
  BY TypesAre DEF SoundInv, TaskType
<1>1. CASE AppendRow /\ ~CancelIsDurable
  <2>1. /\ task'.outbox = <<Row(Len(journal) + 1)>> /\ task.phase = "work"
        /\ task'.sent = task.sent /\ task'.cursor = Len(journal) + 1
        /\ Len(journal) + 1 \in Nat
        /\ feed' = feed /\ direct' = direct /\ handle' = handle /\ got' = got
    BY <1>1, AppendRowIs
  <2>2. Numbers(<<Row(Len(journal) + 1)>>, "row") = {Len(journal) + 1}
    BY <2>1, FramesAre, OneFrame
  <2>3. task.cursor = Len(journal)
    BY <1>1, NoGap
  <2>4. task.cursor + 1 .. task.cursor + 1 = {task.cursor + 1}
        /\ task.cursor <= task.cursor + 1
    BY SMTT(30), <1>0
  <2>5. task.outbox = <<>> /\ ~task.sent
    BY <2>1 DEF ControlInv
  <2> QED
    BY <1>0, <2>1, <2>2, <2>3, <2>4, <2>5
<1>2. CASE Stream
  <2> DEFINE page == Page(task.cursor)
  <2>1. /\ page \in Seq(Frames)
        /\ \/ Script[task.at] = "delta" /\ task'.outbox = Append(page, Delta(task.at))
           \/ Script[task.at] = "drain" /\ task'.outbox = page
        /\ task'.cursor = task.cursor + Len(page)
        /\ task.phase = "work" /\ task'.sent = task.sent
        /\ feed' = feed /\ direct' = direct /\ handle' = handle /\ got' = got
    BY <1>0, <1>2, StreamIs
  <2>2. /\ Numbers(page, "row") = task.cursor + 1 .. task.cursor + Len(page)
        /\ Rising(page, "row") /\ Len(page) \in Nat
    BY <1>0, PageNumbers
  <2>3. task.at \in Nat
    BY TypesAre DEF TaskType
  <2> HIDE DEF page
  <2>4. Delta(task.at) \in Frames /\ Delta(task.at).frame # "row"
    BY <2>3, FramesAre
  <2>5. /\ Numbers(Append(page, Delta(task.at)), "row") = Numbers(page, "row")
        /\ Rising(Append(page, Delta(task.at)), "row")
    BY <2>1, <2>2, <2>4, AppendNumbers
  <2>6. task.cursor <= task.cursor + Len(page) /\ task.cursor + Len(page) \in Nat
    BY SMTT(30), <1>0, <2>2
  <2>7. task.outbox = <<>> /\ ~task.sent
    BY <2>1 DEF ControlInv
  <2> QED
    BY <1>0, <2>1, <2>2, <2>5, <2>6, <2>7
<1>3. CASE CloseFails
  <2>1. /\ task'.outbox = <<Error>> /\ task.phase = "close"
        /\ task'.sent = task.sent /\ task'.cursor = task.cursor
        /\ feed' = feed /\ direct' = direct /\ handle' = handle /\ got' = got
    BY <1>3, CloseFailsIs
  <2>2. Numbers(<<Error>>, "row") = {}
    BY FramesAre, OneFrame
  <2>3. task.outbox = <<>> /\ ~task.sent
    BY <2>1 DEF ControlInv
  <2>4. task.cursor + 1 .. task.cursor = {} /\ task.cursor <= task.cursor
    BY SMTT(30), <1>0
  <2> QED
    BY <1>0, <2>1, <2>2, <2>3, <2>4
<1> QED
  BY <1>1, <1>2, <1>3 DEF Fills

\* The steps of others in the journal leave it unclean.
LEMMA UncleanSteps ==
    ASSUME HandleTypeOK,
           Interrupt \/ CancelAppends \/ (Join /\ journal' # journal)
    PROVE  ~Clean'
<1>1. \E kind \in {"interrupted", "intent"} :
            kind \in RowKinds /\ journal' = Append(journal, kind)
  BY InterruptIs, CancelAppendsIs, JoinIs
<1>2. {"interrupted", "intent"} \cap {"row", "completed"} = {}
  OBVIOUS
<1> QED
  BY <1>1, <1>2, JournalGrows

LEMMA DirectStep ==
    ASSUME HandleTypeOK, ControlInv, SoundInv, RowInv, [HandleNext]_handleVars
    PROVE  DirectInv'
<1>0. /\ task.cursor <= Len(journal) /\ handle.cursor <= Len(journal)
      /\ CompletedInv /\ SilentInv /\ OutboxInv /\ DirectInv
      /\ task.cursor \in Nat /\ direct.queue \in Seq(Frames)
  BY TypesAre DEF SoundInv, RowInv, TaskType, DirectType
<1>1. SUFFICES ASSUME Clean', direct'.held PROVE DirectInv'
  BY DEF DirectInv
<1>2. Clean
  BY <1>1, CleanBefore
<1>a. ASSUME direct.held, direct'.queue = direct.queue, Left' = Left,
             task'.cursor = task.cursor, handle.seen \subseteq handle'.seen
      PROVE  DirectInv'
  BY <1>0, <1>2, <1>a DEF DirectInv, Below
<1>b. ASSUME task' = task \/ /\ task'.outbox = task.outbox
                             /\ task'.sent = task.sent
                             /\ task'.cursor = task.cursor
      PROVE  Left' = Left /\ task'.cursor = task.cursor
  BY <1>b DEF Left
<1>3. CASE Fills
  <2>1. /\ Numbers(task'.outbox, "row") = task.cursor + 1 .. task'.cursor
        /\ task.outbox = <<>> /\ ~task.sent /\ ~task'.sent
        /\ task'.cursor \in Nat /\ task.cursor <= task'.cursor
        /\ direct' = direct /\ handle' = handle
    BY <1>0, <1>2, <1>3, FillIs
  <2>2. Left' = task'.outbox /\ Left = <<>>
    BY <2>1 DEF Left
  <2>3. /\ Rising(direct.queue, "row")
        /\ \A n \in Numbers(direct.queue, "row") : n <= task.cursor
        /\ \A k \in 1 .. task.cursor :
            k \in handle.seen \cup Numbers(direct.queue, "row")
    BY <1>0, <1>1, <1>2, <2>1, <2>2, NoNumbers DEF DirectInv
  <2>4. Numbers(direct.queue, "row") \subseteq Nat
    BY <1>0, NumbersNat
  <2>5. ASSUME NEW x \in Numbers(direct.queue, "row"),
               NEW y \in task.cursor + 1 .. task'.cursor
        PROVE  x < y
    <3>1. x \in Nat /\ x <= task.cursor
      BY <2>3, <2>4, <2>5
    <3> QED
      BY SMTT(30), <3>1, <2>5, <1>0, <2>1
  <2>6. \A n \in Numbers(direct.queue, "row") : n <= task'.cursor
    <3>1. TAKE n \in Numbers(direct.queue, "row")
    <3>2. n \in Nat /\ n <= task.cursor
      BY <2>3, <2>4
    <3> QED
      BY SMTT(30), <3>2, <1>0, <2>1
  <2>7. ASSUME NEW k \in 1 .. task'.cursor
        PROVE  k \in 1 .. task.cursor \/ k \in task.cursor + 1 .. task'.cursor
    BY SMTT(30), <2>7, <1>0, <2>1
  <2> QED
    BY <2>1, <2>2, <2>3, <2>5, <2>6, <2>7 DEF DirectInv, Below
<1>4. CASE SendDirect
  <2> DEFINE q == task.outbox
             f == Head(q)
  <2>1. /\ q \in Seq(Frames) /\ q # <<>> /\ ~task.sent /\ task'.sent
        /\ task'.outbox = q /\ task'.cursor = task.cursor
        /\ direct'.held = direct.held /\ handle' = handle
        /\ direct'.queue = IF direct.held THEN Append(direct.queue, f)
                                          ELSE direct.queue
    BY <1>4, SendDirectIs
  <2>2. Left = q /\ Left' = Tail(q) /\ direct'.queue = Append(direct.queue, f)
    BY <1>1, <2>1 DEF Left
  <2>3. /\ Rising(direct.queue, "row") /\ Below(direct.queue, q, "row")
        /\ \A n \in Numbers(direct.queue, "row") : n <= task.cursor
        /\ \A k \in 1 .. task.cursor :
            k \in handle.seen \cup Numbers(direct.queue, "row")
                  \cup Numbers(q, "row")
    BY <1>0, <1>1, <1>2, <2>1, <2>2 DEF DirectInv
  <2>4. Rising(q, "row") /\ \A n \in Numbers(q, "row") : n <= task.cursor
    BY <1>0, <1>2 DEF OutboxInv
  <2>5. /\ f \in Frames
        /\ Numbers(q, "row") = Numbers(Tail(q), "row")
            \cup (IF f.frame = "row" THEN {f.n} ELSE {})
        /\ f.frame = "row" => \A x \in Numbers(Tail(q), "row") : f.n < x
    BY <2>1, <2>4, TailNumbers
  <2> HIDE DEF f, q
  <2>6. f.frame = "row" =>
            f.n \in Numbers(q, "row")
            /\ \A x \in Numbers(direct.queue, "row") : x < f.n
    BY <2>3, <2>5 DEF Below
  <2>7. /\ Numbers(Append(direct.queue, f), "row") = Numbers(direct.queue, "row")
            \cup (IF f.frame = "row" THEN {f.n} ELSE {})
        /\ Rising(Append(direct.queue, f), "row")
    BY <1>0, <2>3, <2>5, <2>6, AppendNumbers
  <2>8. Below(Append(direct.queue, f), Tail(q), "row")
    BY <2>3, <2>5, <2>7 DEF Below
  <2>9. \A n \in Numbers(Append(direct.queue, f), "row") : n <= task.cursor
    BY <2>3, <2>4, <2>6, <2>7
  <2>10. \A k \in 1 .. task.cursor :
            k \in handle.seen \cup Numbers(Append(direct.queue, f), "row")
                  \cup Numbers(Tail(q), "row")
    BY <2>3, <2>5, <2>7
  <2> QED
    BY <2>1, <2>2, <2>7, <2>8, <2>9, <2>10 DEF DirectInv, Below
<1>5. CASE Broadcast
  <2>1. /\ task.sent /\ ~task'.sent /\ task'.outbox = Tail(task.outbox)
        /\ task'.cursor = task.cursor /\ direct' = direct /\ handle' = handle
    BY <1>5, BroadcastIs
  <2>2. Left' = Left
    BY <2>1 DEF Left
  <2> QED
    BY <1>1, <1>a, <2>1, <2>2
<1>6. CASE ReadDirect
  <2> DEFINE q == direct.queue
             f == Head(q)
  <2>1. /\ q # <<>> /\ f \in Frames /\ Took(<<>>, f) /\ task' = task
        /\ handle'.pc = "over" => Gone
        /\ handle'.pc # "over" =>
                direct'.queue = Tail(q) /\ direct'.held = direct.held
    BY <1>6, ReadDirectIs
  <2>2. direct'.queue = Tail(q) /\ direct.held
    BY <1>1, <2>1 DEF Gone
  <2>3. /\ Rising(q, "row") /\ Below(q, Left, "row")
        /\ \A n \in Numbers(q, "row") : n <= task.cursor
        /\ \A k \in 1 .. task.cursor :
            k \in handle.seen \cup Numbers(q, "row") \cup Numbers(Left, "row")
    BY <1>0, <1>2, <2>2 DEF DirectInv
  <2>4. /\ Numbers(q, "row") = Numbers(Tail(q), "row")
            \cup (IF f.frame = "row" THEN {f.n} ELSE {})
        /\ Rising(Tail(q), "row")
    BY <1>0, <2>1, <2>3, TailNumbers
  <2>5. handle'.seen = IF f.frame = "row" THEN handle.seen \cup {f.n}
                                          ELSE handle.seen
    BY <2>1 DEF Took
  <2>6. Left' = Left /\ task'.cursor = task.cursor
    BY <1>b, <2>1
  <2> HIDE DEF f, q
  <2>7. Below(Tail(q), Left, "row")
        /\ \A n \in Numbers(Tail(q), "row") : n <= task.cursor
    BY <2>3, <2>4 DEF Below
  <2>8. \A k \in 1 .. task.cursor :
            k \in handle'.seen \cup Numbers(Tail(q), "row") \cup Numbers(Left, "row")
    BY <2>3, <2>4, <2>5
  <2> QED
    BY <2>2, <2>4, <2>6, <2>7, <2>8 DEF DirectInv, Below
<1>7. CASE TakeReplay \/ ReadGlobal
  <2>1. /\ task' = task
        /\ handle'.pc = "over" => Gone
        /\ handle'.pc # "over" => direct' = direct
        /\ handle' = handle \/ \E replay : \E f : Took(replay, f)
    BY <1>7, TakeReplayIs, ReadGlobalIs
  <2>2. handle.seen \subseteq handle'.seen
    BY <2>1 DEF Took
  <2> QED
    BY <1>1, <1>a, <1>b, <2>1, <2>2 DEF Gone
<1>8. CASE RefillReplay \/ ReadLagged
  BY <1>0, <1>1, <1>8, <1>a, <1>b, RefillStepIs
<1>9. CASE QuietSteps
  BY <1>1, <1>9, <1>a, <1>b, QuietStep DEF Quiet
<1>10. CASE SilentRow /\ ~CancelIsDurable
  BY <1>1, <1>10, <1>a, <1>b, SilentRowIs
<1>11. CASE Interrupt \/ CancelAppends
  BY <1>1, <1>11, UncleanSteps
<1>12. CASE CancelBroadcasts \/ OtherTurnBroadcasts
  BY <1>1, <1>12, <1>a, <1>b, OthersBroadcastIs
<1>13. CASE Join
  BY <1>1, <1>13, <1>a, <1>b, JoinIs
<1>14. CASE Abandon
  BY <1>1, <1>14, AbandonIs DEF Gone
<1> QED
  BY StepCases, <1>3, <1>4, <1>5, <1>6, <1>7, <1>8, <1>9, <1>10, <1>11,
     <1>12, <1>13, <1>14 DEF Fills

\* A complete replay reaches the end of the journal.
LEMMA PageReaches ==
    ASSUME HandleTypeOK, CompletedInv, Clean, NEW c \in Nat, c <= Len(journal),
           \/ Len(Page(c)) < PageSize
           \/ \E i \in DOMAIN Page(c) : IsTerminalFrame(Page(c)[i])
    PROVE  Len(journal) <= c + Len(Page(c))
<1> DEFINE page == Page(c)
<1>1. /\ Len(page) = IF Len(journal) - c < PageSize
                     THEN Len(journal) - c ELSE PageSize
      /\ DOMAIN page = 1 .. Len(page)
      /\ \A i \in DOMAIN page : page[i] = Row(c + i)
  BY PageIs
<1>2. Len(journal) \in Nat /\ Len(page) \in Nat
  <2>1. journal \in Seq(RowKinds)
    BY TypesAre
  <2> QED
    BY SMTT(30), <2>1, PageNumbers
<1>3. CASE Len(page) < PageSize
  <2> HIDE DEF page
  <2>1. Len(page) = Len(journal) - c
    <3>1. PageSize \in Nat /\ ~(PageSize < PageSize)
      BY SMTT(30), ScriptAssumption
    <3> QED
      BY <1>1, <1>3, <3>1
  <2> DEFINE l == Len(journal)
             p == Len(page)
  <2>2. l \in Nat /\ p = l - c
    BY <1>2, <2>1
  <2> HIDE DEF l, p
  <2>3. l <= c + p
    BY ONLY SMTT(30), <2>2, c \in Nat
  <2> QED
    BY <2>3 DEF l, p, page
<1>4. CASE \E i \in DOMAIN page : IsTerminalFrame(page[i])
  <2>1. PICK i \in 1 .. Len(page) : IsTerminalFrame(page[i]) /\ page[i] = Row(c + i)
    BY <1>1, <1>4
  <2>2. journal[c + i] \in Terminals
    BY <2>1, FramesAre DEF IsTerminalFrame
  <2>3. c + i \in Numbers(page, "row")
    <3>1. Numbers(page, "row") = c + 1 .. c + Len(page)
      BY PageNumbers
    <3> HIDE DEF page
    <3>2. c + i \in c + 1 .. c + Len(page)
      BY SMTT(30), <1>2, <2>1
    <3> QED
      BY <3>1, <3>2
  <2>4. c + i \in DOMAIN journal
    BY <2>3, SoundPage DEF Sound
  <2>5. journal[c + i] = "completed"
    BY <2>2, <2>4 DEF Clean, Terminals
  <2>6. c + i = Len(journal)
    BY <2>4, <2>5 DEF CompletedInv
  <2> DEFINE p == Len(page)
  <2>7. p \in Nat /\ i \in 1 .. p
    BY <1>2, <2>1
  <2> HIDE DEF p
  <2>8. c + i <= c + p
    BY ONLY SMTT(30), <2>7, c \in Nat
  <2> QED
    BY <2>6, <2>8 DEF p
<1> QED
  BY <1>3, <1>4

LEMMA FeedRefill ==
    ASSUME HandleTypeOK, SoundInv, CompletedInv, ReplayInv, FeedInv,
           RefillReplay \/ ReadLagged
    PROVE  FeedInv'
<1> DEFINE c == handle.cursor
           page == Page(c)
<1>1. /\ c \in Nat /\ c <= Len(journal) /\ handle.replay = <<>>
      /\ handle'.replay = page
      /\ handle'.complete <=>
                \/ Len(page) < PageSize
                \/ \E i \in DOMAIN page : IsTerminalFrame(page[i])
      /\ handle'.seen = handle.seen /\ feed'.queue = feed.queue
      /\ journal' = journal /\ task' = task
  BY RefillStepIs DEF SoundInv
<1>2. Numbers(page, "row") = c + 1 .. c + Len(page) /\ Len(page) \in Nat
  BY <1>1, PageNumbers
<1>3. task.cursor \in Nat /\ task.cursor <= Len(journal) /\ Len(journal) \in Nat
  <2>1. journal \in Seq(RowKinds)
    BY TypesAre
  <2>2. Len(journal) \in Nat
    BY SMTT(30), <2>1
  <2> QED
    BY <2>2, TypesAre DEF TaskType, SoundInv
<1>4. SUFFICES ASSUME Clean, handle'.complete,
                      NEW k \in 1 .. task.cursor, journal[k] = "row"
               PROVE  k \in handle.seen \cup Numbers(page, "row")
  <2>1. Clean' <=> Clean
    BY <1>1 DEF Clean
  <2> HIDE DEF page
  <2> QED
    BY <1>1, <2>1 DEF FeedInv, Below
<1>5. Len(journal) <= c + Len(page)
  BY <1>1, <1>4, PageReaches
<1> HIDE DEF page
<1>6. k \in 1 .. c \/ k \in c + 1 .. c + Len(page)
  BY SMTT(30), <1>1, <1>2, <1>3, <1>4, <1>5
<1>7. k \in 1 .. c => k \in handle.seen
  BY <1>1, <1>4, NoNumbers DEF ReplayInv
<1> QED
  BY <1>2, <1>6, <1>7

LEMMA FeedStep ==
    ASSUME HandleTypeOK, ControlInv, SoundInv, RowInv, [HandleNext]_handleVars
    PROVE  FeedInv'
<1>0. /\ task.cursor <= Len(journal) /\ handle.cursor <= Len(journal)
      /\ CompletedInv /\ SilentInv /\ OutboxInv /\ ReplayInv /\ FeedInv
      /\ task.cursor \in Nat /\ feed.queue \in Seq(Frames)
  BY TypesAre DEF SoundInv, RowInv, TaskType, FeedType
<1>1. SUFFICES ASSUME Clean' PROVE FeedInv'
  BY DEF FeedInv
<1>2. Clean /\ \A n \in DOMAIN journal : journal'[n] = journal[n]
  BY <1>1, CleanBefore
<1>3. 1 .. task.cursor \subseteq DOMAIN journal
  <2>1. journal \in Seq(RowKinds)
    BY TypesAre
  <2> QED
    BY SMTT(30), <1>0, <2>1
<1> DEFINE Covers(seen, replay, queue, outbox) ==
               \A k \in 1 .. task.cursor : journal[k] = "row" =>
                   k \in seen \cup replay \cup queue \cup outbox
           Seen == handle.seen
           Replay == Numbers(handle.replay, "row")
           Feed == Numbers(feed.queue, "row")
           Box == Numbers(task.outbox, "row")
           Whole == Subscribed /\ handle.complete /\ ~feed.missed
<1>4. /\ Rising(feed.queue, "row")
      /\ \A x \in Feed, y \in Box : x < y
      /\ \A n \in Feed : n <= task.cursor
      /\ Whole => Covers(Seen, Replay, Feed, Box)
  BY <1>0, <1>2 DEF FeedInv, Below
<1>5. ASSUME task'.cursor = task.cursor,
             Rising(feed'.queue, "row"), Below(feed'.queue, task'.outbox, "row"),
             \A n \in Numbers(feed'.queue, "row") : n <= task.cursor,
             Subscribed' /\ handle'.complete /\ ~feed'.missed =>
                Covers(handle'.seen, Numbers(handle'.replay, "row"),
                       Numbers(feed'.queue, "row"), Numbers(task'.outbox, "row"))
      PROVE  FeedInv'
  BY <1>2, <1>3, <1>5 DEF FeedInv, Below
<1>a. ASSUME task'.cursor = task.cursor, task'.outbox = task.outbox,
             feed'.queue = feed.queue,
             Subscribed' /\ handle'.complete /\ ~feed'.missed => Whole,
             Seen \cup Replay
                \subseteq handle'.seen \cup Numbers(handle'.replay, "row")
      PROVE  FeedInv'
  <2>1. Whole => Covers(handle'.seen, Numbers(handle'.replay, "row"), Feed, Box)
    BY <1>4, <1>a
  <2> QED
    BY <1>4, <1>5, <1>a, <2>1 DEF Below
<1>b. ASSUME feed' = NoFrames, ~Subscribed', task' = task
      PROVE  FeedInv'
  BY <1>5, <1>b, GoneType, NoNumbers DEF Below
<1>6. CASE Fills
  <2>1. /\ Numbers(task'.outbox, "row") = task.cursor + 1 .. task'.cursor
        /\ task.outbox = <<>>
        /\ task'.cursor \in Nat /\ task.cursor <= task'.cursor
        /\ feed' = feed /\ handle' = handle
    BY <1>0, <1>2, <1>6, FillIs
  <2>2. Box = {} /\ Feed \subseteq Nat
    BY <1>0, <2>1, NoNumbers, NumbersNat
  <2>3. ASSUME NEW x \in Feed, NEW y \in task.cursor + 1 .. task'.cursor
        PROVE  x < y
    <3>1. x \in Nat /\ x <= task.cursor
      BY <1>4, <2>2, <2>3
    <3> QED
      BY SMTT(30), <3>1, <2>3, <1>0, <2>1
  <2>4. \A n \in Feed : n <= task'.cursor
    <3>1. TAKE n \in Feed
    <3>2. n \in Nat /\ n <= task.cursor
      BY <1>4, <2>2
    <3> QED
      BY SMTT(30), <3>2, <1>0, <2>1
  <2>5. ASSUME NEW k \in 1 .. task'.cursor
        PROVE  k \in 1 .. task.cursor \/ k \in task.cursor + 1 .. task'.cursor
    BY SMTT(30), <2>5, <1>0, <2>1
  <2>6. ASSUME Whole, NEW k \in 1 .. task'.cursor, journal'[k] = "row"
        PROVE  k \in Seen \cup Replay \cup Feed
                     \cup (task.cursor + 1 .. task'.cursor)
    <3>1. CASE k \in 1 .. task.cursor
      <4>1. journal[k] = "row"
        BY <1>2, <1>3, <2>6, <3>1
      <4> QED
        BY <1>4, <2>2, <2>6, <3>1, <4>1
    <3> QED
      BY <2>5, <3>1
  <2>7. Subscribed' <=> Subscribed
    BY <2>1 DEF Subscribed
  <2> QED
    BY <1>4, <2>1, <2>3, <2>4, <2>6, <2>7 DEF FeedInv, Below
<1>7. CASE Broadcast
  <2> DEFINE q == task.outbox
             f == Head(q)
  <2>1. /\ q \in Seq(Frames) /\ q # <<>> /\ f \in Frames
        /\ feed' = Sent(f) /\ task'.outbox = Tail(q)
        /\ task'.cursor = task.cursor /\ handle' = handle
    BY <1>7, BroadcastIs
  <2>2. Rising(q, "row") /\ \A n \in Box : n <= task.cursor
    BY <1>0, <1>2 DEF OutboxInv
  <2>3. /\ Box = Numbers(Tail(q), "row")
            \cup (IF f.frame = "row" THEN {f.n} ELSE {})
        /\ f.frame = "row" => \A x \in Numbers(Tail(q), "row") : f.n < x
    BY <2>1, <2>2, TailNumbers
  <2>4. Subscribed' <=> Subscribed
    BY <2>1 DEF Subscribed
  <2> HIDE DEF f, q
  <2>5. CASE ~Subscribed
    <3>1. feed' = NoFrames
      BY <2>1, <2>5 DEF ControlInv, Sent
    <3>2. Numbers(feed'.queue, "row") = {} /\ Rising(feed'.queue, "row")
      BY <3>1, GoneType, NoNumbers
    <3> QED
      BY <1>5, <2>1, <2>4, <2>5, <3>2 DEF Below
  <2>6. CASE Subscribed
    <3> DEFINE g == Received(f)
               mine == IF f.frame = "row" THEN {f.n} ELSE {}
    <3>1. feed' = g
      BY <2>1, <2>6 DEF Sent
    <3>2. f.frame = "row" => \A x \in Feed : x < f.n
      BY <1>4, <2>3
    <3>3. /\ Numbers(g.queue, "row") \subseteq Feed \cup mine
          /\ ~g.missed => ~feed.missed /\ Numbers(g.queue, "row") = Feed \cup mine
          /\ Rising(g.queue, "row")
      BY <1>4, <2>1, <3>2, ReceivedIs
    <3> HIDE DEF g
    <3>4. \A x \in Numbers(g.queue, "row"), y \in Numbers(Tail(q), "row") : x < y
      BY <1>4, <2>3, <3>3
    <3>5. \A n \in Numbers(g.queue, "row") : n <= task.cursor
      BY <1>4, <2>2, <2>3, <3>3
    <3>6. ASSUME ~g.missed, handle.complete
          PROVE  Covers(Seen, Replay, Numbers(g.queue, "row"),
                        Numbers(Tail(q), "row"))
      BY <1>4, <2>3, <2>6, <3>3, <3>6
    <3> HIDE DEF Covers
    <3> QED
      BY <1>5, <2>1, <3>1, <3>3, <3>4, <3>5, <3>6 DEF Below
  <2> QED
    BY <2>5, <2>6
<1>8. CASE CancelBroadcasts \/ OtherTurnBroadcasts
  <2>1. PICK f \in Frames :
            /\ feed' = Sent(f)
            /\ \/ f = Noise
               \/ ~Clean
    BY <1>8, OthersBroadcastIs
  <2>2. /\ task' = task /\ handle' = handle /\ feed' = Sent(f)
        /\ f.frame # "row"
    BY <1>2, <1>8, <2>1, OthersBroadcastIs, FramesAre
  <2>3. CASE ~Subscribed
    BY <1>a, <2>2, <2>3 DEF Sent, Subscribed
  <2>4. CASE Subscribed
    <3> DEFINE g == Received(f)
    <3>1. feed' = g
      BY <2>2, <2>4 DEF Sent
    <3>2. /\ Numbers(g.queue, "row") \subseteq Feed
          /\ ~g.missed => ~feed.missed /\ Numbers(g.queue, "row") = Feed
          /\ Rising(g.queue, "row")
      BY <1>4, <2>2, ReceivedIs
    <3> HIDE DEF g
    <3>3. ASSUME ~g.missed, handle.complete
          PROVE  Covers(Seen, Replay, Numbers(g.queue, "row"), Box)
      BY <1>4, <2>4, <3>2, <3>3
    <3> HIDE DEF Covers
    <3> QED
      BY <1>4, <1>5, <2>2, <3>1, <3>2, <3>3 DEF Below
  <2> QED
    BY <2>3, <2>4
<1>9. CASE ReadGlobal
  <2> DEFINE q == feed.queue
             f == Head(q)
  <2>1. /\ Ready /\ ~feed.missed /\ q # <<>> /\ f \in Frames
        /\ \/ /\ f.frame # "row" \/ IsTerminalFrame(f)
              /\ handle' = handle
           \/ Took(<<>>, f)
        /\ handle'.pc = "over" => Gone
        /\ handle'.pc # "over" => feed'.queue = Tail(q)
        /\ task' = task
    BY <1>9, ReadGlobalIs
  <2>2. handle'.pc = "over" => FeedInv'
    BY <1>b, <2>1 DEF Gone, Subscribed
  <2>3. SUFFICES ASSUME handle'.pc # "over" PROVE FeedInv'
    BY <2>2
  <2>4. /\ Feed = Numbers(Tail(q), "row")
            \cup (IF f.frame = "row" THEN {f.n} ELSE {})
        /\ Rising(Tail(q), "row")
    BY <1>0, <1>4, <2>1, TailNumbers
  <2>5. Whole /\ Replay = {}
    BY <2>1, NoNumbers DEF Ready, Subscribed
  <2>6. f.frame = "row" => f.n \in handle'.seen \/ journal[f.n] # "row"
    <3>1. Took(<<>>, f) /\ f.frame = "row" => f.n \in handle'.seen
      BY DEF Took
    <3>2. IsTerminalFrame(f) /\ f.frame = "row" => journal[f.n] # "row"
      BY DEF IsTerminalFrame, Terminals
    <3> QED
      BY <2>1, <3>1, <3>2
  <2>7. Seen \subseteq handle'.seen
    BY <2>1 DEF Took
  <2> HIDE DEF f, q
  <2>8. ASSUME NEW k \in 1 .. task.cursor, journal[k] = "row"
        PROVE  k \in handle'.seen \cup Numbers(Tail(q), "row") \cup Box
    <3>1. k \in Seen \cup Feed \cup Box
      BY <1>4, <2>5, <2>8
    <3> QED
      BY <2>4, <2>6, <2>7, <2>8, <3>1
  <2>9. Covers(handle'.seen, Numbers(handle'.replay, "row"),
               Numbers(Tail(q), "row"), Box)
    BY <2>8
  <2>10. /\ \A x \in Numbers(Tail(q), "row"), y \in Box : x < y
         /\ \A n \in Numbers(Tail(q), "row") : n <= task.cursor
    BY <1>4, <2>4
  <2> HIDE DEF Covers
  <2> QED
    BY <1>5, <2>1, <2>3, <2>4, <2>9, <2>10 DEF Below
<1>10. CASE TakeReplay
  <2> DEFINE q == handle.replay
             f == Head(q)
  <2>1. /\ q \in Seq(Frames) /\ q # <<>> /\ f \in Frames
        /\ Took(Tail(q), f) /\ task' = task /\ handle.pc = "recv"
        /\ handle'.pc = "over" => Gone
        /\ handle'.pc # "over" => feed' = feed
    BY <1>10, TakeReplayIs
  <2>2. handle'.pc = "over" => FeedInv'
    BY <1>b, <2>1 DEF Gone, Subscribed
  <2>3. Replay = Numbers(Tail(q), "row")
            \cup (IF f.frame = "row" THEN {f.n} ELSE {})
    BY <2>1, TailNumbers
  <2>4. Seen \cup Replay \subseteq handle'.seen \cup Numbers(handle'.replay, "row")
    BY <2>1, <2>3 DEF Took
  <2>5. Subscribed /\ handle'.complete = handle.complete
    BY <2>1 DEF Took, Subscribed
  <2> QED
    BY <1>a, <2>1, <2>2, <2>4, <2>5
<1>11. CASE ReadDirect
  <2> DEFINE f == Head(direct.queue)
  <2>1. /\ Took(<<>>, f) /\ task' = task /\ handle.pc = "direct"
        /\ handle.replay = <<>>
        /\ handle'.pc = "over" => Gone
        /\ handle'.pc # "over" => feed' = feed
    BY <1>11, ReadDirectIs
  <2>2. handle'.pc = "over" => FeedInv'
    BY <1>b, <2>1 DEF Gone, Subscribed
  <2>3. Seen \cup Replay \subseteq handle'.seen \cup Numbers(handle'.replay, "row")
    BY <2>1 DEF Took
  <2>4. Subscribed /\ handle'.complete = handle.complete
    BY <2>1 DEF Took, Subscribed
  <2> QED
    BY <1>a, <2>1, <2>2, <2>3, <2>4
<1>12. CASE RefillReplay \/ ReadLagged
  BY <1>0, <1>12, FeedRefill
<1>13. CASE Abandon
  BY <1>13, <1>b, AbandonIs DEF Gone, Subscribed
<1>14. CASE Join
  <2>1. ~handle'.complete
    BY <1>14, JoinIs DEF ControlInv
  <2>2. journal' = journal
    BY <1>1, <1>14, UncleanSteps
  <2>3. CASE feed' = feed
    BY <1>14, <1>a, <2>1, <2>3, JoinIs
  <2>4. CASE journal' = Append(journal, "interrupted") /\ "interrupted" \in RowKinds
    BY <1>1, <2>4, JournalGrows
  <2> QED
    BY <1>14, <2>3, <2>4, JoinIs
<1>15. CASE Interrupt \/ CancelAppends
  BY <1>1, <1>15, UncleanSteps
<1>16. CASE QuietSteps
  BY <1>16, <1>a, QuietStep DEF Quiet
<1>17. CASE SilentRow /\ ~CancelIsDurable
  BY <1>17, <1>a, SilentRowIs DEF Subscribed
<1>18. CASE SendDirect
  BY <1>18, <1>a, SendDirectIs DEF Subscribed
<1> QED
  BY StepCases, <1>6, <1>7, <1>8, <1>9, <1>10, <1>11, <1>12, <1>13, <1>14,
     <1>15, <1>16, <1>17, <1>18 DEF Fills
=============================================================================
