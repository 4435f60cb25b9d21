------------------------ MODULE JournalReplay_proofs ------------------------
(***************************************************************************)
(* Proofs about the operator journal, for any events, line lengths, chunk  *)
(* sizes, numbers of readers and failed appends: what append acknowledged  *)
(* stays in the stream, a writer only ever adds lines behind the complete  *)
(* ones, a read meets a changed lineage at most once, and clients that     *)
(* poll miss no row unless a line is cut under a scan.                     *)
(***************************************************************************)
EXTENDS JournalReplay, FiniteSetTheorems, TLAPS

-----------------------------------------------------------------------------
(* The inductive invariant.                                                *)

Cell == (Events \cup {None}) \X Nat

Writers == [at : {"idle", "repair", "write"}, event : Events \cup {None},
            anchor : Events \cup {None}, left : Seq(Cell)]

JournalTypes ==
    /\ file \in Seq(Cell)
    /\ writer \in Writers
    /\ writer.at # "idle" => writer.event \in Events
    /\ acked \subseteq [event : Events, cursor : Cursors]

\* f ends in the first k cells of the line of e, behind a complete line.
EndsIn(f, e, k) ==
    /\ k \in 0..Len(f)
    /\ Len(f) - k \in Ends(f) \cup {0}
    /\ \A i \in 1..k : f[Len(f) - k + i] = Line(e)[i]

\* The append in progress: what it has still to write of its line, and the
\* anchor it found.
Wrote == Size[writer.event] + 1 - Len(writer.left)

WriterInv ==
    /\ writer.at = "repair" => writer.left = Line(writer.event)
    /\ writer.at = "write" =>
        /\ Wrote \in 0..(Size[writer.event] + 1)
        /\ writer.left = SubSeq(Line(writer.event), Wrote + 1,
                                Size[writer.event] + 1)
        /\ EndsIn(file, writer.event, Wrote)
    /\ writer.at # "idle" /\ writer.anchor # None =>
           writer.anchor = Anchor(file)

JournalInv == JournalTypes /\ WriterInv /\ AcknowledgedIsDurable

-----------------------------------------------------------------------------
(* First-order leaves go to Zenon, those with arithmetic, records or       *)
(* sequences cite SMTT.                                                    *)

USE ZenonT(30)

-----------------------------------------------------------------------------
(* Sequences.                                                              *)

LEMMA SameSeq ==
    ASSUME NEW S, NEW p \in Seq(S), NEW q \in Seq(S), Len(p) = Len(q),
           \A j \in 1..Len(p) : p[j] = q[j]
    PROVE  p = q
<1>1. /\ p = [j \in 1..Len(p) |-> p[j]] /\ q = [j \in 1..Len(q) |-> q[j]]
  BY ONLY SMTT(30), p \in Seq(S), q \in Seq(S)
<1> QED
  BY ONLY SMTT(30), <1>1, Len(p) = Len(q), \A j \in 1..Len(p) : p[j] = q[j]

LEMMA HeadTailOfPart ==
    ASSUME NEW S, NEW p \in Seq(S), NEW m \in 1..Len(p), NEW n \in m..Len(p)
    PROVE  /\ Head(SubSeq(p, m, n)) = p[m]
           /\ Tail(SubSeq(p, m, n)) = SubSeq(p, m + 1, n)
<1> DEFINE q == SubSeq(p, m, n)
           u == SubSeq(p, m + 1, n)
<1>1. /\ q \in Seq(S) /\ Len(q) = n - m + 1
      /\ \A j \in 1..(n - m + 1) : q[j] = p[m + j - 1]
  BY SMTT(30)
<1>2. /\ u \in Seq(S) /\ Len(u) = n - m
      /\ \A j \in 1..(n - m) : u[j] = p[m + 1 + j - 1]
  BY SMTT(30)
<1> HIDE DEF q, u
<1>3. q # <<>> /\ Head(q) = p[m]
  BY SMTT(30), <1>1
<1>4. /\ Tail(q) \in Seq(S) /\ Len(Tail(q)) = n - m
      /\ \A j \in 1..(n - m) : Tail(q)[j] = q[j + 1]
  BY SMTT(30), <1>1, <1>3
<1>5. ASSUME NEW j \in 1..(n - m) PROVE Tail(q)[j] = u[j]
  <2>1. j + 1 \in 1..(n - m + 1) /\ m + (j + 1) - 1 = m + 1 + j - 1
    BY SMTT(30)
  <2> QED
    BY <1>1, <1>2, <1>4, <2>1
<1>6. Tail(q) = u
  BY <1>2, <1>4, <1>5, SameSeq
<1> QED
  BY <1>3, <1>6 DEF q, u

-----------------------------------------------------------------------------
(* Least and greatest elements.                                            *)

\* A set of naturals that is not empty has a least element.
LEMMA MinExists ==
    ASSUME NEW S, S \subseteq Nat, S # {}
    PROVE  Min(S) \in S /\ \A y \in S : Min(S) <= y
<1> DEFINE R == OpToRel(<, Nat)
<1>1. IsWellFoundedOn(R, Nat)
  BY NatLessThanWellFounded
<1>2. \A x, y \in Nat : y < x => <<y, x>> \in R
  BY DEF OpToRel
<1> HIDE DEF R
<1>3. PICK x \in S : \A y \in S : <<y, x>> \notin R
  BY <1>1, WFMin
<1>4. \A y \in S : x <= y
  <2>1. ASSUME NEW y \in S PROVE ~(y < x)
    <3>1. x \in Nat /\ y \in Nat
      OBVIOUS
    <3> QED
      BY <1>2, <1>3, <3>1, Zenon
  <2>2. ASSUME NEW y \in S PROVE x <= y
    BY SMTT(30), <2>1
  <2> QED
    BY <2>2
<1> QED
  BY <1>4 DEF Min

\* So has a bounded one a greatest.
LEMMA MaxExists ==
    ASSUME NEW n \in Nat, NEW S, S \subseteq 0..n, S # {}
    PROVE  Max(S) \in S /\ \A y \in S : Max(S) >= y
<1> DEFINE T == {n - x : x \in S}
<1>1. T \subseteq Nat /\ T # {}
  <2>1. T \subseteq Nat
    BY SMTT(30)
  <2>2. PICK x \in S : TRUE
    OBVIOUS
  <2>3. n - x \in T
    BY <2>2
  <2> QED
    BY <2>1, <2>3
<1>2. PICK m \in T : \A y \in T : m <= y
  <2> HIDE DEF T
  <2> QED
    BY <1>1, MinExists
<1>3. PICK x \in S : m = n - x
  BY <1>2
<1>4. \A y \in S : x >= y
  BY SMTT(30), <1>2, <1>3
<1> QED
  BY <1>4 DEF Max

-----------------------------------------------------------------------------
(* Lines.  Where the line that ends at i begins, and what decides it.      *)

Before(f, i) == Max({j \in Ends(f) : j < i} \cup {0})

\* Ends are positions of the file.
LEMMA EndsBound ==
    ASSUME NEW f \in Seq(Cell)
    PROVE  Ends(f) \subseteq 1..Len(f)
BY SMTT(30) DEF Ends

\* The line that ends at i begins behind the last end before i.
LEMMA BeforeBound ==
    ASSUME NEW f \in Seq(Cell), NEW i \in Nat \ {0}
    PROVE  /\ Before(f, i) \in 0..(i - 1)
           /\ Before(f, i) \in Ends(f) \cup {0}
           /\ \A j \in Ends(f) : j < i => j <= Before(f, i)
<1> DEFINE S == {j \in Ends(f) : j < i} \cup {0}
<1>1. S \subseteq 0..(i - 1) /\ 0 \in S
  BY SMTT(30), EndsBound
<1>2. i - 1 \in Nat
  BY SMTT(30)
<1>3. Max(S) \in S /\ \A y \in S : Max(S) >= y
  <2> HIDE DEF S
  <2> QED
    BY <1>1, <1>2, MaxExists
<1>4. Before(f, i) = Max(S)
  BY DEF Before
<1>5. Max(S) \in 0..(i - 1)
  BY <1>1, <1>3
<1>6. \A j \in Ends(f) : j < i => j \in S
  OBVIOUS
<1>7. S \subseteq Ends(f) \cup {0}
  OBVIOUS
<1>8. ASSUME NEW j \in Ends(f), j < i PROVE j <= Max(S)
  <2>1. j \in S /\ j \in Int /\ Max(S) \in Int
    BY SMTT(30), <1>5, <1>6, <1>8, EndsBound
  <2>2. Max(S) >= j
    BY <1>3, <2>1
  <2> HIDE DEF S
  <2> QED
    BY <2>1, <2>2
<1> HIDE DEF S
<1> QED
  BY <1>3, <1>4, <1>5, <1>7, <1>8

\* EventAt in terms of Before.
LEMMA EventAtIs ==
    ASSUME NEW f, NEW i
    PROVE  EventAt(f, i) =
             IF /\ f[Before(f, i) + 1][1] \in Events \ Foreign
                /\ SubSeq(f, Before(f, i) + 1, i - 1)
                     = Body(f[Before(f, i) + 1][1])
             THEN f[Before(f, i) + 1][1] ELSE None
BY Zenon DEF EventAt, Before

\* Two files that agree up to n have the same lines up to n.
LEMMA SameLine ==
    ASSUME NEW f \in Seq(Cell), NEW g \in Seq(Cell), NEW n \in Nat,
           n <= Len(f), n <= Len(g), \A j \in 1..n : f[j] = g[j],
           NEW i \in 1..n
    PROVE  (i \in Ends(f) <=> i \in Ends(g)) /\ EventAt(f, i) = EventAt(g, i)
<1>1. ASSUME NEW j \in 1..n PROVE j \in Ends(f) <=> j \in Ends(g)
  <2>1. j \in DOMAIN f /\ j \in DOMAIN g
    BY SMTT(30)
  <2> QED
    BY <2>1 DEF Ends
<1>2. {j \in Ends(f) : j < i} = {j \in Ends(g) : j < i}
  <2>1. \A j \in Ends(f) \cup Ends(g) : j < i => j \in 1..n
    BY SMTT(30), EndsBound
  <2> QED
    BY <1>1, <2>1
<1>3. Before(f, i) = Before(g, i)
  BY <1>2 DEF Before
<1> DEFINE m == Before(f, i) + 1
<1>4. m \in 1..i
  <2>1. i \in Nat \ {0}
    BY SMTT(30)
  <2>2. Before(f, i) \in 0..(i - 1)
    BY <2>1, BeforeBound
  <2> QED
    BY SMTT(30), <2>1, <2>2
<1> HIDE DEF m
<1>5. SubSeq(f, m, i - 1) = SubSeq(g, m, i - 1)
  <2>1. \A j \in m..(i - 1) : f[j] \in Cell /\ g[j] \in Cell /\ f[j] = g[j]
    BY SMTT(30), <1>4
  <2>2. /\ SubSeq(f, m, i - 1) \in Seq(Cell)
        /\ Len(SubSeq(f, m, i - 1)) = i - m
        /\ \A j \in 1..(i - m) : SubSeq(f, m, i - 1)[j] = f[m + j - 1]
    BY SMTT(30), <1>4, <2>1
  <2>3. /\ SubSeq(g, m, i - 1) \in Seq(Cell)
        /\ Len(SubSeq(g, m, i - 1)) = i - m
        /\ \A j \in 1..(i - m) : SubSeq(g, m, i - 1)[j] = g[m + j - 1]
    BY SMTT(30), <1>4, <2>1
  <2>4. \A j \in 1..(i - m) : f[m + j - 1] = g[m + j - 1]
    BY SMTT(30), <1>4, <2>1
  <2> QED
    BY <2>2, <2>3, <2>4, SameSeq
<1>6. f[m] = g[m]
  BY SMTT(30), <1>4
<1>7. EventAt(f, i) = EventAt(g, i)
  BY <1>3, <1>5, <1>6, EventAtIs, Zenon DEF m
<1> QED
  BY <1>1, <1>7

\* The last complete line ends inside the file, and no line behind it.
LEMMA LastEndBound ==
    ASSUME NEW f \in Seq(Cell)
    PROVE  /\ LastEnd(f) \in 0..Len(f) /\ LastEnd(f) \in Ends(f) \cup {0}
           /\ \A i \in Ends(f) : i <= LastEnd(f)
<1> DEFINE S == Ends(f) \cup {0}
<1>1. S \subseteq 0..Len(f) /\ 0 \in S /\ Len(f) \in Nat
  BY SMTT(30), EndsBound
<1>2. Max(S) \in S /\ \A y \in S : Max(S) >= y
  <2> HIDE DEF S
  <2> QED
    BY <1>1, MaxExists
<1>3. LastEnd(f) = Max(S)
  BY DEF LastEnd
<1>4. ASSUME NEW i \in Ends(f) PROVE i <= Max(S)
  <2>1. i \in S /\ i \in Int /\ Max(S) \in Int
    BY SMTT(30), <1>1, <1>2
  <2>2. Max(S) >= i
    BY <1>2, <2>1
  <2> HIDE DEF S
  <2> QED
    BY <2>1, <2>2
<1> QED
  <2>1. Max(S) \in 0..Len(f) /\ Max(S) \in Ends(f) \cup {0}
    BY <1>1, <1>2
  <2> HIDE DEF S
  <2> QED
    BY <1>3, <1>4, <2>1

\* g keeps the complete lines of f.
Grew(f, g) ==
    /\ LastEnd(f) <= Len(g)
    /\ \A j \in 1..LastEnd(f) : f[j] = g[j]

\* There is an anchor exactly if there is a row.
LEMMA ValidEndsBound ==
    ASSUME NEW f \in Seq(Cell)
    PROVE  /\ ValidEnds(f) \subseteq Nat
           /\ Anchor(f) # None <=> ValidEnds(f) # {}
<1>1. ValidEnds(f) \subseteq Nat
  BY SMTT(30), EndsBound DEF ValidEnds
<1>2. ASSUME ValidEnds(f) # {} PROVE Anchor(f) # None
  <2>1. Min(ValidEnds(f)) \in ValidEnds(f)
    BY <1>1, <1>2, MinExists
  <2> QED
    BY <1>2, <2>1 DEF Anchor, ValidEnds
<1>3. ASSUME ValidEnds(f) = {} PROVE Anchor(f) = None
  BY <1>3 DEF Anchor
<1> QED
  BY <1>1, <1>2, <1>3

\* What was there stays, what is new comes behind it, and the anchor of a
\* stream that has one stays its anchor.
LEMMA GrewKeeps ==
    ASSUME NEW f \in Seq(Cell), NEW g \in Seq(Cell), Grew(f, g)
    PROVE  /\ \A i \in ValidEnds(f) : /\ i \in ValidEnds(g)
                                      /\ EventAt(g, i) = EventAt(f, i)
           /\ \A i \in ValidEnds(g) \ ValidEnds(f) : i > LastEnd(f)
           /\ Anchor(f) # None => Anchor(g) = Anchor(f)
<1> DEFINE n == LastEnd(f)
<1>1. /\ n \in Nat /\ n <= Len(f) /\ n <= Len(g)
      /\ \A j \in 1..n : f[j] = g[j]
  BY SMTT(30), LastEndBound DEF Grew
<1> HIDE DEF n
<1>2. ASSUME NEW i \in 1..n
      PROVE  (i \in Ends(f) <=> i \in Ends(g)) /\ EventAt(f, i) = EventAt(g, i)
  BY <1>1, SameLine
<1>3. ASSUME NEW i \in ValidEnds(f)
      PROVE  i \in ValidEnds(g) /\ EventAt(g, i) = EventAt(f, i)
  <2>1. i \in Ends(f) /\ i \in 1..n
    BY SMTT(30), EndsBound, LastEndBound DEF ValidEnds, n
  <2> QED
    BY <1>2, <2>1 DEF ValidEnds
<1>4. ASSUME NEW i \in ValidEnds(g) \ ValidEnds(f) PROVE i > n
  <2>1. i \in Ends(g) /\ EventAt(g, i) # None /\ i \in 1..Len(g)
    BY EndsBound DEF ValidEnds
  <2>2. CASE i \in 1..n
    BY <1>2, <2>1, <2>2 DEF ValidEnds
  <2> QED
    BY SMTT(30), <1>1, <2>1, <2>2
<1>5. ASSUME Anchor(f) # None PROVE Anchor(g) = Anchor(f)
  <2> DEFINE a == Min(ValidEnds(f))
             b == Min(ValidEnds(g))
  <2>1. /\ ValidEnds(f) # {} /\ a \in ValidEnds(f)
        /\ \A y \in ValidEnds(f) : a <= y
    BY <1>5, ValidEndsBound, MinExists
  <2>2. a \in ValidEnds(g) /\ EventAt(g, a) = EventAt(f, a)
    BY <1>3, <2>1
  <2>3. b \in ValidEnds(g) /\ \A y \in ValidEnds(g) : b <= y
    BY <2>2, ValidEndsBound, MinExists
  <2> HIDE DEF a, b
  <2>4. a \in Nat /\ b \in Nat /\ a <= n
    <3>1. a \in Ends(f)
      BY <2>1 DEF ValidEnds
    <3> QED
      BY <2>1, <2>3, <3>1, ValidEndsBound, LastEndBound DEF n
  <2>5. b <= a
    BY <2>2, <2>3
  <2>6. b \in ValidEnds(f)
    BY SMTT(30), <1>1, <1>4, <2>3, <2>4, <2>5
  <2>7. a <= b
    BY <2>1, <2>6
  <2>8. a = b
    BY SMTT(30), <2>4, <2>5, <2>7
  <2>9. Anchor(f) = EventAt(f, a) /\ Anchor(g) = EventAt(g, b)
    BY <2>1, <2>3 DEF Anchor, a, b
  <2> QED
    BY <2>2, <2>8, <2>9
<1> QED
  BY <1>3, <1>4, <1>5 DEF n

-----------------------------------------------------------------------------
(* The line of an event.                                                   *)

\* The cells of a line and its length.
LEMMA LineIs ==
    ASSUME NEW e \in Events
    PROVE  /\ Size[e] \in Nat \ {0} /\ e # None
           /\ Body(e) \in Seq(Cell) /\ Len(Body(e)) = Size[e]
           /\ \A i \in 1..Size[e] : Body(e)[i] = <<e, i>>
           /\ Line(e) \in Seq(Cell) /\ Len(Line(e)) = Size[e] + 1
           /\ \A i \in 1..Size[e] : Line(e)[i] = <<e, i>>
           /\ Line(e)[Size[e] + 1] = NewLine
<1>1. Size[e] \in Nat \ {0} /\ e # None
  BY SizeAssumption, ForeignAssumption
<1>2. \A i \in 1..Size[e] : <<e, i>> \in Cell
  BY SMTT(30), <1>1 DEF Cell
<1>3. /\ Body(e) \in Seq(Cell) /\ Len(Body(e)) = Size[e]
      /\ \A i \in 1..Size[e] : Body(e)[i] = <<e, i>>
  BY SMTT(30), <1>1, <1>2 DEF Body
<1>4. NewLine \in Cell
  BY DEF NewLine, Cell
<1>5. /\ Line(e) \in Seq(Cell) /\ Len(Line(e)) = Size[e] + 1
      /\ \A i \in 1..Size[e] : Line(e)[i] = Body(e)[i]
      /\ Line(e)[Size[e] + 1] = NewLine
  <2> HIDE DEF Line
  <2>1. Line(e) = Append(Body(e), NewLine)
    BY DEF Line
  <2> QED
    BY SMTT(30), <1>1, <1>3, <1>4, <2>1
<1> QED
  BY <1>1, <1>3, <1>5

\* The cells of a row are not newlines.
LEMMA BodyHasNoEnd ==
    ASSUME NEW e \in Events, NEW i \in 1..Size[e]
    PROVE  Line(e)[i] # NewLine
<1>1. Line(e)[i] = <<e, i>> /\ e # None
  BY LineIs
<1> QED
  BY SMTT(30), <1>1 DEF NewLine

\* A whole line behind a complete one is a row of the stream.
LEMMA RowLanded ==
    ASSUME NEW f \in Seq(Cell), NEW e \in Events \ Foreign,
           EndsIn(f, e, Size[e] + 1)
    PROVE  Len(f) \in ValidEnds(f) /\ EventAt(f, Len(f)) = e
<1> DEFINE n == Len(f)
           k == Size[e]
           b == n - (k + 1)
<1>1. k \in Nat \ {0} /\ n \in Nat /\ b \in Nat /\ e # None
  BY SMTT(30), LineIs DEF EndsIn
<1>2. b \in Ends(f) \cup {0} /\ \A i \in 1..(k + 1) : f[b + i] = Line(e)[i]
  BY DEF EndsIn
<1>3. /\ \A i \in 1..k : f[b + i] = <<e, i>>
      /\ f[n] = NewLine
  <2>1. \A i \in 1..k : i \in 1..(k + 1)
    BY SMTT(30), <1>1
  <2>2. k + 1 \in 1..(k + 1) /\ b + (k + 1) = n
    BY SMTT(30), <1>1
  <2>3. f[b + (k + 1)] = Line(e)[k + 1]
    BY <1>2, <2>2
  <2>4. \A i \in 1..k : f[b + i] = Line(e)[i]
    BY <1>2, <2>1
  <2> QED
    BY <2>2, <2>3, <2>4, LineIs
<1>4. n \in Ends(f) /\ n \in Nat \ {0}
  BY SMTT(30), <1>1, <1>3 DEF Ends
<1>5. Before(f, n) = b
  <2> DEFINE a == Before(f, n)
  <2>1. /\ a \in 0..(n - 1) /\ a \in Ends(f) \cup {0}
        /\ \A j \in Ends(f) : j < n => j <= a
    BY <1>4, BeforeBound
  <2> HIDE DEF a
  <2>2. b <= a
    BY SMTT(30), <1>1, <1>2, <2>1
  <2>3. CASE b < a
    <3>1. a - b \in 1..k /\ a = b + (a - b) /\ a \in Ends(f)
      BY SMTT(30), <1>1, <2>1, <2>3
    <3>2. f[a] = <<e, a - b>>
      BY <1>3, <3>1
    <3>3. f[a] = NewLine
      BY <3>1 DEF Ends
    <3> QED
      BY SMTT(30), <1>1, <3>2, <3>3 DEF NewLine
  <2> QED
    BY SMTT(30), <1>1, <2>1, <2>2, <2>3 DEF a
<1> HIDE DEF n, k, b
<1>6. SubSeq(f, b + 1, n - 1) = Body(e)
  <2>1. b + k + 1 = n
    BY SMTT(30), <1>1 DEF b
  <2>2. \A j \in (b + 1)..(n - 1) : f[j] \in Cell
    BY SMTT(30), <1>1, <2>1 DEF n
  <2>3. /\ SubSeq(f, b + 1, n - 1) \in Seq(Cell)
        /\ Len(SubSeq(f, b + 1, n - 1)) = k
        /\ \A j \in 1..k : SubSeq(f, b + 1, n - 1)[j] = f[b + j]
    BY SMTT(30), <1>1, <2>1, <2>2
  <2>4. /\ Body(e) \in Seq(Cell) /\ Len(Body(e)) = k
        /\ \A j \in 1..k : Body(e)[j] = f[b + j]
    BY <1>3, LineIs DEF k
  <2> QED
    BY <2>3, <2>4, SameSeq
<1>7. f[b + 1][1] = e
  <2>1. f[b + 1] = <<e, 1>>
    BY SMTT(30), <1>1, <1>3
  <2> QED
    BY SMTT(30), <2>1
<1>8. EventAt(f, n) = e
  BY <1>5, <1>6, <1>7, EventAtIs
<1> QED
  BY <1>1, <1>4, <1>8 DEF ValidEnds, n

\* An anchor is an event.
LEMMA AnchorType ==
    ASSUME NEW f \in Seq(Cell)
    PROVE  Anchor(f) \in Events \cup {None}
BY EventAtIs DEF Anchor

-----------------------------------------------------------------------------
(* The writer's steps.                                                     *)

Durable(f, A) ==
    /\ {a.event : a \in A} \subseteq {EventAt(f, i) : i \in ValidEnds(f)}
    /\ \A a \in A : /\ a.cursor.offset \in ValidEnds(f)
                    /\ a.cursor.anchor = Anchor(f)

\* Acknowledged rows and their cursors stay when the file grows.
LEMMA GrewKeepsDurable ==
    ASSUME NEW f \in Seq(Cell), NEW g \in Seq(Cell), Grew(f, g), NEW A,
           Durable(f, A)
    PROVE  Durable(g, A)
<1>1. ASSUME NEW a \in A PROVE a.event \in {EventAt(g, i) : i \in ValidEnds(g)}
  <2>1. PICK i \in ValidEnds(f) : a.event = EventAt(f, i)
    BY DEF Durable
  <2>2. i \in ValidEnds(g) /\ EventAt(g, i) = EventAt(f, i)
    BY <2>1, GrewKeeps
  <2> QED
    BY <2>1, <2>2
<1>2. ASSUME NEW a \in A
      PROVE  a.cursor.offset \in ValidEnds(g) /\ a.cursor.anchor = Anchor(g)
  <2>1. a.cursor.offset \in ValidEnds(f) /\ a.cursor.anchor = Anchor(f)
    BY DEF Durable
  <2>2. Anchor(f) # None
    BY <2>1, ValidEndsBound
  <2> QED
    BY SMTT(30), <2>1, <2>2, GrewKeeps
<1> QED
  BY <1>1, <1>2 DEF Durable

\* A file that does not change keeps its lines.
LEMMA GrewItself ==
    ASSUME NEW f \in Seq(Cell)
    PROVE  Grew(f, f)
<1>1. LastEnd(f) <= Len(f)
  BY SMTT(30), LastEndBound
<1> QED
  BY <1>1 DEF Grew

\* Cutting a torn line off.
LEMMA CutGrew ==
    ASSUME NEW f \in Seq(Cell), NEW g, g = SubSeq(f, 1, LastEnd(f)),
           NEW e \in Events
    PROVE  g \in Seq(Cell) /\ Grew(f, g) /\ EndsIn(g, e, 0)
<1> DEFINE n == LastEnd(f)
<1>1. n \in 0..Len(f) /\ n \in Ends(f) \cup {0} /\ Len(f) \in Nat
  BY SMTT(30), LastEndBound
<1>2. \A j \in 1..n : f[j] \in Cell
  BY SMTT(30), <1>1
<1> HIDE DEF n
<1>3. g \in Seq(Cell) /\ Len(g) = n /\ \A j \in 1..n : g[j] = f[j]
  <2>1. g = SubSeq(f, 1, n)
    BY DEF n
  <2>2. n \in Nat /\ n \in Int /\ 1 \in Int /\ 1..n \subseteq Nat
    BY SMTT(30), <1>1
  <2>3. /\ SubSeq(f, 1, n) \in Seq(Cell) /\ Len(SubSeq(f, 1, n)) = n
        /\ \A j \in 1..n : SubSeq(f, 1, n)[j] = f[1 + j - 1]
    BY SMTT(30), <1>2, <2>2
  <2>4. \A j \in 1..n : 1 + j - 1 = j
    BY SMTT(30), <2>2
  <2> QED
    BY <2>1, <2>3, <2>4
<1>4. Grew(f, g)
  BY SMTT(30), <1>1, <1>3 DEF Grew, n
<1>5. n \in Ends(g) \cup {0}
  <2>1. CASE n \in Ends(f) /\ n # 0
    BY SMTT(30), <1>1, <1>3, <2>1 DEF Ends
  <2> QED
    BY <1>1, <2>1
<1>6. EndsIn(g, e, 0)
  BY SMTT(30), <1>1, <1>3, <1>5 DEF EndsIn
<1> QED
  BY <1>3, <1>4, <1>6

\* Writing one more cell of a line.
LEMMA CellGrew ==
    ASSUME NEW f \in Seq(Cell), NEW e \in Events, NEW k \in 0..Size[e],
           EndsIn(f, e, k), NEW g, g = Append(f, Line(e)[k + 1])
    PROVE  g \in Seq(Cell) /\ Grew(f, g) /\ EndsIn(g, e, k + 1)
<1>1. /\ Size[e] \in Nat /\ k \in Nat /\ Len(f) \in Nat
      /\ k + 1 \in 1..Len(Line(e))
  BY SMTT(30), LineIs
<1>2. Line(e)[k + 1] \in Cell
  <2>1. Line(e) \in Seq(Cell)
    BY LineIs
  <2> QED
    BY SMTT(30), <1>1, <2>1
<1>3. /\ g \in Seq(Cell) /\ Len(g) = Len(f) + 1
      /\ \A j \in 1..Len(f) : g[j] = f[j]
      /\ g[Len(f) + 1] = Line(e)[k + 1]
  BY SMTT(30), <1>2
<1>4. Grew(f, g)
  <2>1. LastEnd(f) \in 0..Len(f)
    BY LastEndBound
  <2> QED
    BY SMTT(30), <1>1, <1>3, <2>1 DEF Grew
<1>5. EndsIn(g, e, k + 1)
  <2> DEFINE b == Len(f) - k
  <2>1. b \in Nat /\ b <= Len(f) /\ b \in Ends(f) \cup {0}
    BY SMTT(30), <1>1 DEF EndsIn
  <2>2. Len(g) - (k + 1) = b
    BY SMTT(30), <1>1, <1>3
  <2>3. b \in Ends(g) \cup {0}
    <3>1. CASE b # 0
      BY SMTT(30), <1>1, <1>3, <2>1, <3>1 DEF Ends
    <3> QED
      BY <3>1
  <2>4. ASSUME NEW i \in 1..(k + 1) PROVE g[b + i] = Line(e)[i]
    <3>1. CASE i \in 1..k
      <4>1. f[b + i] = Line(e)[i]
        BY <3>1 DEF EndsIn
      <4>2. b + i \in 1..Len(f)
        BY SMTT(30), <1>1, <2>1, <3>1
      <4> QED
        BY <1>3, <4>1, <4>2
    <3>2. CASE i = k + 1
      <4>1. b + i = Len(f) + 1
        BY SMTT(30), <1>1, <3>2
      <4> QED
        BY <1>3, <3>2, <4>1
    <3>3. i \in 1..k \/ i = k + 1
      BY SMTT(30), <1>1
    <3> QED
      BY <3>1, <3>2, <3>3, Zenon
  <2>5. k + 1 \in 0..Len(g)
    BY SMTT(30), <1>1, <1>3 DEF EndsIn
  <2> QED
    BY <2>2, <2>3, <2>4, <2>5 DEF EndsIn
<1> QED
  BY <1>3, <1>4, <1>5

\* The empty file.
LEMMA JournalInitHolds ==
    ASSUME Init
    PROVE  JournalInv
<1> USE DEF Init, JournalInit
<1>1. JournalTypes
  BY SMTT(30) DEF JournalTypes, NoAppend, Writers
<1>2. WriterInv
  BY DEF WriterInv, NoAppend
<1>3. AcknowledgedIsDurable
  BY DEF AcknowledgedIsDurable
<1> QED
  BY <1>1, <1>2, <1>3 DEF JournalInv

\* Durable says what AcknowledgedIsDurable says, before and after a step.
LEMMA DurableIs ==
    /\ AcknowledgedIsDurable <=> Durable(file, acked)
    /\ AcknowledgedIsDurable' <=> Durable(file', acked')
BY DEF AcknowledgedIsDurable, Durable

\* The lock is taken; the file is as it was.
LEMMA LockStreamKeeps ==
    ASSUME JournalInv, NEW e \in Events, LockStream(e)
    PROVE  JournalInv' /\ Grew(file, file')
<1> USE DEF JournalInv
<1>1. /\ file' = file /\ acked' = acked
      /\ writer' = [at |-> "repair", event |-> e, anchor |-> Anchor(file),
                    left |-> Line(e)]
  BY DEF LockStream
<1>2. JournalTypes'
  <2>1. /\ file \in Seq(Cell)
        /\ acked \subseteq [event : Events, cursor : Cursors]
    BY DEF JournalTypes
  <2>2. Anchor(file) \in Events \cup {None} /\ Line(e) \in Seq(Cell)
    BY <2>1, AnchorType, LineIs
  <2>3. writer' \in Writers /\ writer'.event = e
    BY <1>1, <2>2 DEF Writers
  <2> QED
    BY <1>1, <2>1, <2>3 DEF JournalTypes
<1>3. WriterInv'
  BY <1>1 DEF WriterInv
<1>4. AcknowledgedIsDurable'
  BY <1>1, DurableIs
<1>5. Grew(file, file')
  BY <1>1, GrewItself DEF JournalTypes
<1> QED
  BY <1>2, <1>3, <1>4, <1>5

\* The torn line is cut; nothing of the new one is written.
LEMMA RepairTailKeeps ==
    ASSUME JournalInv, RepairTail
    PROVE  JournalInv' /\ Grew(file, file')
<1> USE DEF JournalInv
<1> DEFINE e == writer.event
<1>1. /\ file' = SubSeq(file, 1, LastEnd(file)) /\ acked' = acked
      /\ writer' = [writer EXCEPT !.at = "write"] /\ writer.at = "repair"
      /\ writer.left = Line(e)
  BY DEF RepairTail, WriterInv
<1>2. /\ file \in Seq(Cell) /\ e \in Events /\ writer \in Writers
      /\ acked \subseteq [event : Events, cursor : Cursors]
  BY <1>1 DEF JournalTypes
<1>3. /\ writer' \in Writers /\ writer'.at = "write" /\ writer'.event = e
      /\ writer'.anchor = writer.anchor /\ writer'.left = Line(e)
  BY <1>1, <1>2 DEF Writers
<1>4. file' \in Seq(Cell) /\ Grew(file, file') /\ EndsIn(file', e, 0)
  BY <1>1, <1>2, CutGrew
<1>5. JournalTypes'
  BY <1>1, <1>2, <1>3, <1>4 DEF JournalTypes
<1>6. WriterInv'
  <2>1. Wrote' = 0
    <3>1. Wrote' = Size[e] + 1 - Len(Line(e))
      BY <1>3 DEF Wrote
    <3> QED
      BY SMTT(30), <1>2, <3>1, LineIs
  <2>2. Line(e) = SubSeq(Line(e), 0 + 1, Size[e] + 1)
    <3>1. /\ Line(e) \in Seq(Cell) /\ Len(Line(e)) = Size[e] + 1
          /\ Size[e] \in Nat
      BY <1>2, LineIs
    <3>2. SubSeq(Line(e), 1, Len(Line(e))) = Line(e)
      <4> HIDE DEF e
      <4>1. /\ SubSeq(Line(e), 1, Len(Line(e))) \in Seq(Cell)
            /\ Len(SubSeq(Line(e), 1, Len(Line(e)))) = Len(Line(e))
            /\ \A j \in 1..Len(Line(e)) :
                 SubSeq(Line(e), 1, Len(Line(e)))[j] = Line(e)[j]
        BY SMTT(30), <3>1
      <4> QED
        BY <3>1, <4>1, SameSeq
    <3> QED
      BY SMTT(30), <3>1, <3>2
  <2>3. 0 \in 0..(Size[e] + 1)
    BY SMTT(30), <1>2, LineIs
  <2>4. writer.anchor # None => writer.anchor = Anchor(file')
    BY <1>1, <1>2, <1>4, GrewKeeps DEF WriterInv
  <2> QED
    BY <1>3, <1>4, <2>1, <2>2, <2>3, <2>4 DEF WriterInv
<1>7. AcknowledgedIsDurable'
  BY <1>1, <1>2, <1>4, DurableIs, GrewKeepsDurable
<1> QED
  BY <1>4, <1>5, <1>6, <1>7

\* What is left of a line of which k cells are written.
LEMMA RestOfLine ==
    ASSUME NEW e \in Events, NEW k \in 0..Size[e], NEW left,
           left = SubSeq(Line(e), k + 1, Size[e] + 1)
    PROVE  /\ left \in Seq(Cell) /\ left # <<>>
           /\ Head(left) = Line(e)[k + 1]
           /\ Tail(left) \in Seq(Cell)
           /\ Size[e] + 1 - Len(Tail(left)) = k + 1
           /\ Tail(left) = SubSeq(Line(e), k + 1 + 1, Size[e] + 1)
<1> DEFINE n == Size[e] + 1
<1>1. /\ n \in Nat /\ k \in Nat /\ k < n
      /\ Line(e) \in Seq(Cell) /\ Len(Line(e)) = n
  BY SMTT(30), LineIs
<1> HIDE DEF n
<1>2. k + 1 \in 1..Len(Line(e)) /\ n \in (k + 1)..Len(Line(e))
  BY SMTT(30), <1>1
<1>3. left = SubSeq(Line(e), k + 1, n)
  BY DEF n
<1>4. Head(left) = Line(e)[k + 1] /\ Tail(left) = SubSeq(Line(e), k + 1 + 1, n)
  BY <1>1, <1>2, <1>3, HeadTailOfPart
<1>5. left \in Seq(Cell) /\ Len(left) = n - k
  <2>1. \A i \in (k + 1)..n : Line(e)[i] \in Cell
    BY SMTT(30), <1>1
  <2>2. /\ SubSeq(Line(e), k + 1, n) \in Seq(Cell)
        /\ Len(SubSeq(Line(e), k + 1, n)) = n - k
    BY SMTT(30), <1>1, <2>1
  <2> QED
    BY <1>3, <2>2
<1>6. left # <<>>
  <2>1. Len(left) # 0
    BY SMTT(30), <1>1, <1>5
  <2> QED
    BY <2>1
<1>7. Tail(left) \in Seq(Cell) /\ Len(Tail(left)) = Len(left) - 1
  BY ONLY SMTT(30), <1>5, <1>6
<1>8. n - Len(Tail(left)) = k + 1
  BY SMTT(30), <1>1, <1>5, <1>7
<1>9. Size[e] + 1 - Len(Tail(left)) = k + 1
  <2>1. Size[e] \in Nat /\ Len(Tail(left)) \in Nat
    BY SMTT(30), <1>7, LineIs
  <2> QED
    BY SMTT(30), <1>8, <2>1 DEF n
<1>10. Tail(left) = SubSeq(Line(e), k + 1 + 1, Size[e] + 1)
  BY <1>4 DEF n
<1> QED
  BY <1>4, <1>5, <1>6, <1>7, <1>9, <1>10

\* One cell more.
LEMMA WriteCellKeeps ==
    ASSUME JournalInv, WriteCell
    PROVE  JournalInv' /\ Grew(file, file')
<1> USE DEF JournalInv
<1> DEFINE e == writer.event
           k == Wrote
<1>1. /\ file' = Append(file, Head(writer.left)) /\ acked' = acked
      /\ writer' = [writer EXCEPT !.left = Tail(writer.left)]
      /\ writer.at = "write" /\ writer.left # <<>>
  BY DEF WriteCell
<1>2. /\ file \in Seq(Cell) /\ e \in Events /\ writer \in Writers
      /\ acked \subseteq [event : Events, cursor : Cursors]
      /\ writer.left \in Seq(Cell)
  BY <1>1 DEF JournalTypes, Writers
<1>3. /\ k \in 0..(Size[e] + 1) /\ EndsIn(file, e, k)
      /\ writer.left = SubSeq(Line(e), k + 1, Size[e] + 1)
  BY <1>1 DEF WriterInv
<1>4. k \in 0..Size[e] /\ Size[e] \in Nat
  <2>1. Size[e] \in Nat
    BY <1>2, LineIs
  <2>2. Len(writer.left) \in Nat /\ Len(writer.left) # 0
    BY SMTT(30), <1>1, <1>2
  <2>3. k = Size[e] + 1 - Len(writer.left)
    BY DEF Wrote
  <2>4. k \in 0..(Size[e] + 1)
    BY <1>3
  <2> HIDE DEF e, k
  <2> QED
    BY SMTT(30), <2>1, <2>2, <2>3, <2>4
<1> HIDE DEF k
<1>5. /\ Head(writer.left) = Line(e)[k + 1]
      /\ Tail(writer.left) \in Seq(Cell)
      /\ Size[e] + 1 - Len(Tail(writer.left)) = k + 1
      /\ Tail(writer.left) = SubSeq(Line(e), k + 1 + 1, Size[e] + 1)
  BY <1>2, <1>3, <1>4, RestOfLine
<1>6. /\ writer' \in Writers /\ writer'.at = "write" /\ writer'.event = e
      /\ writer'.anchor = writer.anchor /\ writer'.left = Tail(writer.left)
  BY <1>1, <1>2, <1>5 DEF Writers
<1>7. file' \in Seq(Cell) /\ Grew(file, file') /\ EndsIn(file', e, k + 1)
  BY <1>1, <1>2, <1>3, <1>4, <1>5, CellGrew
<1>8. JournalTypes'
  BY <1>1, <1>2, <1>6, <1>7 DEF JournalTypes
<1>9. WriterInv'
  <2>1. Wrote' = k + 1
    BY <1>5, <1>6 DEF Wrote
  <2>2. k + 1 \in 0..(Size[e] + 1)
    BY SMTT(30), <1>4
  <2>3. writer.anchor # None => writer.anchor = Anchor(file')
    BY <1>1, <1>2, <1>7, GrewKeeps DEF WriterInv
  <2> QED
    BY <1>5, <1>6, <1>7, <2>1, <2>2, <2>3 DEF WriterInv
<1>10. AcknowledgedIsDurable'
  BY <1>1, <1>2, <1>7, DurableIs, GrewKeepsDurable
<1> QED
  BY <1>7, <1>8, <1>9, <1>10

\* The whole line is there: row and cursor are what the answer says.
LEMMA AppendReturnsKeeps ==
    ASSUME JournalInv, AppendReturns
    PROVE  JournalInv' /\ Grew(file, file')
<1> USE DEF JournalInv
<1> DEFINE e == writer.event
           row == [event |-> e,
                   cursor |-> [anchor |-> IF writer.anchor = None
                                          THEN Anchor(file)
                                          ELSE writer.anchor,
                               offset |-> Len(file)]]
<1>1. /\ file' = file /\ writer' = NoAppend
      /\ writer.at = "write" /\ writer.left = <<>>
      /\ acked' = IF e \in Foreign THEN acked ELSE acked \cup {row}
  BY DEF AppendReturns
<1>2. /\ file \in Seq(Cell) /\ e \in Events /\ Len(file) \in Nat
      /\ acked \subseteq [event : Events, cursor : Cursors]
  BY SMTT(30), <1>1 DEF JournalTypes
<1>3. EndsIn(file, e, Size[e] + 1)
  <2>1. EndsIn(file, e, Wrote)
    BY <1>1 DEF WriterInv
  <2>2. Size[e] \in Nat /\ Len(writer.left) = 0
    BY <1>1, <1>2, LineIs
  <2>3. Wrote = Size[e] + 1
    BY SMTT(30), <2>2 DEF Wrote
  <2> QED
    BY <2>1, <2>3
<1>4. row.cursor.anchor = Anchor(file) /\ Anchor(file) \in Events \cup {None}
  BY <1>1, <1>2, AnchorType DEF WriterInv
<1>5. row \in [event : Events, cursor : Cursors]
  <2>1. row.cursor \in Cursors
    BY <1>2, <1>4 DEF Cursors
  <2> QED
    BY <1>2, <2>1
<1>6. row.event = e /\ row.cursor.offset = Len(file)
  OBVIOUS
<1> HIDE DEF row
<1>7. JournalTypes'
  <2>1. acked' \subseteq [event : Events, cursor : Cursors]
    BY <1>1, <1>2, <1>5
  <2>2. writer' \in Writers /\ writer'.at = "idle"
    BY SMTT(30), <1>1 DEF NoAppend, Writers
  <2> QED
    BY <1>1, <1>2, <2>1, <2>2 DEF JournalTypes
<1>8. WriterInv'
  BY <1>1 DEF WriterInv, NoAppend
<1>9. Durable(file, acked)
  BY DurableIs
<1>10. Durable(file, acked')
  <2>1. CASE e \in Foreign
    BY <1>1, <1>9, <2>1
  <2>2. CASE e \notin Foreign
    <3>1. Len(file) \in ValidEnds(file) /\ EventAt(file, Len(file)) = e
      BY <1>2, <1>3, <2>2, RowLanded
    <3>2. row.event \in {EventAt(file, i) : i \in ValidEnds(file)}
      BY <1>6, <3>1
    <3>3. acked' = acked \cup {row}
      BY <1>1, <2>2
    <3>4. ASSUME NEW a \in acked'
          PROVE  /\ a.event \in {EventAt(file, i) : i \in ValidEnds(file)}
                 /\ a.cursor.offset \in ValidEnds(file)
                 /\ a.cursor.anchor = Anchor(file)
      <4>1. CASE a = row
        BY <1>4, <1>6, <3>1, <3>2, <4>1
      <4>2. CASE a \in acked
        BY <1>9, <4>2 DEF Durable
      <4> QED
        BY <3>3, <4>1, <4>2
    <3> QED
      BY <3>4 DEF Durable
  <2> QED
    BY <2>1, <2>2
<1>11. AcknowledgedIsDurable'
  BY <1>1, <1>10, DurableIs
<1>12. Grew(file, file')
  BY <1>1, <1>2, GrewItself
<1> QED
  BY <1>7, <1>8, <1>11, <1>12

\* The file keeps what was written, behind its complete lines.
LEMMA AppendFailsKeeps ==
    ASSUME JournalInv, AppendFails
    PROVE  JournalInv' /\ Grew(file, file')
<1> USE DEF JournalInv
<1>1. file' = file /\ acked' = acked /\ writer' = NoAppend
  BY DEF AppendFails
<1>2. JournalTypes'
  <2>1. writer' \in Writers /\ writer'.at = "idle"
    BY SMTT(30), <1>1 DEF NoAppend, Writers
  <2> QED
    BY <1>1, <2>1 DEF JournalTypes
<1>3. WriterInv'
  BY <1>1 DEF WriterInv, NoAppend
<1>4. AcknowledgedIsDurable'
  BY <1>1, DurableIs
<1>5. Grew(file, file')
  BY <1>1, GrewItself DEF JournalTypes
<1> QED
  BY <1>2, <1>3, <1>4, <1>5

\* A reader's or a client's step leaves the stream alone.
LEMMA ReadersLeaveTheStream ==
    ASSUME NEW r \in Readers, ReadStep(r) \/ ClientStep(r)
    PROVE  UNCHANGED <<file, writer, acked>>
<1>1. CASE ReadStep(r)
  BY <1>1, Zenon DEF ReadStep, ReadLength, ReadAnchor, OpenPage, ScanChunk,
                     VerifyLineage
<1>2. CASE ClientStep(r)
  BY <1>2, Zenon DEF ClientStep, EventsAfter, PageFails, PageEmpty,
                     PageReachesLimit, PageScanned, Answers
<1> QED
  BY <1>1, <1>2

\* Nothing is said about anything else.
LEMMA StreamUnchangedKeeps ==
    ASSUME JournalInv, UNCHANGED <<file, writer, acked>>
    PROVE  JournalInv' /\ Grew(file, file')
<1>1. file' = file /\ writer' = writer /\ acked' = acked
  OBVIOUS
<1>2. JournalTypes'
  BY <1>1, Zenon DEF JournalInv, JournalTypes
<1>3. WriterInv'
  BY <1>1, Zenon DEF JournalInv, WriterInv, Wrote
<1>4. AcknowledgedIsDurable'
  BY <1>1, DurableIs, Zenon DEF JournalInv
<1>5. Grew(file, file')
  BY <1>1, GrewItself DEF JournalInv, JournalTypes
<1> QED
  BY <1>2, <1>3, <1>4, <1>5 DEF JournalInv

\* Every step keeps the invariant and the complete lines.
LEMMA JournalStep ==
    ASSUME JournalInv, [Next]_vars
    PROVE  JournalInv' /\ Grew(file, file')
<1>1. CASE WriterNext
  BY <1>1, LockStreamKeeps, RepairTailKeeps, WriteCellKeeps,
     AppendReturnsKeeps, AppendFailsKeeps, Zenon DEF WriterNext, WriterStep
<1>2. CASE \E r \in Readers : ReadStep(r) \/ ClientStep(r)
  <2>1. UNCHANGED <<file, writer, acked>>
    BY <1>2, ReadersLeaveTheStream, Zenon
  <2> QED
    BY <2>1, StreamUnchangedKeeps
<1>3. CASE UNCHANGED vars
  <2>1. UNCHANGED <<file, writer, acked>>
    BY <1>3 DEF vars, journalVars
  <2> QED
    BY <2>1, StreamUnchangedKeeps
<1> QED
  BY <1>1, <1>2, <1>3, Zenon DEF Next

\* What the journal keeps, and what its writer has still to do, hold in
\* every reachable state.
THEOREM JournalInvHolds == Spec => []JournalInv
<1>1. Init => JournalInv
  BY JournalInitHolds
<1>2. JournalInv /\ [Next]_vars => JournalInv'
  BY JournalStep
<1> QED
  BY <1>1, <1>2, PTL DEF Spec

\* A row whose append returned stays in the stream and its cursor stays one
\* that can be resumed from, however many appends were torn, repaired or
\* abandoned since (append, repair_unterminated_tail).
THEOREM AcknowledgedRowsStay == Spec => []AcknowledgedIsDurable
<1>1. JournalInv => AcknowledgedIsDurable
  BY DEF JournalInv
<1> QED
  BY <1>1, JournalInvHolds, PTL

\* What no step may do to the stream: a row that is there stays where it is,
\* a new one comes behind every complete line, and the anchor that cursors
\* name, once there is one, stays.
StreamOnlyGrows ==
    /\ \A i \in ValidEnds(file) : /\ i \in ValidEnds(file')
                                  /\ EventAt(file', i) = EventAt(file, i)
    /\ \A i \in ValidEnds(file') \ ValidEnds(file) : i > LastEnd(file)
    /\ Anchor(file) # None => Anchor(file') = Anchor(file)

\* The stream only grows by whole rows behind its complete lines, although
\* repair_unterminated_tail cuts the file: every cursor that was handed out
\* keeps its meaning.
THEOREM StreamGrows == Spec => [][StreamOnlyGrows]_vars
<1>1. JournalInv /\ JournalInv' /\ [Next]_vars => [StreamOnlyGrows]_vars
  <2> SUFFICES ASSUME JournalInv, JournalInv', [Next]_vars
               PROVE  StreamOnlyGrows
    OBVIOUS
  <2>1. file \in Seq(Cell) /\ file' \in Seq(Cell) /\ Grew(file, file')
    BY JournalStep DEF JournalInv, JournalTypes
  <2> QED
    BY <2>1, GrewKeeps DEF StreamOnlyGrows
<1> QED
  BY <1>1, JournalInvHolds, PTL DEF Spec

-----------------------------------------------------------------------------
(* The lineage that a reader looks at twice.                               *)

Fields ==
    {"at", "cursor", "limit", "length", "anchor", "attempt", "buf", "page"}

ReaderShape(c) == c = [x \in Fields |-> c[x]]

\* Where a reader has taken the anchor, and before.
Anchored == {"page", "scan", "verify"}

Reading == {"length", "anchor"} \cup Anchored

\* An anchor that was read is the stream's; a second attempt is one under an
\* anchor.
LooksAt(f, c) ==
    /\ c.at \in Anchored /\ c.anchor # None => c.anchor = Anchor(f)
    /\ c.at \in Reading /\ c.attempt # 1 =>
           /\ Anchor(f) # None
           /\ c.at \in Anchored => c.anchor # None
    /\ c.attempt \in 0..2
    /\ c.page.status # "unstable"

LineageInv ==
    /\ reader = [r \in Readers |-> reader[r]]
    /\ \A r \in Readers : ReaderShape(reader[r]) /\ LooksAt(file, reader[r])

\* A scan does not judge the lineage.
LEMMA PageOfStatus ==
    ASSUME NEW buf, NEW start, NEW limit, NEW anchor, NEW cursor
    PROVE  PageOf(buf, start, limit, anchor, cursor).status # "unstable"
BY DEF PageOf, Failed, NoPage

\* A reader is not disturbed by a file that grows.
LEMMA LooksAtGrown ==
    ASSUME NEW f \in Seq(Cell), NEW g \in Seq(Cell), Grew(f, g), NEW c,
           LooksAt(f, c)
    PROVE  LooksAt(g, c)
<1>1. Anchor(f) # None => Anchor(g) = Anchor(f)
  BY GrewKeeps
<1> QED
  BY <1>1, Zenon DEF LooksAt

\* A reader's step is about that reader.
LEMMA OneReader ==
    ASSUME LineageInv, NEW r \in Readers, NEW c, ReaderShape(c),
           LooksAt(file, c), reader' = [reader EXCEPT ![r] = c], file' = file
    PROVE  LineageInv'
<1>1. \A s \in Readers : reader'[s] = IF s = r THEN c ELSE reader[s]
  BY DEF LineageInv
<1>2. reader' = [s \in Readers |-> reader'[s]]
  BY DEF LineageInv
<1>3. \A s \in Readers : ReaderShape(reader'[s]) /\ LooksAt(file', reader'[s])
  BY <1>1, Zenon DEF LineageInv
<1> QED
  BY <1>2, <1>3, Zenon DEF LineageInv

\* A call that returns.
LEMMA ReturnsKeeps ==
    ASSUME LineageInv, NEW r \in Readers, NEW page, page.status # "unstable",
           Returns(r, page), file' = file
    PROVE  LineageInv'
<1> DEFINE c == [NoRead EXCEPT !.at = "done", !.page = page]
<1>1. c.at = "done" /\ c.attempt = 0 /\ c.page = page /\ ReaderShape(c)
  BY DEF NoRead, ReaderShape, Fields
<1>2. reader' = [reader EXCEPT ![r] = c]
  BY DEF Returns
<1> HIDE DEF c
<1>3. LooksAt(file, c)
  BY SMTT(30), <1>1 DEF LooksAt, Anchored, Reading
<1> QED
  BY <1>1, <1>2, <1>3, OneReader

\* A call that begins.
LEMMA CallsKeeps ==
    ASSUME LineageInv, NEW r \in Readers, NEW cursor, NEW limit,
           Calls(r, cursor, limit), file' = file
    PROVE  LineageInv'
<1> DEFINE c == [NoRead EXCEPT !.at = "length", !.cursor = cursor,
                               !.limit = limit, !.attempt = 1]
<1>1. c.at = "length" /\ c.attempt = 1 /\ c.page = NoPage /\ ReaderShape(c)
  BY DEF NoRead, ReaderShape, Fields
<1>2. reader' = [reader EXCEPT ![r] = c]
  BY DEF Calls
<1> HIDE DEF c
<1>3. LooksAt(file, c)
  BY SMTT(30), <1>1 DEF LooksAt, Anchored, Reading, NoPage
<1> QED
  BY <1>1, <1>2, <1>3, OneReader

\* The status of a failed page.
LEMMA FailedStatus ==
    ASSUME NEW status
    PROVE  Failed(status).status = status
BY DEF Failed, NoPage

\* The steps of read_after.  Only VerifyLineage begins another attempt, and
\* only when the anchor has appeared since the first.
LEMMA ReadStepKeepsLineage ==
    ASSUME LineageInv, NEW r \in Readers, ReadStep(r)
    PROVE  LineageInv'
<1> DEFINE c == reader[r]
<1>0. file' = file /\ ReaderShape(c) /\ LooksAt(file, c)
  BY ReadersLeaveTheStream DEF LineageInv
<1>1. CASE ReadLength(r)
  <2> DEFINE d == [c EXCEPT !.at = "anchor", !.length = Len(file)]
  <2>1. /\ d.at = "anchor" /\ d.attempt = c.attempt /\ d.page = c.page
        /\ ReaderShape(d)
    BY <1>0 DEF ReaderShape, Fields
  <2>2. reader' = [reader EXCEPT ![r] = d] /\ c.at = "length"
    BY <1>1 DEF ReadLength
  <2> HIDE DEF d
  <2>3. LooksAt(file, d)
    BY <1>0, <2>1, <2>2 DEF LooksAt, Anchored, Reading
  <2> QED
    BY <1>0, <2>1, <2>2, <2>3, OneReader
<1>2. CASE ReadAnchor(r) /\ AnchorFails(file)
  <2>1. Returns(r, Failed("error"))
    BY <1>2 DEF ReadAnchor
  <2> QED
    BY SMTT(30), <1>0, <2>1, FailedStatus, ReturnsKeeps
<1>3. CASE ReadAnchor(r) /\ ~AnchorFails(file)
  <2> DEFINE d == [c EXCEPT !.at = "page", !.anchor = Anchor(file)]
  <2>1. /\ d.at = "page" /\ d.attempt = c.attempt /\ d.page = c.page
        /\ d.anchor = Anchor(file) /\ ReaderShape(d)
    BY <1>0 DEF ReaderShape, Fields
  <2>2. reader' = [reader EXCEPT ![r] = d] /\ c.at = "anchor"
    BY <1>3 DEF ReadAnchor
  <2> HIDE DEF d
  <2>3. LooksAt(file, d)
    BY <1>0, <2>1, <2>2 DEF LooksAt, Anchored, Reading
  <2> QED
    BY <1>0, <2>1, <2>2, <2>3, OneReader
<1>4. CASE OpenPage(r)
  <2> DEFINE d == [c EXCEPT !.at = "verify", !.page = Failed("invalid")]
             g == [c EXCEPT !.at = "scan", !.buf = <<>>]
  <2>1. /\ d.at = "verify" /\ d.attempt = c.attempt
        /\ d.page = Failed("invalid") /\ d.anchor = c.anchor /\ ReaderShape(d)
    BY <1>0 DEF ReaderShape, Fields
  <2>2. /\ g.at = "scan" /\ g.attempt = c.attempt /\ g.page = c.page
        /\ g.anchor = c.anchor /\ ReaderShape(g)
    BY <1>0 DEF ReaderShape, Fields
  <2>3. c.at = "page"
    BY <1>4 DEF OpenPage
  <2>4. \/ reader' = [reader EXCEPT ![r] = d]
        \/ reader' = [reader EXCEPT ![r] = g]
    BY <1>4 DEF OpenPage
  <2> HIDE DEF d, g
  <2>5. LooksAt(file, d)
    BY <1>0, <2>1, <2>3, FailedStatus DEF LooksAt, Anchored, Reading
  <2>6. LooksAt(file, g)
    BY <1>0, <2>2, <2>3 DEF LooksAt, Anchored, Reading
  <2> QED
    BY <1>0, <2>1, <2>2, <2>4, <2>5, <2>6, OneReader
<1>5. CASE ScanChunk(r)
  <2> DEFINE page == PageOf(c.buf, StartOf(c.cursor), c.limit, c.anchor,
                            c.cursor)
             pos == StartOf(c.cursor) + Len(c.buf)
             upto == Min({pos + Chunk, c.length, Len(file)})
             more == c.buf \o SubSeq(file, pos + 1, upto)
             d == [c EXCEPT !.buf = more]
             g == [c EXCEPT !.at = "verify", !.buf = <<>>, !.length = 0,
                            !.page = page]
  <2>1. c.at = "scan"
    BY <1>5 DEF ScanChunk
  <2>2. \/ reader' = [reader EXCEPT ![r] = d]
        \/ reader' = [reader EXCEPT ![r] = g]
    <3>1. reader' = [reader EXCEPT ![r] = IF pos < upto THEN d ELSE g]
      BY <1>5, Zenon DEF ScanChunk
    <3> HIDE DEF pos, upto, d, g
    <3> QED
      BY <3>1
  <2>3. page.status # "unstable"
    BY PageOfStatus
  <2> HIDE DEF page, more
  <2>4. /\ d.at = c.at /\ d.attempt = c.attempt /\ d.page = c.page
        /\ d.anchor = c.anchor /\ ReaderShape(d)
    BY <1>0 DEF ReaderShape, Fields
  <2>5. /\ g.at = "verify" /\ g.attempt = c.attempt /\ g.page = page
        /\ g.anchor = c.anchor /\ ReaderShape(g)
    BY <1>0 DEF ReaderShape, Fields
  <2> HIDE DEF d, g
  <2>6. LooksAt(file, d)
    BY <1>0, <2>1, <2>4 DEF LooksAt, Anchored, Reading
  <2>7. LooksAt(file, g)
    BY <1>0, <2>1, <2>3, <2>5 DEF LooksAt, Anchored, Reading
  <2> QED
    BY <1>0, <2>2, <2>4, <2>5, <2>6, <2>7, OneReader
<1>6. CASE VerifyLineage(r)
  <2> DEFINE d == [c EXCEPT !.at = "length", !.page = NoPage,
                            !.attempt = c.attempt + 1]
  <2>1. c.at = "verify" /\ c.page.status # "unstable" /\ c.attempt \in 0..2
    BY <1>0, <1>6 DEF VerifyLineage, LooksAt
  <2>2. \/ Returns(r, Failed("error"))
        \/ Returns(r, c.page)
        \/ Returns(r, Failed("invalid"))
        \/ /\ Anchor(file) # c.anchor
           /\ c.attempt = MaxAttempts \/ reader' = [reader EXCEPT ![r] = d]
    <3>1. IF AnchorFails(file) THEN Returns(r, Failed("error"))
          ELSE IF Anchor(file) = c.anchor THEN Returns(r, c.page)
          ELSE IF c.cursor # None THEN Returns(r, Failed("invalid"))
          ELSE IF c.attempt = MaxAttempts THEN Returns(r, Failed("unstable"))
          ELSE reader' = [reader EXCEPT ![r] = d]
      BY <1>6, Zenon DEF VerifyLineage
    <3> HIDE DEF c, d
    <3> QED
      BY <3>1, Zenon
  <2>3. CASE \/ Returns(r, Failed("error"))
             \/ Returns(r, c.page)
             \/ Returns(r, Failed("invalid"))
    BY <1>0, <2>1, <2>3, FailedStatus, ReturnsKeeps
  <2>4. CASE /\ Anchor(file) # c.anchor
             /\ c.attempt = MaxAttempts \/ reader' = [reader EXCEPT ![r] = d]
    <3>1. c.attempt = 1 /\ Anchor(file) # None
      BY <1>0, <2>1, <2>4 DEF LooksAt, Anchored, Reading
    <3>2. reader' = [reader EXCEPT ![r] = d]
      BY SMTT(30), <2>4, <3>1 DEF MaxAttempts
    <3>3. d.at = "length" /\ d.attempt = 2 /\ d.page = NoPage /\ ReaderShape(d)
      <4>1. /\ d.at = "length" /\ d.attempt = c.attempt + 1 /\ d.page = NoPage
            /\ ReaderShape(d)
        BY <1>0 DEF ReaderShape, Fields
      <4> HIDE DEF c, d
      <4> QED
        BY SMTT(30), <3>1, <4>1
    <3> HIDE DEF d
    <3>4. LooksAt(file, d)
      BY SMTT(30), <3>1, <3>3 DEF LooksAt, Anchored, Reading, NoPage
    <3> QED
      BY <1>0, <3>2, <3>3, <3>4, OneReader
  <2> QED
    BY <2>2, <2>3, <2>4, Zenon
<1> QED
  BY <1>1, <1>2, <1>3, <1>4, <1>5, <1>6, Zenon DEF ReadStep

\* The steps of events_after begin or drop a call.
LEMMA ClientStepKeepsLineage ==
    ASSUME LineageInv, NEW r \in Readers, ClientStep(r)
    PROVE  LineageInv'
<1>0. file' = file
  BY ReadersLeaveTheStream
<1>1. ASSUME reader' = [reader EXCEPT ![r] = NoRead] PROVE LineageInv'
  <2>1. ReaderShape(NoRead)
    BY DEF NoRead, ReaderShape, Fields
  <2>2. LooksAt(file, NoRead)
    BY SMTT(30) DEF NoRead, NoPage, LooksAt, Anchored, Reading
  <2> QED
    BY <1>0, <1>1, <2>1, <2>2, OneReader
<1>2. ASSUME NEW limit, EventsAfter(r, limit) PROVE LineageInv'
  BY <1>0, <1>2, CallsKeeps DEF EventsAfter
<1>3. CASE PageScanned(r)
  BY <1>0, <1>3, CallsKeeps DEF PageScanned
<1>4. CASE PageFails(r) \/ PageEmpty(r) \/ PageReachesLimit(r)
  BY <1>1, <1>4, Zenon DEF PageFails, PageEmpty, PageReachesLimit, Answers
<1> QED
  BY <1>2, <1>3, <1>4, Zenon DEF ClientStep

\* Every step keeps what the readers have seen of the lineage.
LEMMA LineageStep ==
    ASSUME JournalInv, JournalInv', LineageInv, [Next]_vars
    PROVE  LineageInv'
<1>1. file \in Seq(Cell) /\ file' \in Seq(Cell) /\ Grew(file, file')
  BY JournalStep DEF JournalInv, JournalTypes
<1>2. ASSUME reader' = reader PROVE LineageInv'
  <2>1. \A r \in Readers : LooksAt(file', reader[r])
    BY <1>1, LooksAtGrown DEF LineageInv
  <2> QED
    BY <1>2, <2>1, Zenon DEF LineageInv
<1>3. CASE WriterNext
  <2>1. reader' = reader
    BY <1>3, Zenon DEF WriterNext, WriterStep, LockStream, RepairTail,
                       WriteCell, AppendReturns, AppendFails
  <2> QED
    BY <1>2, <2>1
<1>4. CASE UNCHANGED vars
  BY <1>2, <1>4 DEF vars, journalVars
<1>5. CASE \E r \in Readers : ReadStep(r) \/ ClientStep(r)
  BY <1>5, ReadStepKeepsLineage, ClientStepKeepsLineage, Zenon
<1> QED
  BY <1>3, <1>4, <1>5, Zenon DEF Next

\* A changed lineage is met once at most: the anchor only appears, so the
\* second attempt of read_after is the last one, MaxAttempts is never
\* reached and no read answers UnstableLineage.
SecondReadSuffices ==
    \A r \in Readers :
        reader[r].attempt <= 2 /\ reader[r].page.status # "unstable"

LEMMA LineageInitHolds == Init => LineageInv
<1> SUFFICES ASSUME Init PROVE LineageInv
  OBVIOUS
<1>1. reader = [r \in Readers |-> NoRead]
  BY DEF Init, JournalInit
<1>2. ReaderShape(NoRead)
  BY DEF NoRead, ReaderShape, Fields
<1>3. LooksAt(file, NoRead)
  BY SMTT(30) DEF NoRead, NoPage, LooksAt, Anchored, Reading
<1> QED
  BY <1>1, <1>2, <1>3 DEF LineageInv

\* For any number of readers and whatever the writer does meanwhile, a read
\* of a file that nobody replaces is settled by its second attempt.
THEOREM LineageSettles == Spec => []SecondReadSuffices
<1>1. JournalInv /\ JournalInv' /\ LineageInv /\ [Next]_vars => LineageInv'
  BY LineageStep
<1>2. LineageInv => SecondReadSuffices
  BY SMTT(30) DEF LineageInv, LooksAt, SecondReadSuffices
<1> QED
  BY <1>1, <1>2, LineageInitHolds, JournalInvHolds, PTL DEF Spec
-----------------------------------------------------------------------------
(* Numbers in increasing order.                                            *)

\* What it means to list a set, position by position.
LEMMA ListsIs ==
    ASSUME NEW S, NEW q \in Seq(S)
    PROVE  Lists(q, S) <=>
             /\ \A m, n \in DOMAIN q : m < n => q[m] < q[n]
             /\ \A i \in S : \E n \in DOMAIN q : q[n] = i
<1>1. \A n \in DOMAIN q : q[n] \in S
  BY SMTT(30)
<1> QED
  BY <1>1 DEF Lists

\* The next number goes behind a list of smaller ones.
LEMMA ListGrows ==
    ASSUME NEW m \in Nat, NEW S, S \subseteq 0..m, NEW q \in Seq(S), Lists(q, S),
           NEW T, T = S \cup {m + 1}
    PROVE  Append(q, m + 1) \in Seq(T) /\ Lists(Append(q, m + 1), T)
<1> DEFINE p == Append(q, m + 1)
<1>1. /\ p \in Seq(T) /\ Len(p) = Len(q) + 1 /\ Len(q) \in Nat
      /\ DOMAIN p = 1..(Len(q) + 1) /\ DOMAIN q = 1..Len(q)
      /\ p[Len(q) + 1] = m + 1
      /\ \A n \in 1..Len(q) : p[n] = q[n] /\ q[n] \in S
  <2>1. q \in Seq(T) /\ m + 1 \in T
    <3>1. \A n \in 1..Len(q) : q[n] \in T
      BY SMTT(30)
    <3> QED
      BY SMTT(30), <3>1
  <2> QED
    BY SMTT(30), <2>1
<1> HIDE DEF p
<1>2. /\ \A a, b \in DOMAIN q : a < b => q[a] < q[b]
      /\ \A i \in S : \E n \in DOMAIN q : q[n] = i
  BY ListsIs
<1>3. ASSUME NEW a \in DOMAIN p, NEW b \in DOMAIN p, a < b
      PROVE  p[a] < p[b]
  <2>1. a \in 1..Len(q)
    BY SMTT(30), <1>1, <1>3
  <2>2. p[a] = q[a] /\ q[a] \in 0..m
    BY <1>1, <2>1
  <2>3. CASE b = Len(q) + 1
    BY SMTT(30), <1>1, <2>2, <2>3
  <2>4. CASE b # Len(q) + 1
    <3>1. b \in 1..Len(q)
      BY SMTT(30), <1>1, <2>4
    <3> QED
      BY <1>1, <1>2, <1>3, <2>1, <3>1
  <2> QED
    BY <2>3, <2>4
<1>4. ASSUME NEW i \in T PROVE \E n \in DOMAIN p : p[n] = i
  <2>1. CASE i = m + 1
    <3>1. Len(q) + 1 \in DOMAIN p
      BY SMTT(30), <1>1
    <3> QED
      BY <1>1, <2>1, <3>1
  <2>2. CASE i \in S
    <3>1. PICK n \in DOMAIN q : q[n] = i
      BY <1>2, <2>2
    <3>2. n \in DOMAIN p /\ p[n] = i
      BY SMTT(30), <1>1, <3>1
    <3> QED
      BY <3>2
  <2> QED
    BY <2>1, <2>2
<1>5. Lists(p, T)
  BY <1>1, <1>3, <1>4, ListsIs
<1> QED
  BY <1>1, <1>5 DEF p

\* A bounded set of naturals can be listed.
LEMMA ListExists ==
    ASSUME NEW n \in Nat, NEW S, S \subseteq 1..n
    PROVE  \E q \in Seq(S) : Lists(q, S)
<1> DEFINE Listed(T) == \E q \in Seq(T) : Lists(q, T)
           Bad == {k \in Nat : \E T \in SUBSET (1..k) : ~Listed(T)}
<1> SUFFICES ASSUME ~Listed(S) PROVE FALSE
  OBVIOUS
<1>1. n \in Bad
  OBVIOUS
<1> DEFINE k == Min(Bad)
<1>2. k \in Bad /\ \A y \in Bad : k <= y
  <2>1. Bad \subseteq Nat /\ Bad # {}
    BY <1>1
  <2> HIDE DEF Bad
  <2> QED
    BY <2>1, MinExists
<1> HIDE DEF k
<1>3. k \in Nat
  BY <1>2
<1>4. PICK T \in SUBSET (1..k) : ~Listed(T)
  BY <1>2
<1>5. CASE k = 0
  <2>1. T = {}
    BY SMTT(30), <1>4, <1>5
  <2>2. <<>> \in Seq(T) /\ DOMAIN <<>> = {}
    BY SMTT(30)
  <2>3. Lists(<<>>, T)
    BY <2>1, <2>2 DEF Lists
  <2> QED
    BY <1>4, <2>2, <2>3
<1>6. CASE k # 0
  <2> DEFINE m == k - 1
             U == T \ {k}
  <2>1. m \in Nat /\ m < k /\ m + 1 = k /\ U \subseteq 1..m
    BY SMTT(30), <1>3, <1>4, <1>6
  <2>2. m \notin Bad
    <3>1. ~(k <= m)
      BY SMTT(30), <2>1, <1>3
    <3> QED
      BY <1>2, <3>1
  <2> HIDE DEF m
  <2>3. Listed(U)
    BY <2>1, <2>2
  <2>4. PICK q \in Seq(U) : Lists(q, U)
    BY <2>3
  <2>5. CASE k \in T
    <3>1. T = U \cup {m + 1} /\ U \subseteq 0..m
      BY SMTT(30), <2>1, <2>5
    <3>2. Append(q, m + 1) \in Seq(T) /\ Lists(Append(q, m + 1), T)
      <4> HIDE DEF U
      <4> QED
        BY <2>1, <2>4, <3>1, ListGrows
    <3> QED
      BY <1>4, <3>2
  <2>6. CASE k \notin T
    <3>1. T = U
      BY <2>6
    <3> QED
      BY <1>4, <2>3, <3>1
  <2> QED
    BY <2>5, <2>6
<1> QED
  BY <1>5, <1>6

\* A list agrees with every other list of its set.
LEMMA ListAgrees ==
    ASSUME NEW S, S \subseteq Nat, NEW p \in Seq(S), NEW q \in Seq(S),
           Lists(p, S), Lists(q, S), NEW k \in DOMAIN p
    PROVE  k \in DOMAIN q /\ q[k] = p[k]
<1> DEFINE Bad == {n \in DOMAIN p : ~(n \in DOMAIN q /\ q[n] = p[n])}
<1> SUFFICES ASSUME Bad # {} PROVE FALSE
  OBVIOUS
<1>1. /\ \A a, b \in DOMAIN p : a < b => p[a] < p[b]
      /\ \A a, b \in DOMAIN q : a < b => q[a] < q[b]
      /\ \A i \in S : \E n \in DOMAIN p : p[n] = i
      /\ \A i \in S : \E n \in DOMAIN q : q[n] = i
  BY ListsIs
<1>2. /\ DOMAIN p = 1..Len(p) /\ DOMAIN q = 1..Len(q)
      /\ Len(p) \in Nat /\ Len(q) \in Nat
      /\ \A n \in DOMAIN p : p[n] \in Nat /\ p[n] \in S
      /\ \A n \in DOMAIN q : q[n] \in Nat /\ q[n] \in S
  <2>1. /\ DOMAIN p = 1..Len(p) /\ DOMAIN q = 1..Len(q)
        /\ Len(p) \in Nat /\ Len(q) \in Nat
    BY SMTT(30)
  <2>2. (\A n \in DOMAIN p : p[n] \in S) /\ (\A n \in DOMAIN q : q[n] \in S)
    BY ONLY SMTT(30), p \in Seq(S), q \in Seq(S)
  <2> QED
    BY <2>1, <2>2
<1> DEFINE m == Min(Bad)
<1>3. m \in Bad /\ \A y \in Bad : m <= y
  <2>1. Bad \subseteq Nat
    BY SMTT(30), <1>2
  <2> HIDE DEF Bad
  <2> QED
    BY <2>1, MinExists
<1> HIDE DEF m
<1>4. m \in DOMAIN p /\ m \in Nat
  BY SMTT(30), <1>2, <1>3
<1>5. ASSUME NEW j \in DOMAIN p, j < m PROVE j \in DOMAIN q /\ q[j] = p[j]
  <2>1. ~(m <= j)
    BY SMTT(30), <1>2, <1>4, <1>5
  <2> QED
    BY <1>3, <2>1
<1>6. PICK j \in DOMAIN q : q[j] = p[m]
  BY <1>1, <1>2, <1>4
<1>7. j # m
  BY <1>3, <1>6
<1>8. ~(j < m)
  <2> SUFFICES ASSUME j < m PROVE FALSE
    OBVIOUS
  <2>1. j \in DOMAIN p
    BY SMTT(30), <1>2, <1>4
  <2>2. p[j] = p[m] /\ p[j] < p[m]
    BY <1>1, <1>4, <1>5, <1>6, <2>1
  <2> QED
    BY SMTT(30), <1>2, <1>4, <2>2
<1>9. m < j /\ m \in DOMAIN q
  BY SMTT(30), <1>2, <1>4, <1>7, <1>8
<1>10. q[m] < p[m]
  BY <1>1, <1>6, <1>9
<1>11. PICK i \in DOMAIN p : p[i] = q[m]
  BY <1>1, <1>2, <1>9
<1>12. i < m
  <2>1. i # m
    BY SMTT(30), <1>2, <1>4, <1>10, <1>11
  <2>2. ~(m < i)
    <3> SUFFICES ASSUME m < i PROVE FALSE
      OBVIOUS
    <3>1. p[m] < p[i]
      BY <1>1, <1>4
    <3> QED
      BY SMTT(30), <1>2, <1>4, <1>10, <1>11, <3>1
  <2> QED
    BY SMTT(30), <1>2, <1>4, <2>1, <2>2
<1>13. q[i] = q[m] /\ i \in DOMAIN q
  BY <1>5, <1>11, <1>12
<1>14. q[i] < q[m]
  BY <1>1, <1>9, <1>12, <1>13
<1> QED
  BY SMTT(30), <1>2, <1>9, <1>13, <1>14

LEMMA ListUnique ==
    ASSUME NEW S, S \subseteq Nat, NEW p \in Seq(S), NEW q \in Seq(S),
           Lists(p, S), Lists(q, S)
    PROVE  p = q
<1>1. DOMAIN p = DOMAIN q /\ \A k \in DOMAIN p : p[k] = q[k]
  BY ListAgrees
<1> QED
  BY SMTT(30), <1>1

\* InOrder is a list.
LEMMA InOrderIs ==
    ASSUME NEW n \in Nat, NEW S, S \subseteq 1..n
    PROVE  /\ InOrder(S) \in Seq(S) /\ Lists(InOrder(S), S)
           /\ Cardinality(S) \in Nat /\ DOMAIN InOrder(S) = 1..Cardinality(S)
           /\ Len(InOrder(S)) = Cardinality(S)
<1>1. PICK q \in Seq(S) : Lists(q, S)
  BY ListExists
<1>2. /\ DOMAIN q = 1..Len(q) /\ Len(q) \in Nat /\ q \in [1..Len(q) -> S]
      /\ S \subseteq Nat
  BY SMTT(30)
<1>3. /\ \A a, b \in DOMAIN q : a < b => q[a] < q[b]
      /\ \A i \in S : \E k \in DOMAIN q : q[k] = i
  BY <1>1, ListsIs
<1>4. ASSUME NEW a \in 1..Len(q), NEW b \in 1..Len(q), q[a] = q[b] PROVE a = b
  <2>0. q[a] \in Nat
    BY <1>2
  <2>1. ~(q[a] < q[b]) /\ ~(q[b] < q[a])
    BY SMTT(30), <1>4, <2>0
  <2>2. ~(a < b) /\ ~(b < a)
    BY <1>2, <1>3, <2>1
  <2> QED
    BY SMTT(30), <2>2
<1>5. ExistsBijection(1..Len(q), S)
  <2>1. q \in Bijection(1..Len(q), S)
    BY <1>2, <1>3, <1>4 DEF Bijection, Injection, Surjection, IsInjective
  <2> QED
    BY <2>1 DEF ExistsBijection
<1>6. Cardinality(S) = Len(q)
  BY <1>2, <1>5, FS_CountingElements
<1>7. InOrder(S) \in [1..Cardinality(S) -> S] /\ Lists(InOrder(S), S)
  <2>1. q \in [1..Cardinality(S) -> S]
    BY <1>2, <1>6
  <2> QED
    BY <1>1, <2>1 DEF InOrder
<1> HIDE DEF InOrder
<1> QED
  BY SMTT(30), <1>2, <1>6, <1>7

-----------------------------------------------------------------------------
(* What is read from the end of a line on.                                 *)

\* b is the n cells of f behind s, where a line of f ends.
Excerpt(f, s, b) ==
    /\ b \in Seq(Cell) /\ s \in Ends(f) \cup {0}
    /\ s + Len(b) <= Len(f)
    /\ \A j \in 1..Len(b) : b[j] = f[s + j]

LEMMA ExcerptEnds ==
    ASSUME NEW f \in Seq(Cell), NEW s, NEW b, Excerpt(f, s, b),
           NEW i \in 1..Len(b)
    PROVE  /\ i \in Ends(b) <=> s + i \in Ends(f)
           /\ s \in Nat /\ i \in Nat \ {0} /\ Len(b) \in Nat /\ Len(f) \in Nat
           /\ s + i \in 1..Len(f)
<1>1. /\ b \in Seq(Cell) /\ s \in Ends(f) \cup {0} /\ s + Len(b) <= Len(f)
      /\ b[i] = f[s + i]
  BY DEF Excerpt
<1>2. s \in Nat
  BY SMTT(30), <1>1, EndsBound
<1>3. /\ i \in Nat \ {0} /\ Len(b) \in Nat /\ Len(f) \in Nat
      /\ s + i \in 1..Len(f) /\ DOMAIN b = 1..Len(b) /\ DOMAIN f = 1..Len(f)
  BY SMTT(30), <1>1, <1>2
<1> QED
  BY <1>1, <1>2, <1>3 DEF Ends

\* Its lines begin where those of f do.
LEMMA ExcerptBefore ==
    ASSUME NEW f \in Seq(Cell), NEW s, NEW b, Excerpt(f, s, b),
           NEW i \in 1..Len(b)
    PROVE  Before(f, s + i) = s + Before(b, i) /\ Before(b, i) \in 0..(i - 1)
<1> DEFINE m == Before(b, i)
           k == Before(f, s + i)
<1>1. /\ s \in Nat /\ i \in Nat \ {0} /\ Len(b) \in Nat /\ Len(f) \in Nat
      /\ b \in Seq(Cell) /\ s \in Ends(f) \cup {0}
      /\ \A j \in 1..Len(b) : j \in Ends(b) <=> s + j \in Ends(f)
  BY ExcerptEnds DEF Excerpt
<1>2. /\ m \in 0..(i - 1) /\ m \in Ends(b) \cup {0}
      /\ \A j \in Ends(b) : j < i => j <= m
  BY <1>1, BeforeBound
<1>3. /\ k \in 0..((s + i) - 1) /\ k \in Ends(f) \cup {0}
      /\ \A j \in Ends(f) : j < s + i => j <= k
  <2>1. s + i \in Nat \ {0}
    BY SMTT(30), <1>1
  <2> QED
    BY <2>1, BeforeBound
<1> HIDE DEF m, k
<1>4. m \in Nat /\ k \in Nat /\ s + m < s + i
  BY SMTT(30), <1>1, <1>2, <1>3
<1>5. s + m <= k
  <2>1. CASE m = 0
    <3>1. CASE s = 0
      BY SMTT(30), <2>1, <3>1, <1>4
    <3>2. CASE s \in Ends(f)
      <4>1. s < s + i
        BY SMTT(30), <1>1
      <4>2. s <= k
        BY <1>3, <3>2, <4>1
      <4> QED
        BY SMTT(30), <1>1, <1>4, <2>1, <4>2
    <3> QED
      BY <1>1, <3>1, <3>2
  <2>2. CASE m # 0
    <3>1. m \in Ends(b) /\ m \in 1..Len(b)
      BY <1>1, <1>2, <2>2, EndsBound
    <3>2. s + m \in Ends(f)
      BY <1>1, <3>1
    <3> QED
      BY <1>3, <1>4, <3>2
  <2> QED
    BY <2>1, <2>2
<1>6. k <= s + m
  <2>1. CASE k <= s
    BY SMTT(30), <1>1, <1>4, <2>1
  <2>2. CASE ~(k <= s)
    <3> DEFINE j == k - s
    <3>1. j \in 1..Len(b) /\ s + j = k /\ j < i /\ k # 0 /\ j \in Nat
      BY SMTT(30), <1>1, <1>3, <1>4, <2>2
    <3> HIDE DEF j
    <3>2. j \in Ends(b)
      BY <1>1, <1>3, <3>1
    <3>3. j <= m
      BY <1>2, <3>1, <3>2
    <3> QED
      BY SMTT(30), <1>1, <1>4, <3>1, <3>3
  <2> QED
    BY <2>1, <2>2
<1>7. k = s + m
  BY SMTT(30), <1>1, <1>4, <1>5, <1>6
<1> QED
  BY <1>2, <1>7 DEF m, k

\* They are the same lines.
LEMMA ExcerptLine ==
    ASSUME NEW f \in Seq(Cell), NEW s, NEW b, Excerpt(f, s, b),
           NEW i \in 1..Len(b)
    PROVE  EventAt(b, i) = EventAt(f, s + i)
<1> DEFINE m == Before(b, i) + 1
<1>1. /\ s \in Nat /\ i \in Nat \ {0} /\ Len(b) \in Nat /\ Len(f) \in Nat
      /\ b \in Seq(Cell) /\ s + Len(b) <= Len(f)
      /\ \A j \in 1..Len(b) : b[j] = f[s + j]
  BY ExcerptEnds DEF Excerpt
<1>2. Before(f, s + i) = s + Before(b, i) /\ Before(b, i) \in 0..(i - 1)
  BY ExcerptBefore
<1>3. m \in 1..i /\ Before(f, s + i) + 1 = s + m
  BY SMTT(30), <1>1, <1>2
<1> HIDE DEF m
<1>4. b[m] = f[s + m]
  <2>1. m \in 1..Len(b)
    BY SMTT(30), <1>1, <1>3
  <2> QED
    BY <1>1, <2>1
<1>5. SubSeq(f, s + m, (s + i) - 1) = SubSeq(b, m, i - 1)
  <2>1. \A j \in m..(i - 1) : b[j] \in Cell
    BY SMTT(30), <1>1, <1>3
  <2>2. /\ SubSeq(b, m, i - 1) \in Seq(Cell)
        /\ Len(SubSeq(b, m, i - 1)) = i - m
        /\ \A j \in 1..(i - m) : SubSeq(b, m, i - 1)[j] = b[m + j - 1]
    BY SMTT(30), <1>1, <1>3, <2>1
  <2>3. \A j \in (s + m)..((s + i) - 1) : f[j] \in Cell
    BY SMTT(30), <1>1, <1>3
  <2>4. /\ SubSeq(f, s + m, (s + i) - 1) \in Seq(Cell)
        /\ Len(SubSeq(f, s + m, (s + i) - 1)) = i - m
        /\ \A j \in 1..(i - m) :
            SubSeq(f, s + m, (s + i) - 1)[j] = f[(s + m) + j - 1]
    BY SMTT(30), <1>1, <1>3, <2>3
  <2>5. \A j \in 1..(i - m) : f[(s + m) + j - 1] = b[m + j - 1]
    BY SMTT(30), <1>1, <1>3
  <2> QED
    <3> DEFINE p == SubSeq(f, s + m, (s + i) - 1)
               q == SubSeq(b, m, i - 1)
    <3>1. /\ p \in Seq(Cell) /\ q \in Seq(Cell) /\ Len(p) = Len(q)
          /\ \A j \in 1..Len(p) : p[j] = q[j]
      BY <2>2, <2>4, <2>5
    <3> HIDE DEF p, q
    <3>2. p = q
      BY <3>1, SameSeq
    <3> QED
      BY <3>2 DEF p, q
<1> QED
  BY <1>3, <1>4, <1>5, EventAtIs, Zenon DEF m

LEMMA ExcerptRows ==
    ASSUME NEW f \in Seq(Cell), NEW s, NEW b, Excerpt(f, s, b)
    PROVE  /\ s \in Nat /\ Len(b) \in Nat /\ Len(f) \in Nat
           /\ ValidEnds(b) \subseteq 1..Len(b)
           /\ \A i \in 1..Len(b) : i \in ValidEnds(b) <=> s + i \in ValidEnds(f)
<1>1. b \in Seq(Cell) /\ s \in Ends(f) \cup {0}
  BY DEF Excerpt
<1>2. /\ s \in Nat /\ Len(b) \in Nat /\ Len(f) \in Nat
  BY SMTT(30), <1>1, EndsBound
<1>3. ValidEnds(b) \subseteq 1..Len(b)
  BY <1>1, EndsBound DEF ValidEnds
<1>4. ASSUME NEW i \in 1..Len(b)
      PROVE  i \in ValidEnds(b) <=> s + i \in ValidEnds(f)
  <2>1. i \in Ends(b) <=> s + i \in Ends(f)
    BY ExcerptEnds
  <2>2. EventAt(b, i) = EventAt(f, s + i)
    BY SMTT(30), ExcerptLine
  <2> QED
    BY <2>1, <2>2 DEF ValidEnds
<1> QED
  BY <1>2, <1>3, <1>4

-----------------------------------------------------------------------------
(* A page.                                                                 *)

PageRow == [event : Events \cup {None}, cursor : Cursors]

Off(rows, n) == rows[n].cursor.offset

\* rows are the rows of f behind s, up to some row, in order.
Covers(f, s, rows) ==
    /\ rows \in Seq(PageRow)
    /\ \A n \in DOMAIN rows : /\ Off(rows, n) \in ValidEnds(f)
                              /\ s < Off(rows, n)
                              /\ rows[n].event = EventAt(f, Off(rows, n))
    /\ \A m, n \in DOMAIN rows : m < n => Off(rows, m) < Off(rows, n)
    /\ \A n \in DOMAIN rows : \A i \in ValidEnds(f) :
        s < i /\ i <= Off(rows, n) => \E m \in DOMAIN rows : Off(rows, m) = i

\* A scan that succeeds makes a page of the rows of what it read; every
\* cursor has the anchor that was found before.
GoodPage(f, s, anchor, cursor, page) ==
    /\ Covers(f, s, page.events)
    /\ \A n \in DOMAIN page.events : page.events[n].cursor.anchor = anchor
    /\ page.next = IF page.events = <<>> THEN cursor
                   ELSE page.events[Len(page.events)].cursor

\* The rows of a page as PageOf picks them.
Picked(b, limit) ==
    IF Len(InOrder(ValidEnds(b))) >= limit
    THEN SubSeq(InOrder(ValidEnds(b)), 1, limit) ELSE InOrder(ValidEnds(b))

PageRows(b, s, limit, anchor) ==
    [n \in 1..Len(Picked(b, limit)) |->
       [event |-> EventAt(b, Picked(b, limit)[n]),
        cursor |-> [anchor |-> anchor, offset |-> s + Picked(b, limit)[n]]]]

LEMMA PageOfIs ==
    ASSUME NEW b, NEW s, NEW limit, NEW anchor, NEW cursor, NEW page,
           page = PageOf(b, s, limit, anchor, cursor)
    PROVE  /\ page.status \in {"ok", "error"}
           /\ page.status = "ok" =>
                /\ page.events = PageRows(b, s, limit, anchor)
                /\ page.next = IF page.events = <<>> THEN cursor
                               ELSE page.events[Len(page.events)].cursor
<1> DEFINE valid == InOrder(ValidEnds(b))
           events == PageRows(b, s, limit, anchor)
           full == Len(valid) >= limit
           passed == {i \in Damaged(b) : full => i < valid[limit]}
           skipped == Cardinality(passed) + (IF ~full /\ Torn(b) THEN 1 ELSE 0)
           next == IF events = <<>> THEN cursor ELSE events[Len(events)].cursor
<1>1. page = IF skipped > MaxCorrupt THEN Failed("error")
             ELSE [status |-> "ok", events |-> events, skipped |-> skipped,
                   next |-> next]
  BY Zenon DEF PageOf, PageRows, Picked
<1> HIDE DEF skipped, next, events
<1>2. CASE skipped > MaxCorrupt
  BY SMTT(30), <1>1, <1>2 DEF Failed, NoPage
<1>3. CASE ~(skipped > MaxCorrupt)
  <2>1. page = [status |-> "ok", events |-> events, skipped |-> skipped,
                next |-> next]
    BY <1>1, <1>3
  <2>2. page.status = "ok" /\ page.events = events /\ page.next = next
    BY ONLY SMTT(30), <2>1
  <2> QED
    BY <2>2 DEF next, events
<1> QED
  BY <1>2, <1>3

LEMMA PageCovers ==
    ASSUME NEW f \in Seq(Cell), NEW s, NEW b, Excerpt(f, s, b),
           NEW limit \in Nat \ {0}, NEW anchor \in Events \cup {None},
           NEW cursor, NEW page, page = PageOf(b, s, limit, anchor, cursor)
    PROVE  /\ page.status \in {"ok", "error"}
           /\ page.status = "ok" => GoodPage(f, s, anchor, cursor, page)
<1> DEFINE valid == InOrder(ValidEnds(b))
           rows == Picked(b, limit)
           events == PageRows(b, s, limit, anchor)
<1>1. /\ page.status \in {"ok", "error"}
      /\ page.status = "ok" =>
           /\ page.events = events
           /\ page.next = IF page.events = <<>> THEN cursor
                          ELSE page.events[Len(page.events)].cursor
  BY SMTT(30), PageOfIs
<1>2. /\ s \in Nat /\ Len(b) \in Nat /\ Len(f) \in Nat
      /\ ValidEnds(b) \subseteq 1..Len(b)
      /\ \A i \in 1..Len(b) : i \in ValidEnds(b) <=> s + i \in ValidEnds(f)
  BY ExcerptRows
<1>3. /\ valid \in Seq(ValidEnds(b)) /\ Lists(valid, ValidEnds(b))
  BY <1>2, InOrderIs
<1>4. /\ \A m, n \in DOMAIN valid : m < n => valid[m] < valid[n]
      /\ \A i \in ValidEnds(b) : \E n \in DOMAIN valid : valid[n] = i
  BY <1>3, ListsIs
<1>5. /\ Len(valid) \in Nat /\ DOMAIN valid = 1..Len(valid)
      /\ \A n \in 1..Len(valid) : valid[n] \in ValidEnds(b)
  <2> HIDE DEF valid
  <2> QED
    BY ONLY SMTT(30), <1>3
<1>6. /\ Len(rows) \in Nat /\ Len(rows) <= Len(valid)
      /\ \A n \in 1..Len(rows) : rows[n] = valid[n] /\ n \in 1..Len(valid)
  <2>1. CASE Len(valid) >= limit
    <3>1. rows = SubSeq(valid, 1, limit)
      BY <2>1 DEF Picked
    <3> HIDE DEF valid, rows
    <3>2. /\ Len(SubSeq(valid, 1, limit)) = limit
          /\ \A n \in 1..limit : SubSeq(valid, 1, limit)[n] = valid[n]
      BY SMTT(30), <1>3, <1>5, <2>1
    <3> QED
      BY SMTT(30), <1>5, <2>1, <3>1, <3>2
  <2>2. CASE ~(Len(valid) >= limit)
    <3>1. rows = valid
      BY <2>2 DEF Picked
    <3> HIDE DEF valid, rows
    <3> QED
      BY SMTT(30), <1>5, <3>1
  <2> QED
    BY <2>1, <2>2
<1> HIDE DEF valid, rows
<1>7. ASSUME NEW n \in 1..Len(rows)
      PROVE  /\ rows[n] \in ValidEnds(b) /\ rows[n] \in 1..Len(b)
             /\ rows[n] \in Nat \ {0} /\ s + rows[n] \in ValidEnds(f)
             /\ s + rows[n] \in Nat /\ s < s + rows[n]
             /\ EventAt(b, rows[n]) = EventAt(f, s + rows[n])
  <2>1. rows[n] \in ValidEnds(b) /\ rows[n] \in 1..Len(b)
    BY <1>2, <1>5, <1>6
  <2>2. s + rows[n] \in ValidEnds(f)
    BY <1>2, <2>1
  <2>3. EventAt(b, rows[n]) = EventAt(f, s + rows[n])
    BY SMTT(30), <2>1, ExcerptLine
  <2>4. rows[n] \in Nat \ {0} /\ s + rows[n] \in Nat /\ s < s + rows[n]
    BY SMTT(30), <1>2, <2>1
  <2> QED
    BY <2>1, <2>2, <2>3, <2>4
<1>8. /\ events \in Seq(PageRow) /\ Len(events) = Len(rows)
      /\ DOMAIN events = 1..Len(rows)
  <2>1. ASSUME NEW n \in 1..Len(rows)
        PROVE  events[n] \in PageRow
    <3>1. EventAt(b, rows[n]) \in Events \cup {None}
      BY EventAtIs
    <3> QED
      BY SMTT(30), <1>7, <3>1 DEF PageRow, Cursors, PageRows, rows
  <2>2. events \in [1..Len(rows) -> PageRow]
    BY <2>1 DEF PageRows, rows
  <2> HIDE DEF events
  <2> QED
    BY SMTT(30), <1>6, <2>2
<1>9. \A n \in DOMAIN events : /\ events[n].event = EventAt(b, rows[n])
                               /\ events[n].cursor.anchor = anchor
                               /\ Off(events, n) = s + rows[n]
  BY SMTT(30), <1>8 DEF Off, PageRows, rows
<1> HIDE DEF events
<1>10. ASSUME NEW m \in DOMAIN events, NEW n \in DOMAIN events, m < n
       PROVE  Off(events, m) < Off(events, n)
  <2>1. rows[m] < rows[n]
    BY <1>4, <1>5, <1>6, <1>8, <1>10
  <2>2. rows[m] \in Nat /\ rows[n] \in Nat
    BY <1>7, <1>8
  <2>3. s + rows[m] < s + rows[n]
    BY SMTT(30), <1>2, <2>1, <2>2
  <2> QED
    BY <1>9, <2>3
<1>11. ASSUME NEW n \in DOMAIN events, NEW i \in ValidEnds(f), s < i,
              i <= Off(events, n)
       PROVE  \E m \in DOMAIN events : Off(events, m) = i
  <2> DEFINE j == i - s
  <2>1. n \in 1..Len(rows) /\ i <= s + rows[n] /\ rows[n] \in 1..Len(b)
    BY <1>7, <1>8, <1>9, <1>11
  <2>2. i \in Nat
    BY ValidEndsBound
  <2>3. j \in 1..Len(b) /\ j <= rows[n] /\ s + j = i
    BY SMTT(30), <1>2, <1>11, <2>1, <2>2
  <2> HIDE DEF j
  <2>4. j \in ValidEnds(b)
    BY <1>2, <2>3
  <2>5. PICK k \in DOMAIN valid : valid[k] = j
    BY <1>4, <2>4
  <2>6. ~(n < k)
    <3> SUFFICES ASSUME n < k PROVE FALSE
      OBVIOUS
    <3>1. valid[n] < valid[k] /\ valid[n] = rows[n]
      BY <1>4, <1>5, <1>6, <2>1, <2>5
    <3> QED
      BY SMTT(30), <2>1, <2>3, <2>5, <3>1
  <2>7. k \in 1..Len(rows)
    BY SMTT(30), <1>5, <1>6, <2>1, <2>5, <2>6
  <2>8. Off(events, k) = i
    BY <1>6, <1>8, <1>9, <2>3, <2>5, <2>7
  <2> QED
    BY <1>8, <2>7, <2>8
<1>12. Covers(f, s, events)
  <2>1. ASSUME NEW n \in DOMAIN events
        PROVE  /\ Off(events, n) \in ValidEnds(f) /\ s < Off(events, n)
               /\ events[n].event = EventAt(f, Off(events, n))
    BY <1>7, <1>8, <1>9
  <2> QED
    BY <1>8, <1>10, <1>11, <2>1 DEF Covers
<1>13. ASSUME page.status = "ok" PROVE GoodPage(f, s, anchor, cursor, page)
  <2>1. /\ page.events = events
        /\ page.next = IF page.events = <<>> THEN cursor
                       ELSE page.events[Len(page.events)].cursor
    BY <1>1, <1>13
  <2> QED
    BY <1>9, <1>12, <2>1 DEF GoodPage
<1> QED
  BY <1>1, <1>13

\* A file that grows keeps its rows below a row it had.
LEMMA RowsBelow ==
    ASSUME NEW f \in Seq(Cell), NEW g \in Seq(Cell), Grew(f, g),
           NEW y \in ValidEnds(f) \cup {0}, NEW i \in Nat, i <= y
    PROVE  /\ i \in ValidEnds(f) <=> i \in ValidEnds(g)
           /\ i \in ValidEnds(f) => EventAt(g, i) = EventAt(f, i)
<1>1. /\ \A j \in ValidEnds(f) : /\ j \in ValidEnds(g)
                                 /\ EventAt(g, j) = EventAt(f, j)
      /\ \A j \in ValidEnds(g) \ ValidEnds(f) : j > LastEnd(f)
  BY GrewKeeps
<1>2. y <= LastEnd(f) /\ LastEnd(f) \in Nat /\ y \in Nat
  <2>1. LastEnd(f) \in Nat
    BY SMTT(30), LastEndBound
  <2>2. CASE y = 0
    BY SMTT(30), <2>1, <2>2
  <2>3. CASE y \in ValidEnds(f)
    <3>1. y \in Ends(f) /\ y \in Nat
      BY <2>3, ValidEndsBound DEF ValidEnds
    <3> QED
      BY <2>1, <3>1, LastEndBound
  <2> QED
    BY <2>2, <2>3
<1>3. ~(i > LastEnd(f))
  BY SMTT(30), <1>2
<1> QED
  BY <1>1, <1>3

LEMMA CoversGrown ==
    ASSUME NEW f \in Seq(Cell), NEW g \in Seq(Cell), Grew(f, g), NEW s, NEW rows,
           Covers(f, s, rows)
    PROVE  Covers(g, s, rows)
<1> USE DEF Covers
<1>1. ASSUME NEW n \in DOMAIN rows
      PROVE  /\ Off(rows, n) \in ValidEnds(g) /\ s < Off(rows, n)
             /\ rows[n].event = EventAt(g, Off(rows, n))
  <2>1. /\ Off(rows, n) \in ValidEnds(f) /\ s < Off(rows, n)
        /\ rows[n].event = EventAt(f, Off(rows, n))
    OBVIOUS
  <2>2. \A i \in ValidEnds(f) : /\ i \in ValidEnds(g)
                                /\ EventAt(g, i) = EventAt(f, i)
    BY GrewKeeps
  <2> QED
    BY <2>1, <2>2
<1>2. ASSUME NEW n \in DOMAIN rows, NEW i \in ValidEnds(g), s < i,
             i <= Off(rows, n)
      PROVE  \E m \in DOMAIN rows : Off(rows, m) = i
  <2>1. i \in Nat
    BY ValidEndsBound
  <2>2. Off(rows, n) \in ValidEnds(f) \cup {0}
    OBVIOUS
  <2>3. i \in ValidEnds(f)
    BY <1>2, <2>1, <2>2, RowsBelow
  <2> QED
    BY <1>2, <2>3
<1> QED
  BY <1>1, <1>2

-----------------------------------------------------------------------------
(* The rows of the thread between two places of the file.                  *)

ThreadEnds(f, x, y) ==
    {i \in ValidEnds(f) : x < i /\ i <= y /\ EventAt(f, i) \in Thread}

Slice(f, rows, x, y) ==
    \E q \in Seq(ThreadEnds(f, x, y)) :
        /\ Lists(q, ThreadEnds(f, x, y))
        /\ rows \in Seq(Thread) /\ DOMAIN rows = DOMAIN q
        /\ \A n \in DOMAIN q : rows[n] = EventAt(f, q[n])

LEMMA SliceGrown ==
    ASSUME NEW f \in Seq(Cell), NEW g \in Seq(Cell), Grew(f, g),
           NEW rows, NEW x, NEW y \in ValidEnds(f) \cup {0}, Slice(f, rows, x, y)
    PROVE  Slice(g, rows, x, y)
<1>0. ValidEnds(f) \subseteq Nat /\ ValidEnds(g) \subseteq Nat
  BY ValidEndsBound
<1>1. ASSUME NEW i \in Nat, i <= y
      PROVE  /\ i \in ValidEnds(f) <=> i \in ValidEnds(g)
             /\ i \in ValidEnds(f) => EventAt(g, i) = EventAt(f, i)
  BY <1>1, RowsBelow
<1>2. ThreadEnds(g, x, y) = ThreadEnds(f, x, y)
  BY <1>0, <1>1 DEF ThreadEnds
<1>3. PICK q \in Seq(ThreadEnds(f, x, y)) :
        /\ Lists(q, ThreadEnds(f, x, y))
        /\ rows \in Seq(Thread) /\ DOMAIN rows = DOMAIN q
        /\ \A n \in DOMAIN q : rows[n] = EventAt(f, q[n])
  BY DEF Slice
<1>4. \A n \in DOMAIN q : q[n] \in ThreadEnds(f, x, y)
  BY ONLY SMTT(30), q \in Seq(ThreadEnds(f, x, y))
<1>5. \A n \in DOMAIN q : q[n] \in ValidEnds(f) /\ q[n] \in Nat /\ q[n] <= y
  BY <1>0, <1>4 DEF ThreadEnds
<1>6. \A n \in DOMAIN q : rows[n] = EventAt(g, q[n])
  BY <1>1, <1>3, <1>5
<1> QED
  BY <1>2, <1>3, <1>6 DEF Slice

LEMMA SliceEmpty ==
    ASSUME NEW f \in Seq(Cell), NEW x \in Nat
    PROVE  Slice(f, <<>>, x, x)
<1>1. ThreadEnds(f, x, x) = {}
  <2>1. \A i \in Nat : ~(x < i /\ i <= x)
    BY SMTT(30)
  <2> QED
    BY <2>1, ValidEndsBound DEF ThreadEnds
<1>2. /\ <<>> \in Seq(ThreadEnds(f, x, x)) /\ <<>> \in Seq(Thread)
      /\ DOMAIN <<>> = {}
  BY SMTT(30)
<1>3. Lists(<<>>, {})
  BY <1>2 DEF Lists
<1> QED
  BY <1>1, <1>2, <1>3 DEF Slice

LEMMA IntervalEq ==
    ASSUME NEW m \in Nat, NEW n \in Nat, 1..m = 1..n
    PROVE  m = n
<1>1. \A i \in Nat : i \in 1..m <=> i \in 1..n
  OBVIOUS
<1>2. m \in 1..m \/ m = 0
  BY SMTT(30)
<1>3. n \in 1..n \/ n = 0
  BY SMTT(30)
<1>4. (m = 0 \/ (1 <= m /\ m <= n)) /\ (n = 0 \/ (1 <= n /\ n <= m))
  BY SMTT(30), <1>1, <1>2, <1>3
<1> QED
  BY ONLY SMTT(30), <1>4, m \in Nat, n \in Nat

\* Lists of smaller and of greater numbers.
LEMMA ListConcat ==
    ASSUME NEW S, S \subseteq Nat, NEW T, T \subseteq Nat,
           \A i \in S, j \in T : i < j,
           NEW p \in Seq(S), Lists(p, S), NEW r \in Seq(T), Lists(r, T)
    PROVE  p \o r \in Seq(S \cup T) /\ Lists(p \o r, S \cup T)
<1> DEFINE q == p \o r
           k == Len(p)
<1>1. /\ \A m, n \in DOMAIN p : m < n => p[m] < p[n]
      /\ \A i \in S : \E n \in DOMAIN p : p[n] = i
  BY ListsIs
<1>2. /\ \A m, n \in DOMAIN r : m < n => r[m] < r[n]
      /\ \A i \in T : \E n \in DOMAIN r : r[n] = i
  BY ListsIs
<1>3. /\ k \in Nat /\ Len(r) \in Nat /\ DOMAIN p = 1..k /\ DOMAIN r = 1..Len(r)
      /\ \A n \in 1..k : p[n] \in S
      /\ \A n \in 1..Len(r) : r[n] \in T
  BY ONLY SMTT(30), p \in Seq(S), r \in Seq(T)
<1>4. /\ q \in Seq(S \cup T) /\ Len(q) = k + Len(r)
      /\ DOMAIN q = 1..(k + Len(r))
      /\ \A n \in 1..k : q[n] = p[n]
      /\ \A n \in 1..Len(r) : q[k + n] = r[n]
  <2>1. p \in Seq(S \cup T) /\ r \in Seq(S \cup T)
    BY ONLY SMTT(30), p \in Seq(S), r \in Seq(T)
  <2> QED
    BY ONLY SMTT(30), <2>1
<1> HIDE DEF q, k
<1>5. \A n \in DOMAIN q : \/ n \in 1..k
                          \/ n - k \in 1..Len(r) /\ n = k + (n - k)
  BY SMTT(30), <1>3, <1>4
<1>6. ASSUME NEW m \in DOMAIN q, NEW n \in DOMAIN q, m < n
      PROVE  q[m] < q[n]
  <2>1. CASE n \in 1..k
    <3>1. m \in 1..k
      BY SMTT(30), <1>3, <1>4, <1>6, <2>1
    <3> QED
      BY <1>1, <1>3, <1>4, <1>6, <2>1, <3>1
  <2>2. CASE m \in 1..k /\ n \notin 1..k
    <3>1. n - k \in 1..Len(r) /\ n = k + (n - k)
      BY <1>5, <2>2
    <3>2. q[n] = r[n - k]
      BY <1>4, <3>1
    <3>3. q[m] \in S /\ r[n - k] \in T
      BY <1>3, <1>4, <2>2, <3>1
    <3> QED
      BY <3>2, <3>3
  <2>3. CASE m \notin 1..k /\ n \notin 1..k
    <3>1. /\ n - k \in 1..Len(r) /\ n = k + (n - k)
          /\ m - k \in 1..Len(r) /\ m = k + (m - k)
      BY <1>5, <2>3
    <3>2. q[n] = r[n - k] /\ q[m] = r[m - k]
      BY <1>4, <3>1
    <3>3. m - k < n - k
      BY SMTT(30), <1>3, <1>4, <1>6
    <3>4. r[m - k] < r[n - k]
      BY <1>2, <1>3, <3>1, <3>3
    <3> QED
      BY <3>2, <3>4
  <2> QED
    <3>1. n \notin 1..k => m \in 1..k \/ m \notin 1..k
      OBVIOUS
    <3> QED
      BY <2>1, <2>2, <2>3
<1>7. ASSUME NEW i \in S \cup T PROVE \E n \in DOMAIN q : q[n] = i
  <2>1. CASE i \in S
    <3>1. PICK n \in 1..k : p[n] = i
      BY <1>1, <1>3, <2>1
    <3>2. n \in DOMAIN q
      BY SMTT(30), <1>3, <1>4
    <3> QED
      BY <1>4, <3>1, <3>2
  <2>2. CASE i \in T
    <3>1. PICK n \in 1..Len(r) : r[n] = i
      BY <1>2, <1>3, <2>2
    <3>2. k + n \in DOMAIN q
      BY SMTT(30), <1>3, <1>4
    <3> QED
      BY <1>4, <3>1, <3>2
  <2> QED
    BY <2>1, <2>2
<1>8. Lists(q, S \cup T)
  BY <1>4, <1>6, <1>7, ListsIs
<1> QED
  BY <1>4, <1>8 DEF q

\* Two stretches that meet are one.
LEMMA SliceConcat ==
    ASSUME NEW f \in Seq(Cell), NEW x \in Nat, NEW y \in Nat, NEW z \in Nat,
           x <= y, y <= z, NEW a, NEW b, Slice(f, a, x, y), Slice(f, b, y, z)
    PROVE  Slice(f, a \o b, x, z)
<1> DEFINE S == ThreadEnds(f, x, y)
           T == ThreadEnds(f, y, z)
<1>1. PICK p \in Seq(S) : /\ Lists(p, S)
                          /\ a \in Seq(Thread) /\ DOMAIN a = DOMAIN p
                          /\ \A n \in DOMAIN p : a[n] = EventAt(f, p[n])
  BY DEF Slice
<1>2. PICK r \in Seq(T) : /\ Lists(r, T)
                          /\ b \in Seq(Thread) /\ DOMAIN b = DOMAIN r
                          /\ \A n \in DOMAIN r : b[n] = EventAt(f, r[n])
  BY DEF Slice
<1>3. S \subseteq Nat /\ T \subseteq Nat
  BY ValidEndsBound DEF ThreadEnds
<1>4. \A i \in S, j \in T : i < j
  <2>1. (\A i \in S : i <= y) /\ (\A j \in T : y < j)
    BY DEF ThreadEnds
  <2> HIDE DEF S, T
  <2> QED
    BY SMTT(30), <1>3, <2>1
<1>5. S \cup T = ThreadEnds(f, x, z)
  <2>1. \A i \in Nat : /\ x < i /\ i <= z => i <= y \/ y < i
                       /\ i <= y => i <= z
                       /\ y < i => x < i
    BY SMTT(30)
  <2>2. \A i \in ValidEnds(f) : i \in Nat
    BY ValidEndsBound
  <2> QED
    BY <2>1, <2>2 DEF ThreadEnds
<1> HIDE DEF S, T
<1>6. p \o r \in Seq(S \cup T) /\ Lists(p \o r, S \cup T)
  BY <1>1, <1>2, <1>3, <1>4, ListConcat
<1>7. /\ a \o b \in Seq(Thread) /\ DOMAIN (a \o b) = DOMAIN (p \o r)
      /\ \A n \in DOMAIN (p \o r) : (a \o b)[n] = EventAt(f, (p \o r)[n])
  <2>1. /\ DOMAIN p = 1..Len(p) /\ DOMAIN r = 1..Len(r)
        /\ Len(p) \in Nat /\ Len(r) \in Nat
        /\ DOMAIN (p \o r) = 1..(Len(p) + Len(r))
        /\ \A n \in 1..Len(p) : (p \o r)[n] = p[n]
        /\ \A n \in 1..Len(r) : (p \o r)[Len(p) + n] = r[n]
    BY ONLY SMTT(30), p \in Seq(S), r \in Seq(T)
  <2>2. /\ DOMAIN a = 1..Len(a) /\ DOMAIN b = 1..Len(b)
        /\ Len(a) \in Nat /\ Len(b) \in Nat /\ a \o b \in Seq(Thread)
        /\ DOMAIN (a \o b) = 1..(Len(a) + Len(b))
        /\ \A n \in 1..Len(a) : (a \o b)[n] = a[n]
        /\ \A n \in 1..Len(b) : (a \o b)[Len(a) + n] = b[n]
    <3>1. a \in Seq(Thread) /\ b \in Seq(Thread)
      BY <1>1, <1>2
    <3> QED
      BY ONLY SMTT(30), <3>1
  <2>3. Len(a) = Len(p) /\ Len(b) = Len(r)
    <3>1. 1..Len(a) = 1..Len(p) /\ 1..Len(b) = 1..Len(r)
      BY <1>1, <1>2, <2>1, <2>2
    <3> QED
      BY <2>1, <2>2, <3>1, IntervalEq
  <2>4. ASSUME NEW n \in 1..(Len(p) + Len(r))
        PROVE  (a \o b)[n] = EventAt(f, (p \o r)[n])
    <3>1. CASE n \in 1..Len(p)
      BY <1>1, <2>1, <2>2, <2>3, <3>1
    <3>2. CASE n \notin 1..Len(p)
      <4> DEFINE m == n - Len(p)
      <4>1. m \in 1..Len(r) /\ n = Len(p) + m
        BY SMTT(30), <2>1, <2>4, <3>2
      <4> HIDE DEF m
      <4> QED
        BY <1>2, <2>1, <2>2, <2>3, <4>1
    <3> QED
      BY <3>1, <3>2
  <2> QED
    BY <2>1, <2>2, <2>3, <2>4
<1> QED
  BY <1>5, <1>6, <1>7 DEF Slice

\* What lies between the start and y is what the log says up to y.
LEMMA SliceLog ==
    ASSUME NEW f \in Seq(Cell), NEW rows, NEW y \in Nat, Slice(f, rows, 0, y)
    PROVE  rows = EventsAt(f, {i \in ValidEnds(f) : /\ i <= y
                                                    /\ EventAt(f, i) \in Thread})
<1> DEFINE S == {i \in ValidEnds(f) : i <= y /\ EventAt(f, i) \in Thread}
<1>1. /\ Len(f) \in Nat
      /\ \A i \in ValidEnds(f) : i \in 1..Len(f) /\ i \in Nat /\ 0 < i
  <2>1. ValidEnds(f) \subseteq 1..Len(f) /\ Len(f) \in Nat
    <3>1. Len(f) \in Nat /\ DOMAIN f = 1..Len(f)
      BY ONLY SMTT(30), f \in Seq(Cell)
    <3> QED
      BY <3>1 DEF ValidEnds, Ends
  <2> QED
    BY SMTT(30), <2>1
<1>2. S = ThreadEnds(f, 0, y) /\ S \subseteq 1..Len(f) /\ S \subseteq Nat
  BY <1>1 DEF ThreadEnds
<1> HIDE DEF S
<1>3. PICK q \in Seq(S) : /\ Lists(q, S)
                          /\ rows \in Seq(Thread) /\ DOMAIN rows = DOMAIN q
                          /\ \A n \in DOMAIN q : rows[n] = EventAt(f, q[n])
  BY <1>2 DEF Slice
<1>4. /\ InOrder(S) \in Seq(S) /\ Lists(InOrder(S), S)
      /\ DOMAIN InOrder(S) = 1..Cardinality(S)
  BY <1>1, <1>2, InOrderIs
<1>5. q = InOrder(S)
  BY <1>2, <1>3, <1>4, ListUnique
<1>6. rows = [n \in DOMAIN rows |-> rows[n]]
  BY <1>3, SMTT(30)
<1>7. rows = EventsAt(f, S)
  BY <1>3, <1>4, <1>5, <1>6 DEF EventsAt
<1> QED
  BY <1>7 DEF S

\* The first k rows of the thread on a page that holds every row up to y.
Taken(rows, M, k) == [j \in 1..k |-> rows[M[j]].event]

OfThread(rows) == {n \in DOMAIN rows : rows[n].event \in Thread}

LEMMA SliceTaken ==
    ASSUME NEW f \in Seq(Cell), NEW s \in Nat, NEW rows, Covers(f, s, rows),
           NEW M \in Seq(OfThread(rows)), Lists(M, OfThread(rows)),
           NEW k \in 0..Len(M), NEW y \in Nat,
           \A n \in OfThread(rows) :
               Off(rows, n) <= y <=> \E j \in 1..k : M[j] = n,
           \A i \in ValidEnds(f) :
               s < i /\ i <= y => \E n \in DOMAIN rows : Off(rows, n) = i
    PROVE  Slice(f, Taken(rows, M, k), s, y)
<1> DEFINE q == [j \in 1..k |-> Off(rows, M[j])]
           S == ThreadEnds(f, s, y)
           a == Taken(rows, M, k)
<1>1. /\ k \in Nat /\ DOMAIN M = 1..Len(M) /\ Len(M) \in Nat
      /\ \A j \in 1..k : j \in DOMAIN M /\ M[j] \in OfThread(rows)
      /\ \A j \in 1..k : j \in Nat
  BY ONLY SMTT(30), M \in Seq(OfThread(rows)), k \in 0..Len(M)
<1>2. /\ rows \in Seq(PageRow)
      /\ \A n \in DOMAIN rows : /\ Off(rows, n) \in ValidEnds(f)
                                /\ s < Off(rows, n)
                                /\ rows[n].event = EventAt(f, Off(rows, n))
      /\ \A m, n \in DOMAIN rows : m < n => Off(rows, m) < Off(rows, n)
  BY DEF Covers
<1>3. \A n \in OfThread(rows) : n \in DOMAIN rows /\ rows[n].event \in Thread
  BY DEF OfThread
<1>4. ASSUME NEW j \in 1..k
      PROVE  /\ q[j] = Off(rows, M[j]) /\ q[j] \in S
             /\ a[j] = EventAt(f, q[j]) /\ a[j] \in Thread
  <2>1. M[j] \in OfThread(rows) /\ M[j] \in DOMAIN rows
    BY <1>1, <1>3
  <2>2. Off(rows, M[j]) <= y
    BY <2>1
  <2> QED
    BY <1>2, <1>3, <2>1, <2>2 DEF ThreadEnds, Taken
<1>5. /\ q \in Seq(S) /\ DOMAIN q = 1..k /\ a \in Seq(Thread) /\ DOMAIN a = 1..k
  <2>1. q \in [1..k -> S]
    BY <1>4
  <2>2. a \in [1..k -> Thread]
    BY <1>4 DEF Taken
  <2> HIDE DEF q, a, S
  <2> QED
    BY ONLY SMTT(30), <1>1, <2>1, <2>2
<1>6. ASSUME NEW m \in 1..k, NEW n \in 1..k, m < n PROVE q[m] < q[n]
  <2>1. M[m] < M[n]
    BY <1>1, <1>6, ListsIs
  <2>2. M[m] \in DOMAIN rows /\ M[n] \in DOMAIN rows
    BY <1>1, <1>3
  <2> QED
    BY <1>2, <1>4, <2>1, <2>2
<1>7. ASSUME NEW i \in S PROVE \E j \in 1..k : q[j] = i
  <2>1. i \in ValidEnds(f) /\ s < i /\ i <= y /\ EventAt(f, i) \in Thread
    BY DEF ThreadEnds
  <2>2. PICK n \in DOMAIN rows : Off(rows, n) = i
    BY <2>1
  <2>3. n \in OfThread(rows)
    BY <1>2, <2>1, <2>2 DEF OfThread
  <2>4. PICK j \in 1..k : M[j] = n
    BY <2>1, <2>2, <2>3
  <2> QED
    BY <1>4, <2>2, <2>4
<1>8. \A j \in 1..k : a[j] = EventAt(f, q[j])
  BY <1>4
<1> HIDE DEF q, S, a
<1>9. Lists(q, S)
  BY <1>5, <1>6, <1>7, ListsIs
<1>10. Slice(f, a, s, y)
  BY <1>5, <1>8, <1>9 DEF Slice, S
<1> QED
  BY <1>10 DEF a

\* A page that ends at its k-th row of the thread, and a whole page.
LEMMA PageMatches ==
    ASSUME NEW f \in Seq(Cell), NEW s, NEW rows, Covers(f, s, rows),
           NEW M, M = InOrder(OfThread(rows))
    PROVE  /\ M \in Seq(OfThread(rows)) /\ Lists(M, OfThread(rows))
           /\ Len(M) \in Nat /\ DOMAIN M = 1..Len(M)
           /\ Len(rows) \in Nat /\ DOMAIN rows = 1..Len(rows)
           /\ \A n \in DOMAIN rows : Off(rows, n) \in Nat
<1>1. /\ rows \in Seq(PageRow)
      /\ \A n \in DOMAIN rows : Off(rows, n) \in ValidEnds(f)
  BY DEF Covers
<1>2. Len(rows) \in Nat /\ DOMAIN rows = 1..Len(rows)
  BY ONLY SMTT(30), <1>1
<1>3. OfThread(rows) \subseteq 1..Len(rows)
  BY <1>2 DEF OfThread
<1>4. M \in Seq(OfThread(rows)) /\ Lists(M, OfThread(rows))
  BY <1>2, <1>3, InOrderIs
<1>5. Len(M) \in Nat /\ DOMAIN M = 1..Len(M)
  BY ONLY SMTT(30), <1>4
<1>6. \A n \in DOMAIN rows : Off(rows, n) \in Nat
  BY <1>1, ValidEndsBound
<1> QED
  BY <1>2, <1>4, <1>5, <1>6

LEMMA SliceLimit ==
    ASSUME NEW f \in Seq(Cell), NEW s \in Nat, NEW rows, Covers(f, s, rows),
           NEW M, M = InOrder(OfThread(rows)), NEW k \in 1..Len(M)
    PROVE  /\ M[k] \in DOMAIN rows
           /\ Slice(f, Taken(rows, M, k), s, Off(rows, M[k]))
<1>1. /\ M \in Seq(OfThread(rows)) /\ Lists(M, OfThread(rows))
      /\ Len(M) \in Nat /\ DOMAIN M = 1..Len(M)
      /\ Len(rows) \in Nat /\ DOMAIN rows = 1..Len(rows)
      /\ \A n \in DOMAIN rows : Off(rows, n) \in Nat
  BY PageMatches
<1>2. /\ \A m, n \in DOMAIN rows : m < n => Off(rows, m) < Off(rows, n)
      /\ \A n \in DOMAIN rows : \A i \in ValidEnds(f) :
           s < i /\ i <= Off(rows, n) => \E m \in DOMAIN rows : Off(rows, m) = i
  BY DEF Covers
<1>3. /\ \A j \in DOMAIN M : M[j] \in OfThread(rows)
      /\ \A m, n \in DOMAIN M : m < n => M[m] < M[n]
      /\ \A i \in OfThread(rows) : \E n \in DOMAIN M : M[n] = i
  <2>1. \A j \in DOMAIN M : M[j] \in OfThread(rows)
    BY ONLY SMTT(30), <1>1
  <2> QED
    BY <1>1, <2>1, ListsIs
<1>4. \A n \in OfThread(rows) : n \in DOMAIN rows
  BY DEF OfThread
<1>5. M[k] \in DOMAIN rows /\ Off(rows, M[k]) \in Nat
  BY <1>1, <1>3, <1>4
<1>6. ASSUME NEW n \in OfThread(rows)
      PROVE  Off(rows, n) <= Off(rows, M[k]) <=> \E j \in 1..k : M[j] = n
  <2>1. PICK j \in DOMAIN M : M[j] = n
    BY <1>3
  <2>2. /\ j \in Nat /\ k \in Nat /\ j \in 1..Len(M)
    BY SMTT(30), <1>1
  <2>3. CASE j < k
    <3>1. M[j] < M[k]
      BY <1>1, <1>3, <2>2, <2>3
    <3>2. Off(rows, M[j]) < Off(rows, M[k])
      BY <1>2, <1>4, <1>5, <2>1, <3>1
    <3>3. j \in 1..k
      BY SMTT(30), <2>2, <2>3
    <3>4. Off(rows, n) <= Off(rows, M[k])
      <4>1. Off(rows, n) \in Nat /\ Off(rows, n) < Off(rows, M[k])
        BY <1>1, <1>4, <2>1, <3>2
      <4> QED
        BY SMTT(30), <4>1, <1>5
    <3> QED
      BY <2>1, <3>3, <3>4
  <2>4. CASE j = k
    <3>1. j \in 1..k
      BY SMTT(30), <2>2, <2>4
    <3>2. Off(rows, n) <= Off(rows, M[k])
      BY SMTT(30), <1>5, <2>1, <2>4
    <3> QED
      BY <2>1, <3>1, <3>2
  <2>5. CASE k < j
    <3>1. M[k] < M[j]
      BY <1>1, <1>3, <2>2, <2>5
    <3>2. Off(rows, M[k]) < Off(rows, M[j])
      BY <1>2, <1>4, <1>5, <2>1, <3>1
    <3>3. ~(Off(rows, n) <= Off(rows, M[k]))
      <4>1. Off(rows, n) \in Nat /\ Off(rows, M[k]) < Off(rows, n)
        BY <1>1, <1>4, <2>1, <3>2
      <4> QED
        BY SMTT(30), <4>1, <1>5
    <3>4. ASSUME NEW i \in 1..k, M[i] = n PROVE FALSE
      <4>1. i \in DOMAIN M /\ i < j
        BY SMTT(30), <1>1, <2>2, <2>5
      <4>2. M[i] < M[j] /\ M[j] \in Nat
        <5>1. M[i] < M[j]
          BY <1>3, <4>1
        <5>2. M[j] \in DOMAIN rows
          BY <1>4, <2>1
        <5> QED
          BY SMTT(30), <1>1, <5>1, <5>2
      <4> QED
        BY SMTT(30), <2>1, <3>4, <4>2
    <3> QED
      BY <3>3, <3>4
  <2> QED
    BY SMTT(30), <2>2, <2>3, <2>4, <2>5
<1>7. k \in 0..Len(M)
  BY SMTT(30), <1>1
<1>8. \A i \in ValidEnds(f) : s < i /\ i <= Off(rows, M[k]) =>
           \E n \in DOMAIN rows : Off(rows, n) = i
  BY <1>2, <1>5
<1> QED
  BY <1>1, <1>5, <1>6, <1>7, <1>8, SliceTaken

LEMMA SliceWhole ==
    ASSUME NEW f \in Seq(Cell), NEW s \in Nat, NEW rows, Covers(f, s, rows),
           NEW M, M = InOrder(OfThread(rows)), rows # <<>>
    PROVE  /\ Len(rows) \in DOMAIN rows
           /\ Slice(f, Taken(rows, M, Len(M)), s, Off(rows, Len(rows)))
<1>1. /\ M \in Seq(OfThread(rows)) /\ Lists(M, OfThread(rows))
      /\ Len(M) \in Nat /\ DOMAIN M = 1..Len(M)
      /\ Len(rows) \in Nat /\ DOMAIN rows = 1..Len(rows)
      /\ \A n \in DOMAIN rows : Off(rows, n) \in Nat
  BY PageMatches
<1>2. /\ \A m, n \in DOMAIN rows : m < n => Off(rows, m) < Off(rows, n)
      /\ \A n \in DOMAIN rows : \A i \in ValidEnds(f) :
           s < i /\ i <= Off(rows, n) => \E m \in DOMAIN rows : Off(rows, m) = i
      /\ rows \in Seq(PageRow)
  BY DEF Covers
<1>3. Len(rows) \in DOMAIN rows /\ Off(rows, Len(rows)) \in Nat
  <2>1. Len(rows) \in DOMAIN rows
    BY SMTT(30), <1>1, <1>2
  <2> QED
    BY <1>1, <2>1
<1>4. ASSUME NEW n \in DOMAIN rows PROVE Off(rows, n) <= Off(rows, Len(rows))
  <2>1. n = Len(rows) \/ n < Len(rows)
    BY SMTT(30), <1>1
  <2>2. CASE n < Len(rows)
    <3>1. Off(rows, n) < Off(rows, Len(rows)) /\ Off(rows, n) \in Nat
      BY <1>1, <1>2, <1>3, <2>2
    <3> QED
      BY SMTT(30), <1>3, <3>1
  <2>3. CASE n = Len(rows)
    BY SMTT(30), <1>3, <2>3
  <2> QED
    BY <2>1, <2>2, <2>3
<1>5. \A n \in OfThread(rows) : Off(rows, n) <= Off(rows, Len(rows))
  BY <1>4 DEF OfThread
<1>6. \A n \in OfThread(rows) : \E j \in 1..Len(M) : M[j] = n
  <2>1. \A n \in OfThread(rows) : \E j \in DOMAIN M : M[j] = n
    BY <1>1, ListsIs
  <2> QED
    BY <1>1, <2>1
<1>7. Len(M) \in 0..Len(M)
  BY SMTT(30), <1>1
<1>8. \A i \in ValidEnds(f) : s < i /\ i <= Off(rows, Len(rows)) =>
           \E n \in DOMAIN rows : Off(rows, n) = i
  BY <1>2, <1>3
<1> QED
  BY <1>1, <1>3, <1>5, <1>6, <1>7, <1>8, SliceTaken

-----------------------------------------------------------------------------
(* A client's call, its place in the file and the page it reads.           *)

ClientFields == {"at", "limit", "collected", "cursor", "got"}

ClientShape(c) == c = [x \in ClientFields |-> c[x]]

\* z can be resumed from.
Resumes(f, z) ==
    z # None => /\ z \in Cursors
                /\ z.offset \in ValidEnds(f)
                /\ z.anchor = Anchor(f)

\* What a client holds between calls, and the room a call has left.
Holds(f, c) ==
    /\ Resumes(f, c.cursor)
    /\ Slice(f, c.got, 0, StartOf(c.cursor))
    /\ c.at = "idle" => c.collected = <<>>
    /\ c.at = "reading" => c.limit \in Nat /\ Len(c.collected) < c.limit

\* The call has collected the rows between the client's cursor and z.
Collected(f, c, z) ==
    /\ Resumes(f, z)
    /\ StartOf(c.cursor) <= StartOf(z)
    /\ Slice(f, c.collected, StartOf(c.cursor), StartOf(z))

\* What the call has read of its page.
Reads(f, c, d) ==
    /\ d.at \in Reading => d.limit = PageSize /\ Collected(f, c, d.cursor)
    /\ d.at \in Anchored => /\ d.anchor \in Events \cup {None}
                            /\ d.cursor # None => d.anchor = d.cursor.anchor
    /\ d.at \in {"anchor", "page", "scan"} =>
           d.length \in Nat /\ StartOf(d.cursor) <= d.length
    /\ d.at = "scan" => Excerpt(f, StartOf(d.cursor), d.buf)
    /\ d.at = "verify" =>
           /\ d.page.status \in {"ok", "error"}
           /\ d.page.status = "ok" =>
                GoodPage(f, StartOf(d.cursor), d.anchor, d.cursor, d.page)
    /\ d.at = "done" =>
           /\ d.page.status \in {"ok", "error"}
           /\ d.page.status = "ok" =>
                \E z \in Cursors \cup {None} :
                    /\ Collected(f, c, z)
                    /\ GoodPage(f, StartOf(z), Anchor(f), z, d.page)

PollInv ==
    /\ client = [r \in Readers |-> client[r]]
    /\ \A r \in Readers : /\ ClientShape(client[r])
                          /\ Holds(file, client[r])
                          /\ Reads(file, client[r], reader[r])

\* No tail is cut while a scan is between two of its reads of the file.
Undisturbed ==
    \A r \in Readers : reader[r].at = "scan" /\ reader[r].buf # <<>> =>
                           Len(file') >= Len(file)

\* g continues f.
Continues(f, g) ==
    /\ Len(f) <= Len(g)
    /\ \A j \in 1..Len(f) : g[j] = f[j]

\* Where a cursor that can be resumed from stands.
LEMMA ResumesAt ==
    ASSUME NEW f \in Seq(Cell), NEW z, Resumes(f, z)
    PROVE  /\ StartOf(z) \in ValidEnds(f) \cup {0} /\ StartOf(z) \in Nat
           /\ StartOf(z) \in Ends(f) \cup {0}
           /\ Len(f) \in Nat /\ StartOf(z) <= Len(f)
<1>1. StartOf(z) \in ValidEnds(f) \cup {0}
  BY DEF Resumes, StartOf
<1>2. ValidEnds(f) \subseteq Ends(f)
  BY DEF ValidEnds
<1>3. Ends(f) \subseteq 1..Len(f) /\ Len(f) \in Nat
  <2>1. Len(f) \in Nat /\ DOMAIN f = 1..Len(f)
    BY ONLY SMTT(30), f \in Seq(Cell)
  <2> QED
    BY <2>1 DEF Ends
<1>4. StartOf(z) \in Ends(f) \cup {0}
  BY <1>1, <1>2
<1>5. StartOf(z) \in Nat /\ StartOf(z) <= Len(f)
  BY SMTT(30), <1>3, <1>4
<1> QED
  BY <1>1, <1>3, <1>4, <1>5

LEMMA ResumesGrown ==
    ASSUME NEW f \in Seq(Cell), NEW g \in Seq(Cell), Grew(f, g), NEW z,
           Resumes(f, z)
    PROVE  Resumes(g, z)
<1> SUFFICES ASSUME z # None
             PROVE  /\ z \in Cursors /\ z.offset \in ValidEnds(g)
                    /\ z.anchor = Anchor(g)
  BY DEF Resumes
<1>1. z \in Cursors /\ z.offset \in ValidEnds(f) /\ z.anchor = Anchor(f)
  BY DEF Resumes
<1>2. Anchor(f) # None
  BY <1>1, ValidEndsBound
<1>3. z.offset \in ValidEnds(g) /\ Anchor(g) = Anchor(f)
  BY <1>1, <1>2, GrewKeeps
<1> QED
  BY <1>1, <1>3

LEMMA HoldsGrown ==
    ASSUME NEW f \in Seq(Cell), NEW g \in Seq(Cell), Grew(f, g), NEW c,
           Holds(f, c)
    PROVE  Holds(g, c)
<1>1. Resumes(f, c.cursor) /\ Slice(f, c.got, 0, StartOf(c.cursor))
  BY DEF Holds
<1>2. Resumes(g, c.cursor) /\ StartOf(c.cursor) \in ValidEnds(f) \cup {0}
  BY <1>1, ResumesGrown, ResumesAt
<1>3. Slice(g, c.got, 0, StartOf(c.cursor))
  BY <1>1, <1>2, SliceGrown
<1> QED
  BY <1>2, <1>3 DEF Holds

LEMMA CollectedGrown ==
    ASSUME NEW f \in Seq(Cell), NEW g \in Seq(Cell), Grew(f, g), NEW c, NEW z,
           Collected(f, c, z)
    PROVE  Collected(g, c, z)
<1>1. /\ Resumes(f, z) /\ StartOf(c.cursor) <= StartOf(z)
      /\ Slice(f, c.collected, StartOf(c.cursor), StartOf(z))
  BY DEF Collected
<1>2. Resumes(g, z) /\ StartOf(z) \in ValidEnds(f) \cup {0}
  BY <1>1, ResumesGrown, ResumesAt
<1>3. Slice(g, c.collected, StartOf(c.cursor), StartOf(z))
  BY <1>1, <1>2, SliceGrown
<1> QED
  BY <1>1, <1>2, <1>3 DEF Collected

\* A page with rows has the anchor that the stream keeps.
LEMMA GoodPageGrown ==
    ASSUME NEW f \in Seq(Cell), NEW g \in Seq(Cell), Grew(f, g), NEW s,
           NEW anchor, NEW z, NEW page, GoodPage(f, s, anchor, z, page)
    PROVE  /\ GoodPage(g, s, anchor, z, page)
           /\ anchor = Anchor(f) => GoodPage(g, s, Anchor(g), z, page)
<1>1. /\ Covers(f, s, page.events)
      /\ \A n \in DOMAIN page.events : page.events[n].cursor.anchor = anchor
      /\ page.next = IF page.events = <<>> THEN z
                     ELSE page.events[Len(page.events)].cursor
  BY DEF GoodPage
<1>2. Covers(g, s, page.events)
  BY <1>1, CoversGrown
<1>3. ASSUME anchor = Anchor(f), NEW n \in DOMAIN page.events
      PROVE  page.events[n].cursor.anchor = Anchor(g)
  <2>1. Off(page.events, n) \in ValidEnds(f)
    BY <1>1 DEF Covers
  <2>2. Anchor(f) # None
    BY <2>1, ValidEndsBound
  <2> QED
    BY <1>1, <1>3, <2>2, GrewKeeps
<1> QED
  BY <1>1, <1>2, <1>3 DEF GoodPage

LEMMA ExcerptContinued ==
    ASSUME NEW f \in Seq(Cell), NEW g \in Seq(Cell), NEW s, NEW b,
           Excerpt(f, s, b), s \in Ends(g) \cup {0}, s <= Len(g),
           b # <<>> => Continues(f, g)
    PROVE  Excerpt(g, s, b)
<1>1. /\ b \in Seq(Cell) /\ s \in Ends(f) \cup {0} /\ s + Len(b) <= Len(f)
      /\ \A j \in 1..Len(b) : b[j] = f[s + j]
  BY DEF Excerpt
<1>2. s \in Nat /\ Len(b) \in Nat /\ Len(f) \in Nat /\ Len(g) \in Nat
  BY <1>1, EndsBound, SMTT(30)
<1>3. CASE b = <<>>
  <2>1. Len(b) = 0
    BY SMTT(30), <1>3
  <2>2. s + Len(b) <= Len(g) /\ \A j \in 1..Len(b) : b[j] = g[s + j]
    BY SMTT(30), <1>2, <2>1
  <2> QED
    BY <1>1, <2>2 DEF Excerpt
<1>4. CASE b # <<>>
  <2>1. Len(f) <= Len(g) /\ \A j \in 1..Len(f) : g[j] = f[j]
    BY <1>4 DEF Continues
  <2>2. s + Len(b) <= Len(g)
    BY SMTT(30), <1>1, <1>2, <2>1
  <2>3. ASSUME NEW j \in 1..Len(b) PROVE b[j] = g[s + j]
    <3>1. s + j \in 1..Len(f)
      BY SMTT(30), <1>1, <1>2
    <3> QED
      BY <1>1, <2>1, <3>1
  <2> QED
    BY <1>1, <2>2, <2>3 DEF Excerpt
<1> QED
  BY <1>3, <1>4

\* A call is not disturbed by a file that grows.
LEMMA ReadsGrown ==
    ASSUME NEW f \in Seq(Cell), NEW g \in Seq(Cell), Grew(f, g), NEW c, NEW d,
           Reads(f, c, d),
           d.at = "scan" /\ d.buf # <<>> => Continues(f, g)
    PROVE  Reads(g, c, d)
<1>1. d.at \in Reading => d.limit = PageSize /\ Collected(g, c, d.cursor)
  BY CollectedGrown DEF Reads
<1>2. ASSUME d.at = "scan" PROVE Excerpt(g, StartOf(d.cursor), d.buf)
  <2>1. Excerpt(f, StartOf(d.cursor), d.buf)
    BY <1>2 DEF Reads
  <2>2. Resumes(g, d.cursor)
    BY <1>1, <1>2 DEF Reading, Anchored, Collected
  <2>3. StartOf(d.cursor) \in Ends(g) \cup {0} /\ StartOf(d.cursor) <= Len(g)
    BY <2>2, ResumesAt
  <2> QED
    BY <1>2, <2>1, <2>3, ExcerptContinued
<1>3. ASSUME d.at = "verify", d.page.status = "ok"
      PROVE  GoodPage(g, StartOf(d.cursor), d.anchor, d.cursor, d.page)
  <2>1. GoodPage(f, StartOf(d.cursor), d.anchor, d.cursor, d.page)
    BY <1>3 DEF Reads
  <2> QED
    BY <2>1, GoodPageGrown
<1>4. ASSUME d.at = "done", d.page.status = "ok"
      PROVE  \E z \in Cursors \cup {None} :
                 /\ Collected(g, c, z)
                 /\ GoodPage(g, StartOf(z), Anchor(g), z, d.page)
  <2>1. PICK z \in Cursors \cup {None} :
              /\ Collected(f, c, z)
              /\ GoodPage(f, StartOf(z), Anchor(f), z, d.page)
    BY <1>4 DEF Reads
  <2>2. Collected(g, c, z)
    BY <2>1, CollectedGrown
  <2>3. GoodPage(g, StartOf(z), Anchor(g), z, d.page)
    BY <2>1, GoodPageGrown
  <2> QED
    BY <2>2, <2>3
<1>5. /\ d.at \in Anchored => /\ d.anchor \in Events \cup {None}
                              /\ d.cursor # None => d.anchor = d.cursor.anchor
      /\ d.at \in {"anchor", "page", "scan"} =>
           d.length \in Nat /\ StartOf(d.cursor) <= d.length
      /\ d.at = "verify" => d.page.status \in {"ok", "error"}
      /\ d.at = "done" => d.page.status \in {"ok", "error"}
  BY DEF Reads
<1> QED
  BY <1>1, <1>2, <1>3, <1>4, <1>5 DEF Reads

\* A step that does not cut the file continues it.
LEMMA FileContinues ==
    ASSUME JournalInv, [Next]_vars, Len(file') >= Len(file)
    PROVE  Continues(file, file')
<1>1. file \in Seq(Cell) /\ Len(file) \in Nat
  <2>1. file \in Seq(Cell)
    BY DEF JournalInv, JournalTypes
  <2> QED
    BY ONLY SMTT(30), <2>1
<1>2. ASSUME file' = file PROVE Continues(file, file')
  BY SMTT(30), <1>1, <1>2 DEF Continues
<1>3. CASE RepairTail
  <2>1. file' = SubSeq(file, 1, LastEnd(file))
    BY <1>3 DEF RepairTail
  <2>2. LastEnd(file) \in Nat /\ LastEnd(file) <= Len(file)
    BY SMTT(30), <1>1, LastEndBound
  <2>3. /\ Len(file') = LastEnd(file)
        /\ \A j \in 1..LastEnd(file) : file'[j] = file[j]
    BY SMTT(30), <1>1, <2>1, <2>2
  <2>4. LastEnd(file) = Len(file)
    BY SMTT(30), <1>1, <2>2, <2>3
  <2> QED
    BY <2>3, <2>4 DEF Continues
<1>4. CASE WriteCell
  <2>1. file' = Append(file, Head(writer.left))
    BY <1>4 DEF WriteCell
  <2> HIDE DEF Continues
  <2>2. /\ Len(file) <= Len(file')
        /\ \A j \in 1..Len(file) : file'[j] = file[j]
    BY SMTT(30), <1>1, <2>1
  <2> QED
    BY <2>2 DEF Continues
<1>5. CASE UNCHANGED file
  BY <1>2, <1>5
<1>6. \/ RepairTail \/ WriteCell \/ UNCHANGED file
  <2>1. ASSUME NEW r \in Readers, ReadStep(r) \/ ClientStep(r)
        PROVE  UNCHANGED file
    BY <2>1, ReadersLeaveTheStream
  <2>2. CASE WriterNext
    BY <2>2 DEF WriterNext, WriterStep, LockStream, AppendReturns, AppendFails
  <2>3. CASE UNCHANGED vars
    BY <2>3 DEF vars, journalVars
  <2> QED
    BY <2>1, <2>2, <2>3 DEF Next
<1> QED
  BY <1>3, <1>4, <1>5, <1>6

\* A step of one client or of its read.
LEMMA OnePoll ==
    ASSUME PollInv, LineageInv, NEW r \in Readers, NEW c, NEW d, ClientShape(c),
           Holds(file, c), Reads(file, c, d), file' = file,
           client' = [client EXCEPT ![r] = c], reader' = [reader EXCEPT ![r] = d]
    PROVE  PollInv'
<1>1. \A s \in Readers : reader'[s] = IF s = r THEN d ELSE reader[s]
  BY DEF LineageInv
<1>2. /\ \A s \in Readers : client'[s] = IF s = r THEN c ELSE client[s]
      /\ client' = [s \in Readers |-> client'[s]]
  BY DEF PollInv
<1>3. ASSUME NEW s \in Readers
      PROVE  /\ ClientShape(client'[s]) /\ Holds(file', client'[s])
             /\ Reads(file', client'[s], reader'[s])
  BY <1>1, <1>2 DEF PollInv
<1> QED
  BY <1>2, <1>3 DEF PollInv

LEMMA OneReads ==
    ASSUME PollInv, LineageInv, NEW r \in Readers, NEW d,
           Reads(file, client[r], d), file' = file, client' = client,
           reader' = [reader EXCEPT ![r] = d]
    PROVE  PollInv'
<1>1. client' = [client EXCEPT ![r] = client[r]]
  BY DEF PollInv
<1>2. ClientShape(client[r]) /\ Holds(file, client[r])
  BY DEF PollInv
<1> QED
  BY <1>1, <1>2, OnePoll

\* A read that returns a page, or fails.
LEMMA ReturnsPoll ==
    ASSUME PollInv, LineageInv, NEW r \in Readers, NEW page, Returns(r, page),
           page.status \in {"ok", "error"},
           page.status = "ok" =>
               \E z \in Cursors \cup {None} :
                   /\ Collected(file, client[r], z)
                   /\ GoodPage(file, StartOf(z), Anchor(file), z, page),
           file' = file, client' = client
    PROVE  PollInv'
<1> DEFINE d == [NoRead EXCEPT !.at = "done", !.page = page]
<1>1. d.at = "done" /\ d.page = page
  BY DEF NoRead
<1>2. reader' = [reader EXCEPT ![r] = d]
  BY DEF Returns
<1> HIDE DEF d
<1>3. Reads(file, client[r], d)
  <2>1. "done" \notin Reading /\ "done" \notin Anchored
    BY DEF Reading, Anchored
  <2> QED
    BY <1>1, <2>1 DEF Reads
<1> QED
  BY <1>2, <1>3, OneReads

\* A read that begins.
LEMMA CallPoll ==
    ASSUME PollInv, LineageInv, NEW r \in Readers, NEW c, ClientShape(c),
           Holds(file, c), NEW z, Collected(file, c, z), Calls(r, z, PageSize),
           file' = file, client' = [client EXCEPT ![r] = c]
    PROVE  PollInv'
<1> DEFINE d == [NoRead EXCEPT !.at = "length", !.cursor = z,
                               !.limit = PageSize, !.attempt = 1]
<1>1. d.at = "length" /\ d.cursor = z /\ d.limit = PageSize
  BY DEF NoRead
<1>2. reader' = [reader EXCEPT ![r] = d]
  BY DEF Calls
<1> HIDE DEF d
<1>3. Reads(file, c, d)
  <2>1. "length" \notin Anchored
    BY DEF Anchored
  <2> QED
    BY <1>1, <2>1 DEF Reads
<1> QED
  BY <1>2, <1>3, OnePoll

\* The read of one reader, taken apart.
LEMMA ReadsAre ==
    ASSUME JournalInv, PollInv, LineageInv, NEW r \in Readers
    PROVE  /\ file \in Seq(Cell) /\ ReaderShape(reader[r])
           /\ LooksAt(file, reader[r])
           /\ Reads(file, client[r], reader[r]) /\ Holds(file, client[r])
           /\ ClientShape(client[r])
           /\ reader[r].at \in Reading =>
                /\ StartOf(reader[r].cursor) \in ValidEnds(file) \cup {0}
                /\ StartOf(reader[r].cursor) \in Nat
                /\ StartOf(reader[r].cursor) \in Ends(file) \cup {0}
                /\ Len(file) \in Nat /\ StartOf(reader[r].cursor) <= Len(file)
<1>1. /\ file \in Seq(Cell) /\ ReaderShape(reader[r])
      /\ LooksAt(file, reader[r])
      /\ Reads(file, client[r], reader[r]) /\ Holds(file, client[r])
      /\ ClientShape(client[r])
  BY DEF JournalInv, JournalTypes, PollInv, LineageInv
<1>2. reader[r].at \in Reading => Resumes(file, reader[r].cursor)
  BY <1>1 DEF Reads, Collected
<1> QED
  BY <1>1, <1>2, ResumesAt

LEMMA ReadLengthPoll ==
    ASSUME JournalInv, PollInv, LineageInv, NEW r \in Readers, ReadLength(r),
           UNCHANGED client
    PROVE  PollInv'
<1> DEFINE c == reader[r]
           d == [c EXCEPT !.at = "anchor", !.length = Len(file)]
<1>1. /\ ReaderShape(c) /\ Reads(file, client[r], c)
      /\ c.at = "length" /\ file' = file /\ reader' = [reader EXCEPT ![r] = d]
  BY ReadsAre DEF ReadLength
<1>2. Len(file) \in Nat /\ StartOf(c.cursor) <= Len(file)
  BY <1>1, ReadsAre DEF Reading
<1>3. /\ d.at = "anchor" /\ d.cursor = c.cursor /\ d.limit = c.limit
      /\ d.length = Len(file)
  BY <1>1 DEF ReaderShape, Fields
<1> HIDE DEF c, d
<1>4. c.limit = PageSize /\ Collected(file, client[r], c.cursor)
  BY <1>1 DEF Reads, Reading
<1>5. Reads(file, client[r], d)
  <2>1. "anchor" \notin Anchored
    BY DEF Anchored
  <2> QED
    BY <1>2, <1>3, <1>4, <2>1 DEF Reads
<1> QED
  BY <1>1, <1>5, OneReads

LEMMA ReadAnchorPoll ==
    ASSUME JournalInv, PollInv, LineageInv, NEW r \in Readers, ReadAnchor(r),
           UNCHANGED client
    PROVE  PollInv'
<1> DEFINE c == reader[r]
           d == [c EXCEPT !.at = "page", !.anchor = Anchor(file)]
<1>1. /\ ReaderShape(c) /\ Reads(file, client[r], c) /\ file \in Seq(Cell)
      /\ c.at = "anchor" /\ file' = file
      /\ IF AnchorFails(file) THEN Returns(r, Failed("error"))
         ELSE reader' = [reader EXCEPT ![r] = d]
  BY ReadsAre DEF ReadAnchor
<1>2. CASE AnchorFails(file)
  <2>1. Failed("error").status = "error"
    BY FailedStatus
  <2> QED
    BY <1>1, <1>2, <2>1, ReturnsPoll
<1>3. CASE ~AnchorFails(file)
  <2>1. /\ d.at = "page" /\ d.cursor = c.cursor /\ d.limit = c.limit
        /\ d.length = c.length /\ d.anchor = Anchor(file)
    BY <1>1 DEF ReaderShape, Fields
  <2>2. reader' = [reader EXCEPT ![r] = d]
    BY <1>1, <1>3
  <2> HIDE DEF c, d
  <2>3. c.limit = PageSize /\ Collected(file, client[r], c.cursor)
    BY <1>1 DEF Reads, Reading
  <2>4. c.length \in Nat /\ StartOf(c.cursor) <= c.length
    BY <1>1 DEF Reads
  <2>5. c.cursor # None => Anchor(file) = c.cursor.anchor
    BY <2>3 DEF Collected, Resumes
  <2>6. Reads(file, client[r], d)
    BY <1>1, <2>1, <2>3, <2>4, <2>5, AnchorType DEF Reads
  <2> QED
    BY <1>1, <2>2, <2>6, OneReads
<1> QED
  BY <1>2, <1>3

LEMMA OpenPagePoll ==
    ASSUME JournalInv, PollInv, LineageInv, NEW r \in Readers, OpenPage(r),
           UNCHANGED client
    PROVE  PollInv'
<1> DEFINE c == reader[r]
           stale == /\ c.cursor # None
                    /\ \/ c.cursor.anchor # c.anchor
                       \/ c.cursor.offset > c.length
                       \/ c.cursor.offset \notin ValidEnds(file)
           bad == [c EXCEPT !.at = "verify", !.page = Failed("invalid")]
           d == [c EXCEPT !.at = "scan", !.buf = <<>>]
<1>1. /\ ReaderShape(c) /\ Reads(file, client[r], c) /\ file \in Seq(Cell)
      /\ c.at = "page" /\ file' = file
      /\ reader' = [reader EXCEPT ![r] = IF stale THEN bad ELSE d]
  BY ReadsAre DEF OpenPage
<1>2. /\ StartOf(c.cursor) \in Nat /\ StartOf(c.cursor) \in Ends(file) \cup {0}
      /\ Len(file) \in Nat /\ StartOf(c.cursor) <= Len(file)
  BY <1>1, ReadsAre DEF Reading, Anchored
<1>3. /\ d.at = "scan" /\ d.cursor = c.cursor /\ d.limit = c.limit
      /\ d.length = c.length /\ d.anchor = c.anchor /\ d.buf = <<>>
  BY <1>1 DEF ReaderShape, Fields
<1>4. c.limit = PageSize /\ Collected(file, client[r], c.cursor)
  BY <1>1 DEF Reads, Reading, Anchored
<1>5. /\ c.length \in Nat /\ StartOf(c.cursor) <= c.length
      /\ c.anchor \in Events \cup {None}
      /\ c.cursor # None => c.anchor = c.cursor.anchor
  BY <1>1 DEF Reads, Anchored
<1>6. ~stale
  <2> SUFFICES ASSUME c.cursor # None
               PROVE  /\ c.cursor.anchor = c.anchor
                      /\ ~(c.cursor.offset > c.length)
                      /\ c.cursor.offset \in ValidEnds(file)
    OBVIOUS
  <2> HIDE DEF c
  <2>1. c.cursor.offset = StartOf(c.cursor) /\ c.cursor.offset \in ValidEnds(file)
    BY <1>4 DEF Collected, Resumes, StartOf
  <2>2. ~(c.cursor.offset > c.length)
    BY SMTT(30), <1>2, <1>5, <2>1
  <2> QED
    BY <1>5, <2>1, <2>2
<1>7. reader' = [reader EXCEPT ![r] = d]
  BY <1>1, <1>6
<1> HIDE DEF c, d, stale, bad
<1>8. Excerpt(file, StartOf(c.cursor), <<>>)
  <2>1. /\ <<>> \in Seq(Cell) /\ Len(<<>>) = 0
        /\ StartOf(c.cursor) + Len(<<>>) <= Len(file)
        /\ \A j \in 1..Len(<<>>) : FALSE
    BY SMTT(30), <1>2
  <2> QED
    BY <1>2, <2>1 DEF Excerpt
<1>9. Reads(file, client[r], d)
  BY <1>1, <1>3, <1>4, <1>5, <1>8 DEF Reads
<1> QED
  BY <1>1, <1>7, <1>9, OneReads

\* The next read of a scan.
LEMMA ExcerptMore ==
    ASSUME NEW f \in Seq(Cell), NEW s, NEW b, Excerpt(f, s, b), NEW upto \in Nat,
           s + Len(b) < upto, upto <= Len(f)
    PROVE  Excerpt(f, s, b \o SubSeq(f, s + Len(b) + 1, upto))
<1> DEFINE pos == s + Len(b)
           p == SubSeq(f, pos + 1, upto)
           q == b \o p
<1>1. /\ b \in Seq(Cell) /\ s \in Ends(f) \cup {0}
      /\ \A j \in 1..Len(b) : b[j] = f[s + j]
  BY DEF Excerpt
<1>2. s \in Nat /\ Len(b) \in Nat /\ Len(f) \in Nat /\ pos \in Nat
  BY <1>1, EndsBound, SMTT(30)
<1>3. /\ p \in Seq(Cell) /\ Len(p) = upto - pos
      /\ \A j \in 1..(upto - pos) : p[j] = f[pos + j]
  <2> HIDE DEF pos
  <2>1. /\ p \in Seq(Cell) /\ Len(p) = upto - pos
        /\ \A j \in 1..(upto - pos) : p[j] = f[(pos + 1) + j - 1]
    BY SMTT(30), <1>2 DEF pos
  <2>2. \A j \in 1..(upto - pos) : (pos + 1) + j - 1 = pos + j
    BY ONLY SMTT(30), <1>2, upto \in Nat
  <2> QED
    BY <2>1, <2>2
<1> HIDE DEF p
<1>4. /\ q \in Seq(Cell) /\ Len(q) = upto - s
      /\ \A j \in 1..Len(b) : q[j] = b[j]
      /\ \A j \in 1..(upto - pos) : q[Len(b) + j] = p[j]
  <2>1. /\ q \in Seq(Cell) /\ Len(q) = Len(b) + Len(p)
        /\ \A j \in 1..Len(b) : q[j] = b[j]
        /\ \A j \in 1..Len(p) : q[Len(b) + j] = p[j]
    BY ONLY SMTT(30), <1>1, <1>3
  <2> HIDE DEF q
  <2>2. Len(b) + Len(p) = upto - s
    BY SMTT(30), <1>2, <1>3
  <2> QED
    BY <1>3, <2>1, <2>2
<1> HIDE DEF q
<1>5. ASSUME NEW j \in 1..Len(q) PROVE q[j] = f[s + j]
  <2>1. CASE j \in 1..Len(b)
    BY <1>1, <1>4, <2>1
  <2>2. CASE j \notin 1..Len(b)
    <3> DEFINE i == j - Len(b)
    <3>1. i \in 1..(upto - pos) /\ j = Len(b) + i /\ pos + i = s + j
      BY SMTT(30), <1>2, <1>4, <2>2
    <3> HIDE DEF i, pos
    <3> QED
      BY <1>3, <1>4, <3>1
  <2> QED
    BY <2>1, <2>2
<1>6. s + Len(q) <= Len(f)
  BY SMTT(30), <1>2, <1>4
<1>7. Excerpt(f, s, q)
  BY <1>1, <1>4, <1>5, <1>6 DEF Excerpt
<1> QED
  BY <1>7 DEF q, p, pos

LEMMA ScanChunkPoll ==
    ASSUME JournalInv, PollInv, LineageInv, NEW r \in Readers, ScanChunk(r),
           UNCHANGED client
    PROVE  PollInv'
<1> DEFINE c == reader[r]
           s == StartOf(c.cursor)
           pos == s + Len(c.buf)
           upto == Min({pos + Chunk, c.length, Len(file)})
           page == PageOf(c.buf, s, c.limit, c.anchor, c.cursor)
           more == c.buf \o SubSeq(file, pos + 1, upto)
           d == [c EXCEPT !.buf = more]
           g == [c EXCEPT !.at = "verify", !.buf = <<>>, !.length = 0,
                          !.page = page]
<1>1. /\ ReaderShape(c) /\ Reads(file, client[r], c) /\ file \in Seq(Cell)
      /\ c.at = "scan" /\ file' = file
      /\ reader' = [reader EXCEPT ![r] = IF pos < upto THEN d ELSE g]
  BY ReadsAre DEF ScanChunk
<1>2. s \in Nat /\ Len(file) \in Nat
  BY <1>1, ReadsAre DEF Reading, Anchored
<1>3. c.limit = PageSize /\ Collected(file, client[r], c.cursor)
  BY <1>1 DEF Reads, Reading, Anchored
<1>4. /\ c.length \in Nat /\ s <= c.length /\ c.anchor \in Events \cup {None}
      /\ c.cursor # None => c.anchor = c.cursor.anchor
      /\ Excerpt(file, s, c.buf)
  BY <1>1 DEF Reads, Anchored
<1>5. CASE pos < upto
  <2>1. /\ d.at = "scan" /\ d.cursor = c.cursor /\ d.limit = c.limit
        /\ d.length = c.length /\ d.anchor = c.anchor /\ d.buf = more
    <3> HIDE DEF more
    <3> QED
      BY <1>1 DEF ReaderShape, Fields
  <2>2. reader' = [reader EXCEPT ![r] = d]
    BY <1>1, <1>5
  <2>3. upto \in Nat /\ upto <= Len(file)
    <3> DEFINE S == {pos + Chunk, c.length, Len(file)}
    <3>1. Len(c.buf) \in Nat
      BY <1>1, <1>4, ExcerptRows
    <3>2. S \subseteq Nat /\ S # {} /\ Len(file) \in S
      <4> HIDE DEF c, s
      <4> QED
        BY SMTT(30), <1>2, <1>4, <3>1, BoundsAssumption
    <3> HIDE DEF S
    <3>3. Min(S) \in S /\ \A i \in S : Min(S) <= i
      BY <3>2, MinExists
    <3> QED
      BY <3>2, <3>3 DEF S
  <2> HIDE DEF c, d, upto
  <2>4. Excerpt(file, s, more)
    BY <1>1, <1>4, <1>5, <2>3, ExcerptMore
  <2> HIDE DEF more, pos
  <2>5. Reads(file, client[r], d)
    BY <1>1, <1>3, <1>4, <2>1, <2>4 DEF Reads
  <2> QED
    BY <1>1, <2>2, <2>5, OneReads
<1>6. CASE ~(pos < upto)
  <2> HIDE DEF page
  <2>1. /\ g.at = "verify" /\ g.cursor = c.cursor /\ g.limit = c.limit
        /\ g.anchor = c.anchor /\ g.page = page
    BY <1>1 DEF ReaderShape, Fields
  <2>2. reader' = [reader EXCEPT ![r] = g]
    BY <1>1, <1>6
  <2>3. /\ page.status \in {"ok", "error"}
        /\ page.status = "ok" => GoodPage(file, s, c.anchor, c.cursor, page)
    <3>1. page = PageOf(c.buf, s, PageSize, c.anchor, c.cursor)
      BY <1>3 DEF page
    <3>2. PageSize \in Nat \ {0}
      BY PagingAssumption
    <3> HIDE DEF c, s
    <3> QED
      BY <1>1, <1>4, <3>1, <3>2, PageCovers
  <2> HIDE DEF c, g, pos, upto
  <2>4. Reads(file, client[r], g)
    <3>1. "verify" \in Anchored /\ "verify" \in Reading
      BY DEF Anchored, Reading
    <3> QED
      BY <1>3, <1>4, <2>1, <2>3, <3>1 DEF Reads
  <2> QED
    BY <1>1, <2>2, <2>4, OneReads
<1> QED
  BY <1>5, <1>6

LEMMA VerifyPoll ==
    ASSUME JournalInv, PollInv, LineageInv, NEW r \in Readers, VerifyLineage(r),
           UNCHANGED client
    PROVE  PollInv'
<1> DEFINE c == reader[r]
           d == [c EXCEPT !.at = "length", !.page = NoPage,
                          !.attempt = c.attempt + 1]
<1>1. /\ ReaderShape(c) /\ Reads(file, client[r], c) /\ LooksAt(file, c)
      /\ c.at = "verify" /\ file' = file
      /\ IF AnchorFails(file) THEN Returns(r, Failed("error"))
         ELSE IF Anchor(file) = c.anchor THEN Returns(r, c.page)
         ELSE IF c.cursor # None THEN Returns(r, Failed("invalid"))
         ELSE IF c.attempt = MaxAttempts THEN Returns(r, Failed("unstable"))
         ELSE reader' = [reader EXCEPT ![r] = d]
  BY ReadsAre DEF VerifyLineage
<1>2. /\ d.at = "length" /\ d.cursor = c.cursor /\ d.limit = c.limit
  <2> DEFINE a == c.attempt + 1
  <2> HIDE DEF a
  <2>1. LET e == [c EXCEPT !.at = "length", !.page = NoPage, !.attempt = a]
        IN e.at = "length" /\ e.cursor = c.cursor /\ e.limit = c.limit
    BY <1>1 DEF ReaderShape, Fields
  <2> QED
    BY <2>1 DEF a
<1> HIDE DEF c, d
<1>3. c.limit = PageSize /\ Collected(file, client[r], c.cursor)
  BY <1>1 DEF Reads, Reading, Anchored
<1>4. /\ c.cursor # None => c.anchor = c.cursor.anchor
      /\ c.page.status \in {"ok", "error"}
      /\ c.page.status = "ok" =>
           GoodPage(file, StartOf(c.cursor), c.anchor, c.cursor, c.page)
  BY <1>1 DEF Reads, Anchored
<1>5. /\ c.cursor # None => Anchor(file) = c.anchor
      /\ c.cursor \in Cursors \cup {None}
  BY <1>3, <1>4 DEF Collected, Resumes
<1>6. CASE AnchorFails(file)
  <2>1. Failed("error").status = "error"
    BY FailedStatus
  <2> QED
    BY <1>1, <1>6, <2>1, ReturnsPoll
<1>7. CASE ~AnchorFails(file) /\ Anchor(file) = c.anchor
  <2>1. Returns(r, c.page)
    BY <1>1, <1>7
  <2>2. c.page.status = "ok" =>
           \E z \in Cursors \cup {None} :
               /\ Collected(file, client[r], z)
               /\ GoodPage(file, StartOf(z), Anchor(file), z, c.page)
    BY <1>3, <1>4, <1>5, <1>7
  <2> QED
    BY <1>1, <1>4, <2>1, <2>2, ReturnsPoll
<1>8. CASE ~AnchorFails(file) /\ Anchor(file) # c.anchor
  <2>1. c.attempt # MaxAttempts
    <3>1. c.attempt \in 0..2
      BY <1>1 DEF LooksAt
    <3> QED
      BY SMTT(30), <3>1 DEF MaxAttempts
  <2>2. reader' = [reader EXCEPT ![r] = d]
    BY <1>1, <1>5, <1>8, <2>1
  <2>3. Reads(file, client[r], d)
    <3>1. "length" \notin Anchored
      BY DEF Anchored
    <3> QED
      BY <1>2, <1>3, <3>1 DEF Reads
  <2> QED
    BY <1>1, <2>2, <2>3, OneReads
<1> QED
  BY <1>6, <1>7, <1>8

\* The steps of read_after.
LEMMA ReadStepPoll ==
    ASSUME JournalInv, PollInv, LineageInv, NEW r \in Readers, ReadStep(r),
           UNCHANGED client
    PROVE  PollInv'
BY ReadLengthPoll, ReadAnchorPoll, OpenPagePoll, ScanChunkPoll, VerifyPoll
   DEF ReadStep

-----------------------------------------------------------------------------
(* What a call does with its page.                                         *)

\* The client gets the rows between its cursor and the answer's.
LEMMA AnswersPoll ==
    ASSUME JournalInv, PollInv, LineageInv, NEW r \in Readers, NEW rows, NEW z,
           Answers(r, rows, z), Resumes(file, z),
           StartOf(client[r].cursor) <= StartOf(z),
           Slice(file, rows, StartOf(client[r].cursor), StartOf(z))
    PROVE  PollInv'
<1> DEFINE c == [Idle EXCEPT !.cursor = z, !.got = client[r].got \o rows]
<1>1. /\ c.at = "idle" /\ c.collected = <<>> /\ c.cursor = z
      /\ c.got = client[r].got \o rows /\ ClientShape(c)
  BY DEF Idle, ClientShape, ClientFields
<1>2. /\ client' = [client EXCEPT ![r] = c] /\ file' = file
      /\ reader' = [reader EXCEPT ![r] = NoRead]
  BY DEF Answers
<1> HIDE DEF c
<1>3. file \in Seq(Cell) /\ Holds(file, client[r])
  BY ReadsAre
<1>4. /\ Resumes(file, client[r].cursor)
      /\ Slice(file, client[r].got, 0, StartOf(client[r].cursor))
  BY <1>3 DEF Holds
<1>5. StartOf(client[r].cursor) \in Nat /\ StartOf(z) \in Nat
  BY <1>3, <1>4, ResumesAt
<1>6. Slice(file, client[r].got \o rows, 0, StartOf(z))
  <2>1. 0 \in Nat /\ 0 <= StartOf(client[r].cursor)
    BY SMTT(30), <1>5
  <2> QED
    BY <1>3, <1>4, <1>5, <2>1, SliceConcat
<1>7. Holds(file, c)
  BY <1>1, <1>6 DEF Holds
<1>8. Reads(file, c, NoRead)
  BY DEF Reads, NoRead, Reading, Anchored
<1> QED
  BY <1>1, <1>2, <1>7, <1>8, OnePoll

LEMMA PageFailsPoll ==
    ASSUME JournalInv, PollInv, LineageInv, NEW r \in Readers, PageFails(r)
    PROVE  PollInv'
<1> DEFINE z == client[r].cursor
<1>1. Answers(r, <<>>, z) /\ file \in Seq(Cell) /\ Resumes(file, z)
  BY ReadsAre DEF PageFails, Holds
<1>2. StartOf(z) \in Nat
  BY <1>1, ResumesAt
<1>3. Slice(file, <<>>, StartOf(z), StartOf(z)) /\ StartOf(z) <= StartOf(z)
  BY <1>1, <1>2, SliceEmpty, SMTT(30)
<1> QED
  BY <1>1, <1>3, AnswersPoll

\* The page that a call has, and where it begins.
LEMMA HasPageIs ==
    ASSUME JournalInv, PollInv, LineageInv, NEW r \in Readers, HasPage(r)
    PROVE  \E z \in Cursors \cup {None} :
               /\ Collected(file, client[r], z)
               /\ GoodPage(file, StartOf(z), Anchor(file), z, Page(r))
<1>1. Reads(file, client[r], reader[r])
  BY ReadsAre
<1> QED
  BY <1>1 DEF HasPage, Page, Reads

LEMMA PageEmptyPoll ==
    ASSUME JournalInv, PollInv, LineageInv, NEW r \in Readers, PageEmpty(r)
    PROVE  PollInv'
<1>1. /\ HasPage(r) /\ Page(r).events = <<>>
      /\ Answers(r, client[r].collected, Page(r).next)
  BY DEF PageEmpty
<1>2. PICK z \in Cursors \cup {None} :
            /\ Collected(file, client[r], z)
            /\ GoodPage(file, StartOf(z), Anchor(file), z, Page(r))
  BY <1>1, HasPageIs
<1>3. Page(r).next = z
  BY <1>1, <1>2 DEF GoodPage
<1>4. /\ Resumes(file, z) /\ StartOf(client[r].cursor) <= StartOf(z)
      /\ Slice(file, client[r].collected, StartOf(client[r].cursor), StartOf(z))
  BY <1>2 DEF Collected
<1>5. Answers(r, client[r].collected, z)
  BY <1>1, <1>3
<1> QED
  BY <1>4, <1>5, AnswersPoll

\* The cursor of a row of the page.
LEMMA RowResumes ==
    ASSUME NEW f \in Seq(Cell), NEW s \in Nat, NEW z, NEW page,
           GoodPage(f, s, Anchor(f), z, page), NEW n \in DOMAIN page.events
    PROVE  /\ Resumes(f, page.events[n].cursor)
           /\ StartOf(page.events[n].cursor) = Off(page.events, n)
           /\ Off(page.events, n) \in Nat /\ s <= Off(page.events, n)
<1> DEFINE rows == page.events
<1>1. /\ rows \in Seq(PageRow) /\ Off(rows, n) \in ValidEnds(f)
      /\ s < Off(rows, n) /\ rows[n].cursor.anchor = Anchor(f)
  BY DEF GoodPage, Covers
<1>2. rows[n].cursor \in Cursors
  <2>1. rows[n] \in PageRow
    BY ONLY SMTT(30), <1>1, n \in DOMAIN page.events
  <2> QED
    BY SMTT(30), <2>1 DEF PageRow
<1>3. rows[n].cursor # None
  BY <1>2, CursorAssumption
<1>4. Off(rows, n) \in Nat
  BY <1>1, ValidEndsBound
<1>5. s <= Off(rows, n)
  BY SMTT(30), <1>1, <1>4
<1> QED
  BY <1>1, <1>2, <1>3, <1>4, <1>5 DEF Resumes, StartOf, Off

\* The page's rows of the thread, in the order the call takes them.
LEMMA CollectIs ==
    ASSUME NEW r \in Readers, NEW M, M = Matching(r), M \in Seq(Nat),
           NEW k \in 0..Len(M), NEW positions,
           positions = SubSeq(M, 1, k) \/ (positions = M /\ k = Len(M))
    PROVE  Collect(r, positions) =
               client[r].collected \o Taken(Page(r).events, M, k)
<1>1. /\ DOMAIN positions = 1..k
      /\ \A n \in 1..k : positions[n] = M[n]
  <2>1. CASE positions = SubSeq(M, 1, k)
    BY ONLY SMTT(30), <2>1, M \in Seq(Nat), k \in 0..Len(M)
  <2>2. CASE positions = M /\ k = Len(M)
    BY ONLY SMTT(30), <2>2, M \in Seq(Nat)
  <2> QED
    BY <2>1, <2>2
<1>2. [n \in DOMAIN positions |-> Page(r).events[positions[n]].event]
        = Taken(Page(r).events, M, k)
  BY <1>1 DEF Taken
<1> QED
  BY <1>2 DEF Collect

LEMMA MatchingIs ==
    ASSUME NEW r \in Readers, NEW f \in Seq(Cell), NEW s,
           Covers(f, s, Page(r).events)
    PROVE  /\ Matching(r) = InOrder(OfThread(Page(r).events))
           /\ Matching(r) \in Seq(Nat) /\ Len(Matching(r)) \in Nat
<1>1. Matching(r) = InOrder(OfThread(Page(r).events))
  BY DEF Matching, OfThread
<1>2. /\ Matching(r) \in Seq(OfThread(Page(r).events))
      /\ Len(Matching(r)) \in Nat /\ DOMAIN Page(r).events = 1..Len(Page(r).events)
  BY <1>1, PageMatches
<1>3. OfThread(Page(r).events) \subseteq Nat
  <2>1. OfThread(Page(r).events) \subseteq 1..Len(Page(r).events)
    BY <1>2 DEF OfThread
  <2>2. 1..Len(Page(r).events) \subseteq Nat
    BY SMTT(30)
  <2> QED
    BY <2>1, <2>2
<1>4. Matching(r) \in Seq(Nat)
  BY ONLY SMTT(30), <1>2, <1>3
<1> QED
  BY <1>1, <1>2, <1>4

LEMMA PageReachesLimitPoll ==
    ASSUME JournalInv, PollInv, LineageInv, NEW r \in Readers,
           PageReachesLimit(r)
    PROVE  PollInv'
<1> DEFINE M == Matching(r)
           k == Room(r)
           page == Page(r)
           x == StartOf(client[r].cursor)
<1>1. /\ HasPage(r) /\ Len(M) >= k
      /\ Answers(r, Collect(r, SubSeq(M, 1, k)), page.events[M[k]].cursor)
  BY DEF PageReachesLimit
<1>2. PICK z \in Cursors \cup {None} :
            /\ Collected(file, client[r], z)
            /\ GoodPage(file, StartOf(z), Anchor(file), z, page)
  BY <1>1, HasPageIs
<1>3. /\ file \in Seq(Cell) /\ Covers(file, StartOf(z), page.events)
      /\ Resumes(file, z) /\ x <= StartOf(z)
      /\ Slice(file, client[r].collected, x, StartOf(z))
      /\ Resumes(file, client[r].cursor)
      /\ client[r].limit \in Nat /\ Len(client[r].collected) < client[r].limit
  BY <1>1, <1>2, ReadsAre DEF Collected, GoodPage, Holds, HasPage
<1>4. x \in Nat /\ StartOf(z) \in Nat
  BY <1>3, ResumesAt
<1>5. /\ M = InOrder(OfThread(page.events)) /\ M \in Seq(Nat) /\ Len(M) \in Nat
  BY <1>3, MatchingIs
<1>6. k \in 1..Len(M) /\ k \in 0..Len(M)
  <2>1. Len(client[r].collected) \in Nat
    <3>1. client[r].collected \in Seq(Thread)
      BY <1>3 DEF Slice
    <3> QED
      BY ONLY SMTT(30), <3>1
  <2>2. k = client[r].limit - Len(client[r].collected)
    BY DEF Room
  <2> HIDE DEF M, k
  <2> QED
    BY SMTT(30), <1>1, <1>3, <1>5, <2>1, <2>2
<1> HIDE DEF M, k, page, x
<1>7. /\ M[k] \in DOMAIN page.events
      /\ Slice(file, Taken(page.events, M, k), StartOf(z), Off(page.events, M[k]))
  BY <1>3, <1>4, <1>5, <1>6, SliceLimit
<1> DEFINE next == page.events[M[k]].cursor
<1>8. /\ Resumes(file, next) /\ StartOf(next) = Off(page.events, M[k])
      /\ StartOf(next) \in Nat /\ StartOf(z) <= StartOf(next)
  <2>1. /\ Resumes(file, next) /\ StartOf(next) = Off(page.events, M[k])
        /\ Off(page.events, M[k]) \in Nat
        /\ StartOf(z) <= Off(page.events, M[k])
    <3>1. GoodPage(file, StartOf(z), Anchor(file), z, page)
      BY <1>2
    <3> QED
      BY SMTT(30), <1>3, <1>4, <1>7, <3>1, RowResumes
  <2> QED
    BY <2>1
<1>9. Collect(r, SubSeq(M, 1, k)) =
          client[r].collected \o Taken(page.events, M, k)
  BY <1>5, <1>6, CollectIs DEF M, page
<1>10. Slice(file, Collect(r, SubSeq(M, 1, k)), x, StartOf(next))
  BY <1>3, <1>4, <1>7, <1>8, <1>9, SliceConcat
<1>11. x <= StartOf(next)
  BY SMTT(30), <1>3, <1>4, <1>8
<1> QED
  BY <1>1, <1>8, <1>10, <1>11, AnswersPoll DEF x

LEMMA PageScannedPoll ==
    ASSUME JournalInv, PollInv, LineageInv, NEW r \in Readers, PageScanned(r)
    PROVE  PollInv'
<1> DEFINE M == Matching(r)
           k == Len(M)
           page == Page(r)
           x == StartOf(client[r].cursor)
           n == Len(page.events)
           next == page.events[n].cursor
           rows == Collect(r, M)
           c == [client[r] EXCEPT !.collected = rows]
<1>1. /\ HasPage(r) /\ Len(M) < Room(r) /\ page.events # <<>>
      /\ Calls(r, page.next, PageSize) /\ client[r].at = "reading"
      /\ client' = [client EXCEPT ![r].collected = rows] /\ file' = file
  BY DEF PageScanned, HasPage
<1>2. PICK z \in Cursors \cup {None} :
            /\ Collected(file, client[r], z)
            /\ GoodPage(file, StartOf(z), Anchor(file), z, page)
  BY <1>1, HasPageIs
<1>3. /\ file \in Seq(Cell) /\ Covers(file, StartOf(z), page.events)
      /\ Resumes(file, z) /\ x <= StartOf(z)
      /\ Slice(file, client[r].collected, x, StartOf(z))
      /\ Resumes(file, client[r].cursor)
      /\ Slice(file, client[r].got, 0, x)
      /\ client[r].limit \in Nat /\ Len(client[r].collected) < client[r].limit
      /\ ClientShape(client[r])
  BY <1>1, <1>2, ReadsAre DEF Collected, GoodPage, Holds
<1>4. x \in Nat /\ StartOf(z) \in Nat
  BY <1>3, ResumesAt
<1>5. /\ M = InOrder(OfThread(page.events)) /\ M \in Seq(Nat) /\ Len(M) \in Nat
  BY <1>3, MatchingIs
<1>6. k \in 0..Len(M)
  <2> HIDE DEF M
  <2> QED
    BY SMTT(30), <1>5
<1>7. page.next = next
  BY <1>1, <1>2 DEF GoodPage
<1>8. /\ c.at = "reading" /\ c.cursor = client[r].cursor /\ c.collected = rows
      /\ c.got = client[r].got /\ c.limit = client[r].limit /\ ClientShape(c)
      /\ client' = [client EXCEPT ![r] = c]
  <2> HIDE DEF rows
  <2>1. /\ c.at = "reading" /\ c.cursor = client[r].cursor /\ c.collected = rows
        /\ c.got = client[r].got /\ c.limit = client[r].limit /\ ClientShape(c)
    BY <1>1, <1>3 DEF ClientShape, ClientFields
  <2>2. client' = [client EXCEPT ![r] = c]
    BY <1>1
  <2> QED
    BY <2>1, <2>2
<1>9. rows = client[r].collected \o Taken(page.events, M, k)
  BY <1>5, <1>6, CollectIs
<1>10. Len(rows) < client[r].limit
  <2>1. client[r].collected \in Seq(Thread)
    BY <1>3 DEF Slice
  <2>2. Taken(page.events, M, k) = [j \in 1..k |-> page.events[M[j]].event]
    BY DEF Taken
  <2> DEFINE a == client[r].collected
             b == Taken(page.events, M, k)
             l == client[r].limit
  <2>3. k < l - Len(a)
    BY <1>1 DEF Room
  <2>4. Len(b) = k /\ k \in Nat /\ Len(a) \in Nat
    <3>1. k \in Nat
      BY <1>5
    <3>2. b = [j \in 1..k |-> page.events[M[j]].event]
      BY <2>2
    <3> HIDE DEF M, k, b, page
    <3>3. Len(b) = k
      BY SMTT(30), <3>1, <3>2
    <3>4. Len(a) \in Nat
      BY ONLY SMTT(30), <2>1
    <3> QED
      BY <3>1, <3>3, <3>4
  <2>5. Len(a \o b) = Len(a) + Len(b)
    <3>1. b \in Seq({page.events[M[j]].event : j \in 1..k})
      <4> DEFINE V == {page.events[M[j]].event : j \in 1..k}
      <4>1. b \in [1..k -> V]
        BY <2>2
      <4> HIDE DEF M, k, b, page, V
      <4>2. b \in Seq(V)
        BY SMTT(30), <2>4, <4>1
      <4> QED
        BY <4>2 DEF V
    <3> HIDE DEF M, k, b, page, a
    <3> QED
      BY SMTT(30), <2>1, <3>1 DEF a
  <2> HIDE DEF M, k, b, page, a, l
  <2>6. Len(a \o b) < l
    BY SMTT(30), <1>3, <2>3, <2>4, <2>5 DEF l
  <2> QED
    BY <1>9, <2>6 DEF a, b, l
<1> HIDE DEF M, k, page, x, rows, c
<1>11. /\ n \in DOMAIN page.events
       /\ Slice(file, Taken(page.events, M, k), StartOf(z), Off(page.events, n))
  BY <1>1, <1>3, <1>4, <1>5, SliceWhole DEF k
<1> HIDE DEF n
<1>12. /\ Resumes(file, next) /\ StartOf(next) = Off(page.events, n)
       /\ StartOf(next) \in Nat /\ StartOf(z) <= StartOf(next)
  <2>1. /\ Resumes(file, next) /\ StartOf(next) = Off(page.events, n)
        /\ Off(page.events, n) \in Nat /\ StartOf(z) <= Off(page.events, n)
    <3>1. GoodPage(file, StartOf(z), Anchor(file), z, page)
      BY <1>2
    <3> QED
      BY SMTT(30), <1>3, <1>4, <1>11, <3>1, RowResumes
  <2> QED
    BY <2>1
<1>13. Slice(file, rows, x, StartOf(next))
  BY <1>3, <1>4, <1>9, <1>11, <1>12, SliceConcat
<1>14. x <= StartOf(next)
  BY SMTT(30), <1>3, <1>4, <1>12
<1> HIDE DEF next
<1>15. Collected(file, c, next)
  BY <1>8, <1>12, <1>13, <1>14 DEF Collected, x
<1>16. Holds(file, c)
  BY <1>3, <1>8, <1>10 DEF Holds, x
<1> QED
  BY <1>1, <1>7, <1>8, <1>15, <1>16, CallPoll

LEMMA EventsAfterPoll ==
    ASSUME JournalInv, PollInv, LineageInv, NEW r \in Readers,
           NEW limit \in Limits, EventsAfter(r, limit)
    PROVE  PollInv'
<1> DEFINE c == [client[r] EXCEPT !.at = "reading", !.limit = limit]
           z == client[r].cursor
<1>1. /\ client[r].at = "idle" /\ Calls(r, z, PageSize)
      /\ client' = [client EXCEPT ![r] = c] /\ file' = file
  BY DEF EventsAfter
<1>2. /\ file \in Seq(Cell) /\ Resumes(file, z)
      /\ Slice(file, client[r].got, 0, StartOf(z))
      /\ client[r].collected = <<>> /\ ClientShape(client[r])
  BY <1>1, ReadsAre DEF Holds
<1>3. /\ c.at = "reading" /\ c.cursor = z /\ c.collected = <<>>
      /\ c.got = client[r].got /\ c.limit = limit /\ ClientShape(c)
  BY <1>2 DEF ClientShape, ClientFields
<1> HIDE DEF c, z
<1>4. StartOf(z) \in Nat
  BY <1>2, ResumesAt
<1>5. Slice(file, <<>>, StartOf(z), StartOf(z)) /\ StartOf(z) <= StartOf(z)
  BY <1>2, <1>4, SliceEmpty, SMTT(30)
<1>6. Collected(file, c, z)
  BY <1>2, <1>3, <1>5 DEF Collected
<1>7. limit \in Nat /\ Len(<<>>) < limit
  BY SMTT(30), PagingAssumption
<1>8. Holds(file, c)
  BY <1>2, <1>3, <1>7 DEF Holds
<1> QED
  BY <1>1, <1>3, <1>6, <1>8, CallPoll

-----------------------------------------------------------------------------
(* What polling promises.                                                  *)

\* The steps of events_after.
LEMMA ClientStepPoll ==
    ASSUME JournalInv, PollInv, LineageInv, NEW r \in Readers, ClientStep(r)
    PROVE  PollInv'
BY EventsAfterPoll, PageFailsPoll, PageEmptyPoll, PageReachesLimitPoll,
   PageScannedPoll DEF ClientStep

\* Every step that cuts no line under a scan keeps what the clients hold and
\* what their reads have seen.
LEMMA PollStep ==
    ASSUME JournalInv, JournalInv', LineageInv, PollInv, [Next]_vars,
           [Undisturbed]_vars
    PROVE  PollInv'
<1>1. /\ file \in Seq(Cell) /\ file' \in Seq(Cell) /\ Grew(file, file')
  BY JournalStep DEF JournalInv, JournalTypes
<1>2. ASSUME UNCHANGED <<client, reader>>,
             Undisturbed \/ UNCHANGED file
      PROVE  PollInv'
  <2>1. ASSUME NEW r \in Readers
        PROVE  Holds(file', client[r]) /\ Reads(file', client[r], reader[r])
    <3>1. Holds(file, client[r]) /\ Reads(file, client[r], reader[r])
      BY DEF PollInv
    <3>2. Holds(file', client[r])
      BY <1>1, <3>1, HoldsGrown
    <3>3. ASSUME reader[r].at = "scan", reader[r].buf # <<>>
          PROVE  Continues(file, file')
      <4>1. Len(file) \in Nat
        BY ONLY SMTT(30), <1>1
      <4>2. Len(file') >= Len(file)
        <5>1. CASE Undisturbed
          BY <3>3, <5>1 DEF Undisturbed
        <5>2. CASE UNCHANGED file
          BY SMTT(30), <4>1, <5>2
        <5> QED
          BY <1>2, <5>1, <5>2
      <4> QED
        BY <4>2, FileContinues
    <3> QED
      BY <1>1, <3>1, <3>2, <3>3, ReadsGrown
  <2> QED
    BY <1>2, <2>1 DEF PollInv
<1>3. CASE UNCHANGED vars
  BY <1>2, <1>3 DEF vars, journalVars
<1>4. CASE WriterNext /\ UNCHANGED client /\ Undisturbed
  <2>1. reader' = reader
    BY <1>4 DEF WriterNext, WriterStep, LockStream, RepairTail, WriteCell,
                AppendReturns, AppendFails
  <2> QED
    BY <1>2, <1>4, <2>1
<1>5. CASE \E r \in Readers : ReadStep(r) /\ UNCHANGED client
  BY <1>5, ReadStepPoll
<1>6. CASE \E r \in Readers : ClientStep(r)
  BY <1>6, ClientStepPoll
<1> QED
  BY <1>3, <1>4, <1>5, <1>6 DEF Next

LEMMA PollInitHolds == Init => PollInv
<1> SUFFICES ASSUME Init PROVE PollInv
  OBVIOUS
<1>1. /\ file = <<>> /\ reader = [r \in Readers |-> NoRead]
      /\ client = [r \in Readers |-> Idle]
  BY DEF Init, JournalInit
<1>2. file \in Seq(Cell)
  BY SMTT(30), <1>1
<1>3. ClientShape(Idle)
  BY DEF Idle, ClientShape, ClientFields
<1>4. Holds(file, Idle)
  <2>1. Slice(file, <<>>, 0, 0)
    BY <1>2, SliceEmpty, SMTT(30)
  <2> QED
    BY <2>1 DEF Holds, Idle, Resumes, StartOf
<1>5. Reads(file, Idle, NoRead)
  BY DEF Reads, NoRead, Reading, Anchored
<1> QED
  BY <1>1, <1>3, <1>4, <1>5 DEF PollInv

LEMMA PollIsExact ==
    ASSUME JournalInv, LineageInv, PollInv
    PROVE  ReplayIsExact /\ ReadsAreNotRefused
<1>1. ASSUME NEW r \in Readers
      PROVE  /\ client[r].got =
                  EventsAt(file, {i \in ValidEnds(file) :
                                    /\ i <= StartOf(client[r].cursor)
                                    /\ EventAt(file, i) \in Thread})
             /\ reader[r].at = "done" =>
                  Page(r).status \notin {"invalid", "unstable"}
             /\ client[r].cursor # None =>
                  /\ client[r].cursor.offset \in ValidEnds(file)
                  /\ client[r].cursor.anchor = Anchor(file)
  <2>1. /\ file \in Seq(Cell) /\ Resumes(file, client[r].cursor)
        /\ Slice(file, client[r].got, 0, StartOf(client[r].cursor))
        /\ Reads(file, client[r], reader[r])
    BY ReadsAre DEF Holds
  <2>2. StartOf(client[r].cursor) \in Nat
    BY <2>1, ResumesAt
  <2>3. reader[r].at = "done" => Page(r).status \in {"ok", "error"}
    BY <2>1 DEF Reads, Page
  <2>4. client[r].got =
            EventsAt(file, {i \in ValidEnds(file) :
                              /\ i <= StartOf(client[r].cursor)
                              /\ EventAt(file, i) \in Thread})
    BY <2>1, <2>2, SliceLog
  <2> QED
    BY <2>1, <2>3, <2>4 DEF Resumes
<1> QED
  BY <1>1 DEF ReplayIsExact, ReadsAreNotRefused

\* For any rows, line lengths, read sizes, page sizes, limits, clients and
\* failed appends: as long as repair_unterminated_tail cuts no line while a
\* scan is between two of its reads, every client of events_after holds
\* exactly the thread's rows up to its cursor.
THEOREM ReplayIsExactHolds == Spec /\ [][Undisturbed]_vars => []ReplayIsExact
<1>1. Init => JournalInv /\ LineageInv /\ PollInv
  BY JournalInitHolds, LineageInitHolds, PollInitHolds
<1>2. /\ JournalInv /\ LineageInv /\ PollInv
      /\ [Next]_vars /\ [Undisturbed]_vars
      => JournalInv' /\ LineageInv' /\ PollInv'
  BY JournalStep, LineageStep, PollStep
<1>3. JournalInv /\ LineageInv /\ PollInv => ReplayIsExact
  BY PollIsExact
<1> QED
  BY <1>1, <1>2, <1>3, PTL DEF Spec

\* Under the same condition no read is refused, and every client's cursor
\* can be resumed from.
THEOREM ReadsAreNotRefusedHolds ==
    Spec /\ [][Undisturbed]_vars => []ReadsAreNotRefused
<1>1. Init => JournalInv /\ LineageInv /\ PollInv
  BY JournalInitHolds, LineageInitHolds, PollInitHolds
<1>2. /\ JournalInv /\ LineageInv /\ PollInv
      /\ [Next]_vars /\ [Undisturbed]_vars
      => JournalInv' /\ LineageInv' /\ PollInv'
  BY JournalStep, LineageStep, PollStep
<1>3. JournalInv /\ LineageInv /\ PollInv => ReadsAreNotRefused
  BY PollIsExact
<1> QED
  BY <1>1, <1>2, <1>3, PTL DEF Spec

\* Without a failed append, a file that nobody writes to ends in a newline.
Whole ==
    /\ faults = 0
    /\ writer.at # "write" => LastEnd(file) = Len(file)

LEMMA WholeStep ==
    ASSUME MaxFaults = 0, JournalInv, Whole, [Next]_vars
    PROVE  Whole' /\ Undisturbed
<1>1. /\ file \in Seq(Cell) /\ Len(file) \in Nat
      /\ LastEnd(file) \in Nat /\ LastEnd(file) <= Len(file)
  <2>1. file \in Seq(Cell)
    BY DEF JournalInv, JournalTypes
  <2>2. Len(file) \in Nat
    BY ONLY SMTT(30), <2>1
  <2> QED
    BY SMTT(30), <2>1, <2>2, LastEndBound
<1>2. ASSUME Len(file') >= Len(file) PROVE Undisturbed
  BY <1>2 DEF Undisturbed
<1>3. ASSUME file' = file PROVE Undisturbed
  <2>1. Len(file') >= Len(file)
    BY SMTT(30), <1>1, <1>3
  <2> QED
    BY <1>2, <2>1
<1>4. ASSUME UNCHANGED <<file, writer, faults>> PROVE Whole' /\ Undisturbed
  <2>1. Whole'
    BY <1>4 DEF Whole
  <2> QED
    BY <1>3, <1>4, <2>1
<1>5. ASSUME NEW e \in Events, LockStream(e) PROVE Whole' /\ Undisturbed
  <2>1. /\ file' = file /\ faults' = faults /\ writer.at = "idle"
    BY <1>5 DEF LockStream
  <2>2. Whole'
    BY <2>1 DEF Whole
  <2> QED
    BY <1>3, <2>1, <2>2
<1>6. CASE RepairTail
  <2>1. /\ file' = SubSeq(file, 1, LastEnd(file)) /\ faults' = faults
        /\ writer.at = "repair" /\ writer' = [writer EXCEPT !.at = "write"]
    BY <1>6 DEF RepairTail
  <2>2. LastEnd(file) = Len(file)
    BY <2>1 DEF Whole
  <2>3. Len(file') >= Len(file)
    BY SMTT(30), <1>1, <2>1, <2>2
  <2>4. writer'.at = "write"
    BY SMTT(30), <2>1 DEF JournalInv, JournalTypes, Writers
  <2>5. Whole'
    BY <2>1, <2>4 DEF Whole
  <2> QED
    BY <1>2, <2>3, <2>5
<1>7. CASE WriteCell
  <2>1. /\ file' = Append(file, Head(writer.left)) /\ faults' = faults
        /\ writer.at = "write" /\ writer' = [writer EXCEPT !.left = Tail(@)]
    BY <1>7 DEF WriteCell
  <2>2. Len(file') >= Len(file)
    BY SMTT(30), <1>1, <2>1
  <2>3. writer'.at = "write"
    BY SMTT(30), <2>1 DEF JournalInv, JournalTypes, Writers
  <2>4. Whole'
    BY <2>1, <2>3 DEF Whole
  <2> QED
    BY <1>2, <2>2, <2>4
<1>8. CASE AppendReturns
  <2> DEFINE e == writer.event
  <2>1. /\ file' = file /\ faults' = faults
        /\ writer.at = "write" /\ writer.left = <<>>
    BY <1>8 DEF AppendReturns
  <2>2. e \in Events /\ EndsIn(file, e, Wrote)
    BY <2>1 DEF JournalInv, JournalTypes, WriterInv
  <2>3. Size[e] \in Nat /\ Line(e)[Size[e] + 1] = NewLine
    BY <2>2, LineIs
  <2>4. Wrote = Size[e] + 1
    BY SMTT(30), <2>1, <2>3 DEF Wrote
  <2>5. file[Len(file)] = NewLine /\ Len(file) \in DOMAIN file
    <3> DEFINE k == Size[e] + 1
    <3>1. k \in 0..Len(file) /\ \A i \in 1..k : file[Len(file) - k + i] = Line(e)[i]
      BY <2>2, <2>4 DEF EndsIn
    <3>2. k \in 1..k /\ Len(file) - k + k = Len(file) /\ Len(file) \in 1..Len(file)
      BY SMTT(30), <1>1, <2>3, <3>1
    <3>3. DOMAIN file = 1..Len(file)
      BY ONLY SMTT(30), <1>1
    <3>4. file[Len(file) - k + k] = Line(e)[k]
      BY <3>1, <3>2
    <3> QED
      BY <2>3, <3>2, <3>3, <3>4
  <2>6. Len(file) \in Ends(file)
    BY <2>5 DEF Ends
  <2>7. Len(file) <= LastEnd(file)
    BY <1>1, <2>6, LastEndBound
  <2>8. LastEnd(file) = Len(file)
    BY SMTT(30), <1>1, <2>7
  <2>9. Whole'
    BY <2>1, <2>8 DEF Whole
  <2> QED
    BY <1>3, <2>1, <2>9
<1>9. CASE AppendFails
  <2>1. 0 < 0
    BY <1>9 DEF AppendFails, Whole
  <2> QED
    BY SMTT(30), <2>1
<1>10. ASSUME NEW r \in Readers, ReadStep(r) \/ ClientStep(r)
       PROVE  UNCHANGED <<file, writer, faults>>
  <2>1. UNCHANGED <<file, writer>>
    BY <1>10, ReadersLeaveTheStream
  <2>2. UNCHANGED faults
    BY <1>10 DEF ReadStep, ReadLength, ReadAnchor, OpenPage, ScanChunk,
       VerifyLineage, ClientStep, EventsAfter, PageFails, PageEmpty,
       PageReachesLimit, PageScanned, Answers
  <2> QED
    BY <2>1, <2>2
<1>11. CASE UNCHANGED vars
  BY <1>4, <1>11 DEF vars, journalVars
<1>12. CASE WriterNext
  BY <1>5, <1>6, <1>7, <1>8, <1>9, <1>12 DEF WriterNext, WriterStep
<1>13. CASE \E r \in Readers : ReadStep(r) \/ ClientStep(r)
  BY <1>4, <1>10, <1>13
<1> QED
  BY <1>11, <1>12, <1>13 DEF Next

\* Where no append fails nothing is ever cut: polling is exact and no read
\* is refused, however the reads of a scan and the writes of an append
\* interleave and whatever the sizes are.
THEOREM FaultlessReplay ==
    ASSUME MaxFaults = 0
    PROVE  Spec => [](ReplayIsExact /\ ReadsAreNotRefused)
<1>1. Init => Whole
  <2> SUFFICES ASSUME Init PROVE Whole
    OBVIOUS
  <2>1. file = <<>> /\ faults = 0 /\ file \in Seq(Cell)
    BY SMTT(30) DEF Init, JournalInit
  <2>2. LastEnd(file) \in 0..Len(file) /\ Len(file) = 0
    <3>1. Len(file) = 0
      BY SMTT(30), <2>1
    <3> QED
      BY <2>1, <3>1, LastEndBound
  <2>3. LastEnd(file) = Len(file)
    BY SMTT(30), <2>2
  <2> QED
    BY <2>1, <2>3 DEF Whole
<1>2. JournalInv /\ Whole /\ [Next]_vars => Whole' /\ Undisturbed
  BY WholeStep
<1>3. JournalInv /\ Whole /\ [Next]_vars => Whole' /\ [Undisturbed]_vars
  BY <1>2
<1> QED
  BY <1>1, <1>3, JournalInvHolds, ReplayIsExactHolds, ReadsAreNotRefusedHolds,
     PTL DEF Spec
=============================================================================
