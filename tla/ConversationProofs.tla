------------------------- MODULE ConversationProofs -------------------------
(***************************************************************************)
(* Proofs about Conversation, for every size of the context, the opening,  *)
(* the chunks and the messages, and any number of sends.                   *)
(*                                                                         *)
(* The inductive invariant has four parts.  Sound holds whatever fails:    *)
(* types, the places where a send may be, and that the ledger's positions  *)
(* are never behind its tokens.  Opened is about the opening, also         *)
(* whatever fails: it is in the cache as soon as there is a turn, because  *)
(* the prompt that waits to be decoded starts with it.  Room is about the  *)
(* room found for a reply.  Books holds as long as nothing has failed: the *)
(* cache is the tokens, position by position, the turns tile them, and the *)
(* same is true of the snapshot on disk.                                   *)
(*                                                                         *)
(* LedgerMatchesCache alone is not inductive.  That a drop takes from the  *)
(* tokens what it takes from the cache needs the turns (their ends lie     *)
(* within the tokens, and the first ends beyond the protected prefix); a   *)
(* reopening needs the files.                                              *)
(***************************************************************************)
EXTENDS Conversation, SequenceTheorems, FiniteSetTheorems, TLAPS

---------------------------------------------------------------------------
(* The cells of the cache                                                  *)

(* What the cache may hold: tokens at positions, no more than fit.         *)
InCells(cells) ==
    /\ cells \subseteq Nat \X Tokens
    /\ IsFiniteSet(cells) /\ Cardinality(cells) <= NCtx

(* A run of no tokens has no cells.                                        *)
LEMMA EmptyCells == ASSUME NEW position PROVE Cells(position, <<>>) = {}
<1>1. 1..Len(<<>>) = {}
  OBVIOUS
<1> QED BY <1>1 DEF Cells

(* A run has as many cells as tokens.                                      *)
LEMMA CellsCount ==
    ASSUME NEW S, NEW run \in Seq(S), NEW position \in Int
    PROVE  IsFiniteSet(Cells(position, run)) /\ Cardinality(Cells(position, run)) = Len(run)
<1> DEFINE n == Len(run)  f == [i \in 1..n |-> <<position + i - 1, run[i]>>]
<1>0. n \in Nat
  OBVIOUS
<1>1. IsFiniteSet(1..n) /\ Cardinality(1..n) = n
  BY SMTT(20), <1>0, FS_Interval
<1>2. f \in Bijection(1..n, Cells(position, run))
  <2>1. f \in Surjection(1..n, Cells(position, run))
    BY DEF Surjection, Cells
  <2>2. \A i, j \in 1..n : f[i] = f[j] => i = j
    BY <1>0
  <2> QED BY <2>1, <2>2 DEF Bijection, Injection, IsInjective, Surjection
<1>3. ExistsBijection(1..n, Cells(position, run))
  BY <1>2 DEF ExistsBijection
<1> QED BY <1>1, <1>3, FS_Bijection

(* Decoding a run after another one gives the cells of both together.      *)
LEMMA CellsConcat ==
    ASSUME NEW S, NEW run \in Seq(S), NEW more \in Seq(S)
    PROVE  Cells(0, run \o more) = Cells(0, run) \cup Cells(Len(run), more)
<1> DEFINE n == Len(run)  m == Len(more)  all == run \o more
<1>1. /\ n \in Nat /\ m \in Nat /\ Len(all) = n + m
      /\ \A i \in 1..n : all[i] = run[i]
      /\ \A i \in 1..m : all[n + i] = more[i]
  BY ConcatProperties
<1> HIDE DEF n, m, all
<1>2. \A x \in Cells(0, run) : x \in Cells(0, all)
  <2> SUFFICES ASSUME NEW i \in 1..Len(run) PROVE <<0 + i - 1, run[i]>> \in Cells(0, all)
    BY DEF Cells
  <2>1. i \in 1..Len(all) /\ all[i] = run[i]
    BY <1>1 DEF n
  <2> QED BY <2>1 DEF Cells
<1>3. \A x \in Cells(n, more) : x \in Cells(0, all)
  <2> SUFFICES ASSUME NEW i \in 1..Len(more) PROVE <<n + i - 1, more[i]>> \in Cells(0, all)
    BY DEF Cells
  <2>1. n + i \in 1..Len(all) /\ all[n + i] = more[i] /\ n + i - 1 = 0 + (n + i) - 1
    BY <1>1 DEF m
  <2> QED BY <2>1 DEF Cells
<1>4. \A x \in Cells(0, all) : x \in Cells(0, run) \cup Cells(n, more)
  <2> SUFFICES ASSUME NEW i \in 1..Len(all)
               PROVE  <<0 + i - 1, all[i]>> \in Cells(0, run) \cup Cells(n, more)
    BY DEF Cells
  <2>1. CASE i <= n
    <3>1. i \in 1..Len(run) /\ all[i] = run[i]
      BY <1>1, <2>1 DEF n
    <3> QED BY <3>1 DEF Cells
  <2>2. CASE i > n
    <3>1. i - n \in 1..Len(more) /\ all[i] = more[i - n] /\ 0 + i - 1 = n + (i - n) - 1
      BY <1>1, <2>2 DEF m
    <3> QED BY <3>1 DEF Cells
  <2> QED BY <1>1, <2>1, <2>2
<1> QED BY <1>2, <1>3, <1>4 DEF n, all

(* Tokens that fit (decode_chunked asks the backend) keep the cache in its *)
(* bounds.                                                                 *)
LEMMA AddCells ==
    ASSUME NEW cells, InCells(cells), NEW run \in Seq(Tokens), NEW position \in Nat,
           Cardinality(cells) + Len(run) <= NCtx
    PROVE  InCells(cells \cup Cells(position, run))
<1> USE SizesAssumption
<1> DEFINE more == Cells(position, run)
<1>1. more \subseteq Nat \X Tokens
  BY ElementOfSeq DEF Cells
<1>2. IsFiniteSet(more) /\ Cardinality(more) = Len(run)
  BY CellsCount
<1>3. /\ IsFiniteSet(cells \cup more)
      /\ Cardinality(cells \cup more) = Cardinality(cells) + Cardinality(more)
                                        - Cardinality(cells \cap more)
  BY <1>2, FS_Union DEF InCells
<1>4. /\ Cardinality(cells \cap more) \in Nat /\ Cardinality(cells) \in Nat
      /\ Len(run) \in Nat
  BY <1>2, FS_Intersection, FS_CardinalityType DEF InCells
<1> HIDE DEF more
<1>5. Cardinality(cells \cup more) <= NCtx
  BY <1>2, <1>3, <1>4
<1>6. (cells \cup more) \subseteq Nat \X Tokens
  BY <1>1 DEF InCells
<1> QED BY <1>3, <1>5, <1>6 DEF InCells, more

(* Closing a gap does not add cells.                                       *)
LEMMA CompactedFits ==
    ASSUME NEW cells, InCells(cells), NEW from \in Nat, NEW to \in Int, from < to
    PROVE  InCells(Compacted(cells, from, to))
<1> USE SizesAssumption
<1> DEFINE kept == {cell \in cells : cell[1] < from \/ cell[1] >= to}
           moved(cell) == <<cell[1] - (to - from), cell[2]>>
           f == [cell \in kept |-> IF cell[1] < from THEN cell ELSE moved(cell)]
<1>1. \A cell \in cells :
        cell[1] \in Nat /\ cell[2] \in Tokens /\ cell = <<cell[1], cell[2]>>
  BY DEF InCells
<1>2. Compacted(cells, from, to) = {f[cell] : cell \in kept}
  <2>1. \A x \in Compacted(cells, from, to) : \E cell \in kept : x = f[cell]
    <3> SUFFICES ASSUME NEW x \in Compacted(cells, from, to)
                 PROVE  \E cell \in kept : x = f[cell]
      OBVIOUS
    <3>1. CASE x \in cells /\ x[1] < from
      BY <3>1
    <3>2. CASE \E cell \in cells : cell[1] >= to /\ x = moved(cell)
      <4>1. PICK cell \in cells : cell[1] >= to /\ x = moved(cell)
        BY <3>2
      <4>2. cell \in kept /\ ~(cell[1] < from)
        BY <1>1, <4>1
      <4> QED BY <4>1, <4>2
    <3> QED BY <3>1, <3>2 DEF Compacted
  <2>2. ASSUME NEW cell \in kept PROVE f[cell] \in Compacted(cells, from, to)
    BY <1>1 DEF Compacted
  <2> QED BY <2>1, <2>2
<1>3. f \in Surjection(kept, Compacted(cells, from, to))
  BY <1>2 DEF Surjection
<1>4. IsFiniteSet(kept) /\ Cardinality(kept) <= Cardinality(cells)
  BY FS_Subset DEF InCells
<1>5. /\ IsFiniteSet(Compacted(cells, from, to))
      /\ Cardinality(Compacted(cells, from, to)) <= Cardinality(kept)
  BY <1>3, <1>4, FS_Surjection
<1>6. /\ Cardinality(kept) \in Nat /\ Cardinality(cells) \in Nat
      /\ Cardinality(Compacted(cells, from, to)) \in Nat
  BY <1>4, <1>5, FS_CardinalityType DEF InCells
<1>7. Compacted(cells, from, to) \subseteq Nat \X Tokens
  BY <1>1 DEF Compacted
<1> HIDE DEF kept, f
<1>8. Cardinality(Compacted(cells, from, to)) <= NCtx
  BY <1>4, <1>5, <1>6 DEF InCells
<1> QED BY <1>5, <1>7, <1>8 DEF InCells

(* What is left of a run when tokens.drain has taken a span.               *)
LEMMA DrainedIs ==
    ASSUME NEW S, NEW run \in Seq(S), NEW from \in Nat, NEW to \in Nat,
           from <= to, to <= Len(run)
    PROVE  /\ Drained(run, from, to) \in Seq(S)
           /\ Len(Drained(run, from, to)) = Len(run) - (to - from)
           /\ \A i \in 1..Len(run) - (to - from) :
                Drained(run, from, to)[i] = IF i <= from THEN run[i]
                                                         ELSE run[i + (to - from)]
<1> DEFINE n == Len(run)  a == SubSeq(run, 1, from)  b == SubSeq(run, to + 1, n)
<1>1. n \in Nat /\ \A i \in 1..n : run[i] \in S
  BY ElementOfSeq
<1>2. a \in Seq(S) /\ Len(a) = from /\ \A i \in 1..from : a[i] = run[i]
  <2>1. \A i \in 1..from : run[i] \in S
    BY <1>1
  <2> QED BY <2>1, SubSeqProperties, 1 + from - 1 = from
<1>3. b \in Seq(S) /\ Len(b) = n - to /\ \A i \in 1..n - to : b[i] = run[to + i]
  <2>1. \A i \in to + 1..n : run[i] \in S
    BY <1>1
  <2>2. /\ b \in Seq(S) /\ Len(b) = IF to + 1 <= n THEN n - (to + 1) + 1 ELSE 0
        /\ \A i \in 1..n - (to + 1) + 1 : b[i] = run[to + 1 + i - 1]
    BY <1>1, <2>1, SubSeqProperties
  <2> HIDE DEF b, n
  <2>3. n - (to + 1) + 1 = n - to /\ \A i \in 1..n - to : to + 1 + i - 1 = to + i
    BY <1>1
  <2> QED BY <1>1, <2>2, <2>3 DEF n
<1> HIDE DEF a, b, n
<1>4. /\ a \o b \in Seq(S) /\ Len(a \o b) = from + (n - to)
      /\ \A i \in 1..from + (n - to) : (a \o b)[i] = IF i <= from THEN a[i] ELSE b[i - from]
  <2>1. /\ a \o b \in Seq(S) /\ Len(a \o b) = Len(a) + Len(b)
        /\ \A i \in 1..Len(a) + Len(b) :
             (a \o b)[i] = IF i <= Len(a) THEN a[i] ELSE b[i - Len(a)]
    BY <1>2, <1>3, ConcatProperties
  <2> QED BY <1>2, <1>3, <2>1
<1>5. Drained(run, from, to) = a \o b
  BY DEF Drained, a, b, n
<1>6. n - (to - from) = from + (n - to)
  BY <1>1
<1>7. ASSUME NEW i \in 1..n - (to - from)
      PROVE  Drained(run, from, to)[i] = IF i <= from THEN run[i] ELSE run[i + (to - from)]
  <2>1. CASE i <= from
    BY <1>1, <1>2, <1>4, <1>5, <1>6, <2>1
  <2>2. CASE i > from
    <3>1. i - from \in 1..n - to /\ to + (i - from) = i + (to - from)
      BY <1>1, <2>2
    <3> QED BY <1>1, <1>3, <1>4, <1>5, <1>6, <2>2, <3>1
  <2> QED BY <1>1, <2>1, <2>2
<1> QED BY <1>4, <1>5, <1>6, <1>7 DEF n

(* What a drop rests on: removing a span of cells and shifting what        *)
(* follows gives the cells of the drained tokens.                          *)
LEMMA CompactedCells ==
    ASSUME NEW S, NEW run \in Seq(S), NEW from \in Nat, NEW to \in Nat,
           from <= to, to <= Len(run)
    PROVE  Compacted(Cells(0, run), from, to) = Cells(0, Drained(run, from, to))
<1> DEFINE n == Len(run)  left == Drained(run, from, to)  cells == Cells(0, run)
           new == Compacted(cells, from, to)  by == to - from
<1>1. /\ n \in Nat /\ Len(left) = n - by /\ by \in Nat
      /\ \A i \in 1..n - by : left[i] = IF i <= from THEN run[i] ELSE run[i + by]
  BY DrainedIs
<1>2. /\ \A x : x \in cells <=> \E i \in 1..n : x = <<i - 1, run[i]>>
      /\ \A x : x \in Cells(0, left) <=> \E i \in 1..Len(left) : x = <<i - 1, left[i]>>
  BY <1>1 DEF Cells
<1>3. \A x : x \in new <=> \/ x \in cells /\ x[1] < from
                           \/ \E d \in cells : d[1] >= to /\ x = <<d[1] - by, d[2]>>
  BY DEF Compacted
<1> HIDE DEF n, left, cells, new
<1>4. ASSUME NEW x, x \in new PROVE x \in Cells(0, left)
  <2>1. CASE x \in cells /\ x[1] < from
    <3>1. PICK i \in 1..n : x = <<i - 1, run[i]>>
      BY <1>2, <2>1
    <3>2. i \in 1..Len(left) /\ left[i] = run[i]
      BY <1>1, <2>1, <3>1 DEF n
    <3> QED BY <1>2, <3>1, <3>2
  <2>2. CASE \E d \in cells : d[1] >= to /\ x = <<d[1] - by, d[2]>>
    <3>1. PICK d \in cells : d[1] >= to /\ x = <<d[1] - by, d[2]>>
      BY <2>2
    <3>2. PICK i \in 1..n : d = <<i - 1, run[i]>>
      BY <1>2, <3>1
    <3>3. /\ i - by \in 1..Len(left) /\ left[i - by] = run[i] /\ i - 1 - by = (i - by) - 1
      BY <1>1, <3>1, <3>2
    <3> QED BY <1>2, <3>1, <3>2, <3>3
  <2> QED BY <1>3, <1>4, <2>1, <2>2
<1>5. ASSUME NEW x, x \in Cells(0, left) PROVE x \in new
  <2>1. PICK i \in 1..Len(left) : x = <<i - 1, left[i]>>
    BY <1>2, <1>5
  <2>2. CASE i <= from
    <3>1. i \in 1..n /\ left[i] = run[i]
      BY <1>1, <2>1, <2>2
    <3>2. x \in cells /\ x[1] < from
      BY <1>2, <2>1, <2>2, <3>1
    <3> QED BY <1>3, <3>2
  <2>3. CASE i > from
    <3> DEFINE d == <<i + by - 1, run[i + by]>>
    <3>1. /\ i + by \in 1..n /\ left[i] = run[i + by]
      BY <1>1, <2>1, <2>3
    <3>2. d \in cells
      BY <1>2, <3>1
    <3>3. d[1] >= to /\ x = <<d[1] - by, d[2]>>
      BY <1>1, <2>1, <2>3, <3>1
    <3> QED BY <1>3, <3>2, <3>3
  <2> QED BY <1>1, <2>1, <2>2, <2>3
<1> QED BY <1>4, <1>5 DEF new, cells, left

---------------------------------------------------------------------------
(* Turn boundaries                                                         *)

(* What a turn boundary may be when something has failed.                  *)
Boundary == [role : {"user", "assistant"}, start : Int, end : Int]

(* Turns that tile the positions before `upto`, from a user turn on.       *)
Tiled(ts, upto) ==
    /\ \A i \in DOMAIN ts :
        /\ ts[i].role = IF i % 2 = 1 THEN "user" ELSE "assistant"
        /\ 0 <= ts[i].start /\ ts[i].start <= ts[i].end /\ ts[i].end <= upto
        /\ i % 2 = 1 => ts[i].start < ts[i].end
    /\ \A i, j \in DOMAIN ts : i < j => ts[i].end <= ts[j].start
    /\ \A i, j \in DOMAIN ts : j = i + 1 => ts[i].end = ts[j].start
    /\ IF ts = <<>> THEN upto \in {0, OpeningLen}
                    ELSE ts[1].start \in {0, OpeningLen} /\ ts[Len(ts)].end = upto

(* Shifting a boundary changes its two ends only.                          *)
LEMMA MovedBoundary ==
    ASSUME NEW b \in Boundary, NEW by \in Int
    PROVE  LET moved == [b EXCEPT !.start = @ - by, !.end = @ - by] IN
           /\ moved \in Boundary /\ moved.role = b.role
           /\ moved.start = b.start - by /\ moved.end = b.end - by
<1>1. ASSUME NEW s \in Int, NEW e \in Int
      PROVE  LET moved == [b EXCEPT !.start = s, !.end = e] IN
             /\ moved \in Boundary /\ moved.role = b.role
             /\ moved.start = s /\ moved.end = e
  BY DEF Boundary
<1>2. b.start - by \in Int /\ b.end - by \in Int
  BY DEF Boundary
<1> QED BY <1>1, <1>2

(* The ends of a boundary are numbers.                                     *)
LEMMA BoundariesAreIntervals ==
    ASSUME NEW ts \in Seq(Boundary)
    PROVE  \A i \in 1..Len(ts) : ts[i].start \in Int /\ ts[i].end \in Int
<1>1. \A i \in 1..Len(ts) : ts[i] \in Boundary
  BY ElementOfSeq
<1> QED BY <1>1 DEF Boundary

(* The turn after an even number of turns is an odd one.                   *)
LEMMA Parity ==
    ASSUME NEW n \in Nat
    PROVE  n % 2 \in {0, 1} /\ ((n + 1) % 2 = 1 <=> n % 2 = 0)
OBVIOUS

(* What is left of the turns when the oldest two are dropped.              *)
LEMMA ShiftedAre ==
    ASSUME NEW ts \in Seq(Boundary), Len(ts) >= 2, NEW by \in Int
    PROVE  LET new == ShiftedTurns(SubSeq(ts, 3, Len(ts)), by) IN
           /\ new \in Seq(Boundary) /\ Len(new) = Len(ts) - 2
           /\ \A i \in 1..Len(ts) - 2 :
                /\ i + 2 \in DOMAIN ts
                /\ new[i].role = ts[i + 2].role
                /\ new[i].start = ts[i + 2].start - by
                /\ new[i].end = ts[i + 2].end - by
<1> DEFINE n == Len(ts)  rest == SubSeq(ts, 3, n)  new == ShiftedTurns(rest, by)
           moved(i) == [rest[i] EXCEPT !.start = @ - by, !.end = @ - by]
<1>1. n \in Nat /\ n >= 2 /\ DOMAIN ts = 1..n /\ \A i \in 1..n : ts[i] \in Boundary
  BY ElementOfSeq
<1>2. rest \in Seq(Boundary) /\ Len(rest) = n - 2 /\ \A i \in 1..n - 2 : rest[i] = ts[i + 2]
  <2>1. \A i \in 3..n : ts[i] \in Boundary
    BY <1>1
  <2>2. /\ rest \in Seq(Boundary) /\ Len(rest) = IF 3 <= n THEN n - 3 + 1 ELSE 0
        /\ \A i \in 1..n - 3 + 1 : rest[i] = ts[3 + i - 1]
    BY <1>1, <2>1, SubSeqProperties
  <2> HIDE DEF rest, n
  <2>3. n - 3 + 1 = n - 2 /\ \A i \in 1..n - 2 : 3 + i - 1 = i + 2
    BY <1>1
  <2> QED BY <1>1, <2>2, <2>3
<1> HIDE DEF rest, n
<1>3. DOMAIN rest = 1..n - 2 /\ n - 2 \in Nat
  BY <1>1, <1>2
<1>4. new = [i \in 1..n - 2 |-> moved(i)]
  BY <1>3 DEF ShiftedTurns
<1>5. ASSUME NEW i \in 1..n - 2
      PROVE  /\ moved(i) \in Boundary /\ i + 2 \in DOMAIN ts
             /\ moved(i).role = ts[i + 2].role
             /\ moved(i).start = ts[i + 2].start - by
             /\ moved(i).end = ts[i + 2].end - by
  <2>1. i + 2 \in 1..n /\ rest[i] = ts[i + 2] /\ ts[i + 2] \in Boundary
    BY <1>1, <1>2
  <2>2. /\ moved(i) \in Boundary /\ moved(i).role = rest[i].role
        /\ moved(i).start = rest[i].start - by /\ moved(i).end = rest[i].end - by
    <3>1. rest[i] \in Boundary
      BY <2>1
    <3> QED BY <3>1, MovedBoundary
  <2> QED BY <1>1, <2>1, <2>2
<1>6. new \in Seq(Boundary) /\ Len(new) = n - 2
  <2> HIDE DEF moved
  <2>1. \A i \in 1..n - 2 : moved(i) \in Boundary
    BY <1>5
  <2>2. [i \in 1..n - 2 |-> moved(i)] \in Seq(Boundary)
    BY <1>3, <2>1, IsASeq
  <2>3. Len([i \in 1..n - 2 |-> moved(i)]) = n - 2
    BY <1>3
  <2> QED BY <1>4, <2>2, <2>3
<1> HIDE DEF moved
<1>7. \A i \in 1..n - 2 : new[i] = moved(i)
  BY <1>4
<1> QED BY <1>5, <1>6, <1>7 DEF rest, n

(* A turn recorded from where the last one ends keeps the tiling.          *)
LEMMA TiledAppend ==
    ASSUME NEW ts \in Seq(Boundary), NEW upto \in Nat, NEW end \in Nat,
           Tiled(ts, upto), upto <= end,
           NEW role, role = IF Len(ts) % 2 = 0 THEN "user" ELSE "assistant",
           role = "user" => upto < end
    PROVE  LET more == Append(ts, [role |-> role, start |-> upto, end |-> end]) IN
           /\ more \in Seq(Boundary) /\ more # <<>> /\ Len(more) = Len(ts) + 1
           /\ more[1].end = IF ts = <<>> THEN end ELSE ts[1].end
           /\ Tiled(more, end)
<1> DEFINE n == Len(ts)  b == [role |-> role, start |-> upto, end |-> end]
           more == Append(ts, b)
<1>1. /\ n \in Nat /\ DOMAIN ts = 1..n /\ b \in Boundary
      /\ \A i \in 1..n : ts[i].start \in Int /\ ts[i].end \in Int
  BY BoundariesAreIntervals, LenProperties DEF Boundary
<1>2. /\ more \in Seq(Boundary) /\ Len(more) = n + 1 /\ DOMAIN more = 1..(n + 1)
      /\ \A i \in 1..n : more[i] = ts[i]
      /\ more[n + 1] = b /\ more # <<>>
  BY <1>1, AppendProperties, LenProperties
<1>3. b.role = role /\ b.start = upto /\ b.end = end
  OBVIOUS
<1>4. n % 2 \in {0, 1} /\ ((n + 1) % 2 = 1 <=> n % 2 = 0)
  BY <1>1, Parity
<1>5. /\ n = 0 <=> ts = <<>>
      /\ n = 0 => upto \in {0, OpeningLen}
      /\ n # 0 => ts[1].start \in {0, OpeningLen} /\ ts[n].end = upto
  BY EmptySeq DEF Tiled
<1>6. \A i \in 1..n : /\ ts[i].role = IF i % 2 = 1 THEN "user" ELSE "assistant"
                      /\ 0 <= ts[i].start /\ ts[i].start <= ts[i].end /\ ts[i].end <= upto
                      /\ i % 2 = 1 => ts[i].start < ts[i].end
  BY <1>1 DEF Tiled
<1>7. \A i, j \in 1..n : /\ i < j => ts[i].end <= ts[j].start
                         /\ j = i + 1 => ts[i].end = ts[j].start
  BY <1>1 DEF Tiled
<1> HIDE DEF n, b, more
<1>8. \A i \in 1..(n + 1) : i \in 1..n \/ i = n + 1
  BY <1>1
<1>9. \A i \in 1..(n + 1) :
        /\ more[i].role = IF i % 2 = 1 THEN "user" ELSE "assistant"
        /\ 0 <= more[i].start /\ more[i].start <= more[i].end /\ more[i].end <= end
        /\ i % 2 = 1 => more[i].start < more[i].end
  <2>1. ASSUME NEW i \in 1..n
        PROVE  /\ more[i].role = IF i % 2 = 1 THEN "user" ELSE "assistant"
               /\ 0 <= more[i].start /\ more[i].start <= more[i].end /\ more[i].end <= end
               /\ i % 2 = 1 => more[i].start < more[i].end
    <3>1. more[i] = ts[i] /\ ts[i].end \in Int
      BY <1>1, <1>2
    <3>2. ts[i].end <= upto
      BY <1>6
    <3> QED BY <1>6, <3>1, <3>2
  <2>2. /\ more[n + 1].role = IF (n + 1) % 2 = 1 THEN "user" ELSE "assistant"
        /\ 0 <= upto /\ upto <= end
        /\ (n + 1) % 2 = 1 => upto < end
    BY <1>2, <1>3, <1>4 DEF n
  <2> QED BY <1>2, <1>3, <1>8, <2>1, <2>2
<1>10. \A i, j \in 1..(n + 1) : /\ i < j => more[i].end <= more[j].start
                                /\ j = i + 1 => more[i].end = more[j].start
  <2> SUFFICES ASSUME NEW i \in 1..(n + 1), NEW j \in 1..(n + 1), i < j
               PROVE  /\ more[i].end <= more[j].start
                      /\ j = i + 1 => more[i].end = more[j].start
    BY <1>1
  <2>1. i \in 1..n /\ more[i] = ts[i]
    BY <1>1, <1>2
  <2>2. CASE j \in 1..n
    BY <1>2, <1>7, <2>1, <2>2
  <2>3. CASE j = n + 1
    <3>1. more[j].start = upto /\ ts[i].end <= upto
      BY <1>2, <1>3, <1>6, <2>1, <2>3
    <3>2. j = i + 1 => ts[i].end = upto
      BY <1>1, <1>5, <2>1, <2>3
    <3> QED BY <2>1, <3>1, <3>2
  <2> QED BY <1>8, <2>2, <2>3
<1>11. more[1].start \in {0, OpeningLen} /\ more[n + 1].end = end
  BY <1>1, <1>2, <1>3, <1>5
<1>12. Tiled(more, end)
  BY <1>2, <1>9, <1>10, <1>11 DEF Tiled
<1>13. more[1].end = IF ts = <<>> THEN end ELSE ts[1].end
  BY <1>1, <1>2, <1>3, <1>5
<1> QED BY <1>2, <1>12, <1>13 DEF more, n, b

(* What a drop rests on: the span it takes lies within the tokens, is not  *)
(* empty, starts behind the protected prefix, and the turns that are left  *)
(* tile what is left.                                                      *)
DropsWhole(ts, upto, guard, start) ==
    LET end == ts[2].end
        by == end - start
        new == ShiftedTurns(SubSeq(ts, 3, Len(ts)), by)
    IN
    /\ start \in Nat /\ end \in Nat /\ by > 0 /\ end <= upto /\ guard <= start
    /\ new \in Seq(Boundary) /\ Len(new) = Len(ts) - 2
    /\ Tiled(new, upto - by)
    /\ new # <<>> => new[1].end > guard
    /\ new = <<>> => upto - by = start

(* Dropping the first two of several tiling turns drops them whole.        *)
LEMMA TiledDrop ==
    ASSUME NEW ts \in Seq(Boundary), NEW upto \in Nat, Tiled(ts, upto), Len(ts) >= 2,
           NEW guard \in {0, OpeningLen}, ts[1].end > guard,
           NEW start, start = IF ts[1].start > guard THEN ts[1].start ELSE guard
    PROVE  DropsWhole(ts, upto, guard, start)
<1> USE SizesAssumption
<1> DEFINE n == Len(ts)  end == ts[2].end  by == end - start
           new == ShiftedTurns(SubSeq(ts, 3, n), by)
<1>1. /\ n \in Nat /\ n >= 2 /\ DOMAIN ts = 1..n /\ guard \in Nat
      /\ \A i \in 1..n : ts[i].start \in Int /\ ts[i].end \in Int
  BY BoundariesAreIntervals, LenProperties DEF Boundary
<1>2. /\ ts # <<>> /\ ts[1].start \in {0, OpeningLen} /\ ts[n].end = upto
  BY <1>1 DEF Tiled
<1>3. \A i \in 1..n : /\ ts[i].role = IF i % 2 = 1 THEN "user" ELSE "assistant"
                      /\ 0 <= ts[i].start /\ ts[i].start <= ts[i].end /\ ts[i].end <= upto
                      /\ i % 2 = 1 => ts[i].start < ts[i].end
  BY <1>1 DEF Tiled
<1>4. \A i, j \in 1..n : /\ i < j => ts[i].end <= ts[j].start
                         /\ j = i + 1 => ts[i].end = ts[j].start
  BY <1>1 DEF Tiled
<1>5. 1 \in 1..n /\ 2 \in 1..n /\ 1 % 2 = 1
  BY <1>1
<1>6. /\ start \in Nat /\ end \in Nat /\ end <= upto /\ guard <= start
      /\ start < ts[1].end /\ ts[1].end <= end /\ by > 0 /\ by \in Int
      /\ start \in {0, OpeningLen}
  <2>1. /\ ts[1].start < ts[1].end /\ ts[1].end = ts[2].start
        /\ ts[2].start <= end /\ end <= upto
    BY <1>3, <1>4, <1>5
  <2>2. ts[1].start \in Nat /\ ts[1].end \in Int /\ end \in Int
    BY <1>1, <1>3, <1>5
  <2> QED BY <1>1, <1>2, <2>1, <2>2
<1>7. /\ new \in Seq(Boundary) /\ Len(new) = n - 2
      /\ \A i \in 1..n - 2 : /\ i + 2 \in DOMAIN ts
                             /\ new[i].role = ts[i + 2].role
                             /\ new[i].start = ts[i + 2].start - by
                             /\ new[i].end = ts[i + 2].end - by
  BY <1>1, <1>6, ShiftedAre
<1> HIDE DEF n, end, by, new
<1>8. DOMAIN new = 1..n - 2 /\ n - 2 \in Nat
  BY <1>1, <1>7
<1>9. ASSUME NEW i \in 1..n - 2
      PROVE  /\ i + 2 \in 1..n /\ end <= ts[i + 2].start
             /\ new[i].start \in Int /\ new[i].end \in Int
  <2>1. i + 2 \in 1..n /\ 2 < i + 2
    BY <1>1
  <2>2. ts[i + 2].start \in Int /\ ts[i + 2].end \in Int
    BY <1>1, <2>1
  <2>3. end <= ts[i + 2].start
    BY <1>4, <1>5, <2>1 DEF end
  <2>4. new[i].start = ts[i + 2].start - by /\ new[i].end = ts[i + 2].end - by
    BY <1>7
  <2> QED BY SMTT(20), <1>6, <2>1, <2>2, <2>3, <2>4
<1>10. ASSUME NEW i \in 1..n - 2
       PROVE  /\ new[i].role = IF i % 2 = 1 THEN "user" ELSE "assistant"
              /\ 0 <= new[i].start /\ new[i].start <= new[i].end
              /\ new[i].end <= upto - by
              /\ i % 2 = 1 => new[i].start < new[i].end
  <2>1. i + 2 \in 1..n /\ end <= ts[i + 2].start
    BY <1>9
  <2>2. (i + 2) % 2 = i % 2
    OBVIOUS
  <2>3. /\ ts[i + 2].role = IF i % 2 = 1 THEN "user" ELSE "assistant"
        /\ ts[i + 2].start <= ts[i + 2].end /\ ts[i + 2].end <= upto
        /\ i % 2 = 1 => ts[i + 2].start < ts[i + 2].end
    BY <1>3, <2>1, <2>2
  <2>4. ts[i + 2].start \in Int /\ ts[i + 2].end \in Int
    BY <1>1, <2>1
  <2>5. new[i].role = ts[i + 2].role /\ (i % 2 = 1 => new[i].start < new[i].end)
    <3>1. new[i].start = ts[i + 2].start - by /\ new[i].end = ts[i + 2].end - by
      BY <1>7
    <3> QED BY SMTT(20), <1>6, <1>7, <2>3, <2>4, <3>1
  <2>6. 0 <= ts[i + 2].start - by
    <3>1. by = end - start
      BY DEF by
    <3>2. start \in Int /\ end \in Int /\ 0 <= start
      BY <1>6
    <3>3. \A x, y \in Int : y <= x => 0 <= x - (y - start)
      BY <3>2
    <3>4. 0 <= ts[i + 2].start - (end - start)
      BY <2>1, <2>4, <3>2, <3>3
    <3> QED BY <3>1, <3>4
  <2>7. new[i].start = ts[i + 2].start - by /\ new[i].end = ts[i + 2].end - by
    BY <1>7
  <2> QED BY SMTT(20), <1>6, <2>3, <2>4, <2>5, <2>6, <2>7
<1>11. ASSUME NEW i \in 1..n - 2, NEW j \in 1..n - 2
       PROVE  /\ i < j => new[i].end <= new[j].start
              /\ j = i + 1 => new[i].end = new[j].start
  <2>1. i + 2 \in 1..n /\ j + 2 \in 1..n
    BY <1>9
  <2>2. /\ i < j => ts[i + 2].end <= ts[j + 2].start
        /\ j = i + 1 => ts[i + 2].end = ts[j + 2].start
    BY <1>4, <2>1
  <2>3. ts[i + 2].end \in Int /\ ts[j + 2].start \in Int
    BY <1>1, <2>1
  <2> QED BY SMTT(20), <1>6, <1>7, <2>2, <2>3
<1>12. CASE n = 2
  <2>1. new = <<>> /\ upto = end
    BY <1>2, <1>7, <1>12, EmptySeq DEF end
  <2>2. upto - by = start
    BY <1>6, <2>1 DEF by
  <2>3. Tiled(new, upto - by)
    BY <1>6, <2>1, <2>2 DEF Tiled
  <2> QED BY <1>6, <1>7, <2>1, <2>2, <2>3 DEF n, by, end, new, DropsWhole
<1>13. CASE n > 2
  <2>1. /\ new # <<>> /\ 1 \in 1..n - 2 /\ n - 2 \in 1..n - 2 /\ 3 \in 1..n
        /\ Len(new) = n - 2
    BY <1>1, <1>7, <1>13
  <2>2. new[1].start = start /\ new[1].end > guard
    <3>1. /\ ts[3].start = end
          /\ new[1].start = ts[3].start - by /\ new[1].end = ts[3].end - by
      BY <1>4, <1>5, <1>7, <2>1 DEF end
    <3>2. ts[3].start < ts[3].end /\ ts[3].start \in Int /\ ts[3].end \in Int
      BY <1>1, <1>3, <2>1, 3 % 2 = 1
    <3> QED BY SMTT(20), <1>1, <1>6, <3>1, <3>2 DEF by
  <2>3. new[n - 2].end = upto - by
    BY <1>1, <1>2, <1>7, <2>1, (n - 2) + 2 = n
  <2>4. Tiled(new, upto - by)
    BY <1>6, <1>8, <1>10, <1>11, <2>1, <2>2, <2>3 DEF Tiled
  <2> QED BY <1>6, <1>7, <2>1, <2>2, <2>4 DEF n, by, end, new, DropsWhole
<1> QED BY <1>1, <1>12, <1>13

---------------------------------------------------------------------------
(* What holds whatever fails                                               *)

(* The types of the scalars.                                               *)
Flags ==
    /\ phase \in {"idle", "room", "prefill", "generate", "closed", "panicked"}
    /\ overflow \in {"fail", "drop"} /\ seam \in BOOLEAN /\ asked \in BOOLEAN
    /\ faulted \in BOOLEAN
    /\ opening \in {0, OpeningLen} /\ protected \in {0, OpeningLen}
    /\ committed \in Int /\ freed \in Nat /\ sends \in 0..MaxSends

(* The types of the sequences and records.                                 *)
Runs ==
    /\ turns \in Seq(Boundary) /\ tokens \in Seq(Tokens)
    /\ job.prompt \in Seq(Tokens) /\ job.max \in Nat
    /\ reply.fed \in Seq(Tokens) /\ reply.budget \in Nat
    /\ reply.think \in {"before", "open", "after"}
    /\ DOMAIN files = {"state", "meta"}

(* Both together.                                                          *)
Types == Flags /\ Runs

(* What a send has by the time it is in each phase.                        *)
Places ==
    /\ phase # "generate" => reply = NoReply
    /\ phase = "generate" => turns # <<>>
    /\ phase \in {"room", "prefill", "generate"} => sends >= 1
    /\ phase \in {"room", "prefill"} => Len(job.prompt) >= 1
    /\ phase = "closed" => committed = 0 /\ turns = <<>> /\ tokens = <<>> /\ kv = {}

(* Positions run ahead of the tokens when a decode fails, never behind.    *)
Ahead == phase # "panicked" => Len(tokens) + Len(reply.fed) <= committed

(* The types of what is on disk.                                           *)
Saved ==
    /\ files.state # None => InCells(files.state.kv) /\ files.state.tokens \in Seq(Tokens)
    /\ files.meta # None => /\ files.meta.turns \in Seq(Boundary)
                            /\ files.meta.overflow \in {"fail", "drop"}

(* The part of the invariant that holds whatever fails.                    *)
Sound == Types /\ Places /\ Ahead /\ InCells(kv) /\ Saved

(* The tokens of a rendered part.                                          *)
LEMMA CopiesAre ==
    ASSUME NEW part \in {"opening", "prompt", "reply"}, NEW count \in Nat,
           sends \in 0..MaxSends, sends < MaxSends
    PROVE  /\ Copies(part, count) \in Seq(Tokens) /\ Len(Copies(part, count)) = count
           /\ \A i \in 1..count : Copies(part, count)[i] = <<part, sends + 1>>
<1> USE SizesAssumption
<1>1. <<part, sends + 1>> \in Tokens
  BY DEF Tokens
<1>2. [i \in 1..count |-> <<part, sends + 1>>] \in Seq(Tokens)
  BY <1>1, IsASeq
<1> QED BY <1>2 DEF Copies

(* The tokens decoded before a chunk fails: none before the first.         *)
LEMMA FirstIs ==
    ASSUME NEW run \in Seq(Tokens), NEW count \in Nat
    PROVE  /\ First(run, count) \in Seq(Tokens)
           /\ count = 0 => First(run, count) = <<>>
<1> DEFINE n == IF count < Len(run) THEN count ELSE Len(run)
<1>1. n \in Nat /\ n <= Len(run) /\ n <= count /\ \A i \in 1..Len(run) : run[i] \in Tokens
  BY ElementOfSeq, LenProperties
<1>2. \A i \in 1..n : run[i] \in Tokens
  BY <1>1
<1> HIDE DEF n
<1>3. SubSeq(run, 1, n) \in Seq(Tokens)
  BY <1>1, <1>2, SubSeqProperties
<1>4. count = 0 => SubSeq(run, 1, n) = <<>>
  <2> SUFFICES ASSUME count = 0 PROVE SubSeq(run, 1, n) = <<>>
    OBVIOUS
  <2>1. n < 1
    BY <1>1
  <2> QED BY <1>1, <2>1, SubSeqEmpty
<1> QED BY <1>3, <1>4 DEF First, n

(* A send that fails leaves the ledger alone.                              *)
LEMMA SoundInit == Init => Sound
<1> SUFFICES ASSUME Init PROVE Sound
  OBVIOUS
<1> USE SizesAssumption
<1>1. InCells({})
  BY FS_EmptySet DEF InCells
<1>2. overflow \in {"fail", "drop"}
  BY DEF Init
<1>3. /\ phase = "idle" /\ committed = 0 /\ turns = <<>> /\ tokens = <<>> /\ kv = {}
      /\ seam \in BOOLEAN /\ opening = OpeningLen /\ protected = 0 /\ freed = 0
      /\ job.prompt = <<>> /\ job.max = 0 /\ reply = NoReply /\ reply.fed = <<>>
      /\ reply.budget = 0 /\ reply.think = "before" /\ asked = FALSE
      /\ sends = 0 /\ faulted = FALSE
      /\ DOMAIN files = {"state", "meta"} /\ files.state = None /\ files.meta = None
  BY DEF Init, NoJob, NoReply, NoFiles
<1>4. Types
  <2>1. <<>> \in Seq(Tokens) /\ <<>> \in Seq(Boundary)
    BY EmptySeq
  <2>2. Flags
    <3>1. phase = "idle" /\ seam \in BOOLEAN /\ asked \in BOOLEAN /\ faulted \in BOOLEAN
      BY <1>3
    <3>2. opening \in {0, OpeningLen} /\ protected \in {0, OpeningLen}
      BY <1>3
    <3>3. committed \in Int /\ freed \in Nat /\ sends \in 0..MaxSends
      BY <1>3
    <3> QED BY <1>2, <3>1, <3>2, <3>3 DEF Flags
  <2>3. Runs
    BY <1>3, <2>1 DEF Runs
  <2> QED BY <2>2, <2>3 DEF Types
<1>5. Places /\ Ahead /\ Saved
  BY <1>3 DEF Places, Ahead, Saved
<1> QED BY <1>1, <1>3, <1>4, <1>5 DEF Sound

(* Every step keeps it sound.                                              *)
LEMMA SoundStep == Sound /\ [Next]_vars => Sound'
<1> SUFFICES ASSUME Sound, [Next]_vars PROVE Sound'
  OBVIOUS
<1> USE SizesAssumption
<1>0. /\ Len(tokens) \in Nat /\ Len(reply.fed) \in Nat /\ Len(job.prompt) \in Nat
      /\ protected \in Nat /\ opening \in Nat /\ sends \in Nat /\ committed \in Int
      /\ Len(<<>>) = 0 /\ <<>> \in Seq(Tokens) /\ <<>> \in Seq(Boundary)
      /\ Cardinality(kv) \in Nat
  BY LenProperties, EmptySeq, FS_CardinalityType
       DEF Sound, Types, Flags, Runs, InCells
<1>1. ASSUME NEW size \in PromptSizes, NEW max \in Budgets, Send(size, max) PROVE Sound'
  <2> DEFINE head == IF turns = <<>> THEN Copies("opening", opening) ELSE <<>>
  <2>1. /\ phase = "idle" /\ sends < MaxSends /\ phase' = "room"
        /\ job' = [prompt |-> head \o Copies("prompt", size), max |-> max]
        /\ protected' \in {opening, protected} /\ freed' = 0 /\ sends' = sends + 1
        /\ UNCHANGED <<committed, turns, tokens, kv, overflow, seam, opening, reply, asked,
                       files, faulted>>
    BY <1>1 DEF Send, ledger
  <2>2. head \in Seq(Tokens) /\ size \in Nat /\ size >= 1 /\ max \in Nat
    BY <1>0, <2>1, CopiesAre DEF Sound, Types, Flags, Runs
  <2>3. Copies("prompt", size) \in Seq(Tokens) /\ Len(Copies("prompt", size)) = size
    BY <2>1, <2>2, CopiesAre DEF Sound, Types, Flags, Runs
  <2> HIDE DEF head
  <2>4. job'.prompt \in Seq(Tokens) /\ Len(job'.prompt) >= 1 /\ job'.max \in Nat
    <3>1. /\ Len(head) \in Nat /\ head \o Copies("prompt", size) \in Seq(Tokens)
          /\ Len(head \o Copies("prompt", size)) = Len(head) + size
      BY <2>2, <2>3, ConcatProperties, LenProperties
    <3> QED BY <2>1, <2>2, <3>1
  <2> QED BY <1>0, <2>1, <2>4 DEF Sound, Types, Flags, Runs, Places, Ahead, Saved
<1>2. ASSUME NEW size \in PromptSizes, NEW max \in Budgets, SendToolResults(size, max)
      PROVE  Sound'
  <2>1. size \in Nat /\ size >= 1 /\ max \in Nat
    OBVIOUS
  <2>2. Copies("prompt", size) \in Seq(Tokens) /\ Len(Copies("prompt", size)) = size
    BY <1>2, <2>1, CopiesAre DEF SendToolResults, Sound, Types, Flags, Runs
  <2> QED BY SMTT(20), <1>0, <1>2, <2>1, <2>2
          DEF SendToolResults, ledger, shape, Sound, Types, Flags, Runs, Places,
              Ahead, Saved
<1>3. CASE HaveRoom
  BY <1>0, <1>3
       DEF HaveRoom, ledger, shape, Sound, Types, Flags, Runs, Places, Ahead, Saved
<1>4. CASE ContextFull \/ TooLargeToTrim
  <2>1. /\ phase = "room" /\ phase' = "idle" /\ reply' = NoReply /\ reply = NoReply
        /\ job'.prompt = <<>> /\ job'.max = 0
        /\ UNCHANGED <<committed, turns, tokens, kv, overflow, seam, opening, protected,
                       freed, asked, files, sends, faulted>>
    BY <1>4
         DEF ContextFull, TooLargeToTrim, Fail, NoJob, ledger, shape, Sound, Places
  <2> QED BY <1>0, <2>1 DEF Sound, Types, Flags, Runs, Places, Ahead, Saved
<1>5. CASE DropOldestTurns
  <2> DEFINE end == turns[2].end  start == DropStart(turns[1])  removed == end - start
             rest == SubSeq(turns, 3, Len(turns))
  <2>1. /\ phase = "room" /\ Len(turns) >= 2 /\ reply = NoReply /\ reply.fed = <<>>
        /\ UNCHANGED <<overflow, seam, opening, protected, asked, files, sends, faulted>>
    BY <1>5 DEF DropOldestTurns, shape, Sound, Places, NoReply
  <2>2. /\ turns[1].start \in Int /\ end \in Int
        /\ start \in Nat /\ start >= protected /\ removed \in Int
    <3>1. 1 \in 1..Len(turns) /\ 2 \in 1..Len(turns)
      BY <2>1, LenProperties DEF Sound, Types, Flags, Runs
    <3>2. turns[1].start \in Int /\ end \in Int
      BY <3>1, BoundariesAreIntervals DEF Sound, Types, Flags, Runs
    <3> QED BY <1>0, <3>2 DEF DropStart
  <2>3. CASE removed <= 0
    <3>1. /\ turns' = rest /\ phase' = "idle" /\ job' = NoJob /\ reply' = NoReply
          /\ UNCHANGED <<committed, tokens, kv, freed>>
      BY <1>5, <2>3 DEF DropOldestTurns, Fail
    <3>2. rest \in Seq(Boundary)
      <4>1. Len(turns) \in Nat /\ \A i \in 3..Len(turns) : turns[i] \in Boundary
        BY ElementOfSeq, LenProperties DEF Sound, Types, Flags, Runs
      <4> QED BY <4>1, SubSeqProperties
    <3> HIDE DEF rest
    <3> QED BY <1>0, <2>1, <3>1, <3>2
         DEF Sound, Types, Flags, Runs, Places, Ahead, Saved, NoJob, NoReply
  <2>4. CASE removed > 0
    <3>1. /\ turns' = ShiftedTurns(rest, removed) /\ kv' = Compacted(kv, start, end)
          /\ committed' = committed - removed /\ UNCHANGED <<job, reply>>
          /\ IF end > Len(tokens)
               THEN phase' = "panicked" /\ UNCHANGED <<tokens, freed>>
               ELSE /\ tokens' = Drained(tokens, start, end)
                    /\ freed' = freed + removed
                    /\ UNCHANGED phase
      BY <1>5, <2>2, <2>4 DEF DropOldestTurns
    <3>2. turns' \in Seq(Boundary)
      BY <2>1, <2>2, <3>1, ShiftedAre DEF Sound, Types, Flags, Runs
    <3> HIDE DEF start, end, rest
    <3>3. InCells(kv')
      <4>1. start < end
        BY <2>2, <2>4
      <4> QED BY <2>2, <3>1, <4>1, CompactedFits DEF Sound
    <3>4. CASE end > Len(tokens)
      <4>1. /\ phase' = "panicked" /\ committed' \in Int
            /\ UNCHANGED <<tokens, freed, job, reply, files>>
        BY <2>1, <2>2, <3>1, <3>4 DEF Sound, Types, Flags, Runs
      <4>2. Types'
        BY <1>0, <2>1, <3>2, <4>1 DEF Sound, Types, Flags, Runs
      <4>3. Places' /\ Ahead' /\ Saved'
        BY <2>1, <4>1 DEF Sound, Places, Ahead, Saved
      <4> QED BY <3>3, <4>2, <4>3 DEF Sound
    <3>5. CASE end <= Len(tokens)
      <4>1. /\ start \in Nat /\ end \in Nat /\ start <= end /\ ~(end > Len(tokens))
        BY <1>0, <2>2, <2>4, <3>5
      <4>2. /\ tokens' \in Seq(Tokens) /\ Len(tokens') = Len(tokens) - removed
        <5>1. tokens' = Drained(tokens, start, end) /\ end <= Len(tokens)
          BY <3>1, <3>5, <4>1
        <5>2. /\ Drained(tokens, start, end) \in Seq(Tokens)
              /\ Len(Drained(tokens, start, end)) = Len(tokens) - (end - start)
          <6>1. tokens \in Seq(Tokens)
            BY DEF Sound, Types, Runs
          <6> QED BY <4>1, <5>1, <6>1, DrainedIs
        <5> QED BY <5>1, <5>2 DEF removed
      <4>3. /\ Len(tokens') + 0 <= committed' /\ freed' \in Nat /\ committed' \in Int
            /\ phase' = "room" /\ UNCHANGED <<job, reply>>
        <5>1. /\ committed' = committed - removed /\ freed' = freed + removed
              /\ phase' = phase /\ UNCHANGED <<job, reply>>
          BY <3>1, <4>1
        <5>2. Len(tokens) + 0 <= committed /\ freed \in Nat
          BY <1>0, <2>1 DEF Sound, Types, Flags, Runs, Ahead
        <5> HIDE DEF removed
        <5>3. Len(tokens') + 0 <= committed' /\ freed' \in Nat /\ committed' \in Int
          BY <1>0, <2>2, <2>4, <4>2, <5>1, <5>2
        <5> QED BY <2>1, <5>1, <5>3
      <4>4. Types'
        BY <1>0, <2>1, <3>2, <4>2, <4>3 DEF Sound, Types, Flags, Runs
      <4>5. Places' /\ Ahead' /\ Saved'
        BY <1>0, <2>1, <4>3 DEF Sound, Places, Ahead, Saved
      <4> QED BY <3>3, <4>4, <4>5 DEF Sound
    <3> QED BY <1>0, <2>2, <3>4, <3>5
  <2> QED BY <2>2, <2>3, <2>4
<1>6. CASE Prefill
  <2>1. /\ phase = "prefill" /\ phase' = "generate" /\ reply.fed = <<>> /\ committed \in Nat
        /\ Cardinality(kv) + Len(job.prompt) <= NCtx
        /\ kv' = kv \cup Cells(committed, job.prompt)
        /\ committed' = committed + Len(job.prompt)
        /\ turns' = Append(turns, [role |-> "user", start |-> committed, end |-> committed'])
        /\ tokens' = tokens \o job.prompt
        /\ UNCHANGED <<overflow, seam, opening, protected, job, freed, reply, asked, files,
                       sends, faulted>>
    BY <1>0, <1>6
         DEF Prefill, Fits, shape, Sound, Types, Flags, Runs, Places, Ahead, NoReply
  <2>2. InCells(kv')
    BY <2>1, AddCells DEF Sound, Types, Flags, Runs
  <2>3. turns' \in Seq(Boundary) /\ turns' # <<>>
    <3>1. [role |-> "user", start |-> committed, end |-> committed'] \in Boundary
      BY <1>0, <2>1 DEF Boundary
    <3> QED BY <2>1, <3>1, AppendProperties DEF Sound, Types, Flags, Runs
  <2>4. tokens' \in Seq(Tokens) /\ Len(tokens') = Len(tokens) + Len(job.prompt)
    BY <2>1, ConcatProperties DEF Sound, Types, Flags, Runs
  <2>5. Flags'
    BY <1>0, <2>1 DEF Sound, Types, Flags
  <2>8. Runs'
    BY <2>1, <2>3, <2>4 DEF Sound, Types, Runs
  <2>6. Places' /\ Saved'
    BY <2>1, <2>3 DEF Sound, Places, Saved
  <2>7. Ahead'
    <3>1. Len(tokens) + 0 <= committed
      BY <1>0, <2>1 DEF Sound, Ahead
    <3>2. reply'.fed = <<>>
      BY <2>1
    <3>3. Len(tokens') + 0 <= committed'
      BY <1>0, <2>1, <2>4, <3>1
    <3> QED BY <1>0, <3>2, <3>3 DEF Ahead
  <2> QED BY <2>2, <2>5, <2>6, <2>7, <2>8 DEF Sound, Types
<1>7. CASE PrefillFails
  <2>1. PICK before \in 0..(Len(job.prompt) - 1) \div Chunk :
          /\ Fits(Len(First(job.prompt, before * Chunk)))
          /\ kv' = kv \cup Cells(committed, First(job.prompt, before * Chunk))
          /\ faulted' = (faulted \/ Fits(Len(job.prompt)) \/ before > 0)
    BY <1>7 DEF PrefillFails
  <2>2. /\ phase = "prefill" /\ phase' = "idle" /\ job' = NoJob /\ reply' = NoReply
        /\ committed \in Nat
        /\ UNCHANGED <<committed, turns, tokens, overflow, seam, opening, protected, freed,
                       asked, files, sends>>
    BY <1>0, <1>7 DEF PrefillFails, Fail, shape, Sound, Ahead, Types, Flags, Runs
  <2>3. before * Chunk \in Nat
    BY <1>0
  <2>4. InCells(kv')
    BY <2>1, <2>2, <2>3, FirstIs, AddCells DEF Fits, Sound, Types, Flags, Runs
  <2>5. faulted' \in BOOLEAN
    BY <2>1 DEF Sound, Types, Flags, Runs
  <2> QED BY <1>0, <2>2, <2>4, <2>5
       DEF Sound, Types, Flags, Runs, Places, Ahead, Saved, NoJob, NoReply
<1>8. CASE StopAtLimit \/ StopEarly
  <2>1. /\ phase = "generate" /\ phase' = "idle"
        /\ turns' = Append(turns, [role |-> "assistant", start |-> turns[Len(turns)].end,
                                   end |-> committed])
        /\ tokens' = tokens \o reply.fed /\ asked' \in BOOLEAN
        /\ job' = NoJob /\ reply' = NoReply
        /\ UNCHANGED <<committed, kv, overflow, seam, opening, protected, freed, files, sends,
                       faulted>>
    BY <1>8 DEF StopAtLimit, StopEarly, EndReply, shape
  <2>2. turns' \in Seq(Boundary)
    <3>1. Len(turns) \in 1..Len(turns)
      BY <2>1, EmptySeq DEF Sound, Types, Flags, Runs, Places
    <3>2. turns[Len(turns)].end \in Int
      BY <3>1, BoundariesAreIntervals DEF Sound, Types, Flags, Runs
    <3> QED BY <1>0, <2>1, <3>2, AppendProperties
         DEF Sound, Types, Flags, Runs, Boundary
  <2>3. tokens' \in Seq(Tokens) /\ Len(tokens') = Len(tokens) + Len(reply.fed)
    BY <2>1, ConcatProperties DEF Sound, Types, Flags, Runs
  <2> QED BY <1>0, <2>1, <2>2, <2>3
       DEF Sound, Types, Flags, Runs, Places, Ahead, Saved, NoJob, NoReply
<1>9. CASE Feed
  <2>1. PICK think \in ThinkAfter(reply.think) :
          reply' = [fed |-> Append(reply.fed, <<"reply", sends>>),
                    budget |-> IF reply.think = "open" THEN reply.budget
                                                       ELSE reply.budget + 1,
                    think |-> think]
    BY <1>9 DEF Feed
  <2>2. /\ phase = "generate" /\ Cardinality(kv) + 1 <= NCtx
        /\ kv' = kv \cup Cells(committed, <<<<"reply", sends>>>>)
        /\ committed' = committed + 1 /\ committed \in Nat
        /\ <<"reply", sends>> \in Tokens
        /\ UNCHANGED <<phase, turns, tokens, overflow, seam, opening, protected, job, freed,
                       asked, files, sends, faulted>>
    BY SMTT(20), <1>0, <1>9
         DEF Feed, Fits, shape, Sound, Types, Flags, Runs, Places, Ahead, Tokens
  <2>3. InCells(kv')
    <3>1. <<<<"reply", sends>>>> \in Seq(Tokens) /\ Len(<<<<"reply", sends>>>>) = 1
      BY <2>2
    <3> QED BY <2>2, <3>1, AddCells DEF Sound
  <2>4. /\ reply'.fed \in Seq(Tokens) /\ Len(reply'.fed) = Len(reply.fed) + 1
        /\ reply'.budget \in Nat
    BY <2>1, <2>2, AppendProperties DEF Sound, Types, Flags, Runs
  <2>5. reply'.think \in {"before", "open", "after"}
    BY <2>1 DEF ThinkAfter, Sound, Types, Runs
  <2> QED BY SMTT(20), <1>0, <2>2, <2>3, <2>4, <2>5
          DEF Sound, Types, Flags, Runs, Places, Ahead, Saved
<1>10. CASE DecodeFails \/ SampleFails
  <2>1. /\ phase = "generate" /\ phase' = "idle" /\ job' = NoJob /\ reply' = NoReply
        /\ committed' \in {committed, committed + 1} /\ faulted' = TRUE
        /\ UNCHANGED <<turns, tokens, kv, overflow, seam, opening, protected, freed, asked,
                       files, sends>>
    BY <1>10 DEF DecodeFails, SampleFails, Fail, ledger, shape
  <2> QED BY <1>0, <2>1
       DEF Sound, Types, Flags, Runs, Places, Ahead, Saved, NoJob, NoReply
<1>11. CASE Snapshot \/ HangUp
  <2>1. /\ phase = "idle" /\ phase' = "closed" /\ committed' = 0 /\ turns' = <<>>
        /\ tokens' = <<>> /\ kv' = {} /\ reply.fed = <<>>
        /\ files' = files \/ files' = [state |-> [kv |-> kv, tokens |-> tokens],
                                       meta |-> [turns |-> turns, overflow |-> overflow]]
        /\ UNCHANGED <<overflow, seam, opening, protected, job, freed, reply, asked, sends,
                       faulted>>
    BY <1>11
         DEF Snapshot, HangUp, End, StateFile, MetaFile, shape, Sound, Places,
             NoReply
  <2>2. InCells({})
    BY FS_EmptySet DEF InCells
  <2>3. Saved'
    BY <2>1 DEF Sound, Types, Flags, Runs, Saved
  <2>4. DOMAIN files' = {"state", "meta"}
    BY <2>1 DEF Sound, Types, Flags, Runs
  <2>5. Types'
    <3>1. Flags'
      BY <1>0, <2>1 DEF Sound, Types, Flags
    <3>2. Runs'
      BY <1>0, <2>1, <2>4 DEF Sound, Types, Runs
    <3> QED BY <3>1, <3>2 DEF Types
  <2>6. Places' /\ Ahead'
    BY <1>0, <2>1 DEF Sound, Places, Ahead
  <2> QED BY <2>1, <2>2, <2>3, <2>5, <2>6 DEF Sound
<1>12. CASE SnapshotFails
  <2>1. /\ files' = [files EXCEPT !.state = [kv |-> kv, tokens |-> tokens]]
        /\ faulted' = TRUE
        /\ UNCHANGED <<phase, ledger, shape, job, freed, reply, asked, sends>>
    BY <1>12 DEF SnapshotFails, StateFile
  <2>2. Saved'
    BY <2>1 DEF Sound, Types, Flags, Runs, Saved
  <2> QED BY <1>0, <2>1, <2>2
       DEF Sound, Types, Flags, Runs, Places, Ahead, ledger, shape
<1>13. CASE Reopen
  <2>1. /\ phase = "closed" /\ files.state # None /\ files.meta # None /\ phase' = "idle"
        /\ kv' = files.state.kv /\ tokens' = files.state.tokens
        /\ committed' = Len(files.state.tokens) /\ turns' = files.meta.turns
        /\ overflow' = files.meta.overflow /\ opening' = 0 /\ protected' = 0
        /\ reply.fed = <<>>
        /\ UNCHANGED <<seam, job, freed, reply, asked, files, sends, faulted>>
    BY <1>13 DEF Reopen, CommittedOf, Sound, Places, NoReply
  <2>2. Len(files.state.tokens) \in Nat
    BY <2>1, LenProperties DEF Sound, Saved
  <2>3. InCells(kv')
    BY <2>1 DEF Sound, Saved
  <2>4. Flags'
    BY <1>0, <2>1, <2>2 DEF Sound, Types, Flags, Saved
  <2>5. Runs'
    BY <1>0, <2>1 DEF Sound, Types, Runs, Saved
  <2>6. Places' /\ Saved'
    BY <2>1 DEF Sound, Places, Saved
  <2>7. Ahead'
    <3>1. reply'.fed = <<>>
      BY <2>1
    <3>2. Len(tokens') + 0 <= committed'
      BY <2>1, <2>2
    <3> QED BY <1>0, <3>1, <3>2 DEF Ahead
  <2> QED BY <2>3, <2>4, <2>5, <2>6, <2>7 DEF Sound, Types
<1>14. CASE UNCHANGED vars
  BY <1>14 DEF vars, ledger, shape, Sound, Types, Flags, Runs, Places, Ahead, Saved
<1>15. CASE Over
  BY <1>14, <1>15 DEF Over
<1> QED
  BY <1>1, <1>2, <1>3, <1>4, <1>5, <1>6, <1>7, <1>8, <1>9, <1>10, <1>11, <1>12,
     <1>13, <1>14,
     <1>15 DEF Next, Client, Daemon

---------------------------------------------------------------------------
(* The opening                                                             *)

(* Every protected position holds a token of an opening.                   *)
Covered == \A p \in 0..protected - 1 : \E cell \in kv : cell[1] = p /\ cell[2][1] = "opening"

(* Nothing has been decoded for good, and no reply asked for tools.        *)
Untouched == committed = 0 /\ turns = <<>> /\ ~asked

(* The prompt that waits to be decoded starts with the opening.            *)
StartsWithOpening ==
    protected < Len(job.prompt) /\ \A i \in 1..protected : job.prompt[i][1] = "opening"

(* The opening is in the cache, or is about to be decoded.                 *)
Opened ==
    phase # "closed" =>
        /\ Covered \/ Untouched
        /\ phase \in {"room", "prefill"} => Covered \/ StartsWithOpening
        /\ seam /\ opening # protected => phase = "idle" /\ Untouched /\ protected = 0
        /\ ~seam => protected = 0

(* At first nothing is protected.                                          *)
LEMMA OpenedInit == Init => Opened
<1> SUFFICES ASSUME Init PROVE Opened
  OBVIOUS
<1>1. /\ phase = "idle" /\ committed = 0 /\ turns = <<>> /\ asked = FALSE /\ protected = 0
  BY DEF Init
<1> QED BY <1>1 DEF Opened, Untouched

(* Every step keeps it so.                                                 *)
LEMMA OpenedStep == Sound /\ Opened /\ [Next]_vars => Opened'
<1> SUFFICES ASSUME Sound, Opened, [Next]_vars PROVE Opened'
  OBVIOUS
<1> USE SizesAssumption
<1>0. /\ protected \in Nat /\ opening \in Nat /\ committed \in Int /\ seam \in BOOLEAN
      /\ asked \in BOOLEAN
  BY DEF Sound, Types, Flags
<1>a. ASSUME Covered, protected' = protected,
             \A cell \in kv : cell[1] < protected => cell \in kv'
      PROVE  Covered'
  <2> SUFFICES ASSUME NEW p \in 0..protected - 1
               PROVE  \E cell \in kv' : cell[1] = p /\ cell[2][1] = "opening"
    BY <1>a DEF Covered
  <2>1. PICK cell \in kv : cell[1] = p /\ cell[2][1] = "opening"
    BY <1>a DEF Covered
  <2>2. p < protected
    BY <1>0
  <2> QED BY <1>a, <2>1, <2>2
<1>b. ASSUME protected' = 0 PROVE Covered'
  BY <1>b DEF Covered
<1>c. turns # <<>> \/ asked => ~Untouched
  BY DEF Untouched
<1>1. ASSUME NEW size \in PromptSizes, NEW max \in Budgets, Send(size, max) PROVE Opened'
  <2>1. /\ phase = "idle" /\ sends < MaxSends /\ phase' = "room"
        /\ UNCHANGED <<committed, turns, tokens, kv, seam, opening, asked>>
    BY <1>1 DEF Send, ledger
  <2>2. Untouched' <=> Untouched
    BY <2>1 DEF Untouched
  <2>3. CASE turns = <<>> /\ opening > 0 /\ seam
    <3>1. /\ protected' = opening
          /\ job'.prompt = Copies("opening", opening) \o Copies("prompt", size)
      BY <1>1, <2>3 DEF Send
    <3>2. /\ Copies("opening", opening) \in Seq(Tokens)
          /\ Len(Copies("opening", opening)) = opening
          /\ \A i \in 1..opening : Copies("opening", opening)[i] = <<"opening", sends + 1>>
          /\ Copies("prompt", size) \in Seq(Tokens)
          /\ Len(Copies("prompt", size)) = size /\ size \in Nat /\ size > 0
      BY <1>0, <2>1, CopiesAre DEF Sound, Types, Flags
    <3>3. /\ Len(job'.prompt) = opening + size
          /\ \A i \in 1..opening : job'.prompt[i] = Copies("opening", opening)[i]
      <4> DEFINE a == Copies("opening", opening)  b == Copies("prompt", size)
      <4>1. /\ a \in Seq(Tokens) /\ b \in Seq(Tokens) /\ Len(a) = opening /\ Len(b) = size
            /\ job'.prompt = a \o b
        BY <3>1, <3>2
      <4> HIDE DEF a, b
      <4>2. /\ Len(a \o b) = Len(a) + Len(b)
            /\ \A i \in 1..Len(a) + Len(b) :
                 (a \o b)[i] = IF i <= Len(a) THEN a[i] ELSE b[i - Len(a)]
        BY <4>1, ConcatProperties
      <4>3. \A i \in 1..opening : i \in 1..Len(a) + Len(b) /\ i <= Len(a)
        BY <1>0, <3>2, <4>1
      <4>4. \A i \in 1..opening : job'.prompt[i] = a[i]
        BY <4>1, <4>2, <4>3
      <4> QED BY <4>1, <4>2, <4>4 DEF a
    <3>4. StartsWithOpening'
      BY <1>0, <3>1, <3>2, <3>3 DEF StartsWithOpening
    <3>5. Covered' \/ Untouched'
      <4>1. CASE opening = protected
        BY <1>a, <2>1, <2>2, <3>1, <4>1 DEF Opened
      <4>2. CASE opening # protected
        BY <2>1, <2>2, <2>3, <4>2 DEF Opened
      <4> QED BY <4>1, <4>2
    <3>6. seam' /\ opening' = protected'
      BY <2>1, <2>3, <3>1
    <3> QED BY <3>4, <3>5, <3>6 DEF Opened
  <2>4. CASE ~(turns = <<>> /\ opening > 0 /\ seam)
    <3>1. protected' = protected
      BY <1>1, <2>4 DEF Send
    <3>2. CASE turns # <<>>
      <4>1. Covered' /\ (seam => opening = protected) /\ (~seam => protected = 0)
        BY <1>a, <1>c, <2>1, <3>1, <3>2 DEF Opened
      <4> QED BY <2>1, <3>1, <4>1 DEF Opened
    <3>3. CASE turns = <<>>
      <4>1. protected = 0 /\ (seam => opening = 0)
        BY <1>0, <2>1, <2>4, <3>3 DEF Opened
      <4> QED BY <1>b, <2>1, <3>1, <4>1 DEF Opened
    <3> QED BY <3>2, <3>3
  <2> QED BY <2>3, <2>4
<1>2. ASSUME NEW size \in PromptSizes, NEW max \in Budgets, SendToolResults(size, max)
      PROVE  Opened'
  <2>1. /\ phase = "idle" /\ asked /\ phase' = "room"
        /\ UNCHANGED <<kv, seam, opening, protected>>
    BY <1>2 DEF SendToolResults, ledger, shape
  <2>2. Covered' /\ (seam => opening = protected) /\ (~seam => protected = 0)
    BY <1>a, <1>c, <2>1 DEF Opened
  <2> QED BY <2>1, <2>2 DEF Opened
<1>3. CASE HaveRoom
  <2>1. /\ phase = "room" /\ phase' = "prefill"
        /\ UNCHANGED <<committed, turns, asked, kv, seam, opening, protected, job>>
    BY <1>3 DEF HaveRoom, ledger, shape
  <2>2. (Covered' <=> Covered) /\ (Untouched' <=> Untouched)
        /\ (StartsWithOpening' <=> StartsWithOpening)
    BY <2>1 DEF Covered, Untouched, StartsWithOpening
  <2> QED BY <2>1, <2>2 DEF Opened
<1>4. CASE \/ ContextFull \/ TooLargeToTrim \/ PrefillFails \/ SnapshotFails
  <2>1. /\ phase \in {"idle", "room", "prefill"} /\ phase' = "idle" /\ kv \subseteq kv'
        /\ UNCHANGED <<committed, turns, asked, seam, opening, protected>>
    BY <1>4
         DEF ContextFull, TooLargeToTrim, PrefillFails, SnapshotFails, Fail,
             ledger, shape
  <2>2. (Covered => Covered') /\ (Untouched <=> Untouched')
    BY <1>a, <2>1 DEF Untouched
  <2> QED BY <2>1, <2>2 DEF Opened
<1>5. CASE DropOldestTurns
  <2>1. /\ phase = "room" /\ Len(turns) >= 2 /\ phase' \in {"idle", "room", "panicked"}
        /\ UNCHANGED <<seam, opening, protected>>
        /\ \/ UNCHANGED kv
           \/ kv' = Compacted(kv, DropStart(turns[1]), turns[2].end)
    BY <1>5 DEF DropOldestTurns, shape, Fail
  <2>2. turns # <<>> /\ turns[1].start \in Int
    <3>1. 1 \in 1..Len(turns)
      BY <2>1, LenProperties DEF Sound, Types, Runs
    <3> QED BY <2>1, <3>1, BoundariesAreIntervals DEF Sound, Types, Runs
  <2>3. DropStart(turns[1]) >= protected /\ DropStart(turns[1]) \in Int
    BY <1>0, <2>2 DEF DropStart
  <2>4. \A cell \in kv : cell[1] < protected => cell \in kv'
    <3> SUFFICES ASSUME NEW cell \in kv, cell[1] < protected PROVE cell \in kv'
      OBVIOUS
    <3>1. cell[1] \in Nat
      BY DEF Sound, InCells
    <3>2. cell[1] < DropStart(turns[1])
      BY <1>0, <2>3, <3>1
    <3> QED BY <2>1, <3>2 DEF Compacted
  <2>5. Covered' /\ (seam => opening = protected) /\ (~seam => protected = 0)
    BY <1>a, <1>c, <2>1, <2>2, <2>4 DEF Opened
  <2> QED BY <2>1, <2>5 DEF Opened
<1>6. CASE Prefill
  <2>1. /\ phase = "prefill" /\ phase' = "generate"
        /\ kv' = kv \cup Cells(committed, job.prompt)
        /\ UNCHANGED <<seam, opening, protected>>
    BY <1>6 DEF Prefill, shape
  <2>2. (seam => opening = protected) /\ (~seam => protected = 0)
    BY <2>1 DEF Opened
  <2>3. CASE Covered
    BY <1>a, <2>1, <2>2, <2>3 DEF Opened
  <2>4. CASE ~Covered
    <3>1. StartsWithOpening /\ committed = 0
      BY <2>1, <2>4 DEF Opened, Untouched
    <3>2. ASSUME NEW p \in 0..protected - 1
          PROVE  \E cell \in kv' : cell[1] = p /\ cell[2][1] = "opening"
      <4> DEFINE cell == <<0 + (p + 1) - 1, job.prompt[p + 1]>>
      <4>1. p + 1 \in 1..Len(job.prompt) /\ p + 1 \in 1..protected
        BY <1>0, <3>1, LenProperties DEF StartsWithOpening, Sound, Types, Runs
      <4>2. cell \in Cells(0, job.prompt)
        BY <4>1 DEF Cells
      <4>3. cell[1] = p /\ cell[2] = job.prompt[p + 1]
        BY <1>0
      <4>4. job.prompt[p + 1][1] = "opening"
        BY <3>1, <4>1 DEF StartsWithOpening
      <4> QED BY <2>1, <3>1, <4>2, <4>3, <4>4
    <3>3. Covered'
      BY <2>1, <3>2 DEF Covered
    <3> QED BY <2>1, <2>2, <3>3 DEF Opened
  <2> QED BY <2>3, <2>4
<1>7. CASE StopAtLimit \/ StopEarly \/ Feed \/ DecodeFails \/ SampleFails
  <2>1. /\ phase = "generate" /\ phase' \in {"idle", "generate"} /\ kv \subseteq kv'
        /\ UNCHANGED <<seam, opening, protected>>
    BY <1>7
         DEF StopAtLimit, StopEarly, EndReply, Feed, DecodeFails, SampleFails,
             Fail, ledger,
                shape
  <2>2. turns # <<>>
    BY <2>1 DEF Sound, Places
  <2>3. Covered' /\ (seam => opening = protected) /\ (~seam => protected = 0)
    BY <1>a, <1>c, <2>1, <2>2 DEF Opened
  <2> QED BY <2>1, <2>3 DEF Opened
<1>8. CASE Snapshot \/ HangUp
  BY <1>8 DEF Snapshot, HangUp, End, Opened
<1>9. CASE Reopen
  <2>1. opening' = 0 /\ protected' = 0 /\ phase' = "idle"
    BY <1>9 DEF Reopen
  <2> QED BY <1>b, <2>1 DEF Opened
<1>10. CASE UNCHANGED vars
  BY <1>10 DEF vars, ledger, shape, Opened, Covered, Untouched, StartsWithOpening
<1> QED
  BY <1>1, <1>2, <1>3, <1>4, <1>5, <1>6, <1>7, <1>8, <1>9, <1>10
  DEF Next, Client, Daemon, Over

(* Once there is a turn, the opening has been decoded.                     *)
LEMMA OpenedProtects == Sound /\ Opened => OpeningProtected
<1> SUFFICES ASSUME Sound, Opened, turns # <<>>
             PROVE  \A p \in 0..protected - 1 :
                      \E cell \in kv : cell[1] = p /\ cell[2][1] = "opening"
  BY DEF OpeningProtected
<1>1. phase # "closed" /\ ~Untouched
  BY DEF Sound, Places, Untouched
<1> QED BY <1>1 DEF Opened, Covered

---------------------------------------------------------------------------
(* The room for a reply                                                    *)

(* What ensure_room_for has found is still there when the reply runs. It   *)
(* has freed nothing under the policy "fail".                              *)
Room ==
    overflow = "fail" =>
        /\ phase = "room" => freed = 0
        /\ phase = "prefill" => committed + Len(job.prompt) + job.max < NCtx
        /\ phase = "generate" /\ reply.think = "before" =>
            committed + (job.max - reply.budget) < NCtx

(* Every step keeps the room.                                              *)
LEMMA RoomStep == Sound /\ Room /\ [Next]_vars => Room'
<1> SUFFICES ASSUME Sound, Room, [Next]_vars, overflow' = "fail" PROVE Room'
  BY DEF Room
<1> USE SizesAssumption
<1>0. /\ Len(job.prompt) \in Nat /\ job.max \in Nat /\ reply.budget \in Nat
      /\ committed \in Int
  BY LenProperties DEF Sound, Types, Flags, Runs
<1>1. ASSUME NEW size \in PromptSizes, NEW max \in Budgets,
             Send(size, max) \/ SendToolResults(size, max)
      PROVE  Room'
  BY <1>1 DEF Send, SendToolResults, Room
<1>2. CASE HaveRoom
  <2>1. /\ phase = "room" /\ phase' = "prefill" /\ overflow = "fail"
        /\ committed + (Len(job.prompt) + job.max) - freed < NCtx
        /\ UNCHANGED <<committed, job>>
    BY <1>2 DEF HaveRoom, RoomFound, Needed, ledger, shape
  <2>2. freed = 0
    BY <2>1 DEF Room
  <2>3. committed + Len(job.prompt) + job.max < NCtx
    BY <1>0, <2>1, <2>2
  <2> QED BY <2>1, <2>3 DEF Room
<1>3. CASE DropOldestTurns
  BY <1>3 DEF DropOldestTurns, shape
<1>4. CASE Prefill
  <2>1. /\ phase = "prefill" /\ phase' = "generate" /\ overflow = "fail"
        /\ committed' = committed + Len(job.prompt) /\ UNCHANGED <<job, reply>>
        /\ reply.budget = 0
    BY <1>4 DEF Prefill, shape, Sound, Places, NoReply
  <2>2. committed' + (job'.max - reply'.budget) < NCtx
    BY <1>0, <2>1 DEF Room
  <2> QED BY <2>1, <2>2 DEF Room
<1>5. CASE Feed
  <2>1. PICK think \in ThinkAfter(reply.think) :
          reply' = [fed |-> Append(reply.fed, <<"reply", sends>>),
                    budget |-> IF reply.think = "open" THEN reply.budget
                                                       ELSE reply.budget + 1,
                    think |-> think]
    BY <1>5 DEF Feed
  <2>2. /\ phase = "generate" /\ phase' = "generate" /\ overflow = "fail"
        /\ committed' = committed + 1 /\ UNCHANGED job
    BY <1>5 DEF Feed, shape
  <2>3. ASSUME reply'.think = "before"
        PROVE  committed' + (job'.max - reply'.budget) < NCtx
    <3>1. reply.think = "before" /\ reply'.budget = reply.budget + 1
      BY <2>1, <2>3 DEF ThinkAfter, Sound, Types, Runs
    <3>2. committed + (job.max - reply.budget) < NCtx
      BY <2>2, <3>1 DEF Room
    <3> QED BY <1>0, <2>2, <3>1, <3>2
  <2> QED BY <2>2, <2>3 DEF Room
<1>6. CASE \/ ContextFull \/ TooLargeToTrim \/ PrefillFails \/ StopAtLimit \/ StopEarly
           \/ DecodeFails \/ SampleFails \/ Snapshot \/ SnapshotFails \/ HangUp \/ Reopen
  <2>1. phase' \in {"idle", "closed"}
    BY <1>6
         DEF ContextFull, TooLargeToTrim, PrefillFails, StopAtLimit, StopEarly,
             EndReply,
                DecodeFails, SampleFails, Fail, Snapshot, SnapshotFails, HangUp,
                End, Reopen
  <2> QED BY <2>1 DEF Room
<1>7. CASE UNCHANGED vars
  BY <1>7 DEF vars, ledger, shape, Room
<1> QED
  BY <1>1, <1>2, <1>3, <1>4, <1>5, <1>6, <1>7 DEF Next, Client, Daemon, Over

---------------------------------------------------------------------------
(* The books, as long as nothing has failed                                *)

(* The ledger is the cache.                                                *)
Matched ==
    /\ phase # "panicked"
    /\ kv = Cells(0, tokens \o reply.fed)
    /\ committed = Len(tokens) + Len(reply.fed)

(* The turns tile the tokens, in whole exchanges but for the reply that is *)
(* being generated, and the first one is not all opening.                  *)
Exchanges ==
    /\ Tiled(turns, Len(tokens))
    /\ Len(turns) % 2 = IF phase = "generate" THEN 1 ELSE 0
    /\ turns # <<>> => turns[1].end > protected

(* The snapshot on disk, if both files are there.                          *)
Archived ==
    files.state # None /\ files.meta # None =>
        /\ files.state.kv = Cells(0, files.state.tokens)
        /\ Tiled(files.meta.turns, Len(files.state.tokens))
        /\ Len(files.meta.turns) % 2 = 0

(* The part of the invariant that holds until something fails.             *)
Books == Matched /\ Exchanges /\ Archived

(* No turns tile no tokens.                                                *)
LEMMA TiledEmpty == Tiled(<<>>, 0)
<1>1. DOMAIN <<>> = {}
  OBVIOUS
<1> QED BY <1>1 DEF Tiled

(* Runs can be put together in any order of pairs.                         *)
LEMMA ThreeRuns ==
    ASSUME NEW a \in Seq(Tokens), NEW b \in Seq(Tokens), NEW c \in Seq(Tokens)
    PROVE  (a \o b) \o c = a \o (b \o c)
BY ConcatAssociative

(* A run of no tokens adds nothing to the ledger.                          *)
LEMMA EmptyRun == Types => (tokens \o <<>> = tokens /\ <<>> \o <<>> = <<>> /\ Len(<<>>) = 0)
BY ConcatEmptySeq, EmptySeq DEF Types, Runs

(* The books of a new conversation are in order.                           *)
LEMMA BooksInit == Init => Books
<1> SUFFICES ASSUME Init PROVE Books
  OBVIOUS
<1>1. /\ phase = "idle" /\ committed = 0 /\ turns = <<>> /\ tokens = <<>> /\ kv = {}
      /\ reply.fed = <<>> /\ files.state = None
  BY DEF Init, NoReply, NoFiles
<1>2. <<>> \o <<>> = <<>> /\ Len(<<>>) = 0 /\ Cells(0, <<>>) = {} /\ 0 % 2 = 0
  BY EmptyCells
<1>3. Tiled(<<>>, 0)
  BY TiledEmpty
<1>4. Matched
  BY <1>1, <1>2 DEF Matched
<1>5. Exchanges
  BY <1>1, <1>2, <1>3 DEF Exchanges
<1>6. Archived
  BY <1>1 DEF Archived
<1> QED BY <1>4, <1>5, <1>6 DEF Books

(* If the protected prefix is in the cache, positions have reached it.     *)
LEMMA CoveredReaches ==
    Sound /\ Matched /\ reply.fed = <<>> /\ Covered => committed >= protected
<1> SUFFICES ASSUME Sound, Matched, reply.fed = <<>>, Covered, committed < protected
             PROVE  FALSE
  BY SizesAssumption DEF Sound, Types, Flags
<1>1. /\ tokens \o reply.fed = tokens /\ committed = Len(tokens) /\ Len(tokens) \in Nat
      /\ protected \in Nat
  BY SizesAssumption, EmptyRun, LenProperties DEF Matched, Sound, Types, Flags, Runs
<1>2. PICK cell \in kv : cell[1] = protected - 1
  BY <1>1 DEF Covered
<1>3. PICK i \in 1..Len(tokens) : cell = <<0 + i - 1, tokens[i]>>
  BY <1>1, <1>2 DEF Matched, Cells
<1> QED BY <1>1, <1>2, <1>3

(* Every step that does not fail keeps the books.                          *)
LEMMA BooksStep ==
    Sound /\ Opened /\ (~faulted => Books) /\ [Next]_vars => (~faulted' => Books')
<1> SUFFICES ASSUME Sound, Opened, ~faulted => Books, [Next]_vars, ~faulted' PROVE Books'
  OBVIOUS
<1> USE SizesAssumption
<1>0. /\ Len(tokens) \in Nat /\ Len(reply.fed) \in Nat /\ Len(job.prompt) \in Nat
      /\ Len(turns) \in Nat /\ protected \in Nat /\ committed \in Int
      /\ tokens \o <<>> = tokens /\ <<>> \o <<>> = <<>> /\ Len(<<>>) = 0
  BY LenProperties, EmptyRun DEF Sound, Types, Flags, Runs
<1>a. ~faulted
  BY DEF Next, Client, Daemon, Over, vars, Send, SendToolResults, Snapshot,
         SnapshotFails,
         HangUp, Reopen, HaveRoom, ContextFull, TooLargeToTrim, DropOldestTurns,
         Prefill,
         PrefillFails, StopAtLimit, StopEarly, EndReply, Feed, DecodeFails,
         SampleFails
<1>b. Books
  BY <1>a
<1>c. phase # "generate" => /\ reply = NoReply /\ reply.fed = <<>>
                            /\ kv = Cells(0, tokens) /\ committed = Len(tokens)
  <2> SUFFICES ASSUME phase # "generate"
               PROVE  /\ reply = NoReply /\ reply.fed = <<>>
                      /\ kv = Cells(0, tokens) /\ committed = Len(tokens)
    OBVIOUS
  <2>1. reply = NoReply /\ reply.fed = <<>>
    BY DEF Sound, Places, NoReply
  <2> QED BY <1>0, <1>b, <2>1 DEF Books, Matched
<1>1. ASSUME phase # "generate", phase' \notin {"generate", "panicked"}, reply' = reply,
             UNCHANGED <<committed, turns, tokens, kv, files>>,
             turns # <<>> => protected' = protected
      PROVE  Books'
  BY <1>1, <1>b DEF Books, Matched, Exchanges, Archived
<1>2. ASSUME NEW size \in PromptSizes, NEW max \in Budgets,
             Send(size, max) \/ SendToolResults(size, max)
      PROVE  Books'
  BY <1>1, <1>2 DEF Send, SendToolResults, ledger, shape
<1>3. CASE HaveRoom \/ ContextFull \/ TooLargeToTrim
  BY <1>1, <1>3, <1>c DEF HaveRoom, ContextFull, TooLargeToTrim, Fail, ledger, shape
<1>4. CASE DropOldestTurns
  <2> DEFINE end == turns[2].end  start == DropStart(turns[1])  removed == end - start
             rest == SubSeq(turns, 3, Len(turns))
  <2>1. phase = "room" /\ Len(turns) >= 2 /\ UNCHANGED <<protected, files>>
    BY <1>4 DEF DropOldestTurns, shape
  <2>2. /\ turns \in Seq(Boundary) /\ tokens \in Seq(Tokens) /\ protected \in {0, OpeningLen}
        /\ Tiled(turns, Len(tokens)) /\ turns # <<>> /\ turns[1].end > protected
    BY <1>b, <2>1 DEF Sound, Types, Flags, Runs, Books, Exchanges
  <2>3. start = IF turns[1].start > protected THEN turns[1].start ELSE protected
    BY DEF DropStart
  <2>4. /\ start \in Nat /\ end \in Nat /\ removed > 0 /\ end <= Len(tokens)
        /\ ShiftedTurns(rest, removed) \in Seq(Boundary)
        /\ Len(ShiftedTurns(rest, removed)) = Len(turns) - 2
        /\ Tiled(ShiftedTurns(rest, removed), Len(tokens) - removed)
        /\ ShiftedTurns(rest, removed) # <<>> =>
             ShiftedTurns(rest, removed)[1].end > protected
    <3>1. /\ turns \in Seq(Boundary) /\ Len(tokens) \in Nat /\ Len(turns) >= 2
          /\ Tiled(turns, Len(tokens)) /\ protected \in {0, OpeningLen}
          /\ turns[1].end > protected
      BY <1>0, <2>1, <2>2, LenProperties
    <3>2. DropsWhole(turns, Len(tokens), protected, start)
      <4> HIDE DEF start
      <4> QED BY <2>3, <3>1, TiledDrop
    <3> QED BY <3>2 DEF DropsWhole
  <2>5. /\ turns' = ShiftedTurns(rest, removed) /\ kv' = Compacted(kv, start, end)
        /\ committed' = committed - removed /\ UNCHANGED <<job, reply>>
        /\ tokens' = Drained(tokens, start, end) /\ phase' = phase
    <3>1. ~(removed <= 0) /\ ~(end > Len(tokens))
      BY <1>0, <2>4
    <3> QED BY <1>4, <3>1 DEF DropOldestTurns
  <2> HIDE DEF start, end, rest
  <2>6. /\ Compacted(Cells(0, tokens), start, end) = Cells(0, tokens')
        /\ tokens' \in Seq(Tokens) /\ Len(tokens') = Len(tokens) - removed
    <3>1. start <= end /\ start \in Nat /\ end \in Nat /\ end <= Len(tokens)
      BY <2>4
    <3>2. /\ Drained(tokens, start, end) \in Seq(Tokens)
          /\ Len(Drained(tokens, start, end)) = Len(tokens) - (end - start)
      BY <2>2, <3>1, DrainedIs
    <3>3. Compacted(Cells(0, tokens), start, end) = Cells(0, Drained(tokens, start, end))
      BY <2>2, <3>1, CompactedCells
    <3> QED BY <2>5, <3>2, <3>3
  <2> HIDE DEF removed
  <2>7. Matched'
    <3>1. tokens' \o <<>> = tokens'
      BY <2>6, ConcatEmptySeq
    <3>2. kv' = Cells(0, tokens') /\ reply'.fed = <<>> /\ committed' = Len(tokens') + 0
      BY <1>0, <1>c, <2>1, <2>4, <2>5, <2>6
    <3>3. phase' # "panicked"
      BY <2>1, <2>5
    <3> QED BY <1>0, <3>1, <3>2, <3>3 DEF Matched
  <2>8. Exchanges'
    <3>1. (Len(turns) - 2) % 2 = 0
      <4>1. Len(turns) % 2 = 0
        BY <1>b, <2>1 DEF Books, Exchanges
      <4> QED BY <1>0, <2>1, <4>1
    <3>2. Tiled(turns', Len(tokens')) /\ Len(turns') % 2 = 0 /\ phase' = "room"
      BY <2>1, <2>4, <2>5, <2>6, <3>1
    <3> QED BY <2>1, <2>4, <2>5, <3>2 DEF Exchanges
  <2> QED BY <1>b, <2>1, <2>7, <2>8 DEF Books, Archived
<1>5. CASE Prefill
  <2>1. /\ phase = "prefill" /\ phase' = "generate"
        /\ kv' = kv \cup Cells(committed, job.prompt)
        /\ committed' = committed + Len(job.prompt)
        /\ turns' = Append(turns, [role |-> "user", start |-> committed, end |-> committed'])
        /\ tokens' = tokens \o job.prompt
        /\ UNCHANGED <<protected, reply, files>>
    BY <1>5 DEF Prefill, shape
  <2>2. /\ job.prompt \in Seq(Tokens) /\ Len(job.prompt) >= 1 /\ tokens \in Seq(Tokens)
        /\ turns \in Seq(Boundary)
    BY <2>1 DEF Sound, Types, Runs, Places
  <2>3. /\ committed = Len(tokens) /\ kv = Cells(0, tokens) /\ reply'.fed = <<>>
    BY <1>c, <2>1
  <2>4. /\ tokens' \in Seq(Tokens) /\ Len(tokens') = committed' /\ committed' \in Nat
    BY <1>0, <2>1, <2>2, <2>3, ConcatProperties
  <2>5. Matched'
    <3>1. kv' = Cells(0, tokens')
      BY <2>1, <2>2, <2>3, CellsConcat
    <3>2. tokens' \o <<>> = tokens'
      BY <2>4, ConcatEmptySeq
    <3>3. committed' = Len(tokens') + 0
      <4>1. \A n \in Nat : n = n + 0
        OBVIOUS
      <4> QED BY <2>4, <4>1
    <3> QED BY <1>0, <2>1, <2>3, <3>1, <3>2, <3>3 DEF Matched
  <2>6. committed' > protected \/ turns # <<>>
    <3>1. CASE Covered
      BY <1>0, <1>b, <1>c, <2>1, <2>2, <3>1, CoveredReaches DEF Books
    <3>2. CASE StartsWithOpening
      BY <1>0, <2>1, <2>3, <3>2 DEF StartsWithOpening
    <3> QED BY <2>1, <3>1, <3>2 DEF Opened
  <2>7. /\ turns' # <<>> /\ Len(turns') = Len(turns) + 1
        /\ turns'[1].end = IF turns = <<>> THEN committed' ELSE turns[1].end
        /\ Tiled(turns', committed')
    <3>1. Tiled(turns, committed) /\ Len(turns) % 2 = 0
      BY <1>b, <2>1, <2>3 DEF Books, Exchanges
    <3>2. committed \in Nat /\ committed < committed' /\ committed <= committed'
      BY <1>0, <2>1, <2>2, <2>3
    <3>3. "user" = IF Len(turns) % 2 = 0 THEN "user" ELSE "assistant"
      BY <3>1
    <3> DEFINE more == Append(turns, [role |-> "user", start |-> committed,
                                      end |-> committed'])
    <3>4. /\ more # <<>> /\ Len(more) = Len(turns) + 1
          /\ more[1].end = IF turns = <<>> THEN committed' ELSE turns[1].end
          /\ Tiled(more, committed')
      BY <2>2, <2>4, <3>1, <3>2, <3>3, TiledAppend
    <3>5. turns' = more
      BY <2>1
    <3> HIDE DEF more
    <3> QED BY <3>4, <3>5
  <2>8. Exchanges'
    <3>1. Len(turns') % 2 = 1
      <4>1. Len(turns) % 2 = 0
        BY <1>b, <2>1 DEF Books, Exchanges
      <4> QED BY <1>0, <2>7, <4>1
    <3>2. turns'[1].end > protected'
      BY <1>b, <2>1, <2>6, <2>7 DEF Books, Exchanges
    <3> QED BY <2>1, <2>4, <2>7, <3>1, <3>2 DEF Exchanges
  <2> QED BY <1>b, <2>1, <2>5, <2>8 DEF Books, Archived
<1>6. CASE PrefillFails
  <2>1. PICK before \in 0..(Len(job.prompt) - 1) \div Chunk :
          /\ kv' = kv \cup Cells(committed, First(job.prompt, before * Chunk))
          /\ faulted' = (faulted \/ Fits(Len(job.prompt)) \/ before > 0)
    BY <1>6 DEF PrefillFails
  <2>2. /\ phase = "prefill" /\ phase' = "idle" /\ reply' = NoReply
        /\ UNCHANGED <<committed, turns, tokens, protected, files>>
    BY <1>6 DEF PrefillFails, Fail, shape
  <2>3. before = 0 /\ before * Chunk = 0
    <3>1. ~(before > 0)
      BY <2>1
    <3> QED BY <3>1
  <2>4. First(job.prompt, before * Chunk) = <<>>
    BY <2>3, FirstIs DEF Sound, Types, Runs
  <2>5. kv' = kv
    BY <2>1, <2>4, EmptyCells
  <2> QED BY <1>1, <1>c, <2>2, <2>5
<1>7. CASE StopAtLimit \/ StopEarly
  <2>1. /\ phase = "generate" /\ phase' = "idle"
        /\ turns' = Append(turns, [role |-> "assistant", start |-> turns[Len(turns)].end,
                                   end |-> committed])
        /\ tokens' = tokens \o reply.fed /\ reply' = NoReply
        /\ UNCHANGED <<committed, kv, protected, files>>
    BY <1>7 DEF StopAtLimit, StopEarly, EndReply, shape
  <2>2. /\ tokens \in Seq(Tokens) /\ reply.fed \in Seq(Tokens) /\ turns \in Seq(Boundary)
        /\ turns # <<>>
    BY <2>1 DEF Sound, Types, Runs, Places
  <2>3. /\ tokens' \in Seq(Tokens) /\ Len(tokens') = committed /\ committed \in Nat
        /\ reply'.fed = <<>>
    BY <1>0, <1>b, <2>1, <2>2, ConcatProperties DEF Books, Matched, NoReply
  <2>4. Matched'
    <3>1. tokens' \o <<>> = tokens'
      BY <2>3, ConcatEmptySeq
    <3>2. kv' = Cells(0, tokens')
      BY <1>b, <2>1 DEF Books, Matched
    <3>3. committed' = Len(tokens') + 0
      BY <2>1, <2>3
    <3> QED BY <1>0, <2>1, <2>3, <3>1, <3>2, <3>3 DEF Matched
  <2>5. Tiled(turns, Len(tokens)) /\ Len(turns) % 2 = 1 /\ turns[1].end > protected
    BY <1>b, <2>1, <2>2 DEF Books, Exchanges
  <2>6. /\ turns' # <<>> /\ Len(turns') = Len(turns) + 1
        /\ turns'[1].end = turns[1].end /\ Tiled(turns', committed)
    <3>1. turns[Len(turns)].end = Len(tokens)
      BY <2>2, <2>5 DEF Tiled
    <3>2. Len(tokens) <= committed
      BY <1>0, <1>b DEF Books, Matched
    <3>3. Len(turns) % 2 # 0
      BY <2>5
    <3> QED BY SMTT(20), <1>0, <2>1, <2>2, <2>3, <2>5, <3>1, <3>2, <3>3, TiledAppend
  <2>7. Exchanges'
    <3>1. Len(turns') % 2 = 0
      BY <1>0, <2>5, <2>6
    <3> QED BY <2>1, <2>3, <2>5, <2>6, <3>1 DEF Exchanges
  <2> QED BY <1>b, <2>1, <2>4, <2>7 DEF Books, Archived
<1>8. CASE Feed
  <2> DEFINE token == <<"reply", sends>>
  <2>1. reply'.fed = Append(reply.fed, token)
    BY <1>8 DEF Feed
  <2>2. /\ phase = "generate" /\ kv' = kv \cup Cells(committed, <<token>>)
        /\ committed' = committed + 1
        /\ UNCHANGED <<phase, turns, tokens, protected, files>>
    BY <1>8 DEF Feed, shape
  <2>3. /\ tokens \in Seq(Tokens) /\ reply.fed \in Seq(Tokens) /\ token \in Tokens
        /\ <<token>> \in Seq(Tokens)
    <3>1. token \in Tokens
      BY <2>2 DEF Tokens, Sound, Types, Flags, Places
    <3> HIDE DEF token
    <3> QED BY <3>1 DEF Sound, Types, Runs
  <2> HIDE DEF token
  <2>4. /\ tokens \o reply.fed \in Seq(Tokens) /\ Len(tokens \o reply.fed) = committed
    BY <1>b, <2>3, ConcatProperties DEF Books, Matched
  <2>5. tokens' \o reply'.fed = (tokens \o reply.fed) \o <<token>>
    <3>1. reply'.fed = reply.fed \o <<token>> /\ tokens' = tokens
      BY <2>1, <2>2, <2>3, AppendIsConcat
    <3>2. (tokens \o reply.fed) \o <<token>> = tokens \o (reply.fed \o <<token>>)
      <4>1. ASSUME NEW c \in Seq(Tokens)
            PROVE  (tokens \o reply.fed) \o c = tokens \o (reply.fed \o c)
        <5> DEFINE a == tokens  b == reply.fed
        <5>1. a \in Seq(Tokens) /\ b \in Seq(Tokens)
          BY <2>3
        <5> HIDE DEF a, b
        <5>2. (a \o b) \o c = a \o (b \o c)
          BY <4>1, <5>1, ThreeRuns
        <5> QED BY <5>2 DEF a, b
      <4> QED BY <2>3, <4>1
    <3> QED BY <3>1, <3>2
  <2>6. kv' = Cells(0, tokens' \o reply'.fed)
    <3> DEFINE run == tokens \o reply.fed
    <3>1. /\ run \in Seq(Tokens) /\ Len(run) = committed /\ kv = Cells(0, run)
          /\ tokens' \o reply'.fed = run \o <<token>>
      BY <1>b, <2>4, <2>5 DEF Books, Matched
    <3> HIDE DEF run
    <3>2. Cells(0, run \o <<token>>) = Cells(0, run) \cup Cells(Len(run), <<token>>)
      <4>1. ASSUME NEW a \in Seq(Tokens)
            PROVE  Cells(0, run \o a) = Cells(0, run) \cup Cells(Len(run), a)
        BY <3>1, CellsConcat
      <4> QED BY <2>3, <4>1
    <3> QED BY <2>2, <3>1, <3>2
  <2>7. committed' = Len(tokens') + Len(reply'.fed)
    <3>1. Len(reply'.fed) = Len(reply.fed) + 1
      BY <2>1, <2>3, AppendProperties
    <3> QED BY <1>0, <1>b, <2>2, <3>1 DEF Books, Matched
  <2> QED BY <1>b, <2>2, <2>6, <2>7 DEF Books, Matched, Exchanges, Archived
<1>9. CASE DecodeFails \/ SampleFails \/ SnapshotFails
  BY <1>9 DEF DecodeFails, SampleFails, SnapshotFails
<1>10. CASE Snapshot \/ HangUp
  <2>1. /\ phase = "idle" /\ phase' = "closed" /\ committed' = 0 /\ turns' = <<>>
        /\ tokens' = <<>> /\ kv' = {} /\ reply' = reply
        /\ files' = files \/ files' = [state |-> [kv |-> kv, tokens |-> tokens],
                                       meta |-> [turns |-> turns, overflow |-> overflow]]
    BY <1>10 DEF Snapshot, HangUp, End, StateFile, MetaFile
  <2>2. Cells(0, <<>>) = {} /\ reply'.fed = <<>> /\ Tiled(<<>>, 0) /\ 0 % 2 = 0
    BY <1>c, <2>1, EmptyCells, TiledEmpty
  <2>3. Matched'
    <3>1. tokens' \o reply'.fed = <<>>
      BY <1>0, <2>1, <2>2
    <3>2. committed' = Len(tokens') + Len(reply'.fed)
      BY <1>0, <2>1, <2>2
    <3> QED BY <2>1, <2>2, <3>1, <3>2 DEF Matched
  <2>4. Exchanges'
    BY <1>0, <2>1, <2>2 DEF Exchanges
  <2>5. Archived'
    <3>1. CASE files' = files
      BY <1>b, <3>1 DEF Books, Archived
    <3>2. CASE files' = [state |-> [kv |-> kv, tokens |-> tokens],
                         meta |-> [turns |-> turns, overflow |-> overflow]]
      <4>1. /\ files'.state.kv = kv /\ files'.state.tokens = tokens
            /\ files'.meta.turns = turns
        BY <3>2
      <4>2. kv = Cells(0, tokens) /\ Tiled(turns, Len(tokens)) /\ Len(turns) % 2 = 0
        BY <1>b, <1>c, <2>1 DEF Books, Exchanges
      <4> QED BY <4>1, <4>2 DEF Archived
    <3> QED BY <2>1, <3>1, <3>2
  <2> QED BY <2>3, <2>4, <2>5 DEF Books
<1>11. CASE Reopen
  <2>1. /\ phase = "closed" /\ files.state # None /\ files.meta # None /\ phase' = "idle"
        /\ kv' = files.state.kv /\ tokens' = files.state.tokens
        /\ committed' = Len(files.state.tokens) /\ turns' = files.meta.turns
        /\ protected' = 0 /\ UNCHANGED <<reply, files>>
    BY <1>11 DEF Reopen, CommittedOf
  <2>2. /\ kv' = Cells(0, tokens') /\ Tiled(turns', Len(tokens')) /\ Len(turns') % 2 = 0
        /\ Archived
    BY <1>b, <2>1 DEF Books, Archived
  <2>3. tokens' \in Seq(Tokens) /\ turns' \in Seq(Boundary) /\ reply'.fed = <<>>
    BY <1>c, <2>1 DEF Sound, Saved
  <2>4. Matched'
    <3>1. tokens' \o <<>> = tokens' /\ Len(tokens') \in Nat
      BY <2>3, ConcatEmptySeq, LenProperties
    <3>2. committed' = Len(tokens') + 0
      BY <2>1, <3>1
    <3> QED BY <1>0, <2>1, <2>2, <2>3, <3>1, <3>2 DEF Matched
  <2>5. turns' # <<>> => turns'[1].end > protected'
    <3> SUFFICES ASSUME turns' # <<>> PROVE turns'[1].end > 0
      BY <2>1
    <3>1. 1 \in DOMAIN turns' /\ 1 \in 1..Len(turns')
      BY <2>3, LenProperties, EmptySeq
    <3>2. turns'[1].start \in Int /\ turns'[1].end \in Int
      BY <2>3, <3>1, BoundariesAreIntervals
    <3>3. 0 <= turns'[1].start /\ turns'[1].start < turns'[1].end
      BY <2>2, <3>1, 1 % 2 = 1 DEF Tiled
    <3> QED BY <3>2, <3>3
  <2>6. Exchanges'
    BY <2>1, <2>2, <2>5 DEF Exchanges
  <2> QED BY <2>1, <2>2, <2>4, <2>6 DEF Books, Archived
<1>12. CASE UNCHANGED vars
  BY <1>12, <1>b DEF vars, ledger, shape, Books, Matched, Exchanges, Archived
<1> QED
  BY <1>2, <1>3, <1>4, <1>5, <1>6, <1>7, <1>8, <1>9, <1>10, <1>11, <1>12
  DEF Next, Client, Daemon, Over

---------------------------------------------------------------------------
(* The theorems                                                            *)

(* The inductive invariant.                                                *)
IInv == Sound /\ Opened /\ Room /\ (~faulted => Books)

(* The invariant holds in every state a conversation reaches.              *)
THEOREM Invariance == Spec => []IInv
<1>1. Init => IInv
  <2>1. Init => Room
    BY DEF Init, Room
  <2> QED BY <2>1, SoundInit, OpenedInit, BooksInit DEF IInv
<1>2. IInv /\ [Next]_vars => IInv'
  BY SoundStep, OpenedStep, RoomStep, BooksStep DEF IInv
<1> QED BY <1>1, <1>2, PTL DEF Spec

(* The books give LedgerMatchesCache ...                                   *)
LEMMA LedgerIsCache == Sound /\ (~faulted => Books) => LedgerMatchesCache
<1> SUFFICES ASSUME Sound, Books PROVE LedgerMatchesCache
  BY DEF LedgerMatchesCache
<1>1. Len(tokens \o reply.fed) = Len(tokens) + Len(reply.fed)
  BY ConcatProperties DEF Sound, Types, Runs
<1> QED BY <1>1 DEF LedgerMatchesCache, Books, Matched

(* ... and TurnsTile ...                                                   *)
LEMMA TurnsAreExchanges == Sound /\ (~faulted => Books) => TurnsTile
<1> SUFFICES ASSUME Sound, Books, phase \in {"idle", "room", "prefill"}
             PROVE  LET n == Len(turns) IN
                    /\ \A i \in 1..n : turns[i].role = IF i % 2 = 1 THEN "user"
                                                                    ELSE "assistant"
                    /\ \A i \in 1..n - 1 : turns[i].end = turns[i + 1].start
                    /\ n > 0 => turns[1].start \in {0, OpeningLen} /\ turns[n].end = committed
                    /\ n % 2 = 0
  BY DEF TurnsTile
<1>1. Len(turns) \in Nat /\ DOMAIN turns = 1..Len(turns) /\ Len(tokens) \in Nat
  BY LenProperties DEF Sound, Types, Runs
<1>2. Tiled(turns, Len(tokens)) /\ Len(turns) % 2 = 0
  BY DEF Books, Exchanges
<1>3. committed = Len(tokens)
  <2>1. reply.fed = <<>> /\ Len(<<>>) = 0
    BY EmptyRun DEF Sound, Places, NoReply
  <2> QED BY <1>1, <2>1 DEF Books, Matched
<1>4. \A i \in 1..Len(turns) - 1 : i \in DOMAIN turns /\ i + 1 \in DOMAIN turns
  BY <1>1
<1>5. Len(turns) > 0 => turns # <<>>
  BY <1>1
<1> QED BY <1>1, <1>2, <1>3, <1>4, <1>5 DEF Tiled

(* ... and with the cache in its bounds no position leaves the context.    *)
LEMMA TypesAre == Sound /\ (~faulted => Books) => TypeOK
<1> SUFFICES ASSUME Sound, ~faulted => Books PROVE TypeOK
  OBVIOUS
<1> USE SizesAssumption
<1>1. \A cell \in kv : cell[1] \in Nat /\ cell[2] \in Tokens
  BY DEF Sound, InCells
<1>2. ASSUME ~faulted
      PROVE  /\ committed \in 0..NCtx /\ turns \in Seq(Turns)
             /\ \A cell \in kv : cell[1] \in 0..NCtx - 1
  <2> DEFINE all == tokens \o reply.fed
  <2>1. /\ all \in Seq(Tokens) /\ Len(all) = committed /\ kv = Cells(0, all)
        /\ Len(tokens) \in Nat /\ Len(tokens) <= committed /\ committed \in Nat
    BY <1>2, ConcatProperties, LenProperties DEF Books, Matched, Sound, Types, Runs
  <2> HIDE DEF all
  <2>2. committed <= NCtx
    BY <2>1, CellsCount DEF Sound, InCells
  <2>3. turns \in Seq(Turns)
    <3>1. /\ turns \in Seq(Boundary) /\ Len(turns) \in Nat /\ DOMAIN turns = 1..Len(turns)
          /\ turns = [i \in 1..Len(turns) |-> turns[i]]
      BY LenProperties DEF Sound, Types, Runs
    <3>2. ASSUME NEW i \in 1..Len(turns) PROVE turns[i] \in Turns
      <4>1. turns[i] \in Boundary
        BY <3>1, ElementOfSeq
      <4>2. /\ 0 <= turns[i].start /\ turns[i].start <= turns[i].end
            /\ turns[i].end <= Len(tokens)
        BY <1>2, <3>1 DEF Books, Exchanges, Tiled
      <4>3. turns[i].start \in Int /\ turns[i].end \in Int
        BY <4>1 DEF Boundary
      <4>4. turns[i].start \in 0..NCtx /\ turns[i].end \in 0..NCtx
        BY <2>1, <2>2, <4>2, <4>3
      <4> QED BY <4>1, <4>4 DEF Boundary, Turns
    <3> QED BY <3>1, <3>2, IsASeq
  <2>4. ASSUME NEW cell \in kv PROVE cell[1] \in 0..NCtx - 1
    <3>1. PICK i \in 1..Len(all) : cell = <<0 + i - 1, all[i]>>
      BY <2>1 DEF Cells
    <3> QED BY <2>1, <2>2, <3>1
  <2> QED BY <2>1, <2>2, <2>3, <2>4
<1> QED BY <1>1, <1>2 DEF TypeOK, Sound, Types, Flags, Runs, InCells

(* Every variable keeps its type, the cache never holds more than n_ctx    *)
(* cells, and without a fault no position (committed_pos, a turn boundary, *)
(* a cell) lies outside the context.                                       *)
THEOREM TypeCorrect == Spec => []TypeOK
<1>1. IInv => TypeOK
  BY TypesAre DEF IInv
<1> QED BY <1>1, Invariance, PTL

(* Without a fault Conversation's tokens and committed_pos are what the KV *)
(* cache holds, position by position, through every drop of the oldest     *)
(* turns (drop_oldest_turns_for: the cells removed and shifted, the tokens *)
(* drained), every reply and every reopening from a snapshot.              *)
THEOREM LedgerIsTheCache == Spec => []LedgerMatchesCache
<1>1. IInv => LedgerMatchesCache
  BY LedgerIsCache DEF IInv
<1> QED BY <1>1, Invariance, PTL

(* Without a fault the turn boundaries tile what is committed in whole     *)
(* exchanges, user first: what drop_oldest_turns_for takes two by two is   *)
(* always a question and its answer.                                       *)
THEOREM WholeExchanges == Spec => []TurnsTile
<1>1. IInv => TurnsTile
  BY TurnsAreExchanges DEF IInv
<1> QED BY <1>1, Invariance, PTL

(* drop_oldest_turns_for never reclaims a protected position, and what is  *)
(* there is a token of an opening, whatever fails under the conversation.  *)
THEOREM OpeningStays == Spec => []OpeningProtected
<1>1. IInv => OpeningProtected
  BY OpenedProtects DEF IInv
<1> QED BY <1>1, Invariance, PTL

(* Under the policy "fail", a reply that has not begun to think is not cut *)
(* short by the context: what is left of max_new_tokens still fits, as     *)
(* ensure_room_for promised.                                               *)
THEOREM BudgetHolds == Spec => []ReplyHasItsBudget
<1>1. IInv => ReplyHasItsBudget
  BY DEF IInv, Room, ReplyHasItsBudget
<1> QED BY <1>1, Invariance, PTL

(* tokens.drain(..) in drop_oldest_turns_for panics when its range ends    *)
(* beyond the tokens. Without a fault it never does: only positions that a *)
(* failed decode left ahead of the tokens can make it.                     *)
THEOREM DrainNeverPanics == Spec => [](phase = "panicked" => faulted)
<1>1. IInv => (phase = "panicked" => faulted)
  BY DEF IInv, Books, Matched
<1> QED BY <1>1, Invariance, PTL

=============================================================================
