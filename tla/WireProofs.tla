------------------------------ MODULE WireProofs ------------------------------
(***************************************************************************)
(* Proofs about Wire, for every payload limit, digest and sequence of      *)
(* operations: the length that DeltaSerializer promises is the one that    *)
(* Delta::serialize writes, a delta keeps to its mtu, and the receiver     *)
(* rebuilds the delta that was built.                                      *)
(***************************************************************************)
EXTENDS Wire, TLAPS

-----------------------------------------------------------------------------
(* The folds of the model, one element at a time *)

FoldBlocks == INSTANCE FoldLemmas WITH op <- PlusBlock
FoldOps == INSTANCE FoldLemmas WITH op <- PlusOp
FoldBytes == INSTANCE FoldLemmas WITH op <- PlusBytes
FoldFlushes == INSTANCE FoldLemmas WITH op <- FlushNext
FoldAppends == INSTANCE FoldLemmas WITH op <- WriterAppend
FoldBuilds == INSTANCE FoldLemmas WITH op <- ApplyOp

\* The length of the output is a fold over the blocks, ...
LEMMA OutputLenIsFold == ASSUME NEW w PROVE OutputLen(w) = FoldBlocks!Fold(0, w.blocks)
<1>1. ASSUME NEW bs PROVE FoldBlocks!Fold(0, bs) = FoldLeft(PlusBlock, 0, bs)
  BY Zenon DEF FoldBlocks!Fold, FoldBlocks!FoldLeft, FoldBlocks!MapThenFoldSet, FoldBlocks!Max,
               FoldLeft, MapThenFoldSet, Max
<1> QED
  BY <1>1 DEF OutputLen

\* ... zero without any, ...
LEMMA OutputLenEmpty == ASSUME NEW w, w.blocks = <<>> PROVE OutputLen(w) = 0
BY OutputLenIsFold, FoldBlocks!FoldEmpty

\* ... and grows by a block's header and its bytes.
LEMMA OutputLenAppend ==
    ASSUME NEW S, NEW bs \in Seq(S), NEW b \in S
    PROVE  FoldBlocks!Fold(0, Append(bs, b)) = FoldBlocks!Fold(0, bs) + 3 + b.len
BY FoldBlocks!FoldAppend DEF PlusBlock, BLOCK_META_LEN

\* The length of the operations grows by that of the last one.
LEMMA OpsLenFold ==
    /\ OpsLen(<<>>) = 0
    /\ \A S : \A ops \in Seq(S), o \in S : OpsLen(Append(ops, o)) = OpsLen(ops) + o.len
<1>1. ASSUME NEW ops PROVE FoldOps!Fold(0, ops) = OpsLen(ops)
  BY Zenon DEF FoldOps!Fold, FoldOps!FoldLeft, FoldOps!MapThenFoldSet, FoldOps!Max,
               OpsLen, FoldLeft, MapThenFoldSet, Max
<1>2. QED
  BY <1>1, FoldOps!FoldEmpty, FoldOps!FoldAppend DEF PlusOp

\* What is unpacked grows by the bytes of the last block.
LEMMA BytesOfFold ==
    /\ BytesOf(<<>>) = 0
    /\ \A S : \A bs \in Seq(S), b \in S : BytesOf(Append(bs, b)) = BytesOf(bs) + BlockBytes(b)
<1>1. ASSUME NEW bs PROVE FoldBytes!Fold(0, bs) = BytesOf(bs)
  BY Zenon DEF FoldBytes!Fold, FoldBytes!FoldLeft, FoldBytes!MapThenFoldSet, FoldBytes!Max,
               BytesOf, FoldLeft, MapThenFoldSet, Max
<1>2. QED
  BY <1>1, FoldBytes!FoldEmpty, FoldBytes!FoldAppend DEF PlusBytes

\* Blocks are flushed one after the other.
LEMMA FlushBlocksFold ==
    ASSUME NEW w
    PROVE  /\ FlushBlocks(w, 0) = w
           /\ \A n \in Nat : FlushBlocks(w, n + 1) = FlushBlock(FlushBlocks(w, n))
<1> DEFINE To(n) == [i \in 1..n |-> i]
<1>1. ASSUME NEW n PROVE FoldFlushes!Fold(w, To(n)) = FlushBlocks(w, n)
  BY Zenon DEF FoldFlushes!Fold, FoldFlushes!FoldLeft, FoldFlushes!MapThenFoldSet, FoldFlushes!Max,
               FlushBlocks, FoldLeft, MapThenFoldSet, Max
<1>2. To(0) = <<>>
  OBVIOUS
<1>3. ASSUME NEW n \in Nat PROVE To(n) \in Seq(Nat) /\ To(n + 1) = Append(To(n), n + 1)
  OBVIOUS
<1> HIDE DEF To
<1>4. FlushBlocks(w, 0) = w
  BY <1>1, <1>2, FoldFlushes!FoldEmpty
<1>5. ASSUME NEW n \in Nat PROVE FlushBlocks(w, n + 1) = FlushBlock(FlushBlocks(w, n))
  <2> DEFINE t == To(n)
             m == n + 1
  <2>1. t \in Seq(Nat) /\ m \in Nat
    BY <1>3
  <2> HIDE DEF t, m
  <2>2. FoldFlushes!Fold(w, Append(t, m)) = FlushNext(FoldFlushes!Fold(w, t), m)
    BY <2>1, FoldFlushes!FoldAppend
  <2>3. QED
    BY <1>1, <1>3, <2>2 DEF FlushNext, t, m
<1>6. QED
  BY <1>4, <1>5

\* Operations are written one after the other.
LEMMA WriteAllFold ==
    ASSUME NEW threshold
    PROVE  /\ WriteAll(threshold, <<>>) = WriterWithThreshold(threshold)
           /\ \A S : \A ops \in Seq(S), o \in S :
                 WriteAll(threshold, Append(ops, o)) = WriterAppend(WriteAll(threshold, ops), o)
<1> DEFINE empty == WriterWithThreshold(threshold)
<1>1. ASSUME NEW ops PROVE FoldAppends!Fold(empty, ops) = WriteAll(threshold, ops)
  BY Zenon DEF FoldAppends!Fold, FoldAppends!FoldLeft, FoldAppends!MapThenFoldSet, FoldAppends!Max,
               WriteAll, FoldLeft, MapThenFoldSet, Max
<1> HIDE DEF empty
<1>2. FoldAppends!Fold(empty, <<>>) = empty
  BY FoldAppends!FoldEmpty
<1>3. ASSUME NEW S, NEW ops \in Seq(S), NEW o \in S
      PROVE  FoldAppends!Fold(empty, Append(ops, o)) = WriterAppend(FoldAppends!Fold(empty, ops), o)
  BY FoldAppends!FoldAppend
<1>4. QED
  BY <1>1, <1>2, <1>3 DEF empty

\* Operations are applied one after the other.
LEMMA BuildAllFold ==
    /\ BuildAll(<<>>) = NewBuilder
    /\ \A S : \A ops \in Seq(S), o \in S : BuildAll(Append(ops, o)) = ApplyOp(BuildAll(ops), o)
<1>1. ASSUME NEW ops PROVE FoldBuilds!Fold(NewBuilder, ops) = BuildAll(ops)
  BY Zenon DEF FoldBuilds!Fold, FoldBuilds!FoldLeft, FoldBuilds!MapThenFoldSet, FoldBuilds!Max,
               BuildAll, FoldLeft, MapThenFoldSet, Max
<1>2. FoldBuilds!Fold(NewBuilder, <<>>) = NewBuilder
  BY FoldBuilds!FoldEmpty
<1>3. ASSUME NEW S, NEW ops \in Seq(S), NEW o \in S
      PROVE  FoldBuilds!Fold(NewBuilder, Append(ops, o)) = ApplyOp(FoldBuilds!Fold(NewBuilder, ops), o)
  BY FoldBuilds!FoldAppend
<1>4. QED
  BY <1>1, <1>2, <1>3

-----------------------------------------------------------------------------
(* Flattening *)

FlatStep(ss, f, i) == IF i = 1 THEN ss[i] ELSE f[i - 1] \o ss[i]
IsFlat(ss, n, f) == f = [i \in 1..n |-> FlatStep(ss, f, i)]
SameUpTo(n, r, t) == \A i \in 1..n : r[i] = t[i]

\* The recursion by which FlattenSeq is defined has a solution.
LEMMA FlatExists ==
    ASSUME NEW ss, NEW n \in Nat
    PROVE  \E f : IsFlat(ss, n, f)
<1> DEFINE Bad == {i \in Nat : ~\E f : IsFlat(ss, i, f)}
<1> SUFFICES ASSUME Bad # {} PROVE FALSE
  OBVIOUS
<1>1. PICK k \in Bad : \A j \in Bad : k <= j
  BY FoldOps!LeastElement
<1>2. k # 0
  <2>1. IsFlat(ss, 0, [i \in 1..0 |-> 0])
    BY DEF IsFlat
  <2>2. QED
    BY <2>1
<1>3. k - 1 \in Nat /\ k - 1 \notin Bad
  BY <1>1, <1>2
<1>4. PICK f : IsFlat(ss, k - 1, f)
  BY <1>3
<1> DEFINE g == [i \in 1..k |-> FlatStep(ss, f, i)]
<1>5. \A i \in 1..(k - 1) : g[i] = f[i]
  BY <1>3, <1>4 DEF IsFlat
<1>6. ASSUME NEW i \in 1..k
      PROVE  FlatStep(ss, f, i) = FlatStep(ss, g, i)
  <2>1. i # 1 => i - 1 \in 1..(k - 1)
    BY <1>3
  <2> HIDE DEF g
  <2>2. QED
    BY <1>5, <2>1 DEF FlatStep
<1>7. IsFlat(ss, k, g)
  BY <1>6, Zenon DEF IsFlat
<1>8. QED
  BY <1>7

\* Solutions for a sequence and for a longer one agree on what they share.
LEMMA FlatsAgree ==
    ASSUME NEW n \in Nat, NEW m \in Nat, n <= m, NEW r, NEW t, SameUpTo(n, r, t),
           NEW f, IsFlat(r, n, f), NEW g, IsFlat(t, m, g)
    PROVE  SameUpTo(n, f, g)
<1> DEFINE Bad == {i \in 1..n : f[i] # g[i]}
<1>0. Bad \in SUBSET Nat
  OBVIOUS
<1> SUFFICES ASSUME Bad # {} PROVE FALSE
  BY DEF SameUpTo
<1>1. PICK k \in Bad : \A j \in Bad : k <= j
  BY <1>0, FoldOps!LeastElement
<1>2. k \in 1..n /\ k \in 1..m /\ f[k] # g[k]
  OBVIOUS
<1>3. /\ f[k] = IF k = 1 THEN r[k] ELSE f[k - 1] \o r[k]
      /\ g[k] = IF k = 1 THEN t[k] ELSE g[k - 1] \o t[k]
  BY <1>2 DEF IsFlat, FlatStep
<1>4. k # 1
  BY <1>2, <1>3 DEF SameUpTo
<1>5. k - 1 \in 1..n /\ ~(k <= k - 1)
  BY <1>2, <1>4
<1>6. k - 1 \notin Bad
  <2> HIDE DEF Bad
  <2> QED
    BY <1>1, <1>5
<1>7. f[k - 1] = g[k - 1]
  BY <1>5, <1>6
<1>8. QED
  BY <1>2, <1>3, <1>7 DEF SameUpTo

\* Without sequences there is nothing to flatten, ...
LEMMA FlattenEmpty == FlattenSeq(<<>>) = <<>>
BY DEF FlattenSeq

\* ... and one more sequence is appended to the rest.
LEMMA FlattenAppend ==
    ASSUME NEW S, NEW ss \in Seq(Seq(S)), NEW s \in Seq(S)
    PROVE  FlattenSeq(Append(ss, s)) = FlattenSeq(ss) \o s
<1> DEFINE n == Len(ss)
           t == Append(ss, s)
           F(u, k) == CHOOSE f : IsFlat(u, k, f)
<1>1. /\ n \in Nat /\ Len(t) = n + 1 /\ n + 1 \in Nat /\ n + 1 # 0
      /\ t[n + 1] = s /\ SameUpTo(n, ss, t)
  BY DEF SameUpTo
<1>2. ASSUME NEW u, Len(u) # 0 PROVE FlattenSeq(u) = F(u, Len(u))[Len(u)]
  BY <1>2 DEF FlattenSeq, IsFlat, FlatStep
<1>3. ASSUME NEW u, NEW k \in Nat PROVE IsFlat(u, k, F(u, k))
  BY FlatExists
<1> HIDE DEF F
<1>4. FlattenSeq(t) = F(t, n + 1)[n + 1]
  BY <1>1, <1>2
<1>5. F(t, n + 1)[n + 1] = IF n + 1 = 1 THEN s ELSE F(t, n + 1)[n] \o s
  <2> DEFINE f == F(t, n + 1)
  <2>1. IsFlat(t, n + 1, f)
    BY <1>1, <1>3
  <2>2. n + 1 \in 1..(n + 1) /\ n + 1 - 1 = n
    BY <1>1
  <2> HIDE DEF f, n, t
  <2>3. f[n + 1] = FlatStep(t, f, n + 1)
    BY <2>1, <2>2 DEF IsFlat
  <2>4. f[n + 1] = IF n + 1 = 1 THEN s ELSE f[n] \o s
    BY <1>1, <2>2, <2>3 DEF FlatStep
  <2>5. QED
    BY <2>4 DEF f
<1>6. CASE n = 0
  <2>1. ss = <<>> /\ <<>> \o s = s
    BY <1>6
  <2>2. QED
    BY <1>4, <1>5, <1>6, <2>1, FlattenEmpty
<1>7. CASE n # 0
  <2>1. FlattenSeq(ss) = F(ss, n)[n]
    BY <1>7, <1>2
  <2>2. IsFlat(ss, n, F(ss, n)) /\ IsFlat(t, n + 1, F(t, n + 1))
    BY <1>1, <1>3
  <2>3. n \in 1..n /\ n <= n + 1
    BY <1>1, <1>7
  <2> DEFINE m == n + 1
  <2>4. m \in Nat /\ n <= m /\ IsFlat(t, m, F(t, m))
    BY <1>1, <2>2, <2>3
  <2> HIDE DEF n, t, m
  <2>5. SameUpTo(n, F(ss, n), F(t, m))
    BY <1>1, <2>2, <2>4, FlatsAgree
  <2>6. F(ss, n)[n] = F(t, n + 1)[n]
    BY <2>3, <2>5 DEF m, SameUpTo
  <2>7. n + 1 # 1
    BY <1>1, <1>7
  <2>8. FlattenSeq(t) = FlattenSeq(ss) \o s
    BY <1>4, <1>5, <2>1, <2>6, <2>7
  <2>9. QED
    BY <2>8 DEF t
<1>8. QED
  BY <1>6, <1>7

-----------------------------------------------------------------------------
(* Arithmetic *)

\* The smaller and the greater of two numbers.
LEMMA MinMaxOfTwo ==
    ASSUME NEW a \in Int, NEW b \in Int
    PROVE  /\ Min({a, b}) = IF a <= b THEN a ELSE b
           /\ Max({a, b}) = IF a <= b THEN b ELSE a
<1>1. Min({a, b}) \in {a, b} /\ \A y \in {a, b} : Min({a, b}) <= y
  <2>1. \E x \in {a, b} : \A y \in {a, b} : x <= y
    OBVIOUS
  <2>2. QED
    BY <2>1, Zenon DEF Min
<1>2. Max({a, b}) \in {a, b} /\ \A y \in {a, b} : Max({a, b}) >= y
  <2>1. \E x \in {a, b} : \A y \in {a, b} : x >= y
    OBVIOUS
  <2>2. QED
    BY <2>1, Zenon DEF Max
<1>3. QED
  BY <1>1, <1>2

\* Fewer bytes than a block's worth fill no block; ...
LEMMA NoFullBlock ==
    ASSUME NEW x \in Nat, NEW m \in Nat, x < m
    PROVE  x \div m = 0
OBVIOUS

\* ... otherwise they fill as many blocks as go into them.
LEMMA FullBlocks ==
    ASSUME NEW x \in Nat
    PROVE  /\ x \div 16384 \in Nat
           /\ 16384 * (x \div 16384) <= x /\ x < 16384 * (x \div 16384) + 16384
OBVIOUS

-----------------------------------------------------------------------------
(* The delta that is built *)

\* The operations of a delta.
Op == {NodeOp(id) : id \in Ids} \cup {KeyValueOp(kv, v) : kv \in KeyValueShapes, v \in Nat}
      \cup {SetMaxVersionOp(v) : v \in Nat}

\* An operation takes up room.
LEMMA OpFacts ==
    ASSUME NEW o \in Op
    PROVE  o.len \in Nat /\ o.len > 0 /\ o.op \in {"Node", "KeyValue", "SetMaxVersion"}
<1> USE ShapesAssumption
<1>1. CASE o \in {NodeOp(id) : id \in Ids}
  BY <1>1 DEF NodeOp, ChitchatIdLen, StrLen, SocketAddrLen, IpAddrLen, U8, U16, U64
<1>2. CASE o \in {KeyValueOp(kv, v) : kv \in KeyValueShapes, v \in Nat}
  BY <1>2 DEF KeyValueOp, KeyValueMutationLen, StrLen, DeletionStatusLen, U8, U16, U64
<1>3. CASE o \in {SetMaxVersionOp(v) : v \in Nat}
  BY <1>3 DEF SetMaxVersionOp, U8, U64
<1> QED
  BY <1>1, <1>2, <1>3 DEF Op

\* The nodes that are complete and the one in progress hold the operations that
\* were applied, in their order.
Builder == [done: Seq(Seq(Op)), current: Seq(Op), valid: BOOLEAN]

BuilderInv(b, ops) ==
    /\ b \in Builder /\ b.valid
    /\ FlattenSeq(b.done) \in Seq(Op)
    /\ FlattenSeq(b.done) \o b.current = ops

\* A builder without operations.
LEMMA BuilderBegins == BuilderInv(NewBuilder, <<>>)
<1>1. <<>> \in Seq(Seq(Op)) /\ <<>> \in Seq(Op) /\ <<>> \o <<>> = <<>>
  OBVIOUS
<1> QED
  BY <1>1, FlattenEmpty DEF BuilderInv, Builder, NewBuilder

\* When the node in progress is complete, all operations are in complete nodes.
LEMMA BuilderFlushed ==
    ASSUME NEW b, NEW ops \in Seq(Op), BuilderInv(b, ops)
    PROVE  /\ BuilderFlush(b) \in Builder
           /\ BuilderFlush(b).valid /\ BuilderFlush(b).current = <<>>
           /\ FlattenSeq(BuilderFlush(b).done) = ops
<1> DEFINE d == b.done
           c == b.current
           e == IF c = <<>> THEN d ELSE Append(d, c)
<1>1. /\ b \in Builder /\ b.valid /\ d \in Seq(Seq(Op)) /\ c \in Seq(Op)
      /\ FlattenSeq(d) \in Seq(Op) /\ FlattenSeq(d) \o c = ops
  BY DEF BuilderInv, Builder
<1>2. BuilderFlush(b) = [b EXCEPT !.done = e, !.current = <<>>]
  BY Zenon DEF BuilderFlush
<1> HIDE DEF d, c
<1>3. FlattenSeq(Append(d, c)) = ops
  BY <1>1, FlattenAppend
<1>4. c = <<>> => FlattenSeq(d) = ops
  <2>1. FlattenSeq(d) \o <<>> = FlattenSeq(d)
    BY <1>1
  <2> QED
    BY <1>1, <2>1
<1>5. e \in Seq(Seq(Op)) /\ FlattenSeq(e) = ops
  <2>1. Append(d, c) \in Seq(Seq(Op))
    BY <1>1
  <2> QED
    BY <1>1, <1>3, <1>4, <2>1
<1> HIDE DEF e
<1> DEFINE none == <<>>
           f == [b EXCEPT !.done = e, !.current = none]
<1>6. none \in Seq(Op)
  OBVIOUS
<1> HIDE DEF none
<1>7. f \in Builder /\ f.done = e /\ f.current = none /\ f.valid
  BY <1>1, <1>5, <1>6 DEF Builder
<1>8. BuilderFlush(b) = f
  BY <1>2 DEF none
<1> HIDE DEF f
<1> QED
  BY <1>5, <1>7, <1>8 DEF none

\* An operation that is accepted becomes the last one.
LEMMA BuilderApplies ==
    ASSUME NEW b, NEW ops \in Seq(Op), BuilderInv(b, ops), NEW o \in Op, ApplyOp(b, o).valid
    PROVE  BuilderInv(ApplyOp(b, o), Append(ops, o))
<1> DEFINE f == BuilderFlush(b)
           a == ApplyOp(b, o)
<1>1. /\ b \in Builder /\ b.valid /\ b.done \in Seq(Seq(Op)) /\ b.current \in Seq(Op)
      /\ FlattenSeq(b.done) \in Seq(Op) /\ FlattenSeq(b.done) \o b.current = ops
  BY DEF BuilderInv, Builder
<1>2. f \in Builder /\ f.valid /\ FlattenSeq(f.done) = ops
  BY BuilderFlushed
<1>3. \/ a = [f EXCEPT !.current = <<o>>]
      \/ a = [b EXCEPT !.current = Append(b.current, o)]
  <2> DEFINE known == \E i \in DOMAIN f.done : f.done[i][1].id = o.id
             values == KeyValuesOf(b.current)
             stale == values # <<>> /\ Last(values).version >= o.version
  <2>0. a.valid
    OBVIOUS
  <2>1. CASE o.op = "Node"
    <3>1. a = IF known THEN [f EXCEPT !.valid = FALSE] ELSE [f EXCEPT !.current = <<o>>]
      BY <2>1 DEF ApplyOp
    <3> HIDE DEF a, f, known
    <3>2. [f EXCEPT !.valid = FALSE].valid = FALSE
      BY <1>2 DEF Builder
    <3> QED
      BY <2>0, <3>1, <3>2
  <2>2. CASE o.op = "KeyValue"
    <3>1. a = IF b.current = <<>> \/ stale THEN [b EXCEPT !.valid = FALSE]
                                           ELSE [b EXCEPT !.current = Append(b.current, o)]
      BY <2>2 DEF ApplyOp
    <3> HIDE DEF a, stale
    <3>2. [b EXCEPT !.valid = FALSE].valid = FALSE
      BY <1>1 DEF Builder
    <3> QED
      BY <2>0, <3>1, <3>2
  <2>3. CASE o.op = "SetMaxVersion"
    <3>1. a = IF b.current = <<>> THEN [b EXCEPT !.valid = FALSE]
                                  ELSE [b EXCEPT !.current = Append(b.current, o)]
      BY <2>3 DEF ApplyOp
    <3> HIDE DEF a
    <3>2. [b EXCEPT !.valid = FALSE].valid = FALSE
      BY <1>1 DEF Builder
    <3> QED
      BY <2>0, <3>1, <3>2
  <2> HIDE DEF a, f
  <2> QED
    BY <2>1, <2>2, <2>3, OpFacts
<1> HIDE DEF a, f
<1>4. CASE a = [f EXCEPT !.current = <<o>>]
  <2>1. <<o>> \in Seq(Op) /\ ops \o <<o>> = Append(ops, o)
    OBVIOUS
  <2>2. a \in Builder /\ a.valid /\ a.done = f.done /\ a.current = <<o>>
    BY <1>2, <1>4, <2>1 DEF Builder
  <2>3. BuilderInv(a, Append(ops, o))
    BY <1>2, <2>1, <2>2 DEF BuilderInv
  <2> QED
    BY <2>3 DEF a
<1>5. CASE a = [b EXCEPT !.current = Append(b.current, o)]
  <2> DEFINE e == FlattenSeq(b.done)
             c == b.current
  <2> HIDE DEF e, c
  <2>1. e \in Seq(Op) /\ c \in Seq(Op) /\ e \o c = ops
    BY <1>1 DEF e, c
  <2>2. Append(c, o) \in Seq(Op) /\ e \o Append(c, o) = Append(e \o c, o)
    BY <2>1
  <2>3. a \in Builder /\ a.valid /\ a.done = b.done /\ a.current = Append(c, o)
    BY <1>1, <1>5, <2>2 DEF Builder, c
  <2>4. BuilderInv(a, Append(ops, o))
    BY <1>1, <2>1, <2>2, <2>3 DEF BuilderInv, e
  <2> QED
    BY <2>4 DEF a
<1> QED
  BY <1>3, <1>4, <1>5

-----------------------------------------------------------------------------
(* The stream that is written *)

Block == [from: Nat, to: Nat, len: Nat, type: {"Compressed", "Uncompressed"}]
Writer == [ops: Seq(Op), end: Nat, blocks: Seq(Block), threshold: Nat]

\* The blocks are laid end to end from the first byte, and hold the bytes that
\* are not in the buffer any more.
WriterInv(w) ==
    /\ w \in Writer /\ w.threshold > 0
    /\ w.end = OpsLen(w.ops)
    /\ Contiguous(w.blocks)
    /\ Flushed(w) \in Nat /\ Flushed(w) <= w.end
    /\ BytesOf(w.blocks) = Flushed(w)
    /\ OutputLen(w) \in Nat

\* Two writers that have the same operations and settings.
SameInput(v, w) == v.ops = w.ops /\ v.end = w.end /\ v.threshold = w.threshold

\* A writer without operations.
LEMMA WriterBegins ==
    ASSUME NEW n \in Nat, n > 0
    PROVE  /\ WriterInv(WriterWithThreshold(n)) /\ Buffered(WriterWithThreshold(n)) = 0
           /\ OutputLen(WriterWithThreshold(n)) = 0
<1> DEFINE w == WriterWithThreshold(n)
<1>1. w \in Writer /\ w.blocks = <<>> /\ w.ops = <<>> /\ w.end = 0 /\ w.threshold = n
  BY DEF WriterWithThreshold, Writer
<1> HIDE DEF w
<1>2. OutputLen(w) = 0
  BY <1>1, OutputLenEmpty
<1>3. Contiguous(w.blocks)
  BY <1>1 DEF Contiguous
<1>4. Flushed(w) = 0 /\ Buffered(w) = 0
  BY <1>1 DEF Flushed, Buffered
<1> QED
  BY <1>1, <1>2, <1>3, <1>4, OpsLenFold, BytesOfFold DEF WriterInv, w

\* One more block after contiguous ones.
LEMMA OneMoreBlock ==
    ASSUME NEW w, WriterInv(w), NEW b \in Block, NEW v \in Writer, SameInput(v, w),
           v.blocks = Append(w.blocks, b), b.from = Flushed(w),
           b.from <= b.to, b.to <= w.end, BlockBytes(b) = b.to - b.from
    PROVE  WriterInv(v) /\ Flushed(v) = b.to /\ OutputLen(v) = OutputLen(w) + 3 + b.len
<1> DEFINE bs == w.blocks
           cs == Append(bs, b)
<1>1. /\ w \in Writer /\ w.threshold > 0 /\ w.end = OpsLen(w.ops) /\ w.end \in Nat /\ bs \in Seq(Block)
      /\ Contiguous(bs) /\ BytesOf(bs) = Flushed(w) /\ Flushed(w) \in Nat /\ OutputLen(w) \in Nat
  BY DEF WriterInv, Writer
<1>2. b.from \in Nat /\ b.to \in Nat /\ b.len \in Nat
  BY DEF Block
<1>3. OutputLen(v) = OutputLen(w) + 3 + b.len
  <2>1. OutputLen(w) = FoldBlocks!Fold(0, bs) /\ OutputLen(v) = FoldBlocks!Fold(0, cs)
    BY OutputLenIsFold
  <2> HIDE DEF bs
  <2> QED
    BY <1>1, <2>1, OutputLenAppend
<1>4. BytesOf(cs) = b.to
  <2>1. BytesOf(cs) = BytesOf(bs) + BlockBytes(b)
    BY <1>1, BytesOfFold
  <2> QED
    BY <1>1, <1>2, <2>1
<1> HIDE DEF bs, cs
<1>5. /\ cs \in Seq(Block) /\ Len(bs) \in Nat /\ Len(cs) = Len(bs) + 1 /\ cs[Len(cs)] = b
      /\ DOMAIN cs = 1..(Len(bs) + 1) /\ DOMAIN bs = 1..Len(bs)
      /\ \A i \in 1..Len(bs) : cs[i] = bs[i]
      /\ cs # <<>> /\ (bs = <<>> <=> Len(bs) = 0)
  BY <1>1 DEF cs
<1>6. Flushed(v) = b.to
  BY <1>5 DEF Flushed, Last, bs, cs
<1>7. b.from = IF Len(bs) = 0 THEN 0 ELSE bs[Len(bs)].to
  BY <1>5 DEF Flushed, Last, bs
<1>8. Contiguous(cs)
  <2> SUFFICES ASSUME NEW i \in 1..(Len(bs) + 1)
               PROVE  cs[i].from = IF i = 1 THEN 0 ELSE cs[i - 1].to
    BY <1>5 DEF Contiguous
  <2>1. CASE i = Len(bs) + 1
    <3>1. i = 1 <=> Len(bs) = 0
      BY <1>5, <2>1
    <3>2. i # 1 => i - 1 = Len(bs) /\ Len(bs) \in 1..Len(bs)
      BY <1>5, <2>1
    <3> QED
      BY <1>5, <1>7, <2>1, <3>1, <3>2
  <2>2. CASE i # Len(bs) + 1
    <3>1. i \in 1..Len(bs) /\ (i # 1 => i - 1 \in 1..Len(bs))
      BY <1>5, <2>2
    <3>2. bs[i].from = IF i = 1 THEN 0 ELSE bs[i - 1].to
      BY <1>1, <1>5, <3>1 DEF Contiguous
    <3> QED
      BY <1>5, <3>1, <3>2
  <2> QED
    BY <2>1, <2>2
<1>9. v.blocks = cs
  BY DEF cs, bs
<1> QED
  BY <1>1, <1>2, <1>3, <1>4, <1>6, <1>8, <1>9 DEF WriterInv, SameInput, bs

\* A block holds as many bytes as it may, and is stored in no more bytes than
\* it holds.
HasFlushed(v, w) ==
    /\ WriterInv(v) /\ SameInput(v, w)
    /\ Buffered(w) = 0 => v = w
    /\ Buffered(w) # 0 =>
          /\ Flushed(v) = Min({w.end, Flushed(w) + w.threshold})
          /\ OutputLen(v) <= OutputLen(w) + 3 + (Flushed(v) - Flushed(w))

\* flush_block does so.
LEMMA FlushedBlock ==
    ASSUME NEW w, WriterInv(w)
    PROVE  HasFlushed(FlushBlock(w), w)
<1> DEFINE from == Flushed(w)
           to == Min({w.end, from + w.threshold})
           noise == NoiseIn(w.ops, from, to)
           compressed == ZstdLen(noise, to - from - noise)
           short == [from |-> from, to |-> to, len |-> compressed, type |-> "Compressed"]
           plain == [from |-> from, to |-> to, len |-> to - from, type |-> "Uncompressed"]
           b == IF compressed \in 0..(to - from) THEN short ELSE plain
           v == [w EXCEPT !.blocks = Append(@, b)]
<1>1. /\ w \in Writer /\ w.threshold \in Nat /\ w.threshold > 0 /\ w.end \in Nat
      /\ from \in Nat /\ from <= w.end /\ OutputLen(w) \in Nat
  BY DEF WriterInv, Writer
<1>2. FlushBlock(w) = IF Buffered(w) = 0 THEN w ELSE v
  BY Zenon DEF FlushBlock
<1>3. /\ to = IF w.end <= from + w.threshold THEN w.end ELSE from + w.threshold
      /\ to \in Nat /\ from <= to /\ to <= w.end
  <2>1. from + w.threshold \in Int /\ w.end \in Int
    BY <1>1
  <2>2. to = IF w.end <= from + w.threshold THEN w.end ELSE from + w.threshold
    BY <2>1, MinMaxOfTwo
  <2> HIDE DEF to
  <2> QED
    BY <1>1, <2>2
<1>4. CASE Buffered(w) = 0
  BY <1>2, <1>4 DEF SameInput, HasFlushed
<1>5. CASE Buffered(w) # 0
  <2> HIDE DEF from, to, compressed
  <2>1. b \in Block /\ b.from = from /\ b.to = to /\ b.len <= to - from /\ BlockBytes(b) = to - from
    <3>1. CASE compressed \in 0..(to - from)
      <4>1. b = short /\ compressed \in Nat /\ compressed <= to - from
        BY <1>1, <1>3, <3>1
      <4> QED
        BY <1>1, <1>3, <4>1 DEF Block, BlockBytes
    <3>2. CASE compressed \notin 0..(to - from)
      <4>1. b = plain /\ to - from \in Nat
        BY <1>1, <1>3, <3>2
      <4> QED
        BY <1>1, <1>3, <4>1 DEF Block, BlockBytes
    <3> QED
      BY <3>1, <3>2
  <2> HIDE DEF b
  <2>2. v \in Writer /\ SameInput(v, w) /\ v.blocks = Append(w.blocks, b)
    <3>1. w.blocks \in Seq(Block) /\ Append(w.blocks, b) \in Seq(Block)
      BY <1>1, <2>1 DEF Writer
    <3> QED
      BY <1>1, <3>1 DEF Writer, SameInput
  <2>3. FlushBlock(w) = v
    BY <1>2, <1>5
  <2> HIDE DEF v
  <2>4. WriterInv(v) /\ Flushed(v) = b.to /\ OutputLen(v) = OutputLen(w) + 3 + b.len
    <3>1. b.from = Flushed(w) /\ b.from <= b.to /\ b.to <= w.end /\ BlockBytes(b) = b.to - b.from
      BY <1>3, <2>1 DEF from
    <3> QED
      BY <2>1, <2>2, <3>1, OneMoreBlock
  <2>5. b.len \in Nat
    BY <2>1 DEF Block
  <2>6. OutputLen(v) <= OutputLen(w) + 3 + (to - from)
    BY <1>1, <1>3, <2>1, <2>4, <2>5
  <2> QED
    BY <1>5, <2>1, <2>2, <2>3, <2>4, <2>6 DEF from, to, HasFlushed
<1> QED
  BY <1>4, <1>5

\* As long as there is more than one block's worth of bytes, every flush takes
\* 16384 of them.
Drained(v, w, n) ==
    WriterInv(v) /\ SameInput(v, w) /\ Flushed(v) = Flushed(w) + 16384 * n

\* Flushing n blocks of 16384 bytes drains the buffer of them.
LEMMA FlushedBlocks ==
    ASSUME NEW w, WriterInv(w), w.threshold = 16384,
           NEW n \in Nat, Flushed(w) + 16384 * n <= w.end
    PROVE  Drained(FlushBlocks(w, n), w, n)
<1> DEFINE Bad == {k \in 0..n : ~Drained(FlushBlocks(w, k), w, k)}
<1>1. w.end \in Nat /\ Flushed(w) \in Nat
  BY DEF WriterInv, Writer
<1>2. Bad \in SUBSET Nat
  OBVIOUS
<1> SUFFICES ASSUME Bad # {} PROVE FALSE
  OBVIOUS
<1>3. PICK k \in Bad : \A j \in Bad : k <= j
  <2> HIDE DEF Bad
  <2> QED
    BY <1>2, FoldOps!LeastElement
<1>4. k \in 0..n /\ ~Drained(FlushBlocks(w, k), w, k)
  OBVIOUS
<1>5. k # 0
  <2>1. FlushBlocks(w, 0) = w
    BY FlushBlocksFold
  <2>2. Drained(w, w, 0)
    BY <1>1 DEF Drained, SameInput
  <2> QED
    BY <1>4, <2>1, <2>2
<1> DEFINE j == k - 1
<1>6. j \in Nat /\ j \in 0..n /\ k = j + 1 /\ ~(k <= j)
  BY <1>4, <1>5
<1>7. j \notin Bad
  <2> HIDE DEF Bad, j
  <2> QED
    BY <1>3, <1>6
<1>8. Drained(FlushBlocks(w, j), w, j)
  BY <1>6, <1>7
<1>9. FlushBlocks(w, k) = FlushBlock(FlushBlocks(w, j))
  <2> HIDE DEF j
  <2> QED
    BY <1>6, FlushBlocksFold
<1> DEFINE v == FlushBlocks(w, j)
           u == FlushBlock(v)
<1> HIDE DEF v, u, Bad, j
<1>10. WriterInv(v) /\ SameInput(v, w) /\ Flushed(v) = Flushed(w) + 16384 * j
  BY <1>8 DEF Drained, v
<1>11. v.end = w.end /\ v.threshold = 16384 /\ Flushed(v) + 16384 <= w.end
  BY <1>1, <1>4, <1>6, <1>10 DEF SameInput
<1>12. Buffered(v) # 0 /\ Flushed(v) \in Nat
  BY <1>1, <1>6, <1>10, <1>11 DEF Buffered
<1>13. WriterInv(u) /\ SameInput(u, v) /\ Flushed(u) = Min({v.end, Flushed(v) + v.threshold})
  BY <1>10, <1>12, FlushedBlock DEF u, HasFlushed
<1>14. Min({v.end, Flushed(v) + v.threshold}) = Flushed(v) + 16384
  <2> DEFINE x == Flushed(v) + 16384
  <2>1. w.end \in Int /\ x \in Int /\ x <= w.end
    BY <1>1, <1>11, <1>12
  <2> HIDE DEF x
  <2>2. Min({w.end, x}) = IF w.end <= x THEN w.end ELSE x
    BY <2>1, MinMaxOfTwo
  <2>3. Min({w.end, x}) = x
    BY <2>1, <2>2
  <2> QED
    BY <1>11, <2>3 DEF x
<1>15. Drained(u, w, k)
  BY <1>1, <1>6, <1>10, <1>13, <1>14 DEF Drained, SameInput
<1> QED
  BY <1>4, <1>9, <1>15 DEF u, v

\* The writer with one more operation in its buffer.
Extended(w, o) == [w EXCEPT !.ops = Append(@, o), !.end = @ + o.len]

\* It has the same blocks as before.
LEMMA ExtendedWriter ==
    ASSUME NEW w, WriterInv(w), NEW o \in Op
    PROVE  /\ WriterInv(Extended(w, o)) /\ Flushed(Extended(w, o)) = Flushed(w)
           /\ Extended(w, o).ops = Append(w.ops, o) /\ Extended(w, o).end = w.end + o.len
           /\ Extended(w, o).blocks = w.blocks /\ Extended(w, o).threshold = w.threshold
           /\ OutputLen(Extended(w, o)) = OutputLen(w)
<1> DEFINE e == Extended(w, o)
<1>1. /\ w \in Writer /\ w.ops \in Seq(Op) /\ w.end \in Nat /\ w.end = OpsLen(w.ops)
      /\ Flushed(w) \in Nat /\ Flushed(w) <= w.end
  BY DEF WriterInv, Writer
<1>2. o.len \in Nat
  BY OpFacts
<1>3. /\ e \in Writer /\ e.ops = Append(w.ops, o) /\ e.end = w.end + o.len
      /\ e.blocks = w.blocks /\ e.threshold = w.threshold
  <2>1. Append(w.ops, o) \in Seq(Op) /\ w.end + o.len \in Nat
    BY <1>1, <1>2
  <2> QED
    BY <1>1, <2>1 DEF Extended, Writer
<1> HIDE DEF e
<1>4. OpsLen(e.ops) = w.end + o.len
  BY <1>1, <1>3, OpsLenFold
<1>5. Flushed(e) = Flushed(w) /\ OutputLen(e) = OutputLen(w)
  BY <1>3 DEF Flushed, OutputLen
<1>6. WriterInv(e)
  BY <1>1, <1>2, <1>3, <1>4, <1>5 DEF WriterInv
<1> QED
  BY <1>3, <1>5, <1>6 DEF e

\* append extends the buffer and flushes the blocks that are full.
LEMMA AppendIs ==
    ASSUME NEW w, NEW o
    PROVE  WriterAppend(w, o)
             = FlushBlocks(Extended(w, o), (Buffered(Extended(w, o)) - 1) \div w.threshold)
BY Zenon DEF WriterAppend, Extended

\* An operation that fits in the first block stays in the buffer.
LEMMA AppendInFirstBlock ==
    ASSUME NEW w, WriterInv(w), w.blocks = <<>>, NEW o \in Op, w.end + o.len <= w.threshold
    PROVE  WriterAppend(w, o) = Extended(w, o)
<1> DEFINE e == Extended(w, o)
           x == Buffered(e) - 1
<1>1. w.end \in Nat /\ w.threshold \in Nat /\ o.len \in Nat /\ o.len > 0
  BY OpFacts DEF WriterInv, Writer
<1>2. Flushed(e) = 0 /\ e.end = w.end + o.len
  BY ExtendedWriter DEF Flushed
<1> HIDE DEF e
<1>3. x \in Nat /\ x < w.threshold
  BY <1>1, <1>2 DEF Buffered
<1> HIDE DEF x
<1>4. x \div w.threshold = 0
  BY <1>1, <1>3, NoFullBlock
<1>5. WriterAppend(w, o) = FlushBlocks(e, x \div w.threshold)
  BY AppendIs DEF e, x
<1> QED
  BY <1>4, <1>5, FlushBlocksFold DEF e

\* How long the stream may still become when it ends here.
Budget(w) == OutputLen(w) + (IF Buffered(w) = 0 THEN 0 ELSE 3 + Buffered(w)) + 1

\* What append leaves behind.
Appended(v, w, o) ==
    /\ WriterInv(v) /\ v.ops = Append(w.ops, o) /\ v.end = w.end + o.len /\ v.threshold = w.threshold
    /\ Buffered(v) <= v.threshold
    /\ o.len <= w.threshold => Budget(v) <= SerializedLenUpperboundAfter(w, o)

\* After an append there is one block's worth of bytes in the buffer at most,
\* and serialized_len_upperbound_after was right if the operation is not longer
\* than a block.
LEMMA AppendInBlocks ==
    ASSUME NEW w, WriterInv(w), w.threshold = 16384, Buffered(w) <= 16384, NEW o \in Op
    PROVE  Appended(WriterAppend(w, o), w, o)
<1> DEFINE e == Extended(w, o)
           x == Buffered(e) - 1
           n == x \div 16384
           v == FlushBlocks(e, n)
<1>1. /\ w.end \in Nat /\ Flushed(w) \in Nat /\ Flushed(w) <= w.end /\ OutputLen(w) \in Nat
      /\ o.len \in Nat /\ o.len > 0
  BY OpFacts DEF WriterInv, Writer
<1>2. /\ WriterInv(e) /\ Flushed(e) = Flushed(w) /\ e.ops = Append(w.ops, o) /\ e.end = w.end + o.len
      /\ e.threshold = 16384 /\ OutputLen(e) = OutputLen(w)
  BY ExtendedWriter
<1>3. WriterAppend(w, o) = v
  BY AppendIs
<1> HIDE DEF e
<1> HIDE DEF n, v
<1>4. /\ x \in Nat /\ Buffered(e) = x + 1 /\ x + 1 = Buffered(w) + o.len
      /\ Buffered(w) = w.end - Flushed(w) /\ Buffered(w) \in Nat /\ x + 1 = e.end - Flushed(e)
  <2>1. Buffered(e) = e.end - Flushed(e) /\ Buffered(w) = w.end - Flushed(w)
    BY DEF Buffered
  <2>2. Buffered(w) \in Nat /\ Buffered(e) = Buffered(w) + o.len
    BY <1>1, <1>2, <2>1
  <2> QED
    BY <1>1, <2>1, <2>2
<1> HIDE DEF x
<1>5. n \in Nat /\ 16384 * n <= x /\ x < 16384 * n + 16384
  BY <1>4, FullBlocks DEF n
<1>6. Flushed(e) + 16384 * n <= e.end
  BY <1>1, <1>2, <1>4, <1>5
<1>7. WriterInv(v) /\ SameInput(v, e) /\ Flushed(v) = Flushed(e) + 16384 * n
  BY <1>2, <1>5, <1>6, FlushedBlocks DEF Drained, v
<1>8. Buffered(v) = x + 1 - 16384 * n /\ Buffered(v) <= 16384 /\ Buffered(v) > 0
  <2>1. Buffered(v) = e.end - Flushed(v)
    BY <1>7 DEF Buffered, SameInput
  <2>2. Flushed(e) \in Nat /\ e.end \in Nat
    BY <1>1, <1>2
  <2>3. Buffered(v) = x + 1 - 16384 * n
    BY <1>4, <1>5, <1>7, <2>1, <2>2
  <2> QED
    BY <1>4, <1>5, <2>3
<1>9. ASSUME o.len <= 16384 PROVE Budget(v) <= SerializedLenUpperboundAfter(w, o)
  <2>1. n = 0 \/ n = 1
    <3>1. x + 1 <= 16384 + 16384
      BY <1>1, <1>4, <1>9
    <3> QED
      BY <1>4, <1>5, <3>1
  <2>2. CASE n = 0
    <3>1. v = e
      BY <2>2, FlushBlocksFold DEF v
    <3>2. Budget(v) = OutputLen(w) + 3 + (x + 1) + 1
      <4>1. OutputLen(v) = OutputLen(w) /\ Buffered(v) = x + 1 /\ x + 1 # 0
        BY <1>2, <1>4, <3>1
      <4>2. Budget(v) = OutputLen(v) + (3 + Buffered(v)) + 1
        BY <4>1 DEF Budget
      <4> QED
        BY <1>1, <1>4, <4>1, <4>2
    <3> QED
      BY <1>1, <1>4, <3>2
         DEF SerializedLenUpperboundAfter, BLOCK_META_LEN, NO_MORE_BLOCKS_LEN
  <2>3. CASE n = 1
    <3>1. v = FlushBlock(e)
      <4>1. FlushBlocks(e, 0 + 1) = FlushBlock(FlushBlocks(e, 0)) /\ FlushBlocks(e, 0) = e
        BY FlushBlocksFold
      <4> QED
        BY <2>3, <4>1 DEF v
    <3>2. OutputLen(v) <= OutputLen(w) + 3 + 16384 /\ OutputLen(v) \in Nat
      <4>1. Buffered(e) # 0
        BY <1>4
      <4>2. OutputLen(v) <= OutputLen(e) + 3 + (Flushed(v) - Flushed(e))
        <5>1. HasFlushed(v, e)
          BY <1>2, <3>1, FlushedBlock
        <5> QED
          BY <4>1, <5>1 DEF HasFlushed
      <4>3. OutputLen(v) \in Nat
        BY <1>7 DEF WriterInv
      <4> QED
        BY <1>1, <1>2, <1>7, <2>3, <4>2, <4>3
    <3>3. Budget(v) <= OutputLen(w) + 3 + 16384 + 3 + (x + 1 - 16384) + 1
      BY <1>1, <1>4, <1>8, <2>3, <3>2 DEF Budget
    <3>4. Buffered(w) + o.len > w.threshold
      BY <1>4, <1>5, <2>3
    <3>5. SerializedLenUpperboundAfter(w, o) = 3 + OutputLen(w) + Buffered(w) + o.len + 1 + 3
      BY <3>4 DEF SerializedLenUpperboundAfter, BLOCK_META_LEN, NO_MORE_BLOCKS_LEN
    <3> QED
      BY <1>1, <1>4, <1>8, <3>2, <3>3, <3>5 DEF Budget
  <2> QED
    BY <2>1, <2>2, <2>3
<1>10. Appended(v, w, o)
  <2>1. v.ops = Append(w.ops, o) /\ v.end = w.end + o.len /\ v.threshold = w.threshold
    BY <1>2, <1>7 DEF SameInput
  <2> QED
    BY <1>7, <1>8, <1>9, <2>1 DEF Appended
<1> QED
  BY <1>3, <1>10

\* The last block takes what is left in the buffer, and so the stream holds all
\* of its operations, and the budget is kept.
LEMMA FinishedStream ==
    ASSUME NEW w, WriterInv(w), Buffered(w) <= w.threshold
    PROVE  /\ DeserializeStream(WriterFinish(w)) = w.ops
           /\ PayloadLen(WriterFinish(w)) \in Nat /\ PayloadLen(WriterFinish(w)) <= Budget(w)
<1> DEFINE v == FlushBlock(w)
<1>1. /\ w.end \in Nat /\ w.threshold \in Nat /\ Flushed(w) \in Nat /\ Flushed(w) <= w.end
      /\ OutputLen(w) \in Nat
  BY DEF WriterInv, Writer
<1>2. WriterInv(v) /\ SameInput(v, w)
  BY FlushedBlock DEF HasFlushed
<1>3. Flushed(v) = w.end /\ OutputLen(v) + 1 <= Budget(w)
  <2>1. CASE Buffered(w) = 0
    <3>1. v = w
      BY <2>1, FlushedBlock DEF HasFlushed
    <3>2. Budget(w) = OutputLen(w) + 0 + 1
      BY <2>1 DEF Budget
    <3>3. Flushed(w) = w.end
      BY <1>1, <2>1 DEF Buffered
    <3> HIDE DEF v
    <3> QED
      BY <1>1, <3>1, <3>2, <3>3
  <2>2. CASE Buffered(w) # 0
    <3> DEFINE x == Flushed(w) + w.threshold
    <3>1. x \in Int /\ w.end \in Int /\ w.end <= x
      BY <1>1 DEF Buffered
    <3>2. Flushed(v) = Min({w.end, x}) /\ OutputLen(v) <= OutputLen(w) + 3 + (Flushed(v) - Flushed(w))
      BY <2>2, FlushedBlock DEF HasFlushed
    <3> HIDE DEF x, v
    <3>3. Flushed(v) = w.end
      BY <3>1, <3>2, MinMaxOfTwo
    <3>4. OutputLen(v) \in Nat
      BY <1>2 DEF WriterInv
    <3> QED
      BY <1>1, <2>2, <3>2, <3>3, <3>4 DEF Buffered, Budget
  <2> QED
    BY <2>1, <2>2
<1> HIDE DEF v
<1>4. Contiguous(v.blocks) /\ BytesOf(v.blocks) = OpsLen(v.ops) /\ v.ops = w.ops /\ OutputLen(v) \in Nat
  BY <1>2, <1>3 DEF WriterInv, SameInput
<1>5. WriterFinish(w) = v
  BY DEF WriterFinish, v
<1>6. DeserializeStream(v) = w.ops
  BY <1>4 DEF DeserializeStream
<1>7. PayloadLen(v) = OutputLen(v) + 1
  BY DEF PayloadLen, NO_MORE_BLOCKS_LEN
<1> QED
  BY <1>3, <1>4, <1>5, <1>6, <1>7

-----------------------------------------------------------------------------
(* Two writers for one delta *)

\* The writer that Delta::serialize has when it is given the same operations.
Sent(w) == WriteAll(BLOCK_THRESHOLD, w.ops)

AllShort(w) == \A i \in DOMAIN w.ops : w.ops[i].len <= w.threshold

\* With an mtu of a block or more the serializer is that writer.  With less, no
\* block is ever full, neither here nor there.  In both cases a stream of short
\* operations keeps to the mtu.
Streams(w, mtu) ==
    /\ WriterInv(w) /\ Buffered(w) <= w.threshold
    /\ mtu >= 16384 => w = Sent(w) /\ w.threshold = 16384
    /\ mtu < 16384 =>
          /\ w.blocks = <<>> /\ w.threshold = mtu /\ w.end + 4 <= mtu
          /\ WriterInv(Sent(w)) /\ Sent(w).blocks = <<>> /\ Sent(w).threshold = 16384
          /\ Sent(w).ops = w.ops /\ Sent(w).end = w.end
    /\ AllShort(w) => Budget(w) <= mtu

\* The writer of DeltaSerializer::with_mtu.
LEMMA StreamsBegin ==
    ASSUME NEW mtu \in Int, mtu >= 100, NEW x, x = WriterWithThreshold(Min({16384, Max({mtu, 1})}))
    PROVE  Streams(x, mtu) /\ x.ops = <<>>
<1> DEFINE n == IF mtu >= 16384 THEN 16384 ELSE mtu
           w == WriterWithThreshold(n)
<1>1. Max({mtu, 1}) = mtu
  BY MinMaxOfTwo
<1>2. Min({16384, mtu}) = n
  BY MinMaxOfTwo
<1>3. n \in Nat /\ n > 0
  OBVIOUS
<1>4. /\ WriterInv(w) /\ Buffered(w) = 0 /\ OutputLen(w) = 0
      /\ w.ops = <<>> /\ w.blocks = <<>> /\ w.end = 0 /\ w.threshold = n
  <2> HIDE DEF n
  <2> QED
    BY <1>3, WriterBegins DEF WriterWithThreshold
<1>5. Sent(w) = WriterWithThreshold(16384)
  BY <1>4, WriteAllFold DEF Sent, BLOCK_THRESHOLD
<1>6. /\ WriterInv(Sent(w)) /\ Sent(w).ops = <<>> /\ Sent(w).blocks = <<>> /\ Sent(w).end = 0
      /\ Sent(w).threshold = 16384
  BY <1>5, WriterBegins DEF WriterWithThreshold
<1>7. Budget(w) = 1
  BY <1>4 DEF Budget
<1>8. mtu >= 16384 => w = Sent(w)
  BY <1>5
<1>9. x = w
  <2> HIDE DEF n
  <2> QED
    BY <1>1, <1>2
<1> HIDE DEF w
<1>10. Streams(w, mtu)
  BY <1>4, <1>6, <1>7, <1>8 DEF Streams
<1> QED
  BY <1>4, <1>9, <1>10

\* The upper bound of the length is a number.
LEMMA UpperboundIsInt ==
    ASSUME NEW w, NEW o, OutputLen(w) \in Nat, Buffered(w) \in Int, o.len \in Nat
    PROVE  SerializedLenUpperboundAfter(w, o) \in Int
<1> DEFINE x == IF Buffered(w) + o.len > w.threshold THEN 3 ELSE 0
<1>1. x \in Int
  OBVIOUS
<1>2. SerializedLenUpperboundAfter(w, o) = 3 + OutputLen(w) + Buffered(w) + o.len + 1 + x
  BY Zenon DEF SerializedLenUpperboundAfter, BLOCK_META_LEN, NO_MORE_BLOCKS_LEN
<1> HIDE DEF x
<1> QED
  BY <1>1, <1>2

\* An operation that fits is written by both.
LEMMA StreamsStep ==
    ASSUME NEW mtu \in Int, mtu >= 100, NEW w, Streams(w, mtu), NEW o \in Op,
           SerializedLenUpperboundAfter(w, o) <= mtu
    PROVE  Streams(WriterAppend(w, o), mtu) /\ WriterAppend(w, o).ops = Append(w.ops, o)
<1> DEFINE v == WriterAppend(w, o)
<1>1. /\ WriterInv(w) /\ Buffered(w) <= w.threshold /\ w.ops \in Seq(Op) /\ w.end \in Nat
      /\ Flushed(w) \in Nat /\ OutputLen(w) \in Nat /\ w.threshold \in Nat
  BY DEF Streams, WriterInv, Writer
<1>2. o.len \in Nat /\ o.len > 0
  BY OpFacts
<1>3. ASSUME v.ops = Append(w.ops, o) PROVE Sent(v) = WriterAppend(Sent(w), o)
  <2> DEFINE ops == w.ops
  <2>1. ops \in Seq(Op)
    BY <1>1
  <2> HIDE DEF ops, v
  <2>2. WriteAll(BLOCK_THRESHOLD, Append(ops, o)) = WriterAppend(WriteAll(BLOCK_THRESHOLD, ops), o)
    BY <2>1, WriteAllFold
  <2> QED
    BY <1>3, <2>2 DEF Sent, ops
<1>4. ASSUME v.ops = Append(w.ops, o), v.threshold = w.threshold
      PROVE  AllShort(v) => AllShort(w) /\ o.len <= w.threshold
  <2> HIDE DEF v
  <2> SUFFICES ASSUME AllShort(v) PROVE AllShort(w) /\ o.len <= w.threshold
    OBVIOUS
  <2>1. /\ Len(w.ops) \in Nat /\ DOMAIN w.ops = 1..Len(w.ops) /\ DOMAIN v.ops = 1..(Len(w.ops) + 1)
        /\ \A i \in 1..Len(w.ops) : v.ops[i] = w.ops[i]
        /\ v.ops[Len(w.ops) + 1] = o
    BY <1>1, <1>4
  <2>2. \A i \in 1..(Len(w.ops) + 1) : v.ops[i].len <= w.threshold
    BY <1>4, <2>1 DEF AllShort
  <2>3. Len(w.ops) + 1 \in 1..(Len(w.ops) + 1) /\ \A i \in 1..Len(w.ops) : i \in 1..(Len(w.ops) + 1)
    BY <2>1
  <2>4. o.len <= w.threshold
    BY <2>1, <2>2, <2>3
  <2>5. AllShort(w)
    BY <2>1, <2>2, <2>3 DEF AllShort
  <2> QED
    BY <2>4, <2>5
<1>5. CASE mtu >= 16384
  <2>1. w = Sent(w) /\ w.threshold = 16384
    BY <1>5 DEF Streams
  <2>2. Appended(v, w, o)
    BY <1>1, <2>1, AppendInBlocks
  <2> HIDE DEF v
  <2>3. /\ WriterInv(v) /\ v.ops = Append(w.ops, o) /\ v.threshold = 16384 /\ Buffered(v) <= v.threshold
        /\ o.len <= w.threshold => Budget(v) <= SerializedLenUpperboundAfter(w, o)
    BY <2>1, <2>2 DEF Appended
  <2>4. v = Sent(v)
    BY <1>3, <2>1, <2>3 DEF v
  <2>5. AllShort(v) => Budget(v) <= mtu
    <3> SUFFICES ASSUME AllShort(v) PROVE Budget(v) <= mtu
      OBVIOUS
    <3>1. Budget(v) <= SerializedLenUpperboundAfter(w, o)
      BY <1>4, <2>1, <2>3
    <3>2. Budget(v) \in Int /\ SerializedLenUpperboundAfter(w, o) \in Int
      <4>1. OutputLen(v) \in Nat /\ v.end \in Nat /\ Flushed(v) \in Nat
        BY <2>3 DEF WriterInv, Writer
      <4>2. Buffered(v) \in Int /\ Buffered(w) \in Int
        BY <1>1, <4>1 DEF Buffered
      <4>3. Budget(v) \in Int
        BY <4>1, <4>2 DEF Budget
      <4> QED
        BY <1>1, <1>2, <4>2, <4>3, UpperboundIsInt
    <3> QED
      BY <3>1, <3>2
  <2>6. Streams(v, mtu)
    BY <1>5, <2>3, <2>4, <2>5 DEF Streams
  <2> QED
    BY <2>3, <2>6 DEF v
<1>6. CASE mtu < 16384
  <2> DEFINE u == Sent(w)
  <2>1. /\ w.blocks = <<>> /\ w.threshold = mtu /\ w.end + 4 <= mtu
        /\ WriterInv(u) /\ u.blocks = <<>> /\ u.threshold = 16384
        /\ u.ops = w.ops /\ u.end = w.end
    BY <1>6 DEF Streams
  <2>2. Flushed(w) = 0 /\ Buffered(w) = w.end
    BY <1>1, <2>1 DEF Flushed, Buffered
  <2>3. w.end + o.len + 4 <= mtu
    <3>1. OutputLen(w) = 0
      BY <2>1, OutputLenEmpty
    <3> QED
      BY <1>1, <1>2, <2>1, <2>2, <3>1
         DEF SerializedLenUpperboundAfter, BLOCK_META_LEN, NO_MORE_BLOCKS_LEN
  <2>4. v = Extended(w, o)
    <3>1. w.end + o.len <= w.threshold
      BY <1>1, <1>2, <2>1, <2>3
    <3> QED
      BY <1>1, <2>1, <3>1, AppendInFirstBlock
  <2>5. WriterAppend(u, o) = Extended(u, o)
    <3> HIDE DEF u
    <3>1. u.end + o.len <= u.threshold
      BY <1>1, <1>2, <1>6, <2>1, <2>3
    <3> QED
      BY <2>1, <3>1, AppendInFirstBlock
  <2>6. /\ WriterInv(v) /\ v.ops = Append(w.ops, o) /\ v.end = w.end + o.len
        /\ v.blocks = <<>> /\ v.threshold = mtu /\ OutputLen(v) = 0
    <3>1. OutputLen(w) = 0
      BY <2>1, OutputLenEmpty
    <3> QED
      BY <1>1, <2>1, <2>4, <3>1, ExtendedWriter
  <2>7. Sent(v) = Extended(u, o)
    BY <1>3, <2>5, <2>6
  <2> HIDE DEF v, u
  <2>8. /\ WriterInv(Sent(v)) /\ Sent(v).blocks = <<>> /\ Sent(v).threshold = 16384
        /\ Sent(v).ops = v.ops /\ Sent(v).end = v.end
    BY <2>1, <2>6, <2>7, ExtendedWriter
  <2>9. Buffered(v) = v.end
    BY <1>1, <1>2, <2>6 DEF Flushed, Buffered
  <2>10. Budget(v) <= mtu
    BY <1>1, <1>2, <2>3, <2>6, <2>9 DEF Budget
  <2>11. Streams(v, mtu)
    BY <1>1, <1>2, <1>6, <2>3, <2>6, <2>8, <2>9, <2>10 DEF Streams
  <2> QED
    BY <2>6, <2>11 DEF v
<1> QED
  BY <1>5, <1>6

\* Writers whose only block is the last one write the same block.
LEMMA SameLastBlock ==
    ASSUME NEW w, WriterInv(w), w.blocks = <<>>, w.end <= w.threshold,
           NEW u, WriterInv(u), u.blocks = <<>>, u.end <= u.threshold,
           u.ops = w.ops, u.end = w.end
    PROVE  FlushBlock(u).blocks = FlushBlock(w).blocks
<1> DEFINE noise == NoiseIn(w.ops, 0, w.end)
           compressed == ZstdLen(noise, w.end - 0 - noise)
           b == IF compressed \in 0..(w.end - 0)
                THEN [from |-> 0, to |-> w.end, len |-> compressed, type |-> "Compressed"]
                ELSE [from |-> 0, to |-> w.end, len |-> w.end - 0, type |-> "Uncompressed"]
<1>1. ASSUME NEW x, WriterInv(x), x.blocks = <<>>, x.end <= x.threshold, x.ops = w.ops, x.end = w.end
      PROVE  FlushBlock(x).blocks = IF w.end = 0 THEN <<>> ELSE Append(<<>>, b)
  <2>1. x \in Writer /\ x.end \in Nat /\ x.threshold \in Nat
    BY <1>1 DEF WriterInv, Writer
  <2>2. Flushed(x) = 0 /\ Buffered(x) = w.end
    BY <1>1, <2>1 DEF Flushed, Buffered
  <2>3. Min({x.end, 0 + x.threshold}) = w.end
    <3> DEFINE y == 0 + x.threshold
    <3>1. y \in Int /\ x.end \in Int /\ x.end <= y
      BY <1>1, <2>1
    <3> HIDE DEF y
    <3>2. Min({x.end, y}) = IF x.end <= y THEN x.end ELSE y
      BY <3>1, MinMaxOfTwo
    <3> QED
      BY <1>1, <3>1, <3>2 DEF y
  <2>4. FlushBlock(x) = IF w.end = 0 THEN x ELSE [x EXCEPT !.blocks = Append(@, b)]
    BY <1>1, <2>2, <2>3, Zenon DEF FlushBlock
  <2> HIDE DEF b
  <2>5. [x EXCEPT !.blocks = Append(@, b)].blocks = Append(<<>>, b)
    BY <1>1, <2>1 DEF Writer
  <2> QED
    BY <1>1, <2>4, <2>5
<1> HIDE DEF b
<1> QED
  BY <1>1

\* Both writers come to the same length, and what is sent can be read back.
LEMMA StreamsEnd ==
    ASSUME NEW mtu \in Int, mtu >= 100, NEW w, Streams(w, mtu)
    PROVE  /\ PayloadLen(WriterFinish(Sent(w))) = PayloadLen(WriterFinish(w))
           /\ DeserializeStream(WriterFinish(Sent(w))) = w.ops
           /\ PayloadLen(WriterFinish(w)) \in Nat
           /\ AllShort(w) => PayloadLen(WriterFinish(w)) <= mtu
<1>1. WriterInv(w) /\ Buffered(w) <= w.threshold /\ w.end \in Nat /\ OutputLen(w) \in Nat /\ Flushed(w) \in Nat
  BY DEF Streams, WriterInv, Writer
<1>2. /\ DeserializeStream(WriterFinish(w)) = w.ops
      /\ PayloadLen(WriterFinish(w)) \in Nat /\ PayloadLen(WriterFinish(w)) <= Budget(w)
  BY <1>1, FinishedStream
<1>3. AllShort(w) => PayloadLen(WriterFinish(w)) <= mtu
  <2>1. Budget(w) \in Int
    BY <1>1 DEF Budget, Buffered
  <2>2. AllShort(w) => Budget(w) <= mtu
    BY DEF Streams
  <2> QED
    BY <1>2, <2>1, <2>2
<1>4. CASE mtu >= 16384
  BY <1>2, <1>3, <1>4 DEF Streams
<1>5. CASE mtu < 16384
  <2> DEFINE u == Sent(w)
  <2>1. /\ w.blocks = <<>> /\ w.threshold = mtu /\ w.end + 4 <= mtu
        /\ WriterInv(u) /\ u.blocks = <<>> /\ u.threshold = 16384
        /\ u.ops = w.ops /\ u.end = w.end
    BY <1>5 DEF Streams
  <2> HIDE DEF u
  <2>2. w.end <= w.threshold /\ u.end <= u.threshold
    BY <1>1, <1>5, <2>1
  <2>3. FlushBlock(u).blocks = FlushBlock(w).blocks
    BY <1>1, <2>1, <2>2, SameLastBlock
  <2>4. PayloadLen(WriterFinish(u)) = PayloadLen(WriterFinish(w))
    BY <2>3 DEF PayloadLen, OutputLen, WriterFinish
  <2>5. Buffered(u) <= u.threshold
    BY <1>1, <2>1, <2>2 DEF Buffered, Flushed
  <2>6. DeserializeStream(WriterFinish(u)) = u.ops
    BY <2>1, <2>5, FinishedStream
  <2> QED
    BY <1>2, <1>3, <2>1, <2>4, <2>6 DEF u
<1> QED
  BY <1>4, <1>5

-----------------------------------------------------------------------------
(* The invariant *)

\* The mtu is the room that is left, unless that is negative.
ReplyInv ==
    /\ reply.kind \in {"SynAck", "Ack"} /\ reply.max \in Nat /\ reply.digest_len \in Int
    /\ reply.kind = "Ack" => reply.digest_len = 0
    /\ reply.mtu \in Int /\ reply.mtu >= 100
    /\ \/ reply.mtu = DeltaRoom(reply.kind, reply.max, reply.digest_len)
       \/ DeltaRoom(reply.kind, reply.max, reply.digest_len) < 0

\* Builder and writer are given the same operations.
BuildInv ==
    /\ Streams(writer, reply.mtu)
    /\ BuilderInv(builder, writer.ops)
    /\ builder = BuildAll(writer.ops)

\* The datagram holds the delta that was built.
DatagramInv ==
    /\ datagram.stream = SerializeDelta(BuiltDelta)
    /\ datagram.len = MessageLen(reply.kind, reply.digest_len, BuiltLen)

WireInv ==
    /\ stage = "idle" => builder = NewBuilder
    /\ stage # "length mismatch"
    /\ stage \notin {"idle", "panicked"} => ReplyInv /\ BuildInv
    /\ stage \in {"serialized", "received", "refused by transport"} => DatagramInv
    /\ stage = "received" => decoded = BuiltDelta

\* The length of a digest is a number.
LEMMA DigestLenIsInt == ASSUME NEW n \in DigestSizes PROVE DigestLen(n) \in Int
<1> USE ShapesAssumption
<1> DEFINE id == CHOOSE i \in Ids : TRUE
<1>1. id \in Ids
  OBVIOUS
<1> HIDE DEF id
<1>2. ChitchatIdLen(id) \in Int
  BY <1>1 DEF ChitchatIdLen, StrLen, SocketAddrLen, IpAddrLen, U8, U16, U64
<1> DEFINE c == ChitchatIdLen(id)
<1> HIDE DEF c
<1>3. c \in Int /\ n \in Int
  BY <1>2 DEF c
<1> DEFINE noise == n * (U64 + U64)
           text == U16 + n * (c + NodeDigestLen) - noise
<1>4. noise \in Int
  BY <1>3 DEF U64
<1>5. text \in Int
  <2>1. n * (c + NodeDigestLen) \in Int
    BY <1>3 DEF NodeDigestLen, U64
  <2> HIDE DEF noise
  <2> QED
    BY <1>4, <2>1 DEF U16
<1>6. DigestLen(n) = U32 + ZstdLen(noise, text)
  BY Zenon DEF DigestLen, id, c
<1> HIDE DEF noise, text
<1>7. text \div 4 \in Int
  BY <1>5
<1> QED
  BY <1>4, <1>6, <1>7 DEF ZstdLen, U32

\* A reply begins with an empty delta, and only if there is room for one.
LEMMA StartStep ==
    ASSUME WireInv, NEW kind \in {"SynAck", "Ack"}, NEW max \in MaxPayloads, NEW n \in DigestSizes,
           StartReply(kind, max, n)
    PROVE  WireInv'
<1> DEFINE digest_len == IF kind = "SynAck" THEN DigestLen(n) ELSE 0
           room == DeltaRoom(kind, max, digest_len)
<1>1. /\ stage = "idle" /\ UNCHANGED builder
      /\ \E mtu \in IF room >= 0 THEN {room} ELSE {room, Wrapped} :
            /\ reply' = [kind |-> kind, max |-> max, digest_len |-> digest_len, mtu |-> mtu]
            /\ stage' = IF mtu >= MIN_MTU THEN "building" ELSE "panicked"
            /\ writer' = WriterWithThreshold(Min({BLOCK_THRESHOLD, Max({mtu, 1})}))
  BY Zenon DEF StartReply
<1>2. digest_len \in Int /\ max \in Nat /\ (kind = "Ack" => digest_len = 0)
  BY DigestLenIsInt, PayloadAssumption
<1> HIDE DEF digest_len
<1>3. room \in Int
  BY <1>2 DEF DeltaRoom
<1> HIDE DEF room
<1>4. PICK mtu \in IF room >= 0 THEN {room} ELSE {room, Wrapped} :
            /\ reply' = [kind |-> kind, max |-> max, digest_len |-> digest_len, mtu |-> mtu]
            /\ stage' = IF mtu >= MIN_MTU THEN "building" ELSE "panicked"
            /\ writer' = WriterWithThreshold(Min({BLOCK_THRESHOLD, Max({mtu, 1})}))
  BY <1>1
<1>5. mtu \in Int /\ (mtu = room \/ room < 0)
  BY <1>3 DEF Wrapped
<1>6. builder' = NewBuilder
  BY <1>1 DEF WireInv
<1>7. CASE mtu < MIN_MTU
  <2>1. stage' = "panicked"
    BY <1>4, <1>5, <1>7 DEF MIN_MTU
  <2> QED
    BY <2>1 DEF WireInv
<1>8. CASE mtu >= MIN_MTU
  <2>1. stage' = "building" /\ mtu >= 100
    BY <1>4, <1>8 DEF MIN_MTU
  <2>2. ReplyInv'
    BY <1>2, <1>4, <1>5, <2>1 DEF ReplyInv, room
  <2>3. Streams(writer', mtu) /\ writer'.ops = <<>>
    BY <1>4, <1>5, <2>1, StreamsBegin DEF BLOCK_THRESHOLD
  <2>4. BuilderInv(builder', <<>>) /\ builder' = BuildAll(<<>>)
    BY <1>6, BuilderBegins, BuildAllFold
  <2>5. reply'.mtu = mtu
    BY <1>4
  <2>6. BuildInv'
    BY <2>3, <2>4, <2>5 DEF BuildInv
  <2> QED
    BY <2>1, <2>2, <2>6 DEF WireInv
<1> QED
  BY <1>5, <1>7, <1>8 DEF MIN_MTU

\* An operation is added to both, to none, or brings the task down.
LEMMA AddStep ==
    ASSUME WireInv, NEW o \in Op, NEW accepted, NEW refused, NEW next \in {"building", "complete"},
           TryAddOp(o, accepted, refused, next)
    PROVE  WireInv'
<1>1. stage = "building" /\ UNCHANGED <<reply, datagram, decoded>> /\ ReplyInv /\ BuildInv
  BY DEF TryAddOp, WireInv
<1>2. ReplyInv'
  BY <1>1 DEF ReplyInv
<1>3. reply'.mtu = reply.mtu /\ reply.mtu \in Int /\ reply.mtu >= 100
  BY <1>1 DEF ReplyInv
<1>4. CASE /\ SerializedLenUpperboundAfter(writer, o) <= reply.mtu /\ ApplyOp(builder, o).valid
           /\ writer' = WriterAppend(writer, o) /\ builder' = ApplyOp(builder, o)
           /\ UNCHANGED stage
  <2>1. Streams(writer', reply.mtu) /\ writer'.ops = Append(writer.ops, o)
    BY <1>1, <1>3, <1>4, StreamsStep DEF BuildInv
  <2>2. writer.ops \in Seq(Op)
    BY <1>1 DEF BuildInv, Streams, WriterInv, Writer
  <2>3. BuilderInv(builder', Append(writer.ops, o))
    BY <1>1, <1>4, <2>2, BuilderApplies DEF BuildInv
  <2>4. builder' = BuildAll(Append(writer.ops, o))
    BY <1>1, <1>4, <2>2, BuildAllFold DEF BuildInv
  <2>5. BuildInv'
    BY <1>3, <2>1, <2>3, <2>4 DEF BuildInv
  <2> QED
    BY <1>1, <1>2, <1>4, <2>5 DEF WireInv
<1>5. CASE stage' = "panicked"
  BY <1>5 DEF WireInv
<1>6. CASE stage' = next /\ UNCHANGED <<writer, builder>>
  <2>1. BuildInv'
    BY <1>1, <1>3, <1>6 DEF BuildInv
  <2> QED
    BY <1>2, <1>6, <2>1 DEF WireInv
<1> QED
  BY <1>4, <1>5, <1>6 DEF TryAddOp

\* The operations that are tried.
LEMMA TriedOps ==
    ASSUME writer.ops \in Seq(Op)
    PROVE  /\ \A id \in Ids : NodeOp(id) \in Op
           /\ \A kv \in KeyValueShapes : KeyValueOp(kv, Len(writer.ops)) \in Op
           /\ SetMaxVersionOp(Len(writer.ops)) \in Op
<1>1. Len(writer.ops) \in Nat
  OBVIOUS
<1>2. \A id \in Ids : NodeOp(id) \in {NodeOp(i) : i \in Ids}
  OBVIOUS
<1>3. ASSUME NEW kv \in KeyValueShapes, NEW n \in Nat
      PROVE  KeyValueOp(kv, n) \in {KeyValueOp(k, v) : k \in KeyValueShapes, v \in Nat}
  OBVIOUS
<1>4. ASSUME NEW n \in Nat PROVE SetMaxVersionOp(n) \in {SetMaxVersionOp(v) : v \in Nat}
  OBVIOUS
<1> QED
  BY <1>1, <1>2, <1>3, <1>4 DEF Op

\* What is known once the delta is complete: the message has the length that
\* was promised, and the receiver rebuilds the delta.
LEMMA BuiltFacts ==
    ASSUME ReplyInv, BuildInv
    PROVE  /\ PayloadLen(SerializeDelta(BuiltDelta)) = BuiltLen
           /\ DeltaOf(DeserializeStream(SerializeDelta(BuiltDelta))) = BuiltDelta
           /\ BuiltLen \in Nat
           /\ AllShort(writer) => BuiltLen <= reply.mtu
<1>1. reply.mtu \in Int /\ reply.mtu >= 100 /\ Streams(writer, reply.mtu)
  BY DEF ReplyInv, BuildInv
<1>2. writer.ops \in Seq(Op)
  BY <1>1 DEF Streams, WriterInv, Writer
<1>3. GetOperations(BuiltDelta) = writer.ops
  BY <1>2, BuilderFlushed DEF BuildInv, GetOperations, BuiltDelta, BuilderFinish
<1>4. SerializeDelta(BuiltDelta) = WriterFinish(Sent(writer))
  BY <1>3 DEF SerializeDelta, Sent
<1>5. DeltaOf(writer.ops) = BuiltDelta
  <2>1. BuildAll(writer.ops) = builder /\ builder.valid
    BY DEF BuildInv, BuilderInv
  <2> QED
    BY <2>1, Zenon DEF DeltaOf, BuiltDelta
<1>6. /\ PayloadLen(WriterFinish(Sent(writer))) = PayloadLen(WriterFinish(writer))
      /\ DeserializeStream(WriterFinish(Sent(writer))) = writer.ops
      /\ PayloadLen(WriterFinish(writer)) \in Nat
      /\ AllShort(writer) => PayloadLen(WriterFinish(writer)) <= reply.mtu
  BY <1>1, StreamsEnd
<1> QED
  BY <1>4, <1>5, <1>6 DEF BuiltLen

\* Every step keeps the invariant.
LEMMA WireStep == WireInv /\ [WireNext]_wireVars => WireInv'
<1> SUFFICES ASSUME WireInv, [WireNext]_wireVars PROVE WireInv'
  OBVIOUS
<1>0. stage = "building" => writer.ops \in Seq(Op)
  BY DEF WireInv, BuildInv, Streams, WriterInv, Writer
<1>1. ASSUME NEW kind \in {"SynAck", "Ack"}, NEW max \in MaxPayloads, NEW n \in DigestSizes,
             StartReply(kind, max, n)
      PROVE  WireInv'
  BY <1>1, StartStep
<1>2. ASSUME NEW id \in Ids, TryAddNode(id) PROVE WireInv'
  <2>1. TryAddOp(NodeOp(id), "first", cursor, "complete") /\ stage = "building"
    BY <1>2 DEF TryAddNode, TryAddOp
  <2>2. NodeOp(id) \in Op
    BY <1>0, <2>1, TriedOps
  <2> QED
    BY <2>1, <2>2, AddStep
<1>3. ASSUME NEW kv \in KeyValueShapes, TryAddKv(kv) PROVE WireInv'
  <2>1. TryAddOp(KeyValueOp(kv, Len(writer.ops)), "values", cursor, "complete") /\ stage = "building"
    BY <1>3 DEF TryAddKv, TryAddOp
  <2>2. KeyValueOp(kv, Len(writer.ops)) \in Op
    BY <1>0, <2>1, TriedOps
  <2> QED
    BY <2>1, <2>2, AddStep
<1>4. CASE TrySetMaxVersion
  <2>1. TryAddOp(SetMaxVersionOp(Len(writer.ops)), "node", "node", "building") /\ stage = "building"
    BY <1>4 DEF TrySetMaxVersion, TryAddOp
  <2>2. SetMaxVersionOp(Len(writer.ops)) \in Op
    BY <1>0, <2>1, TriedOps
  <2> QED
    BY <2>1, <2>2, AddStep
<1>5. CASE NoMoreStaleNodes
  BY <1>5 DEF NoMoreStaleNodes, WireInv, ReplyInv, BuildInv
<1>6. CASE SerializeMessage
  <2>1. /\ stage = "complete" /\ UNCHANGED <<reply, writer, builder, decoded>>
        /\ datagram' = [len |-> MessageLen(reply.kind, reply.digest_len,
                                           PayloadLen(SerializeDelta(BuiltDelta))),
                        stream |-> SerializeDelta(BuiltDelta)]
        /\ stage' = IF PayloadLen(SerializeDelta(BuiltDelta)) = BuiltLen
                    THEN "serialized" ELSE "length mismatch"
    BY <1>6, Zenon DEF SerializeMessage
  <2>2. ReplyInv /\ BuildInv
    BY <2>1 DEF WireInv
  <2>3. PayloadLen(SerializeDelta(BuiltDelta)) = BuiltLen
    BY <2>2, BuiltFacts
  <2>4. stage' = "serialized"
    BY <2>1, <2>3
  <2>5. ReplyInv' /\ BuildInv'
    BY <2>1, <2>2 DEF ReplyInv, BuildInv
  <2>6. BuiltDelta' = BuiltDelta /\ BuiltLen' = BuiltLen
    BY <2>1 DEF BuiltDelta, BuiltLen
  <2>7. DatagramInv'
    BY <2>1, <2>3, <2>6 DEF DatagramInv
  <2> QED
    BY <2>4, <2>5, <2>7 DEF WireInv
<1>7. CASE SendMessage
  <2>1. /\ stage = "serialized" /\ UNCHANGED <<reply, writer, builder, datagram>>
        /\ \/ stage' = "refused by transport"
           \/ stage' = "received" /\ decoded' = DeltaOf(DeserializeStream(datagram.stream))
    BY <1>7 DEF SendMessage
  <2>2. ReplyInv /\ BuildInv /\ DatagramInv
    BY <2>1 DEF WireInv
  <2>3. ReplyInv' /\ BuildInv'
    BY <2>1, <2>2 DEF ReplyInv, BuildInv
  <2>4. BuiltDelta' = BuiltDelta /\ BuiltLen' = BuiltLen
    BY <2>1 DEF BuiltDelta, BuiltLen
  <2>5. DatagramInv'
    BY <2>1, <2>2, <2>4 DEF DatagramInv
  <2>6. DeltaOf(DeserializeStream(datagram.stream)) = BuiltDelta
    BY <2>2, BuiltFacts DEF DatagramInv
  <2> QED
    BY <2>1, <2>3, <2>4, <2>5, <2>6 DEF WireInv
<1>8. CASE UNCHANGED wireVars
  BY <1>8 DEF wireVars, WireInv, ReplyInv, BuildInv, DatagramInv, BuiltDelta, BuiltLen
<1> QED
  BY <1>1, <1>2, <1>3, <1>4, <1>5, <1>6, <1>7, <1>8 DEF WireNext

\* The invariant holds in every reachable state, for every payload limit,
\* digest and sequence of operations.
THEOREM WireInvariant == WireSpec => []WireInv
<1>1. WireInit => WireInv
  BY DEF WireInit, WireInv
<1> QED
  BY <1>1, WireStep, PTL DEF WireSpec

-----------------------------------------------------------------------------
(* The properties *)

\* The delta that Delta::serialize writes has the length that DeltaSerializer
\* promised: its assertion never fails.
THEOREM PromiseIsKept == WireSpec => []PromisedLength
<1>1. WireInv => PromisedLength
  BY DEF WireInv, PromisedLength
<1> QED
  BY <1>1, WireInvariant, PTL

\* A delta of operations that are no longer than a block keeps to its mtu
\* (serialized_len_upperbound_after).
THEOREM DeltasFit == WireSpec => []DeltaWithinMtu
<1>1. WireInv => DeltaWithinMtu
  <2> SUFFICES ASSUME WireInv, stage \in {"complete", "serialized"}, AllShort(writer)
               PROVE  BuiltLen <= reply.mtu
    BY DEF DeltaWithinMtu, AllShort
  <2>1. ReplyInv /\ BuildInv
    BY DEF WireInv
  <2> QED
    BY <2>1, BuiltFacts
<1> QED
  BY <1>1, WireInvariant, PTL

\* The receiver rebuilds the delta that was built (Delta::deserialize).
THEOREM DeltasSurvive == WireSpec => []DeltaRoundTrip
<1>1. WireInv => DeltaRoundTrip
  BY DEF WireInv, DeltaRoundTrip
<1> QED
  BY <1>1, WireInvariant, PTL

\* A message is three bytes longer than the transport allows at most
\* (process_message, ChitchatMessage::serialize).
THEOREM OverrunIsBounded == WireSpec => []OverrunBounded
<1>1. WireInv => OverrunBounded
  <2> SUFFICES ASSUME WireInv, stage = "serialized", reply.digest_len < reply.max, AllShort(writer)
               PROVE  datagram.len <= reply.max + 3
    BY DEF OverrunBounded, AllShort
  <2>1. ReplyInv /\ BuildInv /\ DatagramInv
    BY DEF WireInv
  <2>2. BuiltLen \in Nat /\ BuiltLen <= reply.mtu
    BY <2>1, BuiltFacts
  <2>3. datagram.len = MessageLen(reply.kind, reply.digest_len, BuiltLen)
    BY <2>1 DEF DatagramInv
  <2> HIDE DEF BuiltLen
  <2> QED
    BY <2>1, <2>2, <2>3 DEF ReplyInv, MessageLen, DeltaRoom, MESSAGE_HEADER_LEN, U8
<1> QED
  BY <1>1, WireInvariant, PTL
=============================================================================
