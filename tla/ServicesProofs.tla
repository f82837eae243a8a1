--------------------------- MODULE ServicesProofs -----------------------------
(***************************************************************************)
(* Proofs about a connection from its client's bytes to its answers: the   *)
(* operations of Buffer on the indices and the readable bytes, what the    *)
(* parser and the codec compute, and the inductive invariant of Services,  *)
(* for every content, script and choice of the sizes.                      *)
(***************************************************************************)
EXTENDS Services, SequenceTheorems, WellFoundedInduction, TLAPS

(***************************************************************************)
(* Induction over the natural numbers, on a set, and the functions it      *)
(* defines.                                                                *)
(***************************************************************************)
LEMMA SetInduction ==
  ASSUME NEW S, 0 \in S, \A n \in Nat : n \in S => n + 1 \in S
  PROVE  Nat \subseteq S
  <1> DEFINE R == {p \in Nat \X Nat : p[1] < p[2]}
  <1>1. IsWellFoundedOn(R, Nat)
    BY NatLessThanWellFounded, Zenon DEF OpToRel
  <1>2. SUFFICES ASSUME Nat \ S # {} PROVE FALSE
    OBVIOUS
  <1>3. PICK n \in Nat \ S : \A k \in Nat \ S : <<k, n>> \notin R
    <2> HIDE DEF R
    <2> QED
      BY <1>1, <1>2, WFMin
  <1>4. n # 0 /\ n - 1 \in Nat /\ n - 1 < n
    OBVIOUS
  <1>5. n - 1 \in S
    BY <1>3, <1>4
  <1> QED
    BY <1>4, <1>5

(* A function that is defined step by step exists and has its values in D. *)
Iterates(f, D, start, step) ==
  /\ f \in [Nat -> D] /\ f[0] = start
  /\ \A n \in Nat : f[n + 1] = step[<<n, f[n]>>]

(* Every step of a set is iterated by some function: by induction over the *)
(* length of its beginnings, which are unique.                             *)
LEMMA Iteration ==
  ASSUME NEW D, NEW start \in D, NEW step \in [Nat \X D -> D]
  PROVE  \E f : Iterates(f, D, start, step)
  <1> DEFINE Runs(n) == {g \in [0 .. n -> D] :
                           /\ g[0] = start
                           /\ \A i \in 0 .. n - 1 :
                                g[i + 1] = step[<<i, g[i]>>]}
             Reached == {n \in Nat : Runs(n) # {}}
             Same == {i \in Nat : \A m, n \in Nat :
                        i <= m /\ i <= n =>
                          \A g \in Runs(m), h \in Runs(n) : g[i] = h[i]}
  <1>1. Nat \subseteq Reached
    <2>1. 0 \in Reached
      <3>1. [i \in 0 .. 0 |-> start] \in Runs(0)
        OBVIOUS
      <3> QED
        BY <3>1
    <2>2. ASSUME NEW n \in Nat, n \in Reached
          PROVE  n + 1 \in Reached
      <3>1. PICK g \in Runs(n) : TRUE
        BY <2>2
      <3> DEFINE h == [i \in 0 .. n + 1 |-> IF i = n + 1 THEN step[<<n, g[n]>>]
                                            ELSE g[i]]
      <3>2. g[n] \in D /\ step[<<n, g[n]>>] \in D
        OBVIOUS
      <3>3. h \in [0 .. n + 1 -> D] /\ h[0] = start
        BY <3>2
      <3>4. \A i \in 0 .. (n + 1) - 1 : h[i + 1] = step[<<i, h[i]>>]
        <4> TAKE i \in 0 .. (n + 1) - 1
        <4>1. CASE i = n
          <5>1. h[n + 1] = step[<<n, g[n]>>] /\ h[n] = g[n]
            OBVIOUS
          <5> HIDE DEF h
          <5> QED
            BY <4>1, <5>1
        <4>2. CASE i # n
          <5>1. i \in 0 .. n - 1 /\ h[i + 1] = g[i + 1] /\ h[i] = g[i]
            BY <4>2
          <5> HIDE DEF h
          <5> QED
            BY <5>1
        <4> QED
          BY <4>1, <4>2
      <3> HIDE DEF h
      <3>5. h \in Runs(n + 1)
        BY <3>3, <3>4
      <3> QED
        BY <3>5
    <2> HIDE DEF Reached
    <2> QED
      BY <2>1, <2>2, SetInduction
  <1>2. Nat \subseteq Same
    <2>1. 0 \in Same
      OBVIOUS
    <2>2. ASSUME NEW i \in Nat, i \in Same
          PROVE  i + 1 \in Same
      <3> SUFFICES ASSUME NEW m \in Nat, NEW n \in Nat, i + 1 <= m, i + 1 <= n,
                          NEW g \in Runs(m), NEW h \in Runs(n)
                   PROVE  g[i + 1] = h[i + 1]
        <4> HIDE DEF Runs
        <4> QED
          OBVIOUS
      <3>1. g[i] = h[i]
        <4>1. i <= m /\ i <= n
          OBVIOUS
        <4> HIDE DEF Runs
        <4> QED
          BY <2>2, <4>1
      <3>2. i \in 0 .. m - 1 /\ i \in 0 .. n - 1
        OBVIOUS
      <3> QED
        BY <3>1, <3>2
    <2> HIDE DEF Same
    <2> QED
      BY <2>1, <2>2, SetInduction
  <1> DEFINE run == [n \in Nat |-> CHOOSE g : g \in Runs(n)]
             f == [n \in Nat |-> run[n][n]]
  <1>3. \A n \in Nat : run[n] \in Runs(n)
    <2> TAKE n \in Nat
    <2>1. \E g : g \in Runs(n)
      BY <1>1
    <2> HIDE DEF Runs
    <2> QED
      BY <2>1
  <1> HIDE DEF run
  <1>4. f \in [Nat -> D]
    BY <1>3
  <1>5. f[0] = start
    BY <1>3
  <1>6. ASSUME NEW n \in Nat
        PROVE  f[n + 1] = step[<<n, f[n]>>]
    <2>1. run[n] \in Runs(n) /\ run[n + 1] \in Runs(n + 1)
      BY <1>3
    <2>2. run[n + 1][n] = run[n][n]
      <3>1. n \in Same
        <4> HIDE DEF Same
        <4> QED
          BY <1>2
      <3>2. n <= n /\ n <= n + 1 /\ n + 1 \in Nat
        OBVIOUS
      <3> HIDE DEF Runs
      <3> QED
        BY <2>1, <3>1, <3>2
    <2>3. n \in 0 .. (n + 1) - 1
      OBVIOUS
    <2>4. run[n + 1][n + 1] = step[<<n, run[n + 1][n]>>]
      BY <2>1, <2>3
    <2> QED
      BY <2>2, <2>4
  <1> HIDE DEF f
  <1> QED
    BY <1>4, <1>5, <1>6 DEF Iterates

(* The first place of a sequence that passes a test.                       *)
LEMMA MinOfNaturals ==
  ASSUME NEW I \in SUBSET Nat, I # {}
  PROVE  Min(I) \in I /\ \A i \in I : Min(I) <= i
  <1> DEFINE R == {p \in Nat \X Nat : p[1] < p[2]}
  <1>1. IsWellFoundedOn(R, Nat)
    BY NatLessThanWellFounded, Zenon DEF OpToRel
  <1>2. \E n \in I : \A k \in I : <<k, n>> \notin R
    <2> HIDE DEF R
    <2> QED
      BY <1>1, WFMin
  <1>3. \E n \in I : \A k \in I : n <= k
    <2>1. PICK n \in I : \A k \in I : <<k, n>> \notin R
      BY <1>2
    <2>2. \A k \in I : k \in Nat /\ n \in Nat /\ ~(k < n)
      BY <2>1
    <2> QED
      BY <2>2
  <1> QED
    BY <1>3 DEF Min

(* The concatenation h of the beginnings of seqs, one element after the    *)
(* other.                                                                  *)
Concatenates(h, seqs) ==
  /\ h[1] = seqs[1]
  /\ \A i \in 2 .. Len(seqs) : h[i] = h[i - 1] \o seqs[i]
  /\ FlattenSeq(seqs) = h[Len(seqs)]

(* FlattenSeq() is defined that way.                                       *)
LEMMA FlattenFunction ==
  ASSUME NEW S, NEW seqs \in Seq(Seq(S)), Len(seqs) # 0
  PROVE  \E h : Concatenates(h, seqs)
  <1> DEFINE n == Len(seqs)
             Def(f) == [i \in 1 .. n |-> IF i = 1 THEN seqs[i]
                                         ELSE f[i - 1] \o seqs[i]]
             D == Seq(S)
             step == [p \in Nat \X D |->
                        IF p[1] + 2 \in 1 .. n THEN p[2] \o seqs[p[1] + 2]
                        ELSE p[2]]
  <1>1. n \in Nat /\ 1 \in 1 .. n /\ n \in 1 .. n
    OBVIOUS
  <1>2. step \in [Nat \X D -> D]
    OBVIOUS
  <1>3. seqs[1] \in D
    BY <1>1
  <1> HIDE DEF step, D
  <1>4. PICK f : Iterates(f, D, seqs[1], step)
    BY <1>2, <1>3, Iteration
  <1> DEFINE g == [i \in 1 .. n |-> f[i - 1]]
  <1>5. \A i \in 1 .. n : i # 1 => g[i] = g[i - 1] \o seqs[i]
    <2> SUFFICES ASSUME NEW i \in 1 .. n, i # 1
                 PROVE  f[i - 1] = f[i - 2] \o seqs[i]
      <3>1. \A i \in 1 .. n : /\ g[i] = f[i - 1]
                              /\ i # 1 => g[i - 1] = f[i - 2]
        BY <1>1
      <3> QED
        BY <3>1
    <2>1. i - 2 \in Nat /\ (i - 2) + 1 = i - 1 /\ (i - 2) + 2 = i
      BY <1>1
    <2>2. f[i - 1] = step[<<i - 2, f[i - 2]>>]
      BY <1>4, <2>1 DEF Iterates
    <2>3. step[<<i - 2, f[i - 2]>>] = f[i - 2] \o seqs[i]
      BY <1>4, <2>1 DEF Iterates, step
    <2> QED
      BY <2>2, <2>3
  <1>6. g = Def(g)
    <2>1. g[1] = seqs[1]
      <3>1. g[1] = f[0]
        BY <1>1
      <3> QED
        BY <1>4, <3>1 DEF Iterates
    <2>2. Def(g) = [i \in 1 .. n |-> g[i]]
      <3> HIDE DEF g
      <3> QED
        BY <1>5, <2>1
    <2> QED
      BY <2>2
  <1> DEFINE h == CHOOSE h : h = Def(h)
  <1>7. h = Def(h)
    <2> HIDE DEF g, Def
    <2> QED
      BY <1>6
  <1>8. FlattenSeq(seqs) = h[n]
    BY DEF FlattenSeq
  <1> HIDE DEF h
  <1>9. \A i \in 1 .. n : h[i] = IF i = 1 THEN seqs[i]
                                 ELSE h[i - 1] \o seqs[i]
    <2> TAKE i \in 1 .. n
    <2>1. h[i] = Def(h)[i]
      BY <1>7
    <2> QED
      BY <2>1
  <1>10. h[1] = seqs[1] /\ \A i \in 2 .. n : h[i] = h[i - 1] \o seqs[i]
    <2>1. \A i \in 2 .. n : i \in 1 .. n /\ i # 1
      BY <1>1
    <2> QED
      BY <1>1, <1>9, <2>1
  <1> QED
    BY <1>8, <1>10 DEF Concatenates

(* The concatenation of sequences over S is one.                           *)
LEMMA FlattenType ==
  ASSUME NEW S, NEW seqs \in Seq(Seq(S))
  PROVE  FlattenSeq(seqs) \in Seq(S)
  <1>1. CASE Len(seqs) = 0
    BY <1>1, EmptySeq DEF FlattenSeq
  <1>2. CASE Len(seqs) # 0
    <2>1. PICK h : Concatenates(h, seqs)
      BY <1>2, FlattenFunction
    <2> DEFINE n == Len(seqs)
               T == {k \in Nat : k + 1 \in 1 .. n => h[k + 1] \in Seq(S)}
    <2>2. n \in Nat /\ 1 \in 1 .. n /\ n \in 1 .. n
      BY <1>2
    <2>3. 0 \in T
      BY <2>1, <2>2 DEF Concatenates
    <2>4. ASSUME NEW k \in Nat, k \in T
          PROVE  k + 1 \in T
      <3> SUFFICES ASSUME k + 2 \in 1 .. n
                   PROVE  h[k + 2] \in Seq(S)
        OBVIOUS
      <3>1. k + 1 \in 1 .. n /\ k + 2 \in 2 .. n /\ (k + 2) - 1 = k + 1
        BY <2>2
      <3>2. h[k + 2] = h[k + 1] \o seqs[k + 2]
        BY <2>1, <3>1 DEF Concatenates
      <3> QED
        BY <2>4, <3>1, <3>2
    <2>5. n - 1 \in T
      <3> HIDE DEF T
      <3>1. Nat \subseteq T
        BY <2>3, <2>4, SetInduction
      <3> QED
        BY <2>2, <3>1
    <2> QED
      BY <2>1, <2>2, <2>5 DEF Concatenates
  <1> QED
    BY <1>1, <1>2

-----------------------------------------------------------------------------
(***************************************************************************)
(* Buffer. Each operation keeps BufferOK; the sequence of readable bytes   *)
(* behaves like a queue.                                                   *)
(***************************************************************************)
LEMMA ArithBuffer ==
  ASSUME NEW b, BufferOK(b)
  PROVE  /\ b.buffer_ \in Seq(Byte) /\ Len(b.buffer_) \in Nat
         /\ b.readerIndex_ \in Nat /\ b.writerIndex_ \in Nat
         /\ KCheapPrepend \in Nat
         /\ KCheapPrepend <= b.readerIndex_
         /\ b.readerIndex_ <= b.writerIndex_
         /\ b.writerIndex_ <= Len(b.buffer_)
         /\ ReadableBytes(b) \in Nat /\ WriteableBytes(b) \in Nat
         /\ \A i \in 1 .. Len(b.buffer_) : b.buffer_[i] \in Byte
  BY SizesAssumption
     DEF BufferOK, BufferRecord, ReadableBytes, WriteableBytes

(* The same of the indices alone.                                          *)
LEMMA Indices ==
  ASSUME NEW b, BufferOK(b)
  PROVE  /\ b.readerIndex_ \in Nat /\ b.writerIndex_ \in Nat
         /\ Len(b.buffer_) \in Nat
         /\ b.readerIndex_ <= b.writerIndex_
         /\ b.writerIndex_ <= Len(b.buffer_)
         /\ ReadableBytes(b) = b.writerIndex_ - b.readerIndex_
         /\ WriteableBytes(b) = Len(b.buffer_) - b.writerIndex_
         /\ ReadableBytes(b) \in Nat /\ WriteableBytes(b) \in Nat
  BY ArithBuffer DEF ReadableBytes, WriteableBytes

(* The readable bytes are a sequence of bytes of the length the code says. *)
LEMMA ContentType ==
  ASSUME NEW b, BufferOK(b)
  PROVE  /\ Content(b) \in Seq(Byte)
         /\ Len(Content(b)) = ReadableBytes(b)
         /\ \A i \in 1 .. ReadableBytes(b) :
              Content(b)[i] = b.buffer_[b.readerIndex_ + i]
  <1>1. ReadableBytes(b) \in Nat
    BY ArithBuffer
  <1>2. \A i \in 1 .. ReadableBytes(b) : b.buffer_[b.readerIndex_ + i] \in Byte
    BY ArithBuffer DEF ReadableBytes
  <1>3. QED
    BY <1>1, <1>2 DEF Content

(* Two buffers of equal length and equal cells hold the same bytes.        *)
LEMMA SameContent ==
  ASSUME NEW b, BufferOK(b), NEW s \in Seq(Byte),
         Len(s) = ReadableBytes(b),
         \A i \in 1 .. Len(s) : b.buffer_[b.readerIndex_ + i] = s[i]
  PROVE  Content(b) = s
  BY ContentType, SeqEqual

(* A Buffer without readable bytes has no content.                         *)
LEMMA EmptyContent ==
  ASSUME NEW b, BufferOK(b), ReadableBytes(b) = 0
  PROVE  Content(b) = <<>>
  BY ContentType, EmptySeq

(* The constructor's Buffer is one, and empty.                             *)
LEMMA NewBufferEmpty == BufferOK(NewBuffer) /\ Content(NewBuffer) = <<>>
  <1>1. NewBuffer.buffer_ \in Seq(Byte)
    BY SizesAssumption, ByteAssumption DEF NewBuffer
  <1>2. Len(NewBuffer.buffer_) = KCheapPrepend + KInitailSize
    BY SizesAssumption DEF NewBuffer
  <1>3. BufferOK(NewBuffer)
    BY <1>1, <1>2, SizesAssumption DEF NewBuffer, BufferOK, BufferRecord
  <1>4. ReadableBytes(NewBuffer) = 0
    BY SizesAssumption DEF NewBuffer, ReadableBytes
  <1>5. QED
    BY <1>3, <1>4, EmptyContent

(* retrieve() drops bytes from the front, all of them at most.             *)
THEOREM RetrieveDrops ==
  ASSUME NEW b, BufferOK(b), NEW len \in Nat
  PROVE  /\ BufferOK(Retrieve(b, len))
         /\ Content(Retrieve(b, len)) =
              SubSeq(Content(b), len + 1, ReadableBytes(b))
  <1>1. CASE len < ReadableBytes(b)
    <2> DEFINE r == [b EXCEPT !.readerIndex_ = b.readerIndex_ + len]
    <2>1. Retrieve(b, len) = r
      BY <1>1 DEF Retrieve
    <2>2. /\ r.buffer_ = b.buffer_ /\ r.writerIndex_ = b.writerIndex_
          /\ r.readerIndex_ = b.readerIndex_ + len
          /\ r \in BufferRecord
      BY DEF BufferOK, BufferRecord
    <2>3. BufferOK(r)
      BY <1>1, <2>2, ArithBuffer DEF BufferOK, ReadableBytes
    <2>4. ReadableBytes(r) = ReadableBytes(b) - len
      BY <2>2, ArithBuffer DEF ReadableBytes
    <2> DEFINE s == SubSeq(Content(b), len + 1, ReadableBytes(b))
    <2>5. /\ s \in Seq(Byte) /\ Len(s) = ReadableBytes(b) - len
          /\ \A i \in 1 .. Len(s) : s[i] = Content(b)[len + i]
      BY <1>1, ContentType, ArithBuffer
    <2>6. \A i \in 1 .. Len(s) : r.buffer_[r.readerIndex_ + i] = s[i]
      <3> SUFFICES ASSUME NEW i \in 1 .. Len(s)
                   PROVE  r.buffer_[r.readerIndex_ + i] = s[i]
        OBVIOUS
      <3>1. /\ i \in Nat /\ len + i \in 1 .. ReadableBytes(b)
            /\ b.readerIndex_ + (len + i) = (b.readerIndex_ + len) + i
        <4>1. i \in 1 .. ReadableBytes(b) - len /\ ReadableBytes(b) \in Nat
          BY <2>5, Indices
        <4> HIDE DEF s
        <4> QED
          BY <1>1, <4>1, Indices
      <3>2. Content(b)[len + i] = b.buffer_[b.readerIndex_ + (len + i)]
        BY <3>1, ContentType
      <3>3. QED
        BY <2>2, <2>5, <3>1, <3>2
    <2>7. Content(r) = s
      BY <2>3, <2>4, <2>5, <2>6, SameContent
    <2>8. QED
      BY <2>1, <2>3, <2>7
  <1>2. CASE ~(len < ReadableBytes(b))
    <2> DEFINE r == RetrieveAll(b)
    <2>1. Retrieve(b, len) = r
      BY <1>2 DEF Retrieve
    <2>2. /\ r.buffer_ = b.buffer_ /\ r.writerIndex_ = KCheapPrepend
          /\ r.readerIndex_ = KCheapPrepend /\ r \in BufferRecord
      BY SizesAssumption DEF RetrieveAll, BufferOK, BufferRecord
    <2>3. BufferOK(r) /\ ReadableBytes(r) = 0
      BY <2>2, ArithBuffer DEF BufferOK, ReadableBytes
    <2>4. Content(r) = <<>>
      BY <2>3, EmptyContent
    <2>5. SubSeq(Content(b), len + 1, ReadableBytes(b)) = <<>>
      BY <1>2, ArithBuffer, SubSeqEmpty
    <2>6. QED
      BY <2>1, <2>3, <2>4, <2>5
  <1>3. QED
    BY <1>1, <1>2
(* resize() keeps the readable bytes.                                      *)
LEMMA ResizeKeeps ==
  ASSUME NEW b, BufferOK(b), NEW size \in Nat, size >= Len(b.buffer_)
  PROVE  /\ BufferOK(Resize(b, size))
         /\ Content(Resize(b, size)) = Content(b)
         /\ WriteableBytes(Resize(b, size)) = size - b.writerIndex_
  <1> DEFINE r == Resize(b, size)
             cells == [i \in 1 .. size |-> IF i <= Len(b.buffer_)
                                          THEN b.buffer_[i] ELSE Zero]
  <1>1. cells \in Seq(Byte) /\ Len(cells) = size
    BY ArithBuffer, ByteAssumption
  <1>2. /\ r.buffer_ = cells /\ r.readerIndex_ = b.readerIndex_
        /\ r.writerIndex_ = b.writerIndex_
    BY DEF Resize, BufferOK, BufferRecord
  <1>3. r \in BufferRecord
    BY <1>1, ArithBuffer DEF Resize, BufferOK, BufferRecord
  <1>4. BufferOK(r)
    BY <1>1, <1>2, <1>3, ArithBuffer DEF BufferOK
  <1>5. ReadableBytes(r) = ReadableBytes(b)
    BY <1>2 DEF ReadableBytes
  <1>6. \A i \in 1 .. ReadableBytes(b) :
          r.buffer_[r.readerIndex_ + i] = b.buffer_[b.readerIndex_ + i]
    BY <1>2, ArithBuffer DEF ReadableBytes
  <1>7. Content(r) = Content(b)
    BY <1>4, <1>5, <1>6, ContentType, SameContent
  <1>8. QED
    BY <1>1, <1>2, <1>4, <1>7 DEF WriteableBytes

(* Moving the readable bytes to the front keeps them and leaves all the    *)
(* other cells but the first KCheapPrepend for writing.                    *)
LEMMA MoveKeeps ==
  ASSUME NEW b, BufferOK(b)
  PROVE  /\ BufferOK(MoveToFront(b))
         /\ Content(MoveToFront(b)) = Content(b)
         /\ WriteableBytes(MoveToFront(b)) =
              Len(b.buffer_) - (KCheapPrepend + ReadableBytes(b))
  <1> DEFINE last == KCheapPrepend + ReadableBytes(b)
             cells == [i \in 1 .. Len(b.buffer_) |->
                         IF KCheapPrepend < i /\ i <= last
                         THEN b.buffer_[b.readerIndex_ + i - KCheapPrepend]
                         ELSE b.buffer_[i]]
             r == MoveToFront(b)
  <1>1. last \in Nat /\ last <= Len(b.buffer_)
    BY ArithBuffer DEF ReadableBytes
  <1>2. ASSUME NEW i \in 1 .. Len(b.buffer_), KCheapPrepend < i, i <= last
        PROVE  b.readerIndex_ + i - KCheapPrepend \in 1 .. Len(b.buffer_)
    BY <1>2, ArithBuffer DEF ReadableBytes
  <1>3. cells \in Seq(Byte) /\ Len(cells) = Len(b.buffer_)
    BY <1>2, ArithBuffer
  <1>4. r = [buffer_ |-> cells, readerIndex_ |-> KCheapPrepend,
             writerIndex_ |-> last]
    BY DEF MoveToFront
  <1>5. BufferOK(r)
    BY <1>1, <1>3, <1>4, SizesAssumption, ArithBuffer
       DEF BufferOK, BufferRecord
  <1>6. ReadableBytes(r) = ReadableBytes(b)
    BY <1>4, ArithBuffer DEF ReadableBytes
  <1>7. \A i \in 1 .. ReadableBytes(b) :
          r.buffer_[r.readerIndex_ + i] = b.buffer_[b.readerIndex_ + i]
    <2> SUFFICES ASSUME NEW i \in 1 .. ReadableBytes(b)
                 PROVE  cells[KCheapPrepend + i] = b.buffer_[b.readerIndex_ + i]
      <3>1. r.buffer_ = cells /\ r.readerIndex_ = KCheapPrepend
        BY <1>4
      <3>2. QED
        BY <3>1, Zenon
    <2>1. /\ i \in Nat /\ KCheapPrepend + i \in 1 .. Len(b.buffer_)
          /\ KCheapPrepend < KCheapPrepend + i /\ KCheapPrepend + i <= last
          /\ b.readerIndex_ + (KCheapPrepend + i) - KCheapPrepend
                = b.readerIndex_ + i
      BY <1>1, ArithBuffer
    <2>2. QED
      BY <2>1
  <1>8. Content(r) = Content(b)
    BY <1>5, <1>6, <1>7, ContentType, SameContent
  <1>9. QED
    BY <1>3, <1>4, <1>5, <1>8 DEF WriteableBytes

(* makeSpace(), called when the room behind the writer is too small, makes *)
(* room for len bytes and keeps the readable ones (Buffer.hpp:132-145).    *)
THEOREM MakeSpaceSuffices ==
  ASSUME NEW b, BufferOK(b), NEW len \in Nat, WriteableBytes(b) < len
  PROVE  /\ BufferOK(MakeSpace(b, len))
         /\ Content(MakeSpace(b, len)) = Content(b)
         /\ WriteableBytes(MakeSpace(b, len)) >= len
  <1>1. CASE WriteableBytes(b) + PrependableBytes(b) < len + KCheapPrepend
    <2>1. MakeSpace(b, len) = Resize(b, b.writerIndex_ + len)
      BY <1>1 DEF MakeSpace
    <2>2. /\ b.writerIndex_ + len \in Nat
          /\ b.writerIndex_ + len >= Len(b.buffer_)
          /\ b.writerIndex_ + len - b.writerIndex_ = len
      BY ArithBuffer DEF WriteableBytes
    <2> DEFINE size == b.writerIndex_ + len
    <2>3. /\ BufferOK(Resize(b, size))
          /\ Content(Resize(b, size)) = Content(b)
          /\ WriteableBytes(Resize(b, size)) = size - b.writerIndex_
      <3> HIDE DEF size
      <3>1. size \in Nat /\ size >= Len(b.buffer_)
        BY <2>2 DEF size
      <3>2. QED
        BY <3>1, ResizeKeeps
    <2>4. WriteableBytes(Resize(b, size)) >= len
      <3>1. size - b.writerIndex_ = len
        BY ArithBuffer DEF size
      <3>2. len >= len
        OBVIOUS
      <3>3. QED
        BY <2>3, <3>1, <3>2, Zenon
    <2>5. QED
      BY <2>1, <2>3, <2>4, Zenon
  <1>2. CASE ~(WriteableBytes(b) + PrependableBytes(b) < len + KCheapPrepend)
    <2>1. MakeSpace(b, len) = MoveToFront(b)
      BY <1>2 DEF MakeSpace
    <2>2. Len(b.buffer_) - (KCheapPrepend + ReadableBytes(b)) >= len
      BY <1>2, ArithBuffer DEF WriteableBytes, PrependableBytes, ReadableBytes
    <2>3. QED
      BY <2>1, <2>2, MoveKeeps
  <1>3. QED
    BY <1>1, <1>2

(* ensureSpace() makes room and keeps the content.                         *)
LEMMA EnsureSpaceKeeps ==
  ASSUME NEW b, BufferOK(b), NEW len \in Nat
  PROVE  /\ BufferOK(EnsureSpace(b, len))
         /\ Content(EnsureSpace(b, len)) = Content(b)
         /\ WriteableBytes(EnsureSpace(b, len)) >= len
  <1>1. CASE WriteableBytes(b) < len
    BY <1>1, MakeSpaceSuffices DEF EnsureSpace
  <1>2. CASE ~(WriteableBytes(b) < len)
    BY <1>2, ArithBuffer DEF EnsureSpace
  <1>3. QED
    BY <1>1, <1>2

(* Writing where there is room adds the data to the readable bytes.        *)
LEMMA WriteAdds ==
  ASSUME NEW b, BufferOK(b), NEW data \in Seq(Byte),
         WriteableBytes(b) >= Len(data)
  PROVE  /\ BufferOK(Write(b, data))
         /\ Content(Write(b, data)) = Content(b) \o data
         /\ WriteableBytes(Write(b, data)) = WriteableBytes(b) - Len(data)
  <1> DEFINE n == Len(data)
             cells == [i \in DOMAIN b.buffer_ |->
                         IF b.writerIndex_ < i /\ i <= b.writerIndex_ + n
                         THEN data[i - b.writerIndex_] ELSE b.buffer_[i]]
             r == Write(b, data)
  <1>1. n \in Nat /\ b.writerIndex_ + n <= Len(b.buffer_)
    BY ArithBuffer DEF WriteableBytes
  <1>2. DOMAIN b.buffer_ = 1 .. Len(b.buffer_)
    BY ArithBuffer
  <1>3. ASSUME NEW i \in 1 .. Len(b.buffer_),
               b.writerIndex_ < i, i <= b.writerIndex_ + n
        PROVE  data[i - b.writerIndex_] \in Byte
    <2>1. i - b.writerIndex_ \in 1 .. n
      BY <1>1, <1>3, ArithBuffer
    <2>2. QED
      BY <2>1
  <1>4. cells \in Seq(Byte) /\ Len(cells) = Len(b.buffer_)
    BY <1>2, <1>3, ArithBuffer
  <1>5. /\ r.buffer_ = cells /\ r.readerIndex_ = b.readerIndex_
        /\ r.writerIndex_ = b.writerIndex_ + n
    BY DEF Write
  <1>6. r \in BufferRecord
    <2>1. r = [buffer_ |-> cells, readerIndex_ |-> b.readerIndex_,
               writerIndex_ |-> b.writerIndex_ + n]
      BY DEF Write
    <2>2. QED
      BY <1>1, <1>4, <2>1, ArithBuffer DEF BufferRecord
  <1>7. BufferOK(r)
    BY <1>1, <1>4, <1>5, <1>6, ArithBuffer DEF BufferOK
  <1>8. ReadableBytes(r) = ReadableBytes(b) + n
    BY <1>1, <1>5, ArithBuffer DEF ReadableBytes
  <1> DEFINE s == Content(b) \o data
  <1>9. /\ s \in Seq(Byte) /\ Len(s) = ReadableBytes(b) + n
        /\ \A i \in 1 .. Len(s) :
             s[i] = IF i <= ReadableBytes(b) THEN Content(b)[i]
                    ELSE data[i - ReadableBytes(b)]
    <2>1. Content(b) \in Seq(Byte) /\ Len(Content(b)) = ReadableBytes(b)
      BY ContentType
    <2>2. QED
      BY <2>1, ConcatProperties
  <1>10. \A i \in 1 .. Len(s) : r.buffer_[r.readerIndex_ + i] = s[i]
    <2> SUFFICES ASSUME NEW i \in 1 .. Len(s)
                 PROVE  cells[b.readerIndex_ + i] = s[i]
      BY <1>5
    <2> HIDE DEF s
    <2> DEFINE j == b.readerIndex_ + i
    <2>1. i \in 1 .. ReadableBytes(b) + n
      BY <1>9
    <2>2. /\ b.readerIndex_ \in Nat /\ b.writerIndex_ \in Nat
          /\ Len(b.buffer_) \in Nat
          /\ b.readerIndex_ <= b.writerIndex_
          /\ ReadableBytes(b) = b.writerIndex_ - b.readerIndex_
      BY Indices
    <2> HIDE DEF n
    <2>3. i \in Nat /\ j \in 1 .. Len(b.buffer_)
      BY <1>1, <2>1, <2>2
    <2>4. CASE i <= ReadableBytes(b)
      <3>1. ~(b.writerIndex_ < j)
        BY <2>3, <2>4, <2>2
      <3>2. Content(b)[i] = b.buffer_[j]
        BY <2>3, <2>4, ContentType
      <3>3. QED
        BY <1>2, <1>9, <2>3, <2>4, <3>1, <3>2
    <2>5. CASE ~(i <= ReadableBytes(b))
      <3>1. /\ b.writerIndex_ < j /\ j <= b.writerIndex_ + n
            /\ j - b.writerIndex_ = i - ReadableBytes(b)
        BY <1>1, <2>3, <2>5, <2>1, <2>2
      <3>2. QED
        BY <1>2, <1>9, <2>3, <2>5, <3>1
    <2>6. QED
      BY <2>4, <2>5
  <1>11. Content(r) = s
    BY <1>7, <1>8, <1>9, <1>10, SameContent
  <1>12. WriteableBytes(r) = WriteableBytes(b) - n
    BY <1>1, <1>4, <1>5, Indices DEF WriteableBytes
  <1>13. QED
    BY <1>7, <1>11, <1>12

(* append() puts the data behind the readable bytes, whatever makeSpace()  *)
(* had to do for it (Buffer.hpp:88-94).                                    *)
THEOREM AppendAdds ==
  ASSUME NEW b, BufferOK(b), NEW data \in Seq(Byte)
  PROVE  /\ BufferOK(AppendData(b, data))
         /\ Content(AppendData(b, data)) = Content(b) \o data
  <1>1. Len(data) \in Nat
    OBVIOUS
  <1>2. /\ BufferOK(EnsureSpace(b, Len(data)))
        /\ Content(EnsureSpace(b, Len(data))) = Content(b)
        /\ WriteableBytes(EnsureSpace(b, Len(data))) >= Len(data)
    BY <1>1, EnsureSpaceKeeps
  <1>3. QED
    BY <1>2, WriteAdds DEF AppendData

(* The append() of one byte of a longer text (Buffer.hpp:97-104).          *)
THEOREM AppendByteAdds ==
  ASSUME NEW b, BufferOK(b), NEW byte \in Byte, NEW allLen \in Nat, allLen > 0
  PROVE  /\ BufferOK(AppendByte(b, byte, allLen))
         /\ Content(AppendByte(b, byte, allLen)) = Append(Content(b), byte)
  <1>1. <<byte>> \in Seq(Byte) /\ Len(<<byte>>) = 1
    OBVIOUS
  <1>2. /\ BufferOK(EnsureSpace(b, allLen))
        /\ Content(EnsureSpace(b, allLen)) = Content(b)
        /\ WriteableBytes(EnsureSpace(b, allLen)) >= Len(<<byte>>)
    <2>1. /\ BufferOK(EnsureSpace(b, allLen))
          /\ Content(EnsureSpace(b, allLen)) = Content(b)
          /\ WriteableBytes(EnsureSpace(b, allLen)) >= allLen
      BY EnsureSpaceKeeps
    <2>2. WriteableBytes(EnsureSpace(b, allLen)) \in Nat
      BY <2>1, ArithBuffer
    <2>3. QED
      BY <1>1, <2>1, <2>2
  <1>3. Content(b) \o <<byte>> = Append(Content(b), byte)
    BY ContentType
  <1>4. QED
    BY <1>1, <1>2, <1>3, WriteAdds DEF AppendByte

(* readFd() adds all the bytes readv() brought, those that went to the     *)
(* buffer on the stack included (Buffer.cpp:9-38).                         *)
THEOREM ReadFdAdds ==
  ASSUME NEW b, BufferOK(b), NEW bytes \in Seq(Byte)
  PROVE  /\ BufferOK(ReadFd(b, bytes))
         /\ Content(ReadFd(b, bytes)) = Content(b) \o bytes
  <1> DEFINE writable == WriteableBytes(b)
             first == SubSeq(bytes, 1, writable)
             rest == SubSeq(bytes, writable + 1, Len(bytes))
  <1>1. writable \in Nat /\ Len(bytes) \in Nat
    BY ArithBuffer
  <1>2. CASE Len(bytes) <= writable
    BY <1>1, <1>2, WriteAdds DEF ReadFd
  <1>3. CASE ~(Len(bytes) <= writable)
    <2>1. /\ first \in Seq(Byte) /\ rest \in Seq(Byte)
          /\ Len(first) = writable
          /\ first \o rest = bytes
      <3>1. /\ first \in Seq(Byte) /\ Len(first) = writable
            /\ \A i \in 1 .. writable : first[i] = bytes[i]
        BY <1>1, <1>3
      <3>2. /\ rest \in Seq(Byte) /\ Len(rest) = Len(bytes) - writable
            /\ \A i \in 1 .. Len(rest) : rest[i] = bytes[writable + i]
        BY <1>1, <1>3
      <3>3. /\ first \o rest \in Seq(Byte)
            /\ Len(first \o rest) = Len(bytes)
            /\ \A i \in 1 .. Len(bytes) : (first \o rest)[i] = bytes[i]
        <4>1. /\ first \o rest \in Seq(Byte)
              /\ Len(first \o rest) = Len(first) + Len(rest)
              /\ \A i \in 1 .. Len(first) + Len(rest) :
                   (first \o rest)[i] = IF i <= Len(first) THEN first[i]
                                        ELSE rest[i - Len(first)]
          BY <3>1, <3>2, ConcatProperties
        <4>2. Len(first) + Len(rest) = Len(bytes)
          BY <1>1, <3>1, <3>2
        <4>3. ASSUME NEW i \in 1 .. Len(bytes)
              PROVE  (first \o rest)[i] = bytes[i]
          <5>1. CASE i <= writable
            BY <1>1, <3>1, <4>1, <4>2, <5>1
          <5>2. CASE ~(i <= writable)
            <6>1. /\ i - writable \in 1 .. Len(rest)
                  /\ writable + (i - writable) = i
              BY <1>1, <3>2, <5>2
            <6>2. QED
              BY <1>1, <3>1, <3>2, <4>1, <4>2, <5>2, <6>1
          <5>3. QED
            BY <5>1, <5>2
        <4>4. QED
          BY <4>1, <4>2, <4>3
      <3>4. QED
        BY <3>1, <3>2, <3>3, SeqEqual
    <2>2. /\ BufferOK(Write(b, first))
          /\ Content(Write(b, first)) = Content(b) \o first
      <3>1. WriteableBytes(b) >= Len(first)
        BY <1>1, <2>1
      <3>2. QED
        BY <2>1, <3>1, WriteAdds
    <2>3. /\ BufferOK(AppendData(Write(b, first), rest))
          /\ Content(AppendData(Write(b, first), rest)) =
               (Content(b) \o first) \o rest
      BY <2>1, <2>2, AppendAdds
    <2>4. (Content(b) \o first) \o rest = Content(b) \o bytes
      <3>1. Content(b) \in Seq(Byte)
        BY ContentType
      <3>2. (Content(b) \o first) \o rest = Content(b) \o (first \o rest)
        <4>1. first \in Seq(Byte) /\ rest \in Seq(Byte)
          BY <2>1
        <4> HIDE DEF first, rest
        <4>2. QED
          BY <3>1, <4>1, ConcatAssociative
      <3>3. QED
        BY <2>1, <3>2, Zenon
    <2>5. QED
      BY <1>3, <2>3, <2>4 DEF ReadFd
  <1>4. QED
    BY <1>2, <1>3

-----------------------------------------------------------------------------
(***************************************************************************)
(* The parser.                                                             *)
(***************************************************************************)
Texts == Seq(Byte)

(* A part of a sequence has its type.                                      *)
LEMMA SubSeqType ==
  ASSUME NEW S, NEW s \in Seq(S), NEW m \in Nat \ {0}, NEW n \in Int,
         n <= Len(s)
  PROVE  SubSeq(s, m, n) \in Seq(S)
  <1>1. \A i \in m .. n : s[i] \in S
    OBVIOUS
  <1> QED
    BY <1>1, SubSeqProperties

(* find() returns 0 or a place of what it looks for.                       *)
LEMMA PlaceOf ==
  ASSUME NEW text \in Texts, NEW c
  PROVE  /\ FindIn(text, c) \in 0 .. Len(text)
         /\ FindIn(text, c) # 0 => text[FindIn(text, c)] = c
  <1> DEFINE I == {i \in 1 .. Len(text) : text[i] = c}
  <1>1. FindIn(text, c) = IF I # {} THEN Min(I) ELSE 0
    BY DEF FindIn, SelectInSeq
  <1>2. I # {} => Min(I) \in I
    <2>1. I \in SUBSET Nat
      BY DEF Texts
    <2> HIDE DEF I
    <2> QED
      BY <2>1, MinOfNaturals
  <1> QED
    BY <1>1, <1>2 DEF Texts

(* The parts of a text before and after a place are texts.                 *)
LEMMA PartsOfText ==
  ASSUME NEW text \in Texts, NEW i \in 0 .. Len(text)
  PROVE  Before(text, i) \in Texts /\ After(text, i) \in Texts
  <1>1. /\ i - 1 \in Int /\ i - 1 <= Len(text)
        /\ i + 1 \in Nat \ {0} /\ Len(text) \in Int
    BY DEF Texts
  <1> QED
    BY <1>1, SubSeqType DEF Texts, Before, After

(* findCRLF() returns 0 or a place inside of the content.                  *)
LEMMA CRLFPlace ==
  ASSUME NEW b, BufferOK(b)
  PROVE  FindCRLF(b) \in 0 .. Len(Content(b))
  <1> DEFINE c == Content(b)
             at == {i \in 1 .. Len(c) - 1 : c[i] = CR /\ c[i + 1] = LF}
  <1>1. c \in Seq(Byte) /\ Len(c) \in Nat
    BY ContentType
  <1>2. CASE at = {}
    BY <1>1, <1>2 DEF FindCRLF
  <1>3. CASE at # {}
    <2>1. FindCRLF(b) = CHOOSE i \in at : \A j \in at : i <= j
      BY <1>3 DEF FindCRLF
    <2>2. at \in SUBSET Nat /\ at \subseteq 0 .. Len(c)
      BY <1>1
    <2>3. \E i \in at : \A j \in at : i <= j
      <3> HIDE DEF at
      <3> QED
        BY <1>3, <2>2, MinOfNaturals
    <2>4. FindCRLF(b) \in at
      <3> HIDE DEF at
      <3> QED
        BY <2>1, <2>3
    <2> QED
      BY <2>2, <2>4
  <1> QED
    BY <1>2, <1>3

(* The contexts as a set.                                                  *)
HeaderValues == {v \in Texts : v # <<>> /\ v[1] = COLON}

Contexts ==
  UNION {[State: {"KExpectRequestLine", "KExpectHeader", "KExpectBody",
                  "KGotAll"},
          method: Methods \union {"KInvalid"},
          version: {"UnKnown", "Http10", "Http11"},
          path: Texts, query: Texts,
          Heads: [fields -> HeaderValues]] : fields \in SUBSET Texts}

(* The contexts as a set, which an induction over rounds needs.            *)
LEMMA ContextsAreOK ==
  ASSUME NEW c
  PROVE  c \in Contexts <=> ContextOK(c)
  <1>1. ASSUME ContextOK(c) PROVE c \in Contexts
    <2>1. DOMAIN c.Heads \in SUBSET Texts
      BY <1>1 DEF ContextOK, Texts
    <2>2. c.Heads \in [DOMAIN c.Heads -> HeaderValues]
      BY <1>1 DEF ContextOK, Texts, HeaderValues
    <2> QED
      BY <1>1, <2>1, <2>2 DEF ContextOK, Contexts, Texts
  <1>2. ASSUME c \in Contexts PROVE ContextOK(c)
    BY <1>2 DEF ContextOK, Contexts, Texts, HeaderValues
  <1> QED
    BY <1>1, <1>2

(* The constructor's context is one.                                       *)
LEMMA NewContextOK == ContextOK(NewHttpContext)
  <1>1. /\ NewHttpContext.Heads = <<>> /\ DOMAIN <<>> = {}
        /\ <<>> \in Seq(Byte)
    BY DEF NewHttpContext
  <1>2. NewHttpContext.Heads \in [DOMAIN NewHttpContext.Heads -> Seq(Byte)]
    BY <1>1
  <1> QED
    BY <1>1, <1>2 DEF ContextOK, NewHttpContext, Methods

(* What the parser assigns to a context's fields fits them.                *)
LEMMA ContextUpdates ==
  ASSUME NEW c, ContextOK(c)
  PROVE  /\ \A m \in Methods \union {"KInvalid"} :
              ContextOK([c EXCEPT !.method = m])
         /\ \A v \in {"Http10", "Http11"} : ContextOK([c EXCEPT !.version = v])
         /\ \A p \in Texts : ContextOK([c EXCEPT !.path = p])
         /\ \A p, q \in Texts : ContextOK([c EXCEPT !.path = p, !.query = q])
         /\ \A q \in Texts : ContextOK([c EXCEPT !.query = q])
         /\ \A s \in {"KExpectHeader", "KExpectBody", "KGotAll"} :
              ContextOK([c EXCEPT !.State = s])
  BY DEF ContextOK, Texts

(* setVersion() keeps the context well formed.                             *)
LEMMA VersionOK ==
  ASSUME NEW c, ContextOK(c), NEW text
  PROVE  /\ WithVersion(c, text).ok \in BOOLEAN
         /\ ContextOK(WithVersion(c, text).context)
  <1>1. CASE text = <<Text("HTTP/1.0")>>
    BY <1>1, ContextUpdates DEF WithVersion
  <1>2. CASE text # <<Text("HTTP/1.0")>> /\ text = <<Text("HTTP/1.1")>>
    BY <1>2, ContextUpdates DEF WithVersion
  <1>3. CASE text # <<Text("HTTP/1.0")>> /\ text # <<Text("HTTP/1.1")>>
    BY <1>3 DEF WithVersion
  <1> QED
    BY <1>1, <1>2, <1>3

(* So do path and query.                                                   *)
LEMMA TargetOK ==
  ASSUME NEW c, ContextOK(c), NEW text \in Texts
  PROVE  ContextOK(WithTarget(c, text))
  <1> DEFINE q == FindIn(text, QMARK)
  <1>1. q \in 0 .. Len(text)
    BY PlaceOf
  <1> HIDE DEF q
  <1>2. CASE q = 0
    BY <1>2, ContextUpdates DEF WithTarget, q
  <1>3. CASE q # 0
    <2>1. Before(text, q) \in Texts
      BY <1>1, PartsOfText
    <2>2. SubSeq(text, q, Len(text)) \in Texts
      <3>1. q \in Nat \ {0} /\ Len(text) \in Int /\ Len(text) <= Len(text)
        BY <1>1, <1>3 DEF Texts
      <3> QED
        BY <3>1, SubSeqType DEF Texts
    <2>3. WithTarget(c, text) =
            [c EXCEPT !.path = Before(text, q),
                      !.query = SubSeq(text, q, Len(text))]
      BY <1>3 DEF WithTarget, q
    <2>4. \A p, r \in Texts : ContextOK([c EXCEPT !.path = p, !.query = r])
      BY ContextUpdates
    <2> QED
      BY <2>1, <2>2, <2>3, <2>4
  <1> QED
    BY <1>2, <1>3

(* So does what follows the method.                                        *)
LEMMA RestOK ==
  ASSUME NEW c, ContextOK(c), NEW rest \in Texts
  PROVE  /\ WithRest(c, rest).ok \in BOOLEAN
         /\ ContextOK(WithRest(c, rest).context)
  <1> DEFINE space == FindIn(rest, SP)
  <1>1. Before(rest, space) \in Texts
    BY PlaceOf, PartsOfText
  <1>2. ContextOK(WithTarget(c, Before(rest, space)))
    BY <1>1, TargetOK
  <1> QED
    BY <1>2, VersionOK DEF WithRest

(* So does the whole request line.                                         *)
LEMMA RequestLineOK ==
  ASSUME NEW c, ContextOK(c), NEW line \in Texts
  PROVE  /\ ProcessRequestLine(c, line).ok \in BOOLEAN
         /\ ContextOK(ProcessRequestLine(c, line).context)
  <1> DEFINE space == FindIn(line, SP)
             method == MethodOf(Before(line, space))
             named == [c EXCEPT !.method = method]
  <1>1. method \in Methods \union {"KInvalid"}
    BY DEF MethodOf
  <1>2. ContextOK(named)
    BY <1>1, ContextUpdates
  <1>3. After(line, space) \in Texts
    BY PlaceOf, PartsOfText
  <1>4. CASE space = 0
    BY <1>4 DEF ProcessRequestLine
  <1>5. CASE space # 0 /\ method = "KInvalid"
    BY <1>5, <1>2 DEF ProcessRequestLine
  <1>6. CASE space # 0 /\ method # "KInvalid"
    <2>1. ProcessRequestLine(c, line) = WithRest(named, After(line, space))
      BY <1>6 DEF ProcessRequestLine
    <2> HIDE DEF named, space
    <2> QED
      BY <1>2, <1>3, <2>1, RestOK
  <1> QED
    BY <1>4, <1>5, <1>6

(* addHeader() finds a last token that is not a space: the colon is none.  *)
LEMMA HeaderOK ==
  ASSUME NEW c, ContextOK(c), NEW line \in Texts,
         NEW colon \in 1 .. Len(line), line[colon] = COLON
  PROVE  ContextOK(AddHeader(c, line, colon))
  <1> DEFINE Ends(i) == /\ line[i] # SP
                        /\ \A j \in i + 1 .. Len(line) : line[j] = SP
             last == CHOOSE i \in colon .. Len(line) : Ends(i)
             field == Before(line, colon)
             value == SubSeq(line, colon, last)
             n == Len(line)
  <1>1. n \in Nat
    BY DEF Texts
  <1>2. \E i \in colon .. n : Ends(i)
    <2> DEFINE I == {k \in Nat : n - k \in colon .. n /\ line[n - k] # SP}
    <2>1. n - colon \in I
      <3>1. n - (n - colon) = colon /\ n - colon \in Nat
        BY <1>1
      <3>2. COLON # SP
        BY DEF COLON, SP, Text
      <3> QED
        BY <1>1, <3>1, <3>2
    <2>2. PICK k \in I : \A m \in I : k <= m
      <3> HIDE DEF I
      <3>1. I \in SUBSET Nat
        BY DEF I
      <3> QED
        BY <2>1, <3>1, MinOfNaturals
    <2>3. \A j \in (n - k) + 1 .. n : line[j] = SP
      <3> SUFFICES ASSUME NEW j \in (n - k) + 1 .. n, line[j] # SP
                   PROVE  FALSE
        OBVIOUS
      <3>1. n - j \in Nat /\ n - (n - j) = j /\ j \in colon .. n
        BY <1>1
      <3>2. n - j \in I /\ n - j < k
        BY <1>1, <3>1
      <3> QED
        BY <1>1, <2>2, <3>2
    <2> QED
      BY <2>2, <2>3
  <1>3. last \in colon .. n
    <2> HIDE DEF Ends
    <2> QED
      BY <1>2
  <1> HIDE DEF last
  <1>4. field \in Texts
    BY <1>1, PartsOfText
  <1>5. value \in Texts /\ value # <<>> /\ value[1] = COLON
    <2>1. \A i \in colon .. last : line[i] \in Byte
      BY <1>1, <1>3 DEF Texts
    <2>2. /\ SubSeq(line, colon, last) \in Seq(Byte)
          /\ Len(SubSeq(line, colon, last)) = last - colon + 1
          /\ SubSeq(line, colon, last)[1] = line[colon]
      BY <1>1, <1>3, <2>1, SubSeqProperties
    <2> QED
      BY <1>1, <1>3, <2>2, EmptySeq DEF Texts
  <1> DEFINE heads == [f \in DOMAIN c.Heads \union {field} |->
                         IF f = field THEN value ELSE c.Heads[f]]
  <1>6. AddHeader(c, line, colon) = [c EXCEPT !.Heads = heads]
    BY DEF AddHeader, last
  <1> HIDE DEF field, value
  <1>7. /\ heads \in [DOMAIN heads -> Seq(Byte)]
        /\ \A f \in DOMAIN heads : /\ f \in Seq(Byte) /\ heads[f] # <<>>
                                   /\ heads[f][1] = COLON
    BY <1>4, <1>5 DEF ContextOK, Texts
  <1> HIDE DEF heads
  <1> QED
    BY <1>6, <1>7 DEF ContextOK

ParseStates == [ok: BOOLEAN, More: BOOLEAN, context: Contexts,
                buf: {b \in BufferRecord : BufferOK(b)}]

(* A round of the parser keeps context and Buffer well formed.             *)
LEMMA RoundKeepsTypes ==
  ASSUME NEW p \in ParseStates
  PROVE  Round(p, Content(p.buf), FindCRLF(p.buf)) \in ParseStates
  <1> DEFINE content == Content(p.buf)
             crlf == FindCRLF(p.buf)
             line == Before(content, crlf)
  <1>1. BufferOK(p.buf) /\ ContextOK(p.context)
    BY ContextsAreOK DEF ParseStates
  <1>2. content \in Texts /\ crlf \in 0 .. Len(content) /\ line \in Texts
    BY <1>1, ContentType, CRLFPlace, PartsOfText DEF Texts
  <1> DEFINE rest == Retrieve(p.buf, crlf + 1)
  <1>3. rest \in {b \in BufferRecord : BufferOK(b)}
    <2>1. crlf + 1 \in Nat
      BY <1>2
    <2>2. BufferOK(rest)
      BY <1>1, <2>1, RetrieveDrops
    <2> QED
      BY <2>2 DEF BufferOK
  <1> HIDE DEF content, crlf, line, rest
  <1>4. CASE p.context.State = "KExpectBody"
    <2> DEFINE query == IF content # <<>> THEN content ELSE p.context.query
               got == [p.context EXCEPT !.State = "KGotAll"]
               last == [got EXCEPT !.query = query]
    <2>1. query \in Texts
      BY <1>1, <1>2 DEF ContextOK, Texts
    <2>2. ContextOK(got)
      BY <1>1, ContextUpdates
    <2>3. last \in Contexts
      <3> HIDE DEF query, got
      <3> QED
        BY <2>1, <2>2, ContextUpdates, ContextsAreOK
    <2>4. Round(p, content, crlf) =
            [p EXCEPT !.More = FALSE, !.context = last]
      BY <1>4 DEF Round, BodyRound, ParseStates, Contexts
    <2> HIDE DEF last
    <2> QED
      BY <2>3, <2>4 DEF content, crlf, ParseStates
  <1>5. CASE /\ p.context.State # "KExpectBody"
             /\ crlf = 0 \/ p.context.State = "KGotAll"
    <2>1. \/ Round(p, content, crlf) = p
          \/ Round(p, content, crlf) = [p EXCEPT !.More = FALSE]
      BY <1>5 DEF Round
    <2> QED
      BY <2>1 DEF content, crlf, ParseStates
  <1>6. CASE crlf # 0 /\ p.context.State = "KExpectHeader"
    <2> DEFINE colon == FindIn(line, COLON)
               next == IF colon # 0 THEN AddHeader(p.context, line, colon)
                       ELSE [p.context EXCEPT !.State = "KExpectBody"]
    <2>1. next \in Contexts
      <3>1. colon \in 0 .. Len(line) /\ (colon # 0 => line[colon] = COLON)
        BY <1>2, PlaceOf
      <3>2. CASE colon # 0
        BY <1>1, <1>2, <3>1, <3>2, HeaderOK, ContextsAreOK
      <3>3. CASE colon = 0
        BY <1>1, <3>3, ContextUpdates, ContextsAreOK
      <3> QED
        BY <3>2, <3>3
    <2>2. Round(p, content, crlf) = [p EXCEPT !.buf = rest, !.context = next]
      BY <1>6 DEF Round, HeaderRound, rest, line, ParseStates
    <2> HIDE DEF next
    <2> QED
      BY <1>3, <2>1, <2>2 DEF content, crlf, ParseStates
  <1>7. CASE crlf # 0 /\ p.context.State = "KExpectRequestLine"
    <2> DEFINE first == ProcessRequestLine(p.context, line)
    <2>1. first.ok \in BOOLEAN /\ ContextOK(first.context)
      BY <1>1, <1>2, RequestLineOK
    <2>2. Round(p, content, crlf) = RequestLineRound(p, first, crlf)
      BY <1>7 DEF Round, line
    <2> HIDE DEF first
    <2>3. CASE first.ok
      <3> DEFINE next == [first.context EXCEPT !.State = "KExpectHeader"]
      <3>1. next \in Contexts
        BY <2>1, ContextUpdates, ContextsAreOK
      <3>2. Round(p, content, crlf) =
              [p EXCEPT !.buf = rest, !.context = next]
        BY <2>2, <2>3 DEF RequestLineRound, rest
      <3> HIDE DEF next
      <3> QED
        BY <1>3, <3>1, <3>2 DEF content, crlf, ParseStates
    <2>4. CASE ~first.ok
      <3>1. first.context \in Contexts
        BY <2>1, ContextsAreOK
      <3>2. Round(p, content, crlf) =
              [p EXCEPT !.More = FALSE, !.ok = FALSE,
                        !.context = first.context]
        BY <2>2, <2>4 DEF RequestLineRound
      <3> QED
        BY <3>1, <3>2 DEF content, crlf, ParseStates
    <2> QED
      BY <2>3, <2>4
  <1> QED
    BY <1>1, <1>4, <1>5, <1>6, <1>7 DEF ContextOK, content, crlf

(* The rounds of ParseBuffer(), and the last of them.                      *)
Rounds(rounds, c, buf) ==
  /\ rounds[0] = [ok |-> TRUE, More |-> TRUE, context |-> c, buf |-> buf]
  /\ \A n \in Nat :
       /\ rounds[n] \in ParseStates
       /\ rounds[n + 1] =
            IF rounds[n].More
            THEN Round(rounds[n], Content(rounds[n].buf),
                       FindCRLF(rounds[n].buf))
            ELSE rounds[n]
  /\ ParseBuffer(c, buf) = rounds[ReadableBytes(buf) + 2]

(* ParseBuffer() goes through such rounds.                                 *)
LEMMA ParseRounds ==
  ASSUME NEW c, ContextOK(c), NEW buf, BufferOK(buf)
  PROVE  \E rounds : Rounds(rounds, c, buf)
  <1> DEFINE D == ParseStates
             Step(p) == IF p.More THEN Round(p, Content(p.buf), FindCRLF(p.buf))
                        ELSE p
             Def(f) == [n \in Nat |->
                          IF n = 0 THEN [ok |-> TRUE, More |-> TRUE,
                                         context |-> c, buf |-> buf]
                          ELSE LET p == f[n - 1]
                               IN IF p.More
                                  THEN Round(p, Content(p.buf), FindCRLF(p.buf))
                                  ELSE p]
             start == [ok |-> TRUE, More |-> TRUE, context |-> c, buf |-> buf]
             step == [x \in Nat \X D |-> Step(x[2])]
  <1>1. start \in D
    BY ContextsAreOK DEF ParseStates, BufferOK
  <1>2. \A p \in D : Step(p) \in D
    BY RoundKeepsTypes DEF ParseStates
  <1> HIDE DEF D, start, Step
  <1>3. step \in [Nat \X D -> D]
    BY <1>2
  <1> HIDE DEF step
  <1>4. PICK f : Iterates(f, D, start, step)
    BY <1>1, <1>3, Iteration
  <1>5. \A n \in Nat : n # 0 => f[n] = Step(f[n - 1])
    <2> SUFFICES ASSUME NEW n \in Nat, n # 0
                 PROVE  f[n] = Step(f[n - 1])
      OBVIOUS
    <2>1. n - 1 \in Nat /\ (n - 1) + 1 = n
      OBVIOUS
    <2>2. f[n] = step[<<n - 1, f[n - 1]>>] /\ f[n - 1] \in D
      BY <1>4, <2>1 DEF Iterates
    <2> QED
      BY <2>1, <2>2 DEF step
  <1>6. f = Def(f)
    <2>1. Def(f) = [n \in Nat |-> f[n]]
      BY <1>4, <1>5 DEF Iterates, start, Step
    <2> QED
      BY <1>4, <2>1 DEF Iterates
  <1> DEFINE rounds == CHOOSE h : h = Def(h)
  <1>7. rounds = Def(rounds)
    <2> HIDE DEF Def
    <2> QED
      BY <1>6
  <1>8. ParseBuffer(c, buf) = rounds[ReadableBytes(buf) + 2]
    BY DEF ParseBuffer
  <1> HIDE DEF rounds
  <1>9. rounds[0] = start /\ \A n \in Nat : rounds[n + 1] = Step(rounds[n])
    <2>1. rounds[0] = start
      BY <1>7 DEF start
    <2>2. ASSUME NEW n \in Nat
          PROVE  rounds[n + 1] = Step(rounds[n])
      <3>1. n + 1 \in Nat /\ n + 1 # 0 /\ (n + 1) - 1 = n
        OBVIOUS
      <3>2. rounds[n + 1] = Def(rounds)[n + 1]
        BY <1>7, <3>1
      <3> QED
        BY <3>1, <3>2 DEF Step
    <2> QED
      BY <2>1, <2>2
  <1> DEFINE T == {n \in Nat : rounds[n] \in D}
  <1>10. Nat \subseteq T
    <2>1. 0 \in T
      BY <1>1, <1>9
    <2>2. \A n \in Nat : n \in T => n + 1 \in T
      BY <1>2, <1>9
    <2> HIDE DEF T
    <2> QED
      BY <2>1, <2>2, SetInduction
  <1>11. \A n \in Nat : rounds[n] \in D
    BY <1>10
  <1>12. Rounds(rounds, c, buf)
    BY <1>8, <1>9, <1>11 DEF Rounds, D, start, Step
  <1> QED
    BY <1>12

(* Whatever was read, ParseBuffer() leaves a context, and a buffer whose   *)
(* indices are in order.                                                   *)
LEMMA ParseKeepsTypes ==
  ASSUME NEW c, ContextOK(c), NEW buf, BufferOK(buf)
  PROVE  ParseBuffer(c, buf) \in ParseStates
  <1>1. PICK rounds : Rounds(rounds, c, buf)
    BY ParseRounds
  <1>2. ReadableBytes(buf) + 2 \in Nat
    BY ArithBuffer
  <1> QED
    BY <1>1, <1>2 DEF Rounds

-----------------------------------------------------------------------------
(***************************************************************************)
(* The message callbacks: what they give to send().                        *)
(***************************************************************************)
Calls == {ShutdownCall} \union {SendCall(data) : data \in Texts}

(* What a callback gives to send() is bytes.                               *)
LEMMA SentType ==
  ASSUME NEW calls \in Seq(Calls)
  PROVE  Sent(calls) \in Texts
  <1> DEFINE parts == [i \in DOMAIN calls |->
                         IF calls[i] = ShutdownCall THEN <<>> ELSE calls[i][2]]
  <1>1. \A i \in DOMAIN calls : parts[i] \in Texts
    <2> SUFFICES ASSUME NEW i \in DOMAIN calls, calls[i] # ShutdownCall
                 PROVE  calls[i][2] \in Texts
      BY EmptySeq DEF Texts
    <2>1. PICK data \in Texts : calls[i] = SendCall(data)
      BY DEF Calls
    <2> QED
      BY <2>1 DEF SendCall
  <1>2. parts \in Seq(Texts)
    <2>1. DOMAIN calls = 1 .. Len(calls) /\ Len(calls) \in Nat
      OBVIOUS
    <2> QED
      BY <1>1, <2>1
  <1> HIDE DEF parts
  <1>3. FlattenSeq(parts) \in Texts
    BY <1>2, FlattenType DEF Texts
  <1> QED
    BY <1>3 DEF Sent, parts

(* The calls before a shutdown(), which are not all if there is one.       *)
LEMMA EffectiveType ==
  ASSUME NEW calls \in Seq(Calls)
  PROVE  /\ Effective(calls) \in Seq(Calls)
         /\ (\E i \in DOMAIN calls : calls[i] = ShutdownCall)
              => Effective(calls) # calls
  <1> DEFINE I == {i \in 1 .. Len(calls) : calls[i] = ShutdownCall}
             at == IF I # {} THEN Min(I) ELSE 0
  <1>1. Len(calls) \in Nat /\ DOMAIN calls = 1 .. Len(calls)
    OBVIOUS
  <1>2. Effective(calls) = IF at = 0 THEN calls ELSE SubSeq(calls, 1, at - 1)
    BY DEF Effective, SelectInSeq
  <1>3. I # {} => at \in 1 .. Len(calls)
    <2>1. I \in SUBSET Nat /\ I \subseteq 1 .. Len(calls)
      BY <1>1
    <2> HIDE DEF I
    <2> QED
      BY <2>1, MinOfNaturals
  <1>4. CASE I = {}
    BY <1>1, <1>2, <1>4
  <1>5. CASE I # {}
    <2> HIDE DEF I, at
    <2>1. at \in 1 .. Len(calls) /\ 1 \in Nat \ {0} /\ at - 1 \in Int
      BY <1>1, <1>3, <1>5
    <2>2. Effective(calls) = SubSeq(calls, 1, at - 1)
      BY <1>2, <2>1
    <2>3. SubSeq(calls, 1, at - 1) \in Seq(Calls)
      BY <1>1, <2>1, SubSeqType
    <2>4. Len(SubSeq(calls, 1, at - 1)) = at - 1
      BY <1>1, <2>1
    <2> QED
      BY <1>1, <2>1, <2>2, <2>3, <2>4
  <1> QED
    BY <1>4, <1>5

(* The calls that answer a request.                                        *)
LEMMA AnswerCalls ==
  ASSUME NEW code \in {"200", "404"}, NEW close \in BOOLEAN,
         NEW body \in Texts,
         close \/ <<"Content-Length", Len(body)>> \in Byte
  PROVE  Answer(code, close, body) \in Seq(Calls)
  <1> DEFINE status == AppendData(NewBuffer, <<Text(code)>>)
             fields == AppendData(status, Fields(close, body))
             head == AppendData(fields, <<Text("blank")>>)
             data == Content(AppendToBuffer(code, close, body))
  <1>1. /\ <<Text(code)>> \in Seq(Byte) /\ <<Text("blank")>> \in Seq(Byte)
        /\ Fields(close, body) \in Seq(Byte) /\ body \in Seq(Byte)
    BY AnswerAssumption DEF Fields, Texts
  <1>2. BufferOK(status)
    BY <1>1, NewBufferEmpty, AppendAdds
  <1>3. BufferOK(fields)
    <2> HIDE DEF status
    <2> QED
      BY <1>1, <1>2, AppendAdds
  <1>4. BufferOK(head)
    <2> HIDE DEF fields
    <2> QED
      BY <1>1, <1>3, AppendAdds
  <1>5. BufferOK(AppendData(head, body))
    <2> HIDE DEF head
    <2> QED
      BY <1>1, <1>4, AppendAdds
  <1>6. AppendToBuffer(code, close, body) = AppendData(head, body)
    BY DEF AppendToBuffer
  <1>7. data \in Texts
    <2> HIDE DEF head
    <2> QED
      BY <1>5, <1>6, ContentType DEF Texts
  <1> HIDE DEF data
  <1>8. <<SendCall(data)>> \in Seq(Calls) /\ <<ShutdownCall>> \in Seq(Calls)
    BY <1>7 DEF Calls
  <1>9. Answer(code, close, body) =
          <<SendCall(data)>> \o (IF close THEN <<ShutdownCall>> ELSE <<>>)
    BY DEF Answer, data
  <1> QED
    BY <1>8, <1>9

(* Any request whatever is answered by calls that can be made.             *)
LEMMA OnRequestCalls ==
  ASSUME NEW c
  PROVE  OnRequest(c) \in Seq(Calls)
  <1>1. PICK close \in BOOLEAN : OnRequest(c) = HttpCallback(c.path, close)
    BY DEF OnRequest
  <1>2. CASE c.path \in Pages
    <2>1. /\ c.path \in Texts /\ <<"Content-Length", Len(c.path)>> \in Byte
          /\ HttpCallback(c.path, close) = Answer("200", close, c.path)
      BY <1>2, PagesAssumption DEF HttpCallback, Texts
    <2> QED
      BY <1>1, <2>1, AnswerCalls
  <1>3. CASE c.path \notin Pages
    <2>1. /\ <<>> \in Texts
          /\ HttpCallback(c.path, close) = Answer("404", TRUE, <<>>)
      BY <1>3 DEF HttpCallback, Texts
    <2> QED
      BY <1>1, <2>1, AnswerCalls
  <1> QED
    BY <1>2, <1>3

(* The calls that refuse one, shutdown() being the second.                 *)
LEMMA RefuseCalls ==
  /\ Refuse \in Seq(Calls)
  /\ Len(Refuse) = 2 /\ Refuse[2] = ShutdownCall
  <1>1. BadRequest \in Texts
    BY AnswerAssumption DEF BadRequest, Texts
  <1> QED
    BY <1>1 DEF Refuse, Calls

(* HttpServer::onMessage() leaves a context and a Buffer well formed.      *)
LEMMA HttpMessage ==
  ASSUME NEW c, ContextOK(c), NEW buf, BufferOK(buf)
  PROVE  /\ ContextOK(HttpOnMessage(c, buf).context)
         /\ BufferOK(HttpOnMessage(c, buf).buf)
         /\ HttpOnMessage(c, buf).calls \in Seq(Calls)
         /\ ~GetAll(HttpOnMessage(c, buf).context)
  <1> DEFINE p == ParseBuffer(c, buf)
  <1>1. p \in ParseStates
    BY ParseKeepsTypes
  <1> HIDE DEF p
  <1>2. ContextOK(p.context) /\ BufferOK(p.buf)
    BY <1>1, ContextsAreOK DEF ParseStates
  <1> DEFINE refusal == IF p.ok THEN <<>> ELSE Refuse
             answer == IF GetAll(p.context) THEN OnRequest(p.context) ELSE <<>>
  <1>3. refusal \in Seq(Calls) /\ answer \in Seq(Calls)
    BY RefuseCalls, OnRequestCalls
  <1> HIDE DEF refusal, answer
  <1>4. HttpOnMessage(c, buf) =
          [context |-> IF GetAll(p.context) THEN NewHttpContext ELSE p.context,
           buf |-> p.buf, calls |-> refusal \o answer]
    BY DEF HttpOnMessage, HttpParsed, p, refusal, answer
  <1>5. ~GetAll(NewHttpContext)
    BY DEF GetAll, NewHttpContext
  <1> QED
    BY <1>2, <1>3, <1>4, <1>5, NewContextOK

(* A header's value begins with its colon and is no value that upgrades.   *)
LEMMA NoUpgrade ==
  ASSUME NEW c, ContextOK(c)
  PROVE  /\ ~IsUpgrade(c)
         /\ \A field : GetHeader(c, field) \in Texts
  <1>1. ASSUME NEW field
        PROVE  /\ GetHeader(c, field) \in Texts
               /\ GetHeader(c, field) # <<Text("websocket")>>
    <2>1. CASE <<field>> \in DOMAIN c.Heads
      <3>1. /\ GetHeader(c, field) = c.Heads[<<field>>]
            /\ c.Heads[<<field>>] \in Texts /\ c.Heads[<<field>>][1] = COLON
        BY <2>1 DEF GetHeader, ContextOK, Texts
      <3>2. <<Text("websocket")>>[1] # COLON
        BY DEF Text, COLON
      <3> QED
        BY <3>1, <3>2
    <2>2. CASE <<field>> \notin DOMAIN c.Heads
      BY <2>2 DEF GetHeader, Texts
    <2> QED
      BY <2>1, <2>2
  <1> QED
    BY <1>1 DEF IsUpgrade

(* retrieveAll() leaves an empty Buffer.                                   *)
LEMMA RetrieveAllOK ==
  ASSUME NEW b, BufferOK(b)
  PROVE  BufferOK(RetrieveAll(b)) /\ ReadableBytes(RetrieveAll(b)) = 0
  <1>1. Len(b.buffer_) \in Nat /\ KCheapPrepend <= Len(b.buffer_)
    BY ArithBuffer
  <1> DEFINE r == [b EXCEPT !.readerIndex_ = KCheapPrepend,
                            !.writerIndex_ = KCheapPrepend]
  <1>2. /\ r \in BufferRecord /\ r.buffer_ = b.buffer_
        /\ r.readerIndex_ = KCheapPrepend /\ r.writerIndex_ = KCheapPrepend
    BY SizesAssumption DEF BufferOK, BufferRecord
  <1> HIDE DEF r
  <1>3. BufferOK(r)
    BY <1>1, <1>2, SizesAssumption DEF BufferOK
  <1> QED
    BY <1>2, <1>3, SizesAssumption DEF RetrieveAll, ReadableBytes, r

(* onMessage() of the WebSocketServer before the handshake: a status that  *)
(* counts as done goes with a shutdown(), since no request passes the      *)
(* tests.                                                                  *)
LEMMA HandshakeMessage ==
  ASSUME NEW buf, BufferOK(buf)
  PROVE  LET r == WebSocketOnMessage("kUnconnect", buf)
         IN /\ r.context \in {"kUnconnect", "kHandsharked"}
            /\ BufferOK(r.buf)
            /\ r.calls \in Seq(Calls)
            /\ r.context = "kHandsharked"
                 => \E i \in DOMAIN r.calls : r.calls[i] = ShutdownCall
  <1> DEFINE p == ParseBuffer(NewHttpContext, buf)
             r == WebSocketOnMessage("kUnconnect", buf)
             key == GetHeader(p.context, Text("Sec-WebSocket-Key"))
             reply == <<SendCall(HandleShared(key))>>
  <1> SUFFICES /\ r.context \in {"kUnconnect", "kHandsharked"}
               /\ BufferOK(r.buf)
               /\ r.calls \in Seq(Calls)
               /\ r.context = "kHandsharked"
                    => \E i \in DOMAIN r.calls : r.calls[i] = ShutdownCall
    OBVIOUS
  <1>1. p \in ParseStates
    BY ParseKeepsTypes, NewContextOK
  <1>2. r = HandshakeParsed(p)
    BY DEF WebSocketOnMessage
  <1> HIDE DEF p, r
  <1>3. ContextOK(p.context) /\ BufferOK(p.buf) /\ p.ok \in BOOLEAN
    BY <1>1, ContextsAreOK DEF ParseStates
  <1>4. CASE GetAll(p.context)
    <2>1. r = [context |-> "kHandsharked", buf |-> RetrieveAll(p.buf),
               calls |-> Refuse \o reply]
      BY <1>2, <1>3, <1>4, NoUpgrade DEF HandshakeParsed
    <2>2. BufferOK(RetrieveAll(p.buf))
      BY <1>3, RetrieveAllOK
    <2>3. reply \in Seq(Calls) /\ Len(reply) = 1
      <3>1. <<Text("101")>> \o key \in Seq(Byte)
        BY <1>3, NoUpgrade, HandshakeAssumption DEF Texts
      <3>2. HandleShared(key) \in Texts
        BY <3>1, NewBufferEmpty, AppendAdds, ContentType
           DEF HandleShared, Texts
      <3> QED
        BY <3>2 DEF Calls
    <2> HIDE DEF reply
    <2>4. /\ Refuse \o reply \in Seq(Calls) /\ Len(Refuse \o reply) = 3
          /\ (Refuse \o reply)[2] = ShutdownCall
      <3> DEFINE refusal == Refuse
      <3>1. /\ refusal \in Seq(Calls) /\ Len(refusal) = 2
            /\ refusal[2] = ShutdownCall
        BY RefuseCalls
      <3> HIDE DEF refusal
      <3>2. /\ refusal \o reply \in Seq(Calls) /\ Len(refusal \o reply) = 3
            /\ (refusal \o reply)[2] = ShutdownCall
        <4>1. Len(refusal) + Len(reply) = 3 /\ 2 \in 1 .. 3 /\ 2 <= Len(refusal)
          BY <2>3, <3>1
        <4>2. /\ refusal \o reply \in Seq(Calls)
              /\ Len(refusal \o reply) = Len(refusal) + Len(reply)
              /\ (refusal \o reply)[2] = refusal[2]
          BY <2>3, <3>1, <4>1, ConcatProperties
        <4> QED
          BY <3>1, <4>1, <4>2
      <3> QED
        BY <3>2 DEF refusal
    <2>5. 2 \in DOMAIN (Refuse \o reply)
      BY <2>4
    <2> QED
      BY <2>1, <2>2, <2>4, <2>5
  <1>5. CASE ~GetAll(p.context)
    <2>1. r = [context |-> "kUnconnect", buf |-> p.buf,
               calls |-> IF p.ok THEN <<>> ELSE Refuse]
      BY <1>2, <1>5 DEF HandshakeParsed
    <2> QED
      BY <1>3, <2>1, RefuseCalls
  <1> QED
    BY <1>4, <1>5

-----------------------------------------------------------------------------
(***************************************************************************)
(* The connection.                                                         *)
(***************************************************************************)
LEMMA ForgetKeeps ==
  ASSUME NEW b, BufferOK(b)
  PROVE  /\ BufferOK(Forget(b))
         /\ Content(Forget(b)) = Content(b)
         /\ ReadableBytes(Forget(b)) = ReadableBytes(b)
  <1> DEFINE cells == [i \in DOMAIN b.buffer_ |->
                         IF b.readerIndex_ < i /\ i <= b.writerIndex_
                         THEN b.buffer_[i] ELSE Zero]
             r == [b EXCEPT !.buffer_ = cells]
  <1>1. Forget(b) = r
    BY DEF Forget
  <1>2. cells \in Seq(Byte) /\ Len(cells) = Len(b.buffer_)
    BY ArithBuffer, ByteAssumption
  <1>3. \A i \in 1 .. ReadableBytes(b) :
          cells[b.readerIndex_ + i] = b.buffer_[b.readerIndex_ + i]
    <2>1. DOMAIN b.buffer_ = 1 .. Len(b.buffer_)
      BY ArithBuffer
    <2>2. \A i \in 1 .. ReadableBytes(b) :
            /\ b.readerIndex_ + i \in 1 .. Len(b.buffer_)
            /\ b.readerIndex_ < b.readerIndex_ + i
            /\ b.readerIndex_ + i <= b.writerIndex_
      BY Indices
    <2> QED
      BY <2>1, <2>2
  <1> HIDE DEF cells
  <1>4. /\ r \in BufferRecord /\ r.buffer_ = cells
        /\ r.readerIndex_ = b.readerIndex_ /\ r.writerIndex_ = b.writerIndex_
    BY <1>2 DEF BufferOK, BufferRecord
  <1> HIDE DEF r
  <1>5. BufferOK(r) /\ ReadableBytes(r) = ReadableBytes(b)
    BY <1>2, <1>4 DEF BufferOK, ReadableBytes
  <1>6. Content(r) = Content(b)
    <2>1. /\ Content(b) \in Seq(Byte) /\ Len(Content(b)) = ReadableBytes(r)
          /\ \A i \in 1 .. ReadableBytes(b) :
               Content(b)[i] = b.buffer_[b.readerIndex_ + i]
      BY <1>5, ContentType
    <2> QED
      BY <1>3, <1>4, <1>5, <2>1, SameContent
  <1> QED
    BY <1>1, <1>5, <1>6

(* Concatenation of bytes is bytes.                                        *)
LEMMA TextsConcat ==
  ASSUME NEW s \in Texts, NEW t \in Texts
  PROVE  s \o t \in Texts /\ Len(s \o t) = Len(s) + Len(t)
  BY ConcatProperties DEF Texts

(* Concatenation is associative.                                           *)
LEMMA TextsAssociate ==
  ASSUME NEW s \in Texts, NEW t \in Texts, NEW u \in Texts
  PROVE  (s \o t) \o u = s \o (t \o u)
  BY ConcatAssociative DEF Texts

(* The first k elements of a sequence and the rest.                        *)
LEMMA FirstAndRest ==
  ASSUME NEW s \in Texts, NEW k \in 0 .. Len(s)
  PROVE  /\ First(s, k) \in Texts /\ Len(First(s, k)) = k
         /\ Rest(s, k) \in Texts /\ Len(Rest(s, k)) = Len(s) - k
         /\ First(s, k) \o Rest(s, k) = s
  <1>1. Len(s) \in Nat /\ \A i \in 1 .. Len(s) : s[i] \in Byte
    BY DEF Texts
  <1>2. First(s, k) \in Texts /\ Len(First(s, k)) = k
    BY <1>1, SubSeqProperties DEF First, Texts
  <1>3. Rest(s, k) \in Texts /\ Len(Rest(s, k)) = Len(s) - k
    <2>1. k + 1 \in Int /\ \A i \in k + 1 .. Len(s) : s[i] \in Byte
      BY <1>1
    <2> QED
      BY <1>1, <2>1, SubSeqProperties DEF Rest, Texts
  <1>4. First(s, k) \o Rest(s, k) = SubSeq(s, 1, Len(s))
    <2>1. /\ 1 \in 1 .. Len(s) + 1 /\ k \in 1 - 1 .. Len(s)
          /\ Len(s) \in k .. Len(s) /\ s \in Seq(Byte)
      BY <1>1 DEF Texts
    <2> QED
      BY <2>1, ConcatAdjacentSubSeq DEF First, Rest
  <1> QED
    BY <1>2, <1>3, <1>4, SubSeqFull DEF Texts

(* What write() takes fits into the socket, and is something if there is   *)
(* room.                                                                   *)
LEMMA TakesRange ==
  ASSUME NEW n \in Nat, NEW k \in Takes(n), sndbuf \in Texts,
         Len(sndbuf) <= SndBuf
  PROVE  /\ k \in 0 .. n /\ Len(sndbuf) + k <= SndBuf
         /\ n # 0 /\ Len(sndbuf) < SndBuf => k # 0
  BY SndBufAssumption DEF Takes, Room, Texts

(* Of a call of send(): the output takes the data behind what it has.      *)
LEMMA SendInLoopKeeps ==
  ASSUME ServicesInv, NEW b \in Texts, SendInLoop(b)
  PROVE  /\ sndbuf' \in Texts /\ Len(sndbuf') <= SndBuf
         /\ BufferOK(outputBuffer_') /\ isWrite' \in BOOLEAN
         /\ isWrite' <=> ReadableBytes(outputBuffer_') # 0
         /\ sndbuf' \o Content(outputBuffer_') =
              (sndbuf \o Content(outputBuffer_)) \o b
  <1> DEFINE out == outputBuffer_
             c == Content(out)
  <1>1. PICK k \in IF ~isWrite /\ ReadableBytes(out) = 0
                   THEN Takes(Len(b)) ELSE {0} :
          /\ sndbuf' = sndbuf \o First(b, k)
          /\ outputBuffer_' = Forget(AppendData(out, Rest(b, k)))
          /\ isWrite' = (isWrite \/ k # Len(b))
    BY DEF SendInLoop
  <1>2. /\ sndbuf \in Texts /\ Len(sndbuf) <= SndBuf /\ BufferOK(out)
        /\ isWrite \in BOOLEAN /\ (isWrite <=> ReadableBytes(out) # 0)
        /\ Len(b) \in Nat
    BY DEF ServicesInv, BuffersOK, Texts
  <1>3. /\ c \in Texts /\ Len(c) = ReadableBytes(out)
        /\ ReadableBytes(out) \in Nat /\ Len(sndbuf) \in Nat
    BY <1>2, ContentType, ArithBuffer DEF Texts
  <1>4. k \in 0 .. Len(b) /\ Len(sndbuf) + k <= SndBuf
    BY <1>1, <1>2, <1>3, TakesRange, SndBufAssumption
  <1>5. /\ First(b, k) \in Texts /\ Len(First(b, k)) = k
        /\ Rest(b, k) \in Texts /\ Len(Rest(b, k)) = Len(b) - k
        /\ First(b, k) \o Rest(b, k) = b
    BY <1>4, FirstAndRest
  <1> HIDE DEF c, out
  <1>6. /\ BufferOK(outputBuffer_')
        /\ Content(outputBuffer_') = c \o Rest(b, k)
        /\ ReadableBytes(outputBuffer_') = ReadableBytes(out) + (Len(b) - k)
    <2> DEFINE a == AppendData(out, Rest(b, k))
    <2>1. BufferOK(a) /\ Content(a) = c \o Rest(b, k)
      BY <1>2, <1>5, AppendAdds DEF Texts, c
    <2> HIDE DEF a
    <2>2. /\ BufferOK(outputBuffer_')
          /\ Content(outputBuffer_') = c \o Rest(b, k)
      BY <1>1, <2>1, ForgetKeeps DEF a
    <2>3. Len(c \o Rest(b, k)) = Len(c) + Len(Rest(b, k))
      BY <1>3, <1>5, TextsConcat
    <2> QED
      BY <1>3, <1>5, <2>2, <2>3, ContentType
  <1>7. sndbuf' \in Texts /\ Len(sndbuf') = Len(sndbuf) + k
    BY <1>1, <1>2, <1>5, TextsConcat
  <1>8. isWrite' <=> ReadableBytes(outputBuffer_') # 0
    <2>1. CASE isWrite
      <3>1. isWrite' /\ ReadableBytes(out) # 0
        BY <1>1, <1>2, <2>1
      <3> QED
        BY <1>2, <1>3, <1>4, <1>6, <3>1
    <2>2. CASE ~isWrite
      <3>1. (isWrite' <=> k # Len(b)) /\ ReadableBytes(out) = 0
        BY <1>1, <1>2, <2>2
      <3> QED
        BY <1>2, <1>3, <1>4, <1>6, <3>1
    <2> QED
      BY <1>2, <2>1, <2>2
  <1>9. (sndbuf \o First(b, k)) \o (c \o Rest(b, k)) = (sndbuf \o c) \o b
    <2>1. CASE k = 0
      <3>1. First(b, k) = <<>>
        BY <1>5, <2>1, EmptySeq DEF Texts
      <3>2. Rest(b, k) = b
        BY <1>5, <3>1, ConcatEmptySeq DEF Texts
      <3>3. sndbuf \o First(b, k) = sndbuf
        BY <1>2, <3>1, ConcatEmptySeq DEF Texts
      <3> QED
        BY <1>2, <1>3, <3>2, <3>3, TextsAssociate
    <2>2. CASE k # 0
      <3>1. c = <<>>
        BY <1>1, <1>3, <2>2, EmptySeq DEF Texts
      <3>2. c \o Rest(b, k) = Rest(b, k) /\ sndbuf \o c = sndbuf
        BY <1>2, <1>5, <3>1, ConcatEmptySeq DEF Texts
      <3>3. (sndbuf \o First(b, k)) \o Rest(b, k) =
              sndbuf \o (First(b, k) \o Rest(b, k))
        BY <1>2, <1>5, TextsAssociate
      <3> QED
        BY <1>5, <3>2, <3>3
    <2> QED
      BY <2>1, <2>2
  <1> QED
    BY <1>1, <1>2, <1>4, <1>6, <1>7, <1>8, <1>9 DEF c, out

(* What a callback's calls do to the output, and whether they close.       *)
LEMMA PerformKeeps ==
  ASSUME ServicesInv, NEW calls, Perform(calls), received' = received,
         state_ = "kConnected" => calls \in Seq(Calls)
  PROVE  /\ sndbuf' \in Texts /\ Len(sndbuf') <= SndBuf
         /\ BufferOK(outputBuffer_') /\ isWrite' \in BOOLEAN
         /\ isWrite' <=> ReadableBytes(outputBuffer_') # 0
         /\ OutputIsWhole'
         /\ (state_' = "kConnected" =>
               /\ state_ = "kConnected"
               /\ \A i \in DOMAIN calls : calls[i] # ShutdownCall)
  <1>1. CASE state_ = "kConnected"
    <2> DEFINE b == Sent(Effective(calls))
               c == Content(outputBuffer_)
    <2>1. b \in Texts
      BY <1>1, EffectiveType, SentType
    <2>2. SendInLoop(b)
      BY <1>1 DEF Perform
    <2>3. /\ sndbuf' \in Texts /\ Len(sndbuf') <= SndBuf
          /\ BufferOK(outputBuffer_') /\ isWrite' \in BOOLEAN
          /\ isWrite' <=> ReadableBytes(outputBuffer_') # 0
          /\ sndbuf' \o Content(outputBuffer_') = (sndbuf \o c) \o b
      BY <2>1, <2>2, SendInLoopKeeps
    <2>4. accepted' = accepted \o b
      BY <2>2 DEF SendInLoop
    <2> HIDE DEF b
    <2>5. /\ received \in Texts /\ sndbuf \in Texts /\ c \in Texts
          /\ (received \o sndbuf) \o c = accepted
          /\ Content(outputBuffer_') \in Texts
      BY <2>3, ContentType DEF ServicesInv, BuffersOK, OutputIsWhole, Texts
    <2> HIDE DEF c
    <2>6. OutputIsWhole'
      <3> DEFINE d == Content(outputBuffer_')
      <3>1. (received \o sndbuf') \o d = received \o (sndbuf' \o d)
        BY <2>3, <2>5, TextsAssociate
      <3>2. sndbuf \o c \in Texts
        BY <2>5, TextsConcat
      <3>3. received \o ((sndbuf \o c) \o b) = (received \o (sndbuf \o c)) \o b
        <4> DEFINE m == sndbuf \o c
        <4>1. received \in Texts /\ m \in Texts /\ b \in Texts
          BY <2>1, <2>5, <3>2
        <4> HIDE DEF m
        <4>2. received \o (m \o b) = (received \o m) \o b
          BY <4>1, TextsAssociate
        <4> QED
          BY <4>2 DEF m
      <3>4. received \o (sndbuf \o c) = (received \o sndbuf) \o c
        BY <2>5, TextsAssociate
      <3> HIDE DEF d
      <3>5. (received' \o sndbuf') \o d = accepted'
        BY <2>3, <2>4, <2>5, <3>1, <3>3, <3>4 DEF d
      <3> QED
        BY <3>5 DEF OutputIsWhole, d
    <2>7. ASSUME state_' = "kConnected", NEW i \in DOMAIN calls,
                 calls[i] = ShutdownCall
          PROVE  FALSE
      <3>1. Effective(calls) # calls
        BY <1>1, <2>7, EffectiveType
      <3>2. state_' = "kDisconnecting"
        BY <1>1, <3>1 DEF Perform
      <3> QED
        BY <2>7, <3>2
    <2> QED
      BY <1>1, <2>3, <2>6, <2>7
  <1>2. CASE state_ # "kConnected"
    BY <1>2 DEF Perform, ServicesInv, BuffersOK, OutputIsWhole, Texts
  <1> QED
    BY <1>1, <1>2

(* The start: nothing read, nothing buffered.                              *)
LEMMA InitInv == Init => ServicesInv
  <1> SUFFICES ASSUME Init PROVE ServicesInv
    OBVIOUS
  <1>1. /\ BufferOK(NewBuffer) /\ Content(NewBuffer) = <<>>
        /\ ReadableBytes(NewBuffer) = 0
    BY NewBufferEmpty, SizesAssumption DEF NewBuffer, ReadableBytes
  <1>2. BuffersOK /\ OutputIsWhole
    BY <1>1, SndBufAssumption DEF Init, BuffersOK, OutputIsWhole
  <1>3. toCome \in Seq(Byte) /\ script.service \in {"http", "websocket"}
    <2> DEFINE us == script.units
               parts == [i \in DOMAIN us |-> Bytes(us[i])]
    <2>1. /\ us \in Seq(Requests \union Frames)
          /\ script.service \in {"http", "websocket"}
          /\ \A i \in DOMAIN us : Chunks(us[i]) \in Seq(Seq(Byte))
      BY ScriptsAssumption DEF Init
    <2>2. DOMAIN us = 1 .. Len(us) /\ Len(us) \in Nat
      BY <2>1
    <2>3. toCome = FlattenSeq(parts)
      BY DEF Init, Stream
    <2> HIDE DEF us
    <2>4. \A i \in DOMAIN us : Bytes(us[i]) \in Seq(Byte)
      BY <2>1, FlattenType DEF Bytes
    <2>5. parts \in Seq(Seq(Byte))
      BY <2>2, <2>4
    <2> HIDE DEF parts
    <2> QED
      BY <2>1, <2>3, <2>5, FlattenType
  <1>4. {toCome, sndbuf, received} \subseteq Seq(Byte) /\ isWrite \in BOOLEAN
    <2>1. <<>> \in Seq(Byte)
      OBVIOUS
    <2> QED
      BY <1>3, <2>1 DEF Init
  <1>5. IF script.service = "http" THEN ContextOK(context) /\ ~GetAll(context)
        ELSE context = "kUnconnect"
    <2>1. ~GetAll(NewHttpContext)
      BY DEF GetAll, NewHttpContext
    <2> QED
      BY <2>1, NewContextOK DEF Init, HttpOnConnection, WebSocketOnConnection
  <1> QED
    BY <1>2, <1>4, <1>5 DEF Init, ServicesInv

(* handleRead() keeps the invariant.                                       *)
LEMMA HandleReadInv ==
  ASSUME ServicesInv, NEW n \in DOMAIN toCome, HandleRead(n)
  PROVE  ServicesInv'
  <1> DEFINE buf == ReadFd(inputBuffer_, First(toCome, n))
             r == OnMessage(buf)
  <1>1. /\ toCome \in Texts /\ n \in 0 .. Len(toCome)
        /\ First(toCome, n) \in Texts /\ Rest(toCome, n) \in Texts
    <2>1. toCome \in Texts /\ DOMAIN toCome = 1 .. Len(toCome)
      BY DEF ServicesInv, Texts
    <2>2. n \in 0 .. Len(toCome)
      BY <2>1 DEF Texts
    <2> QED
      BY <2>1, <2>2, FirstAndRest
  <1>2. BufferOK(buf)
    BY <1>1, ReadFdAdds DEF ServicesInv, BuffersOK, Texts
  <1> HIDE DEF buf
  <1>3. /\ context' = r.context
        /\ inputBuffer_' = Forget(Retrieve(r.buf, ReadableBytes(r.buf)))
        /\ Perform(r.calls)
        /\ toCome' = Rest(toCome, n)
        /\ script' = script /\ received' = received
    BY DEF HandleRead, buf
  <1>4. /\ BufferOK(r.buf)
        /\ state_ = "kConnected" => r.calls \in Seq(Calls)
        /\ IF script.service = "http"
           THEN ContextOK(r.context) /\ ~GetAll(r.context)
           ELSE /\ r.context \in {"kUnconnect", "kHandsharked"}
                /\ r.context = "kHandsharked" =>
                     \/ state_ # "kConnected"
                     \/ \E i \in DOMAIN r.calls : r.calls[i] = ShutdownCall
    <2>1. CASE script.service = "http"
      <3>1. r = HttpOnMessage(context, buf) /\ ContextOK(context)
        BY <2>1 DEF OnMessage, ServicesInv
      <3> HIDE DEF r
      <3> QED
        BY <1>2, <2>1, <3>1, HttpMessage
    <2>2. CASE script.service # "http" /\ context = "kUnconnect"
      <3>1. r = WebSocketOnMessage("kUnconnect", buf)
        BY <2>2 DEF OnMessage
      <3> HIDE DEF r
      <3> QED
        BY <1>2, <2>2, <3>1, HandshakeMessage
    <2>3. CASE script.service # "http" /\ context = "kHandsharked"
      <3>1. r = [context |-> context, buf |-> buf, calls |-> HandleData(buf)]
        BY <2>3 DEF OnMessage, WebSocketOnMessage
      <3>2. state_ # "kConnected"
        BY <2>3 DEF ServicesInv
      <3> HIDE DEF r
      <3> QED
        BY <1>2, <2>3, <3>1, <3>2
    <2> QED
      BY <2>1, <2>2, <2>3 DEF ServicesInv
  <1> HIDE DEF r
  <1>5. BufferOK(inputBuffer_') /\ ReadableBytes(inputBuffer_') = 0
    <2> DEFINE e == Retrieve(r.buf, ReadableBytes(r.buf))
    <2>1. ReadableBytes(r.buf) \in Nat
      BY <1>4, ArithBuffer
    <2>2. BufferOK(e)
      BY <1>4, <2>1, RetrieveDrops
    <2>3. e = RetrieveAll(r.buf)
      BY <2>1 DEF Retrieve
    <2>4. ReadableBytes(e) = 0
      BY <1>4, <2>3, RetrieveAllOK
    <2> HIDE DEF e
    <2> QED
      BY <1>3, <2>2, <2>4, ForgetKeeps DEF e
  <1>6. /\ sndbuf' \in Texts /\ Len(sndbuf') <= SndBuf
        /\ BufferOK(outputBuffer_') /\ isWrite' \in BOOLEAN
        /\ isWrite' <=> ReadableBytes(outputBuffer_') # 0
        /\ OutputIsWhole'
        /\ (state_' = "kConnected" =>
              /\ state_ = "kConnected"
              /\ \A i \in DOMAIN r.calls : r.calls[i] # ShutdownCall)
    BY <1>3, <1>4, PerformKeeps
  <1>7. BuffersOK'
    BY <1>5, <1>6 DEF BuffersOK
  <1>8. IF script'.service = "http"
        THEN ContextOK(context') /\ ~GetAll(context')
        ELSE /\ context' \in {"kUnconnect", "kHandsharked"}
             /\ context' = "kHandsharked" => state_' # "kConnected"
    BY <1>3, <1>4, <1>6
  <1> QED
    BY <1>1, <1>3, <1>6, <1>7, <1>8 DEF ServicesInv, Texts

(* handleWrite() keeps the invariant.                                      *)
LEMMA HandleWriteInv ==
  ASSUME ServicesInv, HandleWrite
  PROVE  ServicesInv'
  <1> DEFINE out == outputBuffer_
             c == Content(out)
  <1>1. /\ sndbuf \in Texts /\ Len(sndbuf) <= SndBuf /\ BufferOK(out)
        /\ received \in Texts /\ (received \o sndbuf) \o c = accepted
    BY DEF ServicesInv, BuffersOK, OutputIsWhole, Texts
  <1>2. /\ c \in Texts /\ Len(c) = ReadableBytes(out) /\ Len(c) \in Nat
        /\ Len(sndbuf) \in Nat
    BY <1>1, ContentType, ArithBuffer DEF Texts
  <1>3. PICK k \in Takes(ReadableBytes(out)) :
          /\ sndbuf' = sndbuf \o First(c, k)
          /\ outputBuffer_' = Forget(Retrieve(out, k))
    BY DEF HandleWrite
  <1>4. k \in 0 .. Len(c) /\ Len(sndbuf) + k <= SndBuf
    BY <1>1, <1>2, TakesRange
  <1>5. /\ First(c, k) \in Texts /\ Len(First(c, k)) = k
        /\ Rest(c, k) \in Texts /\ First(c, k) \o Rest(c, k) = c
    BY <1>2, <1>4, FirstAndRest
  <1>6. /\ BufferOK(outputBuffer_')
        /\ Content(outputBuffer_') = Rest(c, k)
        /\ ReadableBytes(outputBuffer_') \in Nat
    <2>1. /\ BufferOK(Retrieve(out, k))
          /\ Content(Retrieve(out, k)) = Rest(c, k)
      <3>1. /\ BufferOK(Retrieve(out, k))
            /\ Content(Retrieve(out, k)) =
                 SubSeq(Content(out), k + 1, ReadableBytes(out))
        BY <1>1, <1>4, RetrieveDrops
      <3> QED
        BY <1>2, <3>1 DEF Rest
    <2>2. /\ BufferOK(outputBuffer_')
          /\ Content(outputBuffer_') = Rest(c, k)
      BY <1>3, <2>1, ForgetKeeps
    <2> QED
      BY <2>2, ArithBuffer
  <1>7. isWrite' = (ReadableBytes(outputBuffer_') # 0)
    BY DEF HandleWrite
  <1>8. sndbuf' \in Texts /\ Len(sndbuf') <= SndBuf
    BY <1>1, <1>3, <1>4, <1>5, TextsConcat
  <1> HIDE DEF c, out
  <1>9. (received \o (sndbuf \o First(c, k))) \o Rest(c, k)
          = (received \o sndbuf) \o c
    <2>1. received \o (sndbuf \o First(c, k))
            = (received \o sndbuf) \o First(c, k)
      BY <1>1, <1>5, TextsAssociate
    <2>2. received \o sndbuf \in Texts
      BY <1>1, TextsConcat
    <2>3. ((received \o sndbuf) \o First(c, k)) \o Rest(c, k)
            = (received \o sndbuf) \o (First(c, k) \o Rest(c, k))
      BY <1>5, <2>2, TextsAssociate
    <2> QED
      BY <1>5, <2>1, <2>3
  <1>10. /\ script' = script /\ toCome' = toCome /\ received' = received
         /\ inputBuffer_' = inputBuffer_ /\ context' = context
         /\ state_' = state_ /\ accepted' = accepted
    BY DEF HandleWrite
  <1>11. OutputIsWhole'
    BY <1>1, <1>3, <1>6, <1>9, <1>10 DEF OutputIsWhole
  <1>12. BuffersOK'
    BY <1>6, <1>7, <1>8, <1>10 DEF ServicesInv, BuffersOK
  <1> QED
    BY <1>7, <1>8, <1>10, <1>11, <1>12 DEF ServicesInv, Texts

(* The client's reading keeps the invariant.                               *)
LEMMA ClientReadsInv ==
  ASSUME ServicesInv, ClientReads
  PROVE  ServicesInv'
  <1>1. /\ sndbuf \in Texts /\ received \in Texts
        /\ received' = received \o sndbuf /\ sndbuf' = <<>>
    BY DEF ServicesInv, ClientReads, Texts
  <1>2. received' \in Texts /\ sndbuf' \in Texts /\ Len(sndbuf') = 0
    BY <1>1 DEF Texts
  <1>3. received' \o sndbuf' = received \o sndbuf
    BY <1>1, <1>2, ConcatEmptySeq DEF Texts
  <1>4. /\ script' = script /\ toCome' = toCome /\ context' = context
        /\ inputBuffer_' = inputBuffer_ /\ outputBuffer_' = outputBuffer_
        /\ isWrite' = isWrite /\ state_' = state_ /\ accepted' = accepted
    BY DEF ClientReads
  <1>5. OutputIsWhole'
    BY <1>3, <1>4 DEF ServicesInv, OutputIsWhole
  <1>6. BuffersOK'
    BY <1>2, <1>4, SndBufAssumption DEF ServicesInv, BuffersOK
  <1> QED
    BY <1>2, <1>4, <1>5, <1>6 DEF ServicesInv, Texts

(* The inductive invariant of a connection with its service, for any       *)
(* stream and any cut of it, whatever the parser makes of it: buffers,     *)
(* context, and the output as a whole.                                     *)
THEOREM ServicesInvariant == Spec => []ServicesInv
  <1>1. ServicesInv /\ [Next]_vars => ServicesInv'
    <2> SUFFICES ASSUME ServicesInv, [Next]_vars PROVE ServicesInv'
      OBVIOUS
    <2>1. ASSUME NEW n \in DOMAIN toCome, HandleRead(n) PROVE ServicesInv'
      BY <2>1, HandleReadInv
    <2>2. CASE HandleWrite
      BY <2>2, HandleWriteInv
    <2>3. CASE ClientReads
      BY <2>3, ClientReadsInv
    <2>4. CASE UNCHANGED vars
      BY <2>4 DEF vars, ServicesInv, BuffersOK, OutputIsWhole
    <2> QED
      BY <2>1, <2>2, <2>3, <2>4 DEF Next
  <1> QED
    BY InitInv, <1>1, PTL DEF Spec

(* Received, under way and buffered bytes together are what was accepted,  *)
(* through growth, moves and short writes of the output buffer.            *)
THEOREM OutputStaysWhole == Spec => []OutputIsWhole
  <1>1. ServicesInv => OutputIsWhole
    BY DEF ServicesInv
  <1> QED
    BY <1>1, ServicesInvariant, PTL

-----------------------------------------------------------------------------
(***************************************************************************)
(* Responses without a length.                                             *)
(***************************************************************************)

(* The last response in s has its length; b is one response at most; two   *)
(* responses in s have the length of the first one between them.           *)
Ended(s) == \A i \in DOMAIN s : s[i] \in StatusLines =>
              \E k \in i .. Len(s) : s[k][1] = "Content-Length"
Response(b) == \A i \in DOMAIN b : b[i] \in StatusLines => i = 1
Quiet(b) == \A i \in DOMAIN b : b[i] \notin StatusLines
Spaced(s) == \A i, j \in DOMAIN s :
               s[i] \in StatusLines /\ s[j] \in StatusLines /\ i < j
                 => \E k \in i .. j : s[k][1] = "Content-Length"

(* The inductive invariant behind OnlyTheLastLacksLength.                  *)
LengthInv == Spaced(accepted) /\ (state_ = "kConnected" => Ended(accepted))

(* The elements of two sequences put together.                             *)
LEMMA ElementsOfConcat ==
  ASSUME NEW s \in Texts, NEW t \in Texts
  PROVE  /\ s \o t \in Texts /\ Len(s) \in Nat /\ Len(t) \in Nat
         /\ Len(s \o t) = Len(s) + Len(t)
         /\ DOMAIN s = 1 .. Len(s) /\ DOMAIN t = 1 .. Len(t)
         /\ DOMAIN (s \o t) = 1 .. Len(s) + Len(t)
         /\ \A i \in 1 .. Len(s) : (s \o t)[i] = s[i]
         /\ \A i \in Len(s) + 1 .. Len(s) + Len(t) :
              i - Len(s) \in 1 .. Len(t) /\ (s \o t)[i] = t[i - Len(s)]
  <1>1. /\ Len(s) \in Nat /\ Len(t) \in Nat
        /\ DOMAIN s = 1 .. Len(s) /\ DOMAIN t = 1 .. Len(t)
    BY DEF Texts
  <1>2. /\ s \o t \in Seq(Byte) /\ Len(s \o t) = Len(s) + Len(t)
        /\ \A i \in 1 .. Len(s) + Len(t) :
             (s \o t)[i] = IF i <= Len(s) THEN s[i] ELSE t[i - Len(s)]
    BY ConcatProperties DEF Texts
  <1> DEFINE c == s \o t
  <1>3. DOMAIN c = 1 .. Len(c)
    <2>1. c \in Seq(Byte)
      BY <1>2
    <2> HIDE DEF c
    <2> QED
      BY <2>1
  <1>4. \A i \in 1 .. Len(s) : i \in 1 .. Len(s) + Len(t) /\ i <= Len(s)
    BY <1>1
  <1>5. \A i \in Len(s) + 1 .. Len(s) + Len(t) :
          /\ i \in 1 .. Len(s) + Len(t) /\ ~(i <= Len(s))
          /\ i - Len(s) \in 1 .. Len(t)
    BY <1>1
  <1> QED
    BY <1>1, <1>2, <1>3, <1>4, <1>5 DEF Texts

(* A response that is followed by something else.                          *)
LEMMA QuietFollows ==
  ASSUME NEW s \in Texts, NEW t \in Texts, Quiet(t)
  PROVE  /\ Response(s) => Response(s \o t)
         /\ Ended(s) => Ended(s \o t)
  <1> DEFINE m == Len(s)
             n == Len(t)
             c == s \o t
  <1>1. /\ m \in Nat /\ n \in Nat /\ Len(c) = m + n
        /\ DOMAIN s = 1 .. m /\ DOMAIN t = 1 .. n /\ DOMAIN c = 1 .. m + n
        /\ \A i \in 1 .. m : c[i] = s[i]
        /\ \A i \in m + 1 .. m + n : i - m \in 1 .. n /\ c[i] = t[i - m]
    BY ElementsOfConcat
  <1> HIDE DEF m, n, c
  <1>2. ASSUME NEW i \in DOMAIN c, c[i] \in StatusLines
        PROVE  i \in 1 .. m /\ s[i] \in StatusLines
    <2>1. i \in 1 .. m \/ i \in m + 1 .. m + n
      BY <1>1
    <2>2. ~(i \in m + 1 .. m + n)
      BY <1>1, <1>2 DEF Quiet
    <2> QED
      BY <1>1, <1>2, <2>1, <2>2
  <1>3. Response(s) => Response(c)
    BY <1>1, <1>2 DEF Response
  <1>4. ASSUME Ended(s), NEW i \in DOMAIN c, c[i] \in StatusLines
        PROVE  \E k \in i .. Len(c) : c[k][1] = "Content-Length"
    <2>1. i \in 1 .. m /\ s[i] \in StatusLines
      BY <1>2, <1>4
    <2>2. PICK k \in i .. m : s[k][1] = "Content-Length"
      BY <1>1, <1>4, <2>1 DEF Ended, m
    <2>3. k \in 1 .. m /\ k \in i .. m + n
      BY <1>1, <2>1
    <2> QED
      BY <1>1, <2>2, <2>3
  <1> QED
    BY <1>3, <1>4 DEF Ended, c

(* One more response behind those whose last one has its length.           *)
LEMMA ResponseFollows ==
  ASSUME NEW s \in Texts, NEW b \in Texts, Spaced(s), Ended(s), Response(b)
  PROVE  Spaced(s \o b) /\ (Ended(b) => Ended(s \o b))
  <1> DEFINE m == Len(s)
             n == Len(b)
             c == s \o b
  <1>1. /\ m \in Nat /\ n \in Nat /\ Len(c) = m + n
        /\ DOMAIN s = 1 .. m /\ DOMAIN b = 1 .. n /\ DOMAIN c = 1 .. m + n
        /\ \A i \in 1 .. m : c[i] = s[i]
        /\ \A i \in m + 1 .. m + n : i - m \in 1 .. n /\ c[i] = b[i - m]
    BY ElementsOfConcat
  <1>9. \A i \in 1 .. m : s[i] \in StatusLines =>
          \E k \in i .. m : s[k][1] = "Content-Length"
    BY <1>1 DEF Ended
  <1> HIDE DEF m, n, c
  <1>2. ASSUME NEW i \in 1 .. m, c[i] \in StatusLines, NEW j \in Nat, m <= j
        PROVE  \E k \in i .. j : c[k][1] = "Content-Length"
    <2>1. PICK k \in i .. m : s[k][1] = "Content-Length"
      BY <1>1, <1>2, <1>9
    <2>2. k \in 1 .. m /\ k \in i .. j
      BY <1>1, <1>2
    <2> QED
      BY <1>1, <2>1, <2>2
  <1>3. Spaced(c)
    <2> SUFFICES ASSUME NEW i \in 1 .. m + n, NEW j \in 1 .. m + n,
                        c[i] \in StatusLines, c[j] \in StatusLines, i < j
                 PROVE  \E k \in i .. j : c[k][1] = "Content-Length"
      BY <1>1 DEF Spaced
    <2>1. CASE j \in 1 .. m
      <3>1. /\ i \in 1 .. m /\ s[i] \in StatusLines /\ s[j] \in StatusLines
        BY <1>1, <2>1
      <3>2. PICK k \in i .. j : s[k][1] = "Content-Length"
        BY <1>1, <2>1, <3>1 DEF Spaced
      <3>3. k \in 1 .. m
        BY <1>1, <2>1, <3>1
      <3> QED
        BY <1>1, <3>2, <3>3
    <2>2. CASE i \in 1 .. m /\ j \notin 1 .. m
      <3>1. j \in Nat /\ m <= j
        BY <1>1, <2>2
      <3> QED
        BY <1>2, <2>2, <3>1
    <2>3. CASE i \notin 1 .. m
      <3>1. i \in m + 1 .. m + n /\ j \in m + 1 .. m + n
        BY <1>1, <2>3
      <3>2. i - m = 1 /\ j - m = 1
        BY <1>1, <3>1 DEF Response
      <3> QED
        BY <1>1, <3>2
    <2> QED
      BY <2>1, <2>2, <2>3, <1>1
  <1>4. ASSUME Ended(b)
        PROVE  Ended(c)
    <2> SUFFICES ASSUME NEW i \in 1 .. m + n, c[i] \in StatusLines
                 PROVE  \E k \in i .. m + n : c[k][1] = "Content-Length"
      BY <1>1 DEF Ended
    <2>1. CASE i \in 1 .. m
      <3>1. m + n \in Nat /\ m <= m + n
        BY <1>1
      <3> QED
        BY <1>2, <2>1, <3>1
    <2>2. CASE i \notin 1 .. m
      <3>1. i \in m + 1 .. m + n
        BY <1>1, <2>2
      <3>2. PICK k \in i - m .. n : b[k][1] = "Content-Length"
        BY <1>1, <1>4, <3>1 DEF Ended, n
      <3>3. /\ m + k \in i .. m + n /\ m + k \in m + 1 .. m + n
            /\ (m + k) - m = k
        BY <1>1, <3>1
      <3>4. c[m + k] = b[(m + k) - m]
        BY <1>1, <3>3
      <3>5. c[m + k][1] = "Content-Length"
        BY <3>2, <3>3, <3>4
      <3> QED
        BY <3>3, <3>5
    <2> QED
      BY <2>1, <2>2
  <1> QED
    BY <1>3, <1>4 DEF c

(* The calls of a callback that sends a response at most before the        *)
(* shutdown(), and one with a length if there is none.                     *)
GoodCalls(calls) == /\ Response(Sent(Effective(calls)))
                    /\ Effective(calls) = calls => Ended(Sent(calls))

(* The concatenation of one sequence.                                      *)
LEMMA FlattenOne ==
  ASSUME NEW seqs, Len(seqs) = 1
  PROVE  FlattenSeq(seqs) = seqs[1]
  <1> DEFINE Def(f) == [i \in 1 .. 1 |-> IF i = 1 THEN seqs[i]
                                         ELSE f[i - 1] \o seqs[i]]
             g == [i \in 1 .. 1 |-> seqs[1]]
             h == CHOOSE h : h = Def(h)
  <1>1. g = Def(g)
    OBVIOUS
  <1>2. h = Def(h)
    <2> HIDE DEF g, Def
    <2> QED
      BY <1>1
  <1>3. FlattenSeq(seqs) = h[1]
    BY DEF FlattenSeq
  <1> HIDE DEF h
  <1> QED
    BY <1>2, <1>3

(* No calls, and one call.                                                 *)
LEMMA SentOfOne ==
  /\ Sent(<<>>) = <<>>
  /\ \A d \in Texts : Sent(<<SendCall(d)>>) = d
  <1>1. Sent(<<>>) = <<>>
    <2> DEFINE parts == [i \in DOMAIN <<>> |->
                 IF <<>>[i] = ShutdownCall THEN <<>> ELSE <<>>[i][2]]
    <2>1. Sent(<<>>) = FlattenSeq(parts)
      BY DEF Sent
    <2>2. parts = <<>>
      OBVIOUS
    <2> QED
      BY <2>1, <2>2 DEF FlattenSeq
  <1>2. ASSUME NEW d \in Texts
        PROVE  Sent(<<SendCall(d)>>) = d
    <2> DEFINE calls == <<SendCall(d)>>
               parts == [i \in DOMAIN calls |->
                 IF calls[i] = ShutdownCall THEN <<>> ELSE calls[i][2]]
    <2>1. calls[1] # ShutdownCall /\ calls[1][2] = d
      BY DEF SendCall, ShutdownCall
    <2>2. DOMAIN calls = 1 .. 1
      OBVIOUS
    <2>3. Sent(calls) = FlattenSeq(parts)
      BY DEF Sent
    <2> HIDE DEF calls
    <2>4. Len(parts) = 1 /\ parts[1] = d
      BY <2>1, <2>2
    <2> HIDE DEF parts
    <2> QED
      BY <2>3, <2>4, FlattenOne DEF calls
  <1> QED
    BY <1>1, <1>2

(* What a callback's calls come to: the data that is sent, and whether     *)
(* they shut the connection down.                                          *)
Does(calls, data, close) == /\ calls \in Seq(Calls)
                            /\ Sent(Effective(calls)) = data
                            /\ Effective(calls) = calls <=> ~close

(* A send() with a shutdown() behind it, and whatever follows.             *)
LEMMA ClosingCallsDo ==
  ASSUME NEW calls \in Seq(Calls), Len(calls) >= 2, NEW d \in Texts,
         calls[1] = SendCall(d), calls[2] = ShutdownCall
  PROVE  Does(calls, d, TRUE)
  <1> DEFINE I == {i \in 1 .. Len(calls) : calls[i] = ShutdownCall}
             at == IF I # {} THEN Min(I) ELSE 0
  <1>1. Len(calls) \in Nat /\ DOMAIN calls = 1 .. Len(calls)
    OBVIOUS
  <1>2. Effective(calls) = IF at = 0 THEN calls ELSE SubSeq(calls, 1, at - 1)
    BY DEF Effective, SelectInSeq
  <1>3. calls[1] # ShutdownCall
    BY DEF SendCall, ShutdownCall
  <1>4. 1 \notin I /\ 2 \in I /\ I \in SUBSET Nat
    BY <1>1, <1>3
  <1> HIDE DEF I
  <1>5. Min(I) \in I /\ Min(I) <= 2
    BY <1>4, MinOfNaturals
  <1>6. at = 2
    <2>1. Min(I) \in Nat /\ Min(I) # 1 /\ Min(I) # 0
      BY <1>4, <1>5 DEF I
    <2> QED
      BY <1>4, <1>5, <2>1
  <1> HIDE DEF at
  <1>7. Effective(calls) = SubSeq(calls, 1, 1)
    BY <1>2, <1>6
  <1>8. SubSeq(calls, 1, 1) = <<SendCall(d)>>
    <2> DEFINE one == <<SendCall(d)>>
               sub == SubSeq(calls, 1, 1)
    <2>1. one \in Seq(Calls) /\ Len(one) = 1 /\ one[1] = SendCall(d)
      BY DEF Calls
    <2>2. sub \in Seq(Calls) /\ Len(sub) = 1 /\ sub[1] = calls[1]
      BY <1>1
    <2> HIDE DEF one, sub
    <2>3. sub = one
      BY <2>1, <2>2, SeqEqual
    <2> QED
      BY <2>3 DEF one, sub
  <1>9. Effective(calls) # calls
    BY <1>1, <1>7, <1>8
  <1> QED
    BY <1>7, <1>8, <1>9, SentOfOne DEF Does

(* So it is a response at most that is sent.                               *)
LEMMA ClosingCalls ==
  ASSUME NEW calls \in Seq(Calls), Len(calls) >= 2, NEW d \in Texts,
         calls[1] = SendCall(d), calls[2] = ShutdownCall, Response(d)
  PROVE  GoodCalls(calls)
  <1>1. Does(calls, d, TRUE)
    BY ClosingCallsDo
  <1> QED
    BY <1>1 DEF Does, GoodCalls

(* No calls, or one send().                                                *)
LEMMA KeepingCallsDo ==
  /\ Does(<<>>, <<>>, FALSE)
  /\ \A d \in Texts : Does(<<SendCall(d)>>, d, FALSE)
  <1>1. ASSUME NEW calls \in Seq(Calls),
               \A i \in 1 .. Len(calls) : calls[i] # ShutdownCall
        PROVE  Effective(calls) = calls
    BY <1>1 DEF Effective, SelectInSeq
  <1>2. Does(<<>>, <<>>, FALSE)
    <2> DEFINE none == <<>>
    <2>1. none \in Seq(Calls) /\ 1 .. Len(none) = {}
      OBVIOUS
    <2> HIDE DEF none
    <2>2. Effective(none) = none
      BY <1>1, <2>1
    <2>3. Sent(none) = <<>>
      BY SentOfOne DEF none
    <2> QED
      BY <2>1, <2>2, <2>3 DEF Does, none
  <1>3. ASSUME NEW d \in Texts
        PROVE  Does(<<SendCall(d)>>, d, FALSE)
    <2> DEFINE one == <<SendCall(d)>>
    <2>1. SendCall(d) # ShutdownCall
      BY DEF SendCall, ShutdownCall
    <2>2. one \in Seq(Calls) /\ \A i \in 1 .. Len(one) : one[i] # ShutdownCall
      BY <2>1 DEF Calls
    <2>3. Sent(one) = d
      BY SentOfOne
    <2> HIDE DEF one
    <2>4. Effective(one) = one
      BY <1>1, <2>2
    <2>5. Does(one, d, FALSE)
      BY <2>2, <2>3, <2>4 DEF Does
    <2> QED
      BY <2>5 DEF one
  <1> QED
    BY <1>2, <1>3

(* The one is a response with its length.                                  *)
LEMMA KeepingCalls ==
  /\ GoodCalls(<<>>)
  /\ \A d \in Texts : Response(d) /\ Ended(d) => GoodCalls(<<SendCall(d)>>)
  <1>1. ASSUME NEW calls, NEW d, Does(calls, d, FALSE), Response(d), Ended(d)
        PROVE  GoodCalls(calls)
    BY <1>1 DEF Does, GoodCalls
  <1>2. Response(<<>>) /\ Ended(<<>>)
    BY DEF Response, Ended
  <1> QED
    BY <1>1, <1>2, KeepingCallsDo

(* What HttpResponse::appendToBuffer() makes.                              *)
LEMMA AnswerContent ==
  ASSUME NEW code \in {"200", "404"}, NEW close \in BOOLEAN,
         NEW body \in Texts,
         close \/ <<"Content-Length", Len(body)>> \in Byte
  PROVE  LET line == <<Text(code)>>
             flds == Fields(close, body)
             blank == <<Text("blank")>>
         IN /\ line \in Texts /\ flds \in Texts /\ blank \in Texts
            /\ Content(AppendToBuffer(code, close, body)) =
                 ((line \o flds) \o blank) \o body
            /\ ((line \o flds) \o blank) \o body \in Texts
  <1> DEFINE line == <<Text(code)>>
             flds == Fields(close, body)
             blank == <<Text("blank")>>
             status == AppendData(NewBuffer, line)
             fields == AppendData(status, flds)
             head == AppendData(fields, blank)
             all == AppendData(head, body)
  <1>1. line \in Texts /\ flds \in Texts /\ blank \in Texts
    BY AnswerAssumption DEF Fields, Texts
  <1>2. AppendToBuffer(code, close, body) = all
    BY DEF AppendToBuffer
  <1> HIDE DEF line, flds, blank
  <1>3. BufferOK(status) /\ Content(status) = line
    <2>1. BufferOK(status) /\ Content(status) = <<>> \o line
      BY <1>1, NewBufferEmpty, AppendAdds DEF Texts
    <2> QED
      BY <1>1, <2>1, ConcatEmptySeq DEF Texts
  <1> HIDE DEF status
  <1>4. BufferOK(fields) /\ Content(fields) = line \o flds
    BY <1>1, <1>3, AppendAdds DEF Texts
  <1> HIDE DEF fields
  <1>5. BufferOK(head) /\ Content(head) = (line \o flds) \o blank
    BY <1>1, <1>4, AppendAdds DEF Texts
  <1> HIDE DEF head
  <1>6. BufferOK(all) /\ Content(all) = ((line \o flds) \o blank) \o body
    BY <1>1, <1>5, AppendAdds DEF Texts
  <1> HIDE DEF all
  <1>7. Content(all) \in Texts
    BY <1>6, ContentType DEF Texts
  <1> QED
    BY <1>1, <1>2, <1>6, <1>7 DEF line, flds, blank

(* HttpResponse::appendToBuffer() makes one response, with its length      *)
(* unless it closes.                                                       *)
LEMMA AnswerData ==
  ASSUME NEW code \in {"200", "404"}, NEW close \in BOOLEAN,
         NEW body \in Texts, Quiet(body),
         close \/ <<"Content-Length", Len(body)>> \in Byte
  PROVE  /\ Content(AppendToBuffer(code, close, body)) \in Texts
         /\ Response(Content(AppendToBuffer(code, close, body)))
         /\ ~close => Ended(Content(AppendToBuffer(code, close, body)))
  <1> DEFINE line == <<Text(code)>>
             flds == Fields(close, body)
             blank == <<Text("blank")>>
             answer == AppendToBuffer(code, close, body)
  <1>1. /\ line \in Texts /\ flds \in Texts /\ blank \in Texts
        /\ Content(answer) = ((line \o flds) \o blank) \o body
    BY AnswerContent
  <1>2. Response(line)
    BY DEF Response
  <1>3. Quiet(blank) /\ Quiet(flds)
    <2>1. \A t \in {Text("blank"), Text("close"), Text("Keep-Alive"),
                    <<"Content-Length", Len(body)>>} : t \notin StatusLines
      BY DEF StatusLines, Text
    <2> QED
      BY <2>1 DEF Quiet, Fields
  <1>4. ~close => Ended(line \o flds)
    <2> SUFFICES ASSUME ~close
                 PROVE  Ended(line \o flds)
      OBVIOUS
    <2> DEFINE two == line \o flds
    <2>1. /\ Len(line) = 1 /\ Len(flds) = 2
          /\ flds[2] = <<"Content-Length", Len(body)>>
      BY DEF Fields
    <2> HIDE DEF line, flds
    <2>2. /\ two \in Texts /\ DOMAIN two = 1 .. 3 /\ Len(two) = 3
          /\ two[3] = flds[2]
      <3>1. /\ two \in Texts /\ Len(two) = Len(line) + Len(flds)
            /\ DOMAIN two = 1 .. Len(line) + Len(flds)
            /\ \A i \in Len(line) + 1 .. Len(line) + Len(flds) :
                 two[i] = flds[i - Len(line)]
        BY <1>1, ElementsOfConcat
      <3>2. 3 \in Len(line) + 1 .. Len(line) + Len(flds)
        BY <2>1
      <3> HIDE DEF two
      <3> QED
        BY <2>1, <3>1, <3>2
    <2>3. two[3][1] = "Content-Length"
      BY <2>1, <2>2
    <2> HIDE DEF two
    <2>4. \A i \in 1 .. 3 : 3 \in i .. 3
      OBVIOUS
    <2>5. Ended(two)
      BY <2>2, <2>3, <2>4 DEF Ended
    <2> QED
      BY <2>5 DEF two
  <1> HIDE DEF line, flds, blank, answer
  <1> DEFINE one == line \o flds
             two == one \o blank
  <1>5. one \in Texts /\ Response(one)
    BY <1>1, <1>2, <1>3, TextsConcat, QuietFollows
  <1>6. Content(answer) = two \o body
    BY <1>1
  <1>7. ~close => Ended(one)
    BY <1>4
  <1> HIDE DEF one
  <1>8. two \in Texts /\ Response(two) /\ (~close => Ended(two))
    BY <1>1, <1>3, <1>5, <1>7, TextsConcat, QuietFollows
  <1> HIDE DEF two
  <1> QED
    BY <1>6, <1>8, TextsConcat, QuietFollows DEF answer

(* So do the calls that answer any request whatever.                       *)
LEMMA OnRequestGood ==
  ASSUME NEW c
  PROVE  GoodCalls(OnRequest(c))
  <1>1. ASSUME NEW code \in {"200", "404"}, NEW close \in BOOLEAN,
               NEW body \in Texts, Quiet(body),
               close \/ <<"Content-Length", Len(body)>> \in Byte
        PROVE  GoodCalls(Answer(code, close, body))
    <2> DEFINE d == Content(AppendToBuffer(code, close, body))
               calls == Answer(code, close, body)
    <2>1. d \in Texts /\ Response(d) /\ (~close => Ended(d))
      BY <1>1, AnswerData
    <2>2. calls = <<SendCall(d)>>
                    \o IF close THEN <<ShutdownCall>> ELSE <<>>
      BY DEF Answer
    <2>3. calls \in Seq(Calls)
      BY <1>1, AnswerCalls
    <2> HIDE DEF d
    <2>4. CASE close
      <3>1. /\ Len(calls) = 2 /\ calls[1] = SendCall(d)
            /\ calls[2] = ShutdownCall
        BY <2>2, <2>4
      <3> HIDE DEF calls
      <3>2. GoodCalls(calls)
        BY <2>1, <2>3, <3>1, ClosingCalls
      <3> QED
        BY <3>2 DEF calls
    <2>5. CASE ~close
      <3>1. calls = <<SendCall(d)>>
        BY <2>2, <2>5
      <3> HIDE DEF calls
      <3>2. GoodCalls(<<SendCall(d)>>)
        BY <2>1, <2>5, KeepingCalls
      <3>3. GoodCalls(calls)
        BY <3>1, <3>2
      <3> QED
        BY <3>3 DEF calls
    <2> QED
      BY <2>4, <2>5
  <1>2. PICK close \in BOOLEAN : OnRequest(c) = HttpCallback(c.path, close)
    BY DEF OnRequest
  <1>3. CASE c.path \in Pages
    <2>1. /\ c.path \in Seq(Byte \ StatusLines)
          /\ <<"Content-Length", Len(c.path)>> \in Byte
          /\ HttpCallback(c.path, close) = Answer("200", close, c.path)
      BY <1>3, PagesAssumption DEF HttpCallback
    <2>2. c.path \in Texts /\ Quiet(c.path)
      BY <2>1 DEF Texts, Quiet
    <2> QED
      BY <1>1, <1>2, <2>1, <2>2
  <1>4. CASE c.path \notin Pages
    <2>1. /\ <<>> \in Texts /\ Quiet(<<>>)
          /\ HttpCallback(c.path, close) = Answer("404", TRUE, <<>>)
      BY <1>4 DEF HttpCallback, Texts, Quiet
    <2> QED
      BY <1>1, <1>2, <2>1
  <1> QED
    BY <1>3, <1>4

(* The calls that refuse a request, whatever follows them.                 *)
LEMMA RefuseDoes ==
  ASSUME NEW more \in Seq(Calls)
  PROVE  Does(Refuse \o more, BadRequest, TRUE)
  <1>1. BadRequest \in Texts
    BY AnswerAssumption DEF BadRequest, Texts
  <1>2. /\ Refuse \in Seq(Calls) /\ Len(Refuse) = 2
        /\ Refuse[1] = SendCall(BadRequest) /\ Refuse[2] = ShutdownCall
    BY RefuseCalls DEF Refuse
  <1> DEFINE refusal == Refuse
             calls == refusal \o more
  <1> HIDE DEF refusal
  <1>3. /\ calls \in Seq(Calls) /\ Len(calls) = Len(refusal) + Len(more)
        /\ \A i \in 1 .. Len(refusal) + Len(more) :
             calls[i] = IF i <= Len(refusal) THEN refusal[i]
                        ELSE more[i - Len(refusal)]
    BY <1>2, ConcatProperties DEF refusal
  <1>4. Len(more) \in Nat /\ Len(refusal) = 2
    BY <1>2 DEF refusal
  <1> HIDE DEF calls
  <1>5. Len(calls) >= 2 /\ calls[1] = refusal[1] /\ calls[2] = refusal[2]
    BY <1>3, <1>4
  <1>6. Does(calls, BadRequest, TRUE)
    BY <1>1, <1>2, <1>3, <1>5, ClosingCallsDo DEF refusal
  <1> QED
    BY <1>6 DEF calls, refusal

(* Which is a response and closes.                                         *)
LEMMA RefuseGood ==
  ASSUME NEW more \in Seq(Calls)
  PROVE  GoodCalls(Refuse \o more)
  <1>1. Response(BadRequest)
    BY DEF BadRequest, Response, StatusLines, Text
  <1>2. Does(Refuse \o more, BadRequest, TRUE)
    BY RefuseDoes
  <1> QED
    BY <1>1, <1>2 DEF Does, GoodCalls

(* HttpServer::onMessage(), and the other one before the handshake.        *)
LEMMA MessagesGood ==
  ASSUME NEW buf, BufferOK(buf)
  PROVE  /\ \A c : ContextOK(c) => GoodCalls(HttpOnMessage(c, buf).calls)
         /\ GoodCalls(WebSocketOnMessage("kUnconnect", buf).calls)
  <1>1. ASSUME NEW answer \in Seq(Calls), GoodCalls(answer), NEW ok
        PROVE  GoodCalls((IF ok THEN <<>> ELSE Refuse) \o answer)
    <2>1. CASE ok
      BY <1>1, <2>1, ConcatEmptySeq
    <2>2. CASE ~ok
      BY <1>1, <2>2, RefuseGood
    <2> QED
      BY <2>1, <2>2
  <1>2. ASSUME NEW c
        PROVE  GoodCalls(HttpOnMessage(c, buf).calls)
    <2> DEFINE p == ParseBuffer(c, buf)
               answer == IF GetAll(p.context) THEN OnRequest(p.context)
                         ELSE <<>>
    <2>1. HttpOnMessage(c, buf).calls
            = (IF p.ok THEN <<>> ELSE Refuse) \o answer
      BY DEF HttpOnMessage, HttpParsed
    <2> HIDE DEF p
    <2>2. answer \in Seq(Calls) /\ GoodCalls(answer)
      BY OnRequestCalls, OnRequestGood, KeepingCalls
    <2> HIDE DEF answer
    <2> QED
      BY <1>1, <2>1, <2>2
  <1>3. GoodCalls(WebSocketOnMessage("kUnconnect", buf).calls)
    <2> DEFINE p == ParseBuffer(NewHttpContext, buf)
               key == GetHeader(p.context, Text("Sec-WebSocket-Key"))
               reply == <<SendCall(HandleShared(key))>>
    <2>1. p \in ParseStates
      BY ParseKeepsTypes, NewContextOK
    <2>2. ContextOK(p.context)
      BY <2>1, ContextsAreOK DEF ParseStates
    <2>3. WebSocketOnMessage("kUnconnect", buf) = HandshakeParsed(p)
      BY DEF WebSocketOnMessage
    <2> HIDE DEF p
    <2>4. CASE GetAll(p.context)
      <3>1. HandshakeParsed(p).calls = Refuse \o reply
        BY <2>2, <2>4, NoUpgrade DEF HandshakeParsed
      <3>2. reply \in Seq(Calls)
        <4>1. <<Text("101")>> \o key \in Seq(Byte)
          BY <2>2, NoUpgrade, HandshakeAssumption DEF Texts
        <4>2. HandleShared(key) \in Texts
          BY <4>1, NewBufferEmpty, AppendAdds, ContentType
             DEF HandleShared, Texts
        <4> QED
          BY <4>2 DEF Calls
      <3> HIDE DEF reply
      <3> QED
        BY <2>3, <3>1, <3>2, RefuseGood
    <2>5. CASE ~GetAll(p.context)
      <3>1. HandshakeParsed(p).calls = IF p.ok THEN <<>> ELSE Refuse
        BY <2>5 DEF HandshakeParsed
      <3>2. GoodCalls(Refuse)
        <4> DEFINE none == <<>>
        <4>1. none \in Seq(Calls) /\ Refuse \o none = Refuse
          BY RefuseCalls, ConcatEmptySeq
        <4> HIDE DEF none
        <4> QED
          BY <4>1, RefuseGood
      <3> QED
        BY <2>3, <3>1, <3>2, KeepingCalls
    <2> QED
      BY <2>4, <2>5
  <1> QED
    BY <1>2, <1>3

(* What a step adds to the accepted bytes: nothing, or a response to an    *)
(* open connection.                                                        *)
LEMMA PerformSpaces ==
  ASSUME ServicesInv, LengthInv, NEW calls, Perform(calls),
         state_ = "kConnected" => calls \in Seq(Calls) /\ GoodCalls(calls)
  PROVE  LengthInv'
  <1>1. CASE state_ # "kConnected"
    BY <1>1 DEF Perform, LengthInv
  <1>2. CASE state_ = "kConnected"
    <2> DEFINE b == Sent(Effective(calls))
    <2>1. b \in Texts /\ accepted' = accepted \o b
      BY <1>2, EffectiveType, SentType DEF Perform, SendInLoop
    <2>2. accepted \in Texts
      <3> DEFINE c == Content(outputBuffer_)
                 flow == received \o sndbuf
      <3>1. /\ received \in Texts /\ sndbuf \in Texts /\ c \in Texts
            /\ flow \o c = accepted
        BY ContentType DEF ServicesInv, BuffersOK, OutputIsWhole, Texts
      <3> HIDE DEF c
      <3>2. flow \in Texts
        BY <3>1, TextsConcat
      <3> HIDE DEF flow
      <3> QED
        BY <3>1, <3>2, TextsConcat
    <2>3. Response(b) /\ (Effective(calls) = calls => Ended(b))
      BY <1>2 DEF GoodCalls
    <2> HIDE DEF b
    <2>4. Spaced(accepted') /\ (Ended(b) => Ended(accepted'))
      BY <1>2, <2>1, <2>2, <2>3, ResponseFollows DEF LengthInv
    <2>5. state_' = "kConnected" => Effective(calls) = calls
      BY <1>2 DEF Perform
    <2> QED
      BY <2>3, <2>4, <2>5 DEF LengthInv
  <1> QED
    BY <1>1, <1>2

(* handleRead() keeps the responses apart.                                 *)
LEMMA HandleReadSpaces ==
  ASSUME ServicesInv, LengthInv, NEW n \in DOMAIN toCome, HandleRead(n)
  PROVE  LengthInv'
  <1> DEFINE buf == ReadFd(inputBuffer_, First(toCome, n))
             r == OnMessage(buf)
  <1>1. First(toCome, n) \in Texts
    <2>1. toCome \in Texts /\ DOMAIN toCome = 1 .. Len(toCome)
      BY DEF ServicesInv, Texts
    <2>2. n \in 0 .. Len(toCome)
      BY <2>1 DEF Texts
    <2> QED
      BY <2>1, <2>2, FirstAndRest
  <1>2. BufferOK(buf)
    BY <1>1, ReadFdAdds DEF ServicesInv, BuffersOK, Texts
  <1>3. Perform(r.calls)
    BY DEF HandleRead
  <1> HIDE DEF buf
  <1>4. state_ = "kConnected" => r.calls \in Seq(Calls) /\ GoodCalls(r.calls)
    <2>1. CASE script.service = "http"
      <3>1. r = HttpOnMessage(context, buf) /\ ContextOK(context)
        BY <2>1 DEF OnMessage, ServicesInv
      <3> HIDE DEF r
      <3> QED
        BY <1>2, <3>1, HttpMessage, MessagesGood
    <2>2. CASE script.service # "http" /\ context = "kUnconnect"
      <3>1. r = WebSocketOnMessage("kUnconnect", buf)
        BY <2>2 DEF OnMessage
      <3> HIDE DEF r
      <3> QED
        BY <1>2, <3>1, HandshakeMessage, MessagesGood
    <2>3. CASE script.service # "http" /\ context = "kHandsharked"
      BY <2>3 DEF ServicesInv
    <2> QED
      BY <2>1, <2>2, <2>3 DEF ServicesInv
  <1> HIDE DEF r
  <1> QED
    BY <1>3, <1>4, PerformSpaces

(* However the stream was cut, a response without a length is the last     *)
(* thing that is sent: who sends one has shut down, and send() takes       *)
(* nothing behind that.                                                    *)
THEOREM LackOfLengthEnds == Spec => []OnlyTheLastLacksLength
  <1>1. Init => LengthInv
    <2> SUFFICES ASSUME Init
                 PROVE  LengthInv
      OBVIOUS
    <2>1. accepted = <<>> /\ DOMAIN accepted = {}
      BY DEF Init
    <2> QED
      BY <2>1 DEF LengthInv, Spaced, Ended
  <1>2. ServicesInv /\ LengthInv /\ [Next]_vars => LengthInv'
    <2> SUFFICES ASSUME ServicesInv, LengthInv, [Next]_vars PROVE LengthInv'
      OBVIOUS
    <2>1. ASSUME NEW n \in DOMAIN toCome, HandleRead(n) PROVE LengthInv'
      BY <2>1, HandleReadSpaces
    <2>2. CASE HandleWrite
      BY <2>2 DEF HandleWrite, LengthInv
    <2>3. CASE ClientReads
      BY <2>3 DEF ClientReads, LengthInv
    <2>4. CASE UNCHANGED vars
      BY <2>4 DEF vars, LengthInv
    <2> QED
      BY <2>1, <2>2, <2>3, <2>4 DEF Next
  <1>3. LengthInv => OnlyTheLastLacksLength
    BY DEF LengthInv, Spaced, OnlyTheLastLacksLength
  <1> QED
    BY ServicesInvariant, <1>1, <1>2, <1>3, PTL DEF Spec

-----------------------------------------------------------------------------
(***************************************************************************)
(* The frame codec.                                                        *)
(***************************************************************************)
LEMMA AppendBytesAdds ==
  ASSUME NEW b, BufferOK(b), NEW bytes \in Texts, NEW len \in Nat,
         bytes # <<>> => len > 0
  PROVE  /\ BufferOK(AppendBytes(b, bytes, len))
         /\ Content(AppendBytes(b, bytes, len)) = Content(b) \o bytes
  <1> DEFINE n == Len(bytes)
             D == {x \in BufferRecord : BufferOK(x)}
             Def(f) == [i \in 0 .. n |->
                          IF i = 0 THEN b
                          ELSE AppendByte(f[i - 1], bytes[i], len)]
             step == [x \in Nat \X D |->
                        IF x[1] + 1 \in 1 .. n
                        THEN AppendByte(x[2], bytes[x[1] + 1], len) ELSE x[2]]
  <1>1. n \in Nat /\ \A i \in 1 .. n : bytes[i] \in Byte /\ len > 0
    BY EmptySeq DEF Texts
  <1>2. \A x \in D, i \in 1 .. n :
          /\ AppendByte(x, bytes[i], len) \in D
          /\ Content(AppendByte(x, bytes[i], len)) =
               Append(Content(x), bytes[i])
    <2> SUFFICES ASSUME NEW x \in D, NEW i \in 1 .. n
                 PROVE  /\ AppendByte(x, bytes[i], len) \in D
                        /\ Content(AppendByte(x, bytes[i], len)) =
                             Append(Content(x), bytes[i])
      OBVIOUS
    <2>1. /\ BufferOK(AppendByte(x, bytes[i], len))
          /\ Content(AppendByte(x, bytes[i], len)) =
               Append(Content(x), bytes[i])
      BY <1>1, AppendByteAdds
    <2> QED
      BY <2>1 DEF BufferOK
  <1>3. b \in D
    BY DEF BufferOK
  <1> HIDE DEF D, n
  <1>4. step \in [Nat \X D -> D]
    BY <1>2
  <1> HIDE DEF step
  <1>5. PICK f : Iterates(f, D, b, step)
    BY <1>3, <1>4, Iteration
  <1> DEFINE g == [i \in 0 .. n |-> f[i]]
  <1>6. \A i \in 1 .. n : f[i] = AppendByte(f[i - 1], bytes[i], len)
    <2> SUFFICES ASSUME NEW i \in 1 .. n
                 PROVE  f[i] = AppendByte(f[i - 1], bytes[i], len)
      OBVIOUS
    <2>1. i - 1 \in Nat /\ (i - 1) + 1 = i
      BY <1>1
    <2>2. f[i] = step[<<i - 1, f[i - 1]>>] /\ f[i - 1] \in D
      BY <1>5, <2>1 DEF Iterates
    <2> QED
      BY <2>1, <2>2 DEF step
  <1>7. g = Def(g)
    <2>1. g[0] = b
      BY <1>1, <1>5 DEF Iterates
    <2>2. \A i \in 1 .. n : g[i] = AppendByte(g[i - 1], bytes[i], len)
      BY <1>1, <1>6
    <2>3. g = [i \in 0 .. n |-> g[i]]
      OBVIOUS
    <2> HIDE DEF g
    <2>4. Def(g) = [i \in 0 .. n |-> g[i]]
      BY <1>1, <2>1, <2>2
    <2> QED
      BY <2>3, <2>4
  <1> DEFINE appended == CHOOSE h : h = Def(h)
  <1>8. appended = Def(appended)
    <2> HIDE DEF Def, g
    <2> QED
      BY <1>7
  <1>9. AppendBytes(b, bytes, len) = appended[n]
    BY DEF AppendBytes, n
  <1> HIDE DEF appended
  <1>10. /\ appended[0] = b
         /\ \A i \in 1 .. n :
              appended[i] = AppendByte(appended[i - 1], bytes[i], len)
    BY <1>1, <1>8
  <1> DEFINE T == {k \in Nat : k <= n =>
                     /\ appended[k] \in D
                     /\ Content(appended[k]) =
                          Content(b) \o SubSeq(bytes, 1, k)}
             c == Content(b)
  <1>11. c \in Texts
    BY ContentType DEF Texts
  <1>12. 0 \in T
    <2>1. SubSeq(bytes, 1, 0) = <<>> /\ c \o <<>> = c
      BY <1>11, SubSeqEmpty, ConcatEmptySeq DEF Texts
    <2> QED
      BY <1>3, <1>10, <2>1
  <1>13. ASSUME NEW k \in Nat, k \in T
         PROVE  k + 1 \in T
    <2> SUFFICES ASSUME k + 1 <= n
                 PROVE  /\ appended[k + 1] \in D
                        /\ Content(appended[k + 1]) =
                             c \o SubSeq(bytes, 1, k + 1)
      OBVIOUS
    <2> DEFINE s == SubSeq(bytes, 1, k)
               last == bytes[k + 1]
    <2>1. /\ k + 1 \in 1 .. n /\ (k + 1) - 1 = k /\ k <= n
      BY <1>1
    <2>2. appended[k] \in D /\ Content(appended[k]) = c \o s
      BY <1>13, <2>1
    <2>3. appended[k + 1] = AppendByte(appended[k], last, len)
      BY <1>10, <2>1
    <2>4. /\ appended[k + 1] \in D
          /\ Content(appended[k + 1]) = Append(c \o s, last)
      BY <1>2, <2>1, <2>2, <2>3
    <2>5. s \in Texts /\ last \in Byte
      BY <1>1, <2>1, SubSeqType DEF Texts, n
    <2>6. SubSeq(bytes, 1, k + 1) = s \o <<last>>
      <3>1. /\ bytes \in Seq(Byte)
            /\ 1 \in 1 .. Len(bytes) /\ k + 1 \in 1 .. Len(bytes)
        BY <1>1, <2>1 DEF Texts, n
      <3> QED
        BY <2>1, <3>1, SubSeqRecursiveSecond
    <2> HIDE DEF s, last, c
    <2>7. Append(c \o s, last) = c \o (s \o <<last>>)
      <3>1. <<last>> \in Texts
        BY <2>5 DEF Texts
      <3>2. c \o s \in Texts
        BY <1>11, <2>5, TextsConcat
      <3>3. Append(c \o s, last) = (c \o s) \o <<last>>
        BY <2>5, <3>2, AppendIsConcat DEF Texts
      <3> QED
        BY <1>11, <2>5, <3>1, <3>3, TextsAssociate
    <2> QED
      BY <2>4, <2>6, <2>7
  <1>14. n \in T
    <2> HIDE DEF T
    <2> QED
      BY <1>1, <1>12, <1>13, SetInduction
  <1>15. SubSeq(bytes, 1, n) = bytes
    BY SubSeqFull DEF Texts, n
  <1> QED
    BY <1>1, <1>9, <1>14, <1>15 DEF D

(* The payload of a frame, without its mask.                               *)
Plain(u) == [i \in DOMAIN u.payload |-> Data(u.payload[i], {})]

(* decodeFrame() finds opcode and payload of a frame of any length, masked *)
(* or not.                                                                 *)
THEOREM DecodeReturnsPayload ==
  ASSUME NEW u, u.mask \in {0, 1}, NEW V, u.payload \in Seq(V),
         Plain(u) \in Texts
  PROVE  LET d == DecodeFrame(Frame(u), NewBuffer)
         IN d.opcode_ = u.opcode /\ BufferOK(d.output)
              /\ Content(d.output) = Plain(u)
  <1> DEFINE n == Len(u.payload)
             A == <<Fin(1, u.opcode)>>
             L == IF n < Short THEN <<Length(u.mask, n)>>
                  ELSE <<Length(u.mask, Short), Extended(n)>>
             K == IF u.mask = 1 THEN [i \in 1 .. 4 |-> Key(i)] ELSE <<>>
             masks(i) == IF u.mask = 1 THEN {((i - 1) % 4) + 1} ELSE {}
             P == [i \in DOMAIN u.payload |-> Data(u.payload[i], masks(i))]
             S == {Fin(1, u.opcode), Length(u.mask, n), Length(u.mask, Short),
                   Extended(n)} \union {Key(i) : i \in 1 .. 4}
                    \union {P[i] : i \in DOMAIN u.payload}
             pos == IF n < Short THEN 2 ELSE 3
             keys == IF u.mask = 1 THEN 4 ELSE 0
             msg == Frame(u)
  <1>1. n \in Nat /\ DOMAIN u.payload = 1 .. n
    OBVIOUS
  <1>2. /\ A \in Seq(S) /\ Len(A) = 1 /\ L \in Seq(S) /\ Len(L) = pos - 1
        /\ K \in Seq(S) /\ Len(K) = keys /\ P \in Seq(S) /\ Len(P) = n
    <2>1. A \in Seq(S) /\ Len(A) = 1
      OBVIOUS
    <2>2. L \in Seq(S) /\ Len(L) = pos - 1
      <3>1. CASE n < Short
        BY <3>1
      <3>2. CASE ~(n < Short)
        BY <3>2
      <3> QED
        BY <3>1, <3>2
    <2>3. K \in Seq(S) /\ Len(K) = keys
      <3>1. CASE u.mask = 1
        <4> DEFINE k4 == [i \in 1 .. 4 |-> Key(i)]
        <4>1. k4 \in Seq(S) /\ Len(k4) = 4
          OBVIOUS
        <4> QED
          BY <3>1, <4>1
      <3>2. CASE u.mask # 1
        BY <3>2
      <3> QED
        BY <3>1, <3>2
    <2>4. P \in Seq(S) /\ Len(P) = n
      <3>1. DOMAIN P = 1 .. n /\ \A i \in 1 .. n : P[i] \in S
        BY <1>1
      <3>2. P = [i \in 1 .. n |-> P[i]]
        BY <1>1
      <3> HIDE DEF P, S, n
      <3>3. [i \in 1 .. n |-> P[i]] \in Seq(S)
        BY <1>1, <3>1
      <3>4. Len([i \in 1 .. n |-> P[i]]) = n
        BY <1>1
      <3> QED
        BY <3>2, <3>3, <3>4
    <2> QED
      BY <2>1, <2>2, <2>3, <2>4
  <1>3. msg = ((A \o L) \o K) \o P
    BY DEF Frame
  <1>4. /\ A[1] = Fin(1, u.opcode)
        /\ pos = 2 => L[1] = Length(u.mask, n)
        /\ pos = 3 => L[1] = Length(u.mask, Short) /\ L[2] = Extended(n)
        /\ u.mask = 1 => \A i \in 1 .. 4 : K[i] = Key(i)
        /\ \A i \in 1 .. n : P[i] = Data(u.payload[i], masks(i))
    OBVIOUS
  <1>5. /\ pos \in {2, 3} /\ (pos = 2 <=> n < Short)
        /\ keys \in {0, 4} /\ (u.mask = 1 => keys = 4)
        /\ (u.mask = 0 => keys = 0)
    OBVIOUS
  <1> HIDE DEF S, msg, n, pos, keys, A, L, K, P
  <1>6. /\ msg \in Seq(S) /\ Len(msg) = pos + keys + n
        /\ msg[1] = A[1] /\ msg[2] = L[1] /\ (pos = 3 => msg[3] = L[2])
        /\ \A i \in 1 .. keys : msg[pos + i] = K[i]
        /\ \A i \in 1 .. n : msg[pos + keys + i] = P[i]
    <2> DEFINE AL == A \o L
               ALK == AL \o K
    <2>1. /\ AL \in Seq(S) /\ Len(AL) = pos
          /\ AL[1] = A[1] /\ \A i \in 1 .. pos - 1 : AL[i + 1] = L[i]
      <3>1. /\ AL \in Seq(S) /\ Len(AL) = Len(A) + Len(L)
            /\ \A i \in 1 .. Len(A) + Len(L) :
                 AL[i] = IF i <= Len(A) THEN A[i] ELSE L[i - Len(A)]
        BY <1>2, ConcatProperties
      <3> HIDE DEF AL
      <3>2. /\ Len(AL) = pos
            /\ \A i \in 1 .. pos : AL[i] = IF i <= 1 THEN A[i] ELSE L[i - 1]
        BY <1>2, <1>5, <3>1
      <3>3. \A i \in 1 .. pos - 1 :
              i + 1 \in 1 .. pos /\ ~(i + 1 <= 1) /\ (i + 1) - 1 = i
        BY <1>5
      <3>4. 1 \in 1 .. pos
        BY <1>5
      <3> QED
        BY <3>1, <3>2, <3>3, <3>4
    <2> HIDE DEF AL
    <2>2. /\ ALK \in Seq(S) /\ Len(ALK) = pos + keys
          /\ \A i \in 1 .. pos : ALK[i] = AL[i]
          /\ \A i \in 1 .. keys : ALK[pos + i] = K[i]
      <3>1. /\ ALK \in Seq(S) /\ Len(ALK) = Len(AL) + Len(K)
            /\ \A i \in 1 .. Len(AL) + Len(K) :
                 ALK[i] = IF i <= Len(AL) THEN AL[i] ELSE K[i - Len(AL)]
        BY <1>2, <2>1, ConcatProperties
      <3> HIDE DEF ALK
      <3>2. /\ Len(ALK) = pos + keys
            /\ \A i \in 1 .. pos + keys :
                 ALK[i] = IF i <= pos THEN AL[i] ELSE K[i - pos]
        BY <1>2, <2>1, <3>1
      <3>3. \A i \in 1 .. pos : i \in 1 .. pos + keys /\ i <= pos
        BY <1>5
      <3>4. \A i \in 1 .. keys : /\ pos + i \in 1 .. pos + keys
                                /\ ~(pos + i <= pos) /\ (pos + i) - pos = i
        BY <1>5
      <3> QED
        BY <3>1, <3>2, <3>3, <3>4
    <2> HIDE DEF ALK
    <2>3. /\ msg \in Seq(S) /\ Len(msg) = pos + keys + n
          /\ \A i \in 1 .. pos + keys : msg[i] = ALK[i]
          /\ \A i \in 1 .. n : msg[pos + keys + i] = P[i]
      <3>1. msg = ALK \o P
        BY <1>3 DEF AL, ALK
      <3>2. /\ msg \in Seq(S) /\ Len(msg) = Len(ALK) + Len(P)
            /\ \A i \in 1 .. Len(ALK) + Len(P) :
                 msg[i] = IF i <= Len(ALK) THEN ALK[i] ELSE P[i - Len(ALK)]
        BY <1>2, <2>2, <3>1, ConcatProperties
      <3>3. \A i \in 1 .. n : /\ pos + keys + i \in 1 .. pos + keys + n
                              /\ ~(pos + keys + i <= pos + keys)
                              /\ (pos + keys + i) - (pos + keys) = i
        BY <1>1, <1>5
      <3>4. \A i \in 1 .. pos + keys : i \in 1 .. pos + keys + n
        BY <1>1, <1>5
      <3> QED
        BY <1>1, <1>2, <1>5, <2>2, <3>2, <3>3, <3>4
    <2>4. /\ msg[1] = A[1] /\ msg[2] = L[1] /\ (pos = 3 => msg[3] = L[2])
      BY <1>5, <2>1, <2>2, <2>3
    <2>5. \A i \in 1 .. keys : msg[pos + i] = K[i]
      <3>1. \A i \in 1 .. keys : pos + i \in 1 .. pos + keys
        BY <1>5
      <3> QED
        BY <2>2, <2>3, <3>1
    <2> QED
      BY <2>3, <2>4, <2>5
  <1>7. /\ msg[1][3] = u.opcode /\ msg[2][2] = u.mask
        /\ (msg[2][3] >= Short <=> pos = 3) /\ (pos = 3 => msg[3][2] = n)
        /\ (pos = 2 => msg[2][3] = n)
    <2>1. msg[1][3] = u.opcode
      BY <1>6, <1>4 DEF Fin
    <2>2. CASE pos = 2
      BY <1>1, <1>6, <1>4, <1>5, <2>1, <2>2, ShortAssumption DEF Length
    <2>3. CASE pos = 3
      <3>1. msg[2] = Length(u.mask, Short) /\ msg[3] = Extended(n)
        BY <1>6, <1>4, <2>3
      <3>2. msg[2][2] = u.mask /\ msg[2][3] = Short
        BY <3>1 DEF Length
      <3>3. Extended(n)[2] = n
        BY Zenon DEF Extended
      <3> QED
        BY <2>1, <2>3, <3>1, <3>2, <3>3, ShortAssumption
    <2>4. pos = 2 \/ pos = 3
      BY <1>5
    <2> QED
      BY <2>2, <2>3, <2>4
  <1> DEFINE keyBytes == SubSeq(msg, pos + 1, pos + 4)
             plain == SubSeq(msg, pos + 1, pos + n)
             masked == SubSeq(msg, pos + 5, pos + 4 + n)
             output == IF u.mask = 1
                       THEN AppendBytes(NewBuffer, Unmask(masked, keyBytes), n)
                       ELSE AppendData(NewBuffer, plain)
  <1>8. DecodeFrame(msg, NewBuffer) = [opcode_ |-> u.opcode, output |-> output]
    BY <1>7, <1>5 DEF DecodeFrame
  <1>9. CASE u.mask = 1
    <2>1. keys = 4 /\ pos \in Nat
      BY <1>9, <1>5
    <2>2. \A j \in 1 .. 4 : keyBytes[j] = Key(j)
      <3>1. \A i \in pos + 1 .. pos + 4 : msg[i] \in S
        BY <1>1, <1>6, <2>1
      <3>2. \A j \in 1 .. 4 : keyBytes[j] = msg[pos + 1 + j - 1]
        BY <2>1, <3>1, SubSeqProperties
      <3> QED
        BY <1>6, <1>9, <1>4, <2>1, <3>2
    <2>3. /\ Len(masked) = n /\ DOMAIN masked = 1 .. n
          /\ \A i \in 1 .. n : masked[i] = P[i]
      <3>1. \A i \in pos + 5 .. pos + 4 + n : msg[i] \in S
        BY <1>1, <1>6, <2>1
      <3>2. /\ masked \in Seq(S) /\ Len(masked) = n
            /\ \A i \in 1 .. n : masked[i] = msg[pos + 5 + i - 1]
        <4>1. /\ pos + 5 \in Int /\ pos + 4 + n \in Int
              /\ (pos + 4 + n) - (pos + 5) + 1 = n
              /\ (pos + 5 <= pos + 4 + n <=> 0 < n)
          BY <1>1, <2>1
        <4> QED
          BY <1>1, <3>1, <4>1, SubSeqProperties
      <3>3. \A i \in 1 .. n : pos + 5 + i - 1 = pos + keys + i
        BY <1>1, <2>1
      <3>4. DOMAIN masked = 1 .. n
        <4> HIDE DEF masked
        <4> QED
          BY <3>2
      <3> HIDE DEF masked
      <3> QED
        BY <1>6, <3>2, <3>3, <3>4
    <2> HIDE DEF keyBytes, masked
    <2>4. \A i \in 1 .. n : Xor(P[i], Key(((i - 1) % 4) + 1))
                              = Data(u.payload[i], {})
      <3> TAKE i \in 1 .. n
      <3> DEFINE j == ((i - 1) % 4) + 1
      <3>1. P[i] = Data(u.payload[i], {j})
        BY <1>9, <1>4
      <3> HIDE DEF j
      <3>2. Xor(P[i], Key(j)) = Data(u.payload[i], SymDiff({j}, {j}))
        BY <3>1 DEF Xor, Data, Key
      <3>3. SymDiff({j}, {j}) = {}
        BY DEF SymDiff
      <3> QED
        BY <3>2, <3>3 DEF j
    <2>5. \A i \in 1 .. n : ((i - 1) % 4) + 1 \in 1 .. 4
      BY <1>1
    <2>6. Unmask(masked, keyBytes) = Plain(u)
      <3>1. \A i \in 1 .. n : Xor(masked[i], keyBytes[((i - 1) % 4) + 1])
                                = Data(u.payload[i], {})
        BY <2>2, <2>3, <2>4, <2>5
      <3> QED
        BY <1>1, <2>3, <3>1 DEF Unmask, Plain
    <2>7. Plain(u) # <<>> => n > 0
      <3>1. DOMAIN Plain(u) = 1 .. n
        BY <1>1 DEF Plain
      <3> QED
        BY <1>1, <3>1, EmptySeq DEF Texts
    <2>8. /\ BufferOK(AppendBytes(NewBuffer, Plain(u), n))
          /\ Content(AppendBytes(NewBuffer, Plain(u), n)) =
               <<>> \o Plain(u)
      BY <1>1, <2>7, NewBufferEmpty, AppendBytesAdds
    <2> QED
      BY <1>8, <1>9, <2>6, <2>8, ConcatEmptySeq DEF msg, Texts
  <1>10. CASE u.mask = 0
    <2>1. keys = 0 /\ pos \in Nat
      BY <1>10, <1>5
    <2>2. \A i \in pos + 1 .. pos + n : msg[i] \in S
      BY <1>1, <1>6, <2>1
    <2>3. /\ plain \in Seq(S) /\ Len(plain) = n
          /\ \A i \in 1 .. n : plain[i] = msg[pos + 1 + i - 1]
      BY <1>1, <2>1, <2>2, SubSeqProperties
    <2> HIDE DEF plain
    <2>4. plain = Plain(u)
      <3>1. \A i \in 1 .. n : plain[i] = Data(u.payload[i], {})
        BY <1>1, <1>6, <1>10, <1>4, <2>1, <2>3
      <3> QED
        BY <1>1, <2>3, <3>1 DEF Plain
    <2>5. /\ BufferOK(AppendData(NewBuffer, Plain(u)))
          /\ Content(AppendData(NewBuffer, Plain(u))) = <<>> \o Plain(u)
      BY NewBufferEmpty, AppendAdds DEF Texts
    <2> QED
      BY <1>8, <1>10, <2>4, <2>5, ConcatEmptySeq DEF msg, Texts
  <1> QED
    BY <1>9, <1>10

(* What is sent for a frame that is answered: from Short bytes on the code *)
(* writes no length.                                                       *)
LEMMA AnswerFrameSends ==
  ASSUME NEW opcode \in Answered, NEW payload, BufferOK(payload),
         NEW reply, NEW data \in Texts,
         reply = IF opcode = 9 THEN 10 ELSE opcode,
         data = IF opcode \in {8, 9} THEN <<>> ELSE Content(payload),
         Fin(1, reply) \in Byte,
         Len(data) < Short => Length(0, Len(data)) \in Byte
  PROVE  AnswerFrame(opcode, payload) =
           <<SendCall((<<Fin(1, reply)>>
                         \o (IF Len(data) < Short THEN <<Length(0, Len(data))>>
                             ELSE <<>>)) \o data)>>
  <1> DEFINE buf == IF opcode \in {8, 9} THEN NewBuffer ELSE Echo(payload)
             len == ReadableBytes(buf)
             fin == <<Fin(1, reply)>>
             size == IF len < Short THEN <<Length(0, len)>> ELSE <<>>
             head == AppendData(NewBuffer, fin)
             sized == IF len < Short THEN AppendData(head, <<Length(0, len)>>)
                      ELSE head
  <1>1. BufferOK(buf) /\ Content(buf) = data
    <2>1. CASE opcode \in {8, 9}
      BY <2>1, NewBufferEmpty
    <2>2. CASE opcode \notin {8, 9}
      <3>1. /\ BufferOK(AppendData(NewBuffer, Content(payload)))
            /\ Content(AppendData(NewBuffer, Content(payload))) =
                 <<>> \o Content(payload)
        BY NewBufferEmpty, AppendAdds, ContentType
      <3> QED
        BY <2>2, <3>1, ContentType, ConcatEmptySeq DEF Echo
    <2> QED
      BY <2>1, <2>2
  <1>2. AnswerFrame(opcode, payload) =
          <<SendCall(Content(EncodeFrame(NewBuffer, reply, buf)))>>
    BY DEF AnswerFrame, Opcodes
  <1> HIDE DEF buf
  <1>3. len = Len(data) /\ len \in Nat
    BY <1>1, ContentType, ArithBuffer
  <1> HIDE DEF len
  <1>4. fin \in Texts /\ size \in Texts
    BY <1>3 DEF Texts
  <1> HIDE DEF fin
  <1>5. BufferOK(head) /\ Content(head) = fin
    <2>1. BufferOK(head) /\ Content(head) = <<>> \o fin
      BY <1>4, NewBufferEmpty, AppendAdds DEF Texts
    <2> HIDE DEF head
    <2> QED
      BY <1>4, <2>1, ConcatEmptySeq DEF Texts
  <1> HIDE DEF head
  <1>6. BufferOK(sized) /\ Content(sized) = fin \o size
    <2>1. CASE len < Short
      BY <1>4, <1>5, <2>1, AppendAdds DEF Texts
    <2>2. CASE ~(len < Short)
      BY <1>4, <1>5, <2>2, ConcatEmptySeq DEF Texts
    <2> QED
      BY <2>1, <2>2
  <1>7. EncodeFrame(NewBuffer, reply, buf) = AppendData(sized, data)
    BY <1>1 DEF EncodeFrame, len, head, fin
  <1> HIDE DEF sized
  <1>8. Content(AppendData(sized, data)) = (fin \o size) \o data
    BY <1>6, AppendAdds DEF Texts
  <1> QED
    BY <1>2, <1>3, <1>7, <1>8 DEF fin

(* A pair is its halves put together.                                      *)
LEMMA PairIsConcat == \A a, b : <<a>> \o <<b>> = <<a, b>>
  <1> SUFFICES ASSUME NEW a, NEW b
               PROVE  <<a>> \o <<b>> = <<a, b>>
    OBVIOUS
  <1> DEFINE S == {a, b}
  <1>1. <<a>> \in Seq(S) /\ <<b>> \in Seq(S) /\ <<a, b>> \in Seq(S)
    OBVIOUS
  <1>2. /\ Len(<<a>>) = 1 /\ Len(<<b>>) = 1 /\ Len(<<a, b>>) = 2
        /\ <<a>>[1] = a /\ <<b>>[1] = b
        /\ <<a, b>>[1] = a /\ <<a, b>>[2] = b
    OBVIOUS
  <1>3. /\ <<a>> \o <<b>> \in Seq(S) /\ Len(<<a>> \o <<b>>) = 2
        /\ (<<a>> \o <<b>>)[1] = a /\ (<<a>> \o <<b>>)[2] = b
    BY <1>1, <1>2, ConcatProperties
  <1>4. \A i \in 1 .. 2 : (<<a>> \o <<b>>)[i] = <<a, b>>[i]
    BY <1>2, <1>3
  <1> QED
    BY <1>1, <1>2, <1>3, <1>4, SeqEqual

(* A frame the client sends is answered with its own payload, unmasked, as *)
(* EchoFaithful has it: for any opcode, any payload of fewer than Short    *)
(* bytes, and masked or not.                                               *)
THEOREM EchoReturnsPayload ==
  ASSUME NEW u, u.mask \in {0, 1}, NEW V, u.payload \in Seq(V),
         Len(u.payload) < Short,
         Plain(u) \in Texts, EchoOf(u) \in Texts,
         NEW buf, BufferOK(buf), Content(buf) = Frame(u)
  PROVE  HandleData(buf) = IF EchoOf(u) = <<>> THEN <<>>
                           ELSE <<SendCall(EchoOf(u))>>
  <1> DEFINE d == DecodeFrame(Frame(u), NewBuffer)
             op == u.opcode
             n == Len(u.payload)
             reply == IF op = 9 THEN 10 ELSE op
             data == IF op \in {8, 9} THEN <<>> ELSE Plain(u)
  <1>1. /\ d.opcode_ = op /\ BufferOK(d.output)
        /\ Content(d.output) = Plain(u)
    BY DecodeReturnsPayload
  <1>2. HandleData(buf) = AnswerFrame(op, d.output)
    BY <1>1 DEF HandleData, HandleFrame
  <1>3. Answered = {0, 1, 2, 8, 9}
    BY DEF Answered, Opcodes
  <1>4. n \in Nat /\ Len(Plain(u)) = n /\ Plain(u) \in Seq(Byte)
    BY DEF Plain, Texts
  <1> HIDE DEF d
  <1>5. CASE op \notin Answered
    BY <1>2, <1>3, <1>5 DEF AnswerFrame, EchoOf, Opcodes
  <1>6. CASE op \in Answered
    <2> DEFINE head == <<Fin(1, reply), Length(0, Len(data))>>
               lead == <<Fin(1, reply)>> \o <<Length(0, Len(data))>>
    <2>1. data \in Texts /\ Len(data) \in Nat /\ Len(data) < Short
      BY <1>4, ShortAssumption DEF Texts
    <2>2. EchoOf(u) = head \o data
      <3>1. CASE op \in {0, 1, 2}
        BY <1>4, <3>1 DEF EchoOf, Opcodes, Plain
      <3>2. CASE op = 8
        <4>1. [i \in DOMAIN <<>> |-> Data(<<>>[i], {})] = <<>>
          OBVIOUS
        <4> QED
          BY <3>2, <4>1 DEF EchoOf, Opcodes
      <3>3. CASE op = 9
        <4>1. [i \in DOMAIN <<>> |-> Data(<<>>[i], {})] = <<>>
          OBVIOUS
        <4> QED
          BY <3>3, <4>1 DEF EchoOf, Opcodes
      <3> QED
        BY <1>3, <1>6, <3>1, <3>2, <3>3
    <2> HIDE DEF data, reply
    <2>3. lead = head
      BY PairIsConcat
    <2>4. /\ Len(head \o data) = 2 + Len(data)
          /\ (head \o data)[1] = Fin(1, reply)
          /\ (head \o data)[2] = Length(0, Len(data))
      <3> DEFINE S == {Fin(1, reply), Length(0, Len(data))} \union Byte
      <3>1. head \in Seq(S) /\ data \in Seq(S) /\ Len(head) = 2
        BY <2>1 DEF Texts
      <3>2. head[1] = Fin(1, reply) /\ head[2] = Length(0, Len(data))
        OBVIOUS
      <3> HIDE DEF head, S
      <3>3. /\ Len(head \o data) = Len(head) + Len(data)
            /\ \A i \in 1 .. Len(head) + Len(data) :
                 (head \o data)[i] = IF i <= Len(head) THEN head[i]
                                    ELSE data[i - Len(head)]
        BY <3>1, ConcatProperties
      <3> QED
        BY <2>1, <3>1, <3>2, <3>3
    <2>5. Fin(1, reply) \in Byte /\ Length(0, Len(data)) \in Byte
      <3>1. 1 \in 1 .. Len(EchoOf(u)) /\ 2 \in 1 .. Len(EchoOf(u))
        BY <2>1, <2>2, <2>4
      <3> QED
        BY <2>2, <2>4, <3>1 DEF Texts
    <2>6. EchoOf(u) # <<>>
      BY <2>1, <2>2, <2>4
    <2> DEFINE out == d.output
    <2>7. data = IF op \in {8, 9} THEN <<>> ELSE Content(out)
      BY <1>1 DEF data
    <2>8. AnswerFrame(op, out) =
            <<SendCall((<<Fin(1, reply)>>
                          \o (IF Len(data) < Short
                              THEN <<Length(0, Len(data))>> ELSE <<>>))
                         \o data)>>
      BY <1>1, <1>6, <2>1, <2>5, <2>7, AnswerFrameSends DEF reply
    <2>9. AnswerFrame(op, out) = <<SendCall(lead \o data)>>
      BY <2>1, <2>8
    <2> HIDE DEF lead, head
    <2> QED
      BY <1>2, <2>2, <2>3, <2>6, <2>9
  <1> QED
    BY <1>5, <1>6

(* A frame with data of Short bytes or more is answered without a length:  *)
(* encodeFrame() compares onebyte, by then 0, with 126 and 127             *)
(* (WebSocketPacket.cpp:122-141), so that the payload follows the first    *)
(* byte and a client takes two bytes of it for the length.                 *)
THEOREM LongEchoLacksLength ==
  ASSUME NEW u, u.mask \in {0, 1}, NEW V, u.payload \in Seq(V),
         u.opcode \in {0, 1, 2}, Len(u.payload) >= Short,
         Plain(u) \in Texts, Fin(1, u.opcode) \in Byte,
         NEW buf, BufferOK(buf), Content(buf) = Frame(u)
  PROVE  HandleData(buf) = <<SendCall(<<Fin(1, u.opcode)>> \o Plain(u))>>
  <1> DEFINE out == DecodeFrame(Frame(u), NewBuffer).output
             op == u.opcode
             fin == <<Fin(1, op)>>
             size == IF Len(Plain(u)) < Short THEN <<Length(0, Len(Plain(u)))>>
                     ELSE <<>>
  <1>1. /\ DecodeFrame(Frame(u), NewBuffer).opcode_ = op /\ BufferOK(out)
        /\ Content(out) = Plain(u)
    BY DecodeReturnsPayload
  <1>2. HandleData(buf) = AnswerFrame(op, out)
    BY <1>1 DEF HandleData, HandleFrame
  <1>3. Len(Plain(u)) \in Nat /\ ~(Len(Plain(u)) < Short)
    BY ShortAssumption DEF Plain
  <1>4. /\ op \in Answered
        /\ op = IF op = 9 THEN 10 ELSE op
        /\ Content(out) = IF op \in {8, 9} THEN <<>> ELSE Content(out)
        /\ Content(out) \in Texts
    BY <1>1 DEF Answered, Opcodes
  <1> HIDE DEF out
  <1>5. AnswerFrame(op, out) = <<SendCall((fin \o size) \o Plain(u))>>
    <2>1. Len(Content(out)) < Short => Length(0, Len(Content(out))) \in Byte
      BY <1>1, <1>3
    <2>2. AnswerFrame(op, out) =
            <<SendCall((<<Fin(1, op)>>
                          \o (IF Len(Content(out)) < Short
                              THEN <<Length(0, Len(Content(out)))>> ELSE <<>>))
                         \o Content(out))>>
      BY <1>1, <1>4, <2>1, AnswerFrameSends
    <2> QED
      BY <1>1, <2>2
  <1>6. fin \o size = fin
    <2>1. fin \in Texts /\ size = <<>>
      BY <1>3 DEF Texts
    <2> HIDE DEF fin, size
    <2> QED
      BY <2>1, ConcatEmptySeq DEF Texts
  <1> QED
    BY <1>2, <1>5, <1>6

-----------------------------------------------------------------------------
(***************************************************************************)
(* Concatenations and their parts.                                         *)
(***************************************************************************)
(* Of four sequences the middle ones may be put together first.            *)
LEMMA AssociatesFour ==
  ASSUME NEW S, NEW w \in Seq(S), NEW x \in Seq(S), NEW y \in Seq(S),
         NEW z \in Seq(S)
  PROVE  (w \o x) \o (y \o z) = (w \o (x \o y)) \o z
  <1> DEFINE yz == y \o z
             xy == x \o y
  <1>1. yz \in Seq(S) /\ xy \in Seq(S)
    BY ConcatProperties
  <1>2. xy \o z = x \o yz
    BY ConcatAssociative
  <1> HIDE DEF xy, yz
  <1>3. (w \o x) \o yz = w \o (x \o yz)
    BY <1>1, ConcatAssociative, SMTT(30)
  <1>4. (w \o xy) \o z = w \o (xy \o z)
    BY <1>1, ConcatAssociative, SMTT(30)
  <1>5. (w \o x) \o yz = (w \o xy) \o z
    BY <1>2, <1>3, <1>4, Zenon
  <1> QED
    BY <1>5 DEF xy, yz

(* A sequence more is concatenated last.                                   *)
LEMMA FlattenGrows ==
  ASSUME NEW S, NEW s \in Seq(Seq(S)), NEW t \in Seq(Seq(S)),
         Len(t) = Len(s) + 1, \A i \in 1 .. Len(s) : t[i] = s[i]
  PROVE  FlattenSeq(t) = FlattenSeq(s) \o t[Len(t)]
  <1> DEFINE n == Len(s)
  <1>1. n \in Nat /\ Len(t) = n + 1 /\ n + 1 \in 1 .. n + 1
    OBVIOUS
  <1>2. CASE n = 0
    <2>1. FlattenSeq(t) = t[1] /\ t[1] \in Seq(S)
      BY <1>1, <1>2, FlattenOne
    <2>2. FlattenSeq(s) = <<>>
      BY <1>2, EmptySeq DEF FlattenSeq
    <2> QED
      BY <1>1, <1>2, <2>1, <2>2, ConcatEmptySeq
  <1>3. CASE n # 0
    <2>1. PICK h : Concatenates(h, s)
      BY <1>3, FlattenFunction
    <2>2. PICK g : Concatenates(g, t)
      BY <1>1, FlattenFunction
    <2> DEFINE T == {k \in Nat : k + 1 \in 1 .. n => g[k + 1] = h[k + 1]}
    <2>3. 0 \in T
      BY <1>1, <1>3, <2>1, <2>2 DEF Concatenates
    <2>4. ASSUME NEW k \in Nat, k \in T
          PROVE  k + 1 \in T
      <3> SUFFICES ASSUME k + 2 \in 1 .. n
                   PROVE  g[k + 2] = h[k + 2]
        OBVIOUS
      <3>1. /\ k + 1 \in 1 .. n /\ k + 2 \in 2 .. n /\ k + 2 \in 2 .. n + 1
            /\ (k + 2) - 1 = k + 1
        BY <1>1
      <3>2. h[k + 2] = h[k + 1] \o s[k + 2] /\ g[k + 2] = g[k + 1] \o t[k + 2]
        BY <1>1, <2>1, <2>2, <3>1 DEF Concatenates
      <3> QED
        BY <2>4, <3>1, <3>2
    <2>5. n - 1 \in T
      <3> HIDE DEF T
      <3>1. Nat \subseteq T
        BY <2>3, <2>4, SetInduction
      <3> QED
        BY <1>1, <1>3, <3>1
    <2>6. g[n] = h[n] /\ n + 1 \in 2 .. Len(t) /\ (n + 1) - 1 = n
      BY <1>1, <1>3, <2>5
    <2>7. g[n + 1] = g[n] \o t[n + 1]
      BY <2>2, <2>6 DEF Concatenates
    <2> QED
      BY <1>1, <2>1, <2>2, <2>6, <2>7 DEF Concatenates
  <1> QED
    BY <1>2, <1>3

(* Where the concatenation of the first i sequences ends.                  *)
EndOf(seqs, i) == Len(FlattenSeq(SubSeq(seqs, 1, i)))

(* From the beginnings of a sequence to the next one.                      *)
LEMMA BeginningGrows ==
  ASSUME NEW S, NEW seqs \in Seq(Seq(S)), NEW i \in 1 .. Len(seqs)
  PROVE  /\ FlattenSeq(SubSeq(seqs, 1, i)) =
              FlattenSeq(SubSeq(seqs, 1, i - 1)) \o seqs[i]
         /\ FlattenSeq(SubSeq(seqs, 1, i)) \in Seq(S)
         /\ FlattenSeq(SubSeq(seqs, 1, i - 1)) \in Seq(S)
         /\ EndOf(seqs, i) = EndOf(seqs, i - 1) + Len(seqs[i])
  <1> DEFINE s == SubSeq(seqs, 1, i - 1)
             t == SubSeq(seqs, 1, i)
  <1>1. \A k \in 1 .. Len(seqs) : seqs[k] \in Seq(S)
    OBVIOUS
  <1>2. /\ s \in Seq(Seq(S)) /\ Len(s) = i - 1
        /\ \A k \in 1 .. i - 1 : s[k] = seqs[k]
    BY <1>1, SubSeqProperties
  <1>3. /\ t \in Seq(Seq(S)) /\ Len(t) = i
        /\ \A k \in 1 .. i : t[k] = seqs[k]
    BY <1>1, SubSeqProperties
  <1> HIDE DEF s, t
  <1>4. Len(t) = Len(s) + 1 /\ \A k \in 1 .. Len(s) : t[k] = s[k]
    <2>1. i \in Nat /\ \A k \in 1 .. i - 1 : k \in 1 .. i
      OBVIOUS
    <2>2. Len(t) = Len(s) + 1
      BY <1>2, <1>3, <2>1
    <2>3. \A k \in 1 .. Len(s) : t[k] = s[k]
      BY <1>2, <1>3, <2>1
    <2> QED
      BY <2>2, <2>3
  <1>5. FlattenSeq(t) = FlattenSeq(s) \o seqs[i]
    <2>1. t[Len(t)] = seqs[i]
      BY <1>3
    <2> QED
      BY <1>2, <1>3, <1>4, <2>1, FlattenGrows
  <1>6. FlattenSeq(s) \in Seq(S) /\ FlattenSeq(t) \in Seq(S)
    BY <1>2, <1>3, FlattenType
  <1>7. Len(FlattenSeq(t)) = Len(FlattenSeq(s)) + Len(seqs[i])
    BY <1>1, <1>5, <1>6, ConcatProperties
  <1> QED
    BY <1>5, <1>6, <1>7 DEF EndOf, s, t

(* The ends of the first and the last sequence.                            *)
LEMMA FirstAndLastEnd ==
  ASSUME NEW S, NEW seqs \in Seq(Seq(S))
  PROVE  /\ FlattenSeq(SubSeq(seqs, 1, 0)) = <<>>
         /\ EndOf(seqs, 0) = 0
         /\ FlattenSeq(SubSeq(seqs, 1, Len(seqs))) = FlattenSeq(seqs)
         /\ EndOf(seqs, Len(seqs)) = Len(FlattenSeq(seqs))
  <1>1. SubSeq(seqs, 1, 0) = <<>>
    BY SubSeqEmpty
  <1>2. FlattenSeq(<<>>) = <<>> /\ Len(<<>>) = 0
    BY DEF FlattenSeq
  <1>3. SubSeq(seqs, 1, Len(seqs)) = seqs
    BY SubSeqFull
  <1> QED
    BY <1>1, <1>2, <1>3 DEF EndOf

(* What is in the middle of three sequences.                               *)
LEMMA MiddlePart ==
  ASSUME NEW S, NEW a \in Seq(S), NEW b \in Seq(S), NEW c \in Seq(S)
  PROVE  SubSeq((a \o b) \o c, Len(a) + 1, Len(a) + Len(b)) = b
  <1> DEFINE m == Len(a)
             n == Len(b)
             ab == a \o b
             all == ab \o c
             part == SubSeq(all, m + 1, m + n)
  <1>1. m \in Nat /\ n \in Nat /\ Len(c) \in Nat
    OBVIOUS
  <1>2. /\ ab \in Seq(S) /\ Len(ab) = m + n
        /\ \A i \in 1 .. m + n : ab[i] = IF i <= m THEN a[i] ELSE b[i - m]
    BY ConcatProperties
  <1>3. /\ all \in Seq(S) /\ Len(all) = Len(ab) + Len(c)
        /\ \A i \in 1 .. Len(ab) + Len(c) :
             all[i] = IF i <= Len(ab) THEN ab[i] ELSE c[i - Len(ab)]
    BY <1>2, ConcatProperties
  <1> HIDE DEF ab, all
  <1>4. \A i \in 1 .. n : m + i \in 1 .. m + n + Len(c) /\ all[m + i] = b[i]
    <2> TAKE i \in 1 .. n
    <2>1. /\ m + i \in 1 .. m + n + Len(c) /\ m + i \in 1 .. m + n
          /\ m + i <= m + n /\ ~(m + i <= m) /\ (m + i) - m = i
      BY <1>1
    <2> QED
      BY <1>2, <1>3, <2>1
  <1>5. /\ part \in Seq(S) /\ Len(part) = n
        /\ \A i \in 1 .. n : part[i] = all[m + i]
    <2>1. \A i \in m + 1 .. m + n : all[i] \in S
      <3>1. \A i \in m + 1 .. m + n : i \in 1 .. Len(all)
        BY <1>1, <1>2, <1>3
      <3> QED
        BY <1>3, <3>1
    <2>2. /\ m + 1 \in Int /\ m + n \in Int /\ (m + n) - (m + 1) + 1 = n
          /\ (m + 1 <= m + n <=> 0 < n)
          /\ \A i \in 1 .. n : (m + 1) + i - 1 = m + i
      BY <1>1
    <2> HIDE DEF m, n
    <2>3. /\ part \in Seq(S) /\ Len(part) = n
          /\ \A i \in 1 .. n : part[i] = all[(m + 1) + i - 1]
      <3>1. n = 0 => part = <<>>
        BY <1>1, <2>2, SubSeqEmpty
      <3>2. /\ part \in Seq(S)
            /\ Len(part) = IF m + 1 <= m + n THEN (m + n) - (m + 1) + 1 ELSE 0
            /\ \A i \in 1 .. (m + n) - (m + 1) + 1 :
                 part[i] = all[(m + 1) + i - 1]
        BY <2>1, <2>2, SubSeqProperties
      <3> QED
        BY <1>1, <2>2, <3>2
    <2> QED
      BY <2>2, <2>3
  <1> HIDE DEF part
  <1>6. part = b
    BY <1>4, <1>5, SeqEqual
  <1> QED
    BY <1>6 DEF part, all, ab

(* Each sequence is found again in the concatenation.                      *)
LEMMA PartOfFlatten ==
  ASSUME NEW S, NEW seqs \in Seq(Seq(S)), NEW i \in 1 .. Len(seqs)
  PROVE  SubSeq(FlattenSeq(seqs), EndOf(seqs, i - 1) + 1, EndOf(seqs, i))
           = seqs[i]
  <1> DEFINE n == Len(seqs)
             p == [k \in 0 .. n |-> FlattenSeq(SubSeq(seqs, 1, k))]
             T == {k \in Nat : i + k <= n =>
                     \E c \in Seq(S) : p[i + k] = p[i] \o c}
  <1>1. n \in Nat /\ i \in 1 .. n
    OBVIOUS
  <1>2. \A k \in 1 .. n : /\ p[k] = p[k - 1] \o seqs[k]
                          /\ p[k] \in Seq(S) /\ p[k - 1] \in Seq(S)
                          /\ seqs[k] \in Seq(S)
    <2> TAKE k \in 1 .. n
    <2>1. k \in 0 .. n /\ k - 1 \in 0 .. n /\ seqs[k] \in Seq(S)
      OBVIOUS
    <2> QED
      BY <2>1, BeginningGrows
  <1>3. /\ EndOf(seqs, i - 1) = Len(p[i - 1])
        /\ EndOf(seqs, i) = Len(p[i - 1]) + Len(seqs[i])
    <2>1. i - 1 \in 0 .. n
      BY <1>1
    <2> QED
      BY <2>1, BeginningGrows DEF EndOf
  <1>4. p[n] = FlattenSeq(seqs)
    BY <1>1, FirstAndLastEnd
  <1> HIDE DEF p
  <1>5. 0 \in T
    <2>1. <<>> \in Seq(S) /\ p[i] = p[i] \o <<>> /\ i + 0 = i
      BY <1>1, <1>2, ConcatEmptySeq
    <2> QED
      BY <2>1
  <1>6. ASSUME NEW k \in Nat, k \in T
        PROVE  k + 1 \in T
    <2>1. ASSUME i + (k + 1) <= n
          PROVE  \E c \in Seq(S) : p[i + (k + 1)] = p[i] \o c
      <3>1. /\ i + k <= n /\ i + (k + 1) \in 1 .. n
            /\ (i + (k + 1)) - 1 = i + k
        BY <1>1, <2>1
      <3>2. PICK c \in Seq(S) : p[i + k] = p[i] \o c
        BY <1>6, <3>1
      <3> DEFINE next == seqs[i + (k + 1)]
      <3>3. p[i + (k + 1)] = p[i + k] \o next /\ next \in Seq(S)
        BY <1>2, <3>1
      <3> HIDE DEF next
      <3>4. p[i] \in Seq(S)
        BY <1>1, <1>2
      <3>5. (p[i] \o c) \o next = p[i] \o (c \o next)
        <4> DEFINE a == p[i]
        <4>1. a \in Seq(S) /\ c \in Seq(S) /\ next \in Seq(S)
          BY <3>3, <3>4
        <4> HIDE DEF a, n, T
        <4>2. \A x, y, z \in Seq(S) : (x \o y) \o z = x \o (y \o z)
          BY ConcatAssociative, SMTT(30)
        <4>3. (a \o c) \o next = a \o (c \o next)
          BY <4>1, <4>2, Zenon
        <4> QED
          BY <4>3 DEF a
      <3>6. c \o next \in Seq(S)
        BY <3>3, ConcatProperties
      <3>7. p[i + (k + 1)] = p[i] \o (c \o next)
        BY <3>2, <3>3, <3>5
      <3> QED
        BY <3>6, <3>7, Zenon
    <2>2. k + 1 \in Nat
      OBVIOUS
    <2> QED
      BY <2>1, <2>2, Zenon
  <1>7. \E c \in Seq(S) : p[n] = p[i] \o c
    <2>1. n - i \in T
      <3> HIDE DEF T
      <3>1. Nat \subseteq T
        BY <1>5, <1>6, SetInduction
      <3> QED
        BY <1>1, <3>1
    <2>2. i + (n - i) = n /\ n <= n
      BY <1>1
    <2> QED
      BY <2>1, <2>2
  <1>8. PICK c \in Seq(S) : p[n] = p[i] \o c
    BY <1>7
  <1>9. /\ p[i] = p[i - 1] \o seqs[i]
        /\ p[i - 1] \in Seq(S) /\ seqs[i] \in Seq(S)
    BY <1>1, <1>2
  <1>10. SubSeq((p[i - 1] \o seqs[i]) \o c,
                Len(p[i - 1]) + 1, Len(p[i - 1]) + Len(seqs[i])) = seqs[i]
    BY <1>9, MiddlePart
  <1> QED
    BY <1>3, <1>4, <1>8, <1>9, <1>10

(* If no sequence is empty, the ends lie one behind the other.             *)
LEMMA EndsIncrease ==
  ASSUME NEW S, NEW seqs \in Seq(Seq(S)),
         \A i \in 1 .. Len(seqs) : seqs[i] # <<>>
  PROVE  /\ \A i \in 0 .. Len(seqs) : EndOf(seqs, i) \in Nat
         /\ \A i, j \in 0 .. Len(seqs) :
              i < j => EndOf(seqs, i) < EndOf(seqs, j)
  <1> DEFINE n == Len(seqs)
             e == [i \in 0 .. n |-> EndOf(seqs, i)]
             N == {k \in Nat : k <= n => e[k] \in Nat}
             T == {k \in Nat : \A i \in Nat : i + (k + 1) <= n =>
                                 e[i] < e[i + (k + 1)]}
  <1>1. n \in Nat
    OBVIOUS
  <1>2. \A i \in 1 .. n : /\ e[i] = e[i - 1] + Len(seqs[i])
                          /\ Len(seqs[i]) \in Nat \ {0}
    <2> TAKE i \in 1 .. n
    <2>1. seqs[i] \in Seq(S) /\ seqs[i] # <<>>
      OBVIOUS
    <2>2. Len(seqs[i]) \in Nat \ {0}
      BY <2>1, EmptySeq
    <2>3. i \in 0 .. n /\ i - 1 \in 0 .. n
      OBVIOUS
    <2> QED
      BY <2>2, <2>3, BeginningGrows
  <1>3. e[0] = 0
    BY <1>1, FirstAndLastEnd
  <1> HIDE DEF e
  <1>4. \A i \in 0 .. n : e[i] \in Nat
    <2>1. 0 \in N
      BY <1>3
    <2>2. \A k \in Nat : k \in N => k + 1 \in N
      <3> TAKE k \in Nat
      <3> HAVE k \in N
      <3>1. ASSUME k + 1 <= n
            PROVE  e[k + 1] \in Nat
        <4>1. k + 1 \in 1 .. n /\ (k + 1) - 1 = k /\ k <= n
          BY <1>1, <3>1
        <4>2. e[k] \in Nat
          BY <4>1
        <4>3. /\ e[k + 1] = e[k] + Len(seqs[k + 1])
              /\ Len(seqs[k + 1]) \in Nat
          BY <1>2, <4>1
        <4> QED
          BY <4>2, <4>3
      <3> QED
        BY <3>1
    <2> HIDE DEF N
    <2>3. Nat \subseteq N
      BY <2>1, <2>2, SetInduction
    <2> QED
      BY <1>1, <2>3 DEF N
  <1>5. \A k \in Nat : k + 1 <= n => e[k] < e[k + 1]
    <2> SUFFICES ASSUME NEW k \in Nat, k + 1 <= n
                 PROVE  e[k] < e[k + 1]
      OBVIOUS
    <2>1. /\ k + 1 \in 1 .. n /\ (k + 1) - 1 = k /\ k \in 0 .. n
          /\ n \in Nat
      BY <1>1
    <2> HIDE DEF n
    <2>2. e[k + 1] = e[k] + Len(seqs[k + 1])
      BY <1>2, <2>1
    <2>3. e[k] \in Nat /\ Len(seqs[k + 1]) \in Nat \ {0}
      BY <1>2, <1>4, <2>1
    <2> QED
      BY <2>2, <2>3
  <1>6. 0 \in T
    BY <1>5
  <1>7. \A k \in Nat : k \in T => k + 1 \in T
    <2> TAKE k \in Nat
    <2> HAVE k \in T
    <2>1. ASSUME NEW i \in Nat, i + ((k + 1) + 1) <= n
          PROVE  e[i] < e[i + ((k + 1) + 1)]
      <3> DEFINE m == i + (k + 1)
      <3>1. /\ m \in Nat /\ m <= n /\ m + 1 <= n
            /\ i + ((k + 1) + 1) = m + 1
            /\ i \in 0 .. n /\ m \in 0 .. n /\ m + 1 \in 0 .. n
        BY <1>1, <2>1
      <3>2. e[i] < e[m]
        BY <3>1
      <3> HIDE DEF m
      <3>3. e[m] < e[m + 1]
        BY <1>5, <3>1
      <3>4. e[i] \in Nat /\ e[m] \in Nat /\ e[m + 1] \in Nat
        BY <1>4, <3>1
      <3>5. e[i] < e[m + 1]
        BY <3>2, <3>3, <3>4
      <3> QED
        BY <3>1, <3>5, Zenon
    <2> QED
      BY <2>1
  <1> HIDE DEF T
  <1>8. Nat \subseteq T
    BY <1>6, <1>7, SetInduction
  <1>9. ASSUME NEW i \in 0 .. n, NEW j \in 0 .. n, i < j
        PROVE  e[i] < e[j]
    <2>1. (j - i) - 1 \in T /\ i + (((j - i) - 1) + 1) = j
      BY <1>1, <1>8, <1>9
    <2> QED
      BY <1>1, <2>1 DEF T
  <1> QED
    BY <1>4, <1>9 DEF e

(* The two parts of a concatenation.                                       *)
LEMMA PartsOfConcat ==
  ASSUME NEW S, NEW a \in Seq(S), NEW b \in Seq(S)
  PROVE  /\ SubSeq(a \o b, 1, Len(a)) = a
         /\ SubSeq(a \o b, Len(a) + 1, Len(a) + Len(b)) = b
  <1> DEFINE none == <<>>
  <1>1. none \in Seq(S) /\ Len(none) = 0 /\ Len(a) \in Nat /\ Len(b) \in Nat
    OBVIOUS
  <1>2. none \o a = a /\ (a \o b) \o none = a \o b
    BY ConcatProperties, ConcatEmptySeq
  <1> HIDE DEF none
  <1>3. SubSeq((none \o a) \o b, Len(none) + 1, Len(none) + Len(a)) = a
    BY <1>1, MiddlePart
  <1>4. SubSeq((a \o b) \o none, Len(a) + 1, Len(a) + Len(b)) = b
    BY <1>1, MiddlePart
  <1>5. Len(none) + 1 = 1 /\ Len(none) + Len(a) = Len(a)
    BY <1>1
  <1> QED
    BY <1>2, <1>3, <1>4, <1>5

(* The least of a set of naturals is its minimum.                          *)
LEMMA MinIs ==
  ASSUME NEW I \in SUBSET Nat, NEW m \in I, \A i \in I : m <= i
  PROVE  Min(I) = m
  <1> DEFINE least == Min(I)
  <1>1. least \in I /\ least <= m /\ m <= least
    BY MinOfNaturals
  <1>2. least \in Nat /\ m \in Nat
    BY <1>1
  <1> HIDE DEF least
  <1>3. least = m
    BY <1>1, <1>2
  <1> QED
    BY <1>3 DEF least

(* find() finds the first c, and with it the texts before and after it.    *)
LEMMA FindsFirst ==
  ASSUME NEW a \in Texts, NEW c \in Byte, NEW b \in Texts,
         \A i \in 1 .. Len(a) : a[i] # c
  PROVE  LET text == (a \o <<c>>) \o b
         IN /\ FindIn(text, c) = Len(a) + 1
            /\ Before(text, Len(a) + 1) = a
            /\ After(text, Len(a) + 1) = b
  <1> DEFINE m == Len(a)
             n == Len(b)
             one == <<c>>
             ac == a \o one
             text == ac \o b
             I == {i \in 1 .. Len(text) : text[i] = c}
  <1>1. one \in Texts /\ Len(one) = 1 /\ one[1] = c
    BY DEF Texts
  <1> HIDE DEF one
  <1>2. /\ ac \in Texts /\ Len(ac) = m + 1 /\ m \in Nat /\ n \in Nat
        /\ \A i \in 1 .. m : ac[i] = a[i]
        /\ ac[m + 1] = c
    <2>1. /\ ac \in Texts /\ m \in Nat /\ n \in Nat /\ Len(ac) = m + Len(one)
          /\ \A i \in 1 .. m : ac[i] = a[i]
          /\ \A i \in m + 1 .. m + Len(one) : ac[i] = one[i - m]
      BY <1>1, ElementsOfConcat
    <2>2. m + 1 \in m + 1 .. m + Len(one) /\ (m + 1) - m = 1
      BY <1>1, <2>1
    <2> HIDE DEF ac, m, n
    <2> QED
      BY <1>1, <2>1, <2>2
  <1> HIDE DEF ac
  <1>3. /\ text \in Texts /\ Len(text) = m + 1 + n
        /\ \A i \in 1 .. m + 1 : text[i] = ac[i]
    <2>1. /\ text \in Texts /\ Len(text) = Len(ac) + n
          /\ \A i \in 1 .. Len(ac) : text[i] = ac[i]
      BY <1>2, ElementsOfConcat
    <2> HIDE DEF text, n
    <2> QED
      BY <1>2, <2>1
  <1>4. FindIn(text, c) = IF I # {} THEN Min(I) ELSE 0
    BY DEF FindIn, SelectInSeq
  <1>5. /\ I \in SUBSET Nat /\ m + 1 \in I
        /\ \A i \in I : m + 1 <= i
    <2>1. m + 1 \in 1 .. m + 1 + n /\ m + 1 \in 1 .. m + 1
      BY <1>2
    <2>2. ASSUME NEW i \in I, ~(m + 1 <= i)
          PROVE  FALSE
      <3>1. i \in 1 .. m /\ i \in 1 .. m + 1
        BY <1>2, <1>3, <2>2
      <3> HIDE DEF text
      <3>2. text[i] = a[i] /\ text[i] = c
        BY <1>2, <1>3, <2>2, <3>1
      <3> QED
        BY <3>1, <3>2
    <2> HIDE DEF text
    <2> QED
      BY <1>2, <1>3, <2>1, <2>2
  <1> HIDE DEF I
  <1>6. FindIn(text, c) = m + 1
    BY <1>4, <1>5, MinIs
  <1>7. SubSeq(text, 1, m) = a
    <2>1. /\ one \o b \in Texts /\ text = a \o (one \o b)
      BY <1>1, TextsConcat, TextsAssociate DEF ac
    <2> DEFINE rest == one \o b
    <2>2. rest \in Texts /\ text = a \o rest
      BY <2>1
    <2> HIDE DEF rest, text
    <2> QED
      BY <2>2, PartsOfConcat DEF Texts
  <1>8. SubSeq(text, m + 2, m + 1 + n) = b
    <2>1. SubSeq(ac \o b, Len(ac) + 1, Len(ac) + Len(b)) = b
      BY <1>2, PartsOfConcat DEF Texts
    <2>2. Len(ac) + 1 = m + 2 /\ Len(ac) + Len(b) = m + 1 + n
      BY <1>2
    <2> QED
      BY <2>1, <2>2
  <1>9. (m + 1) - 1 = m /\ (m + 1) + 1 = m + 2
    BY <1>2
  <1>10. Before(text, m + 1) = a /\ After(text, m + 1) = b
    <2> HIDE DEF text, m, n
    <2> QED
      BY <1>3, <1>7, <1>8, <1>9 DEF Before, After
  <1> QED
    BY <1>6, <1>10 DEF ac, one

(* A Buffer that begins with a line: findCRLF() finds its end, and         *)
(* retrieving the line leaves what follows it.                             *)
LEMMA LineSplits ==
  ASSUME NEW b, BufferOK(b), NEW line \in Texts, NEW rest \in Texts,
         Content(b) = (line \o <<CR, LF>>) \o rest,
         \A i \in 1 .. Len(line) : line[i] # CR
  PROVE  /\ FindCRLF(b) # 0
         /\ Before(Content(b), FindCRLF(b)) = line
         /\ BufferOK(Retrieve(b, FindCRLF(b) + 1))
         /\ Content(Retrieve(b, FindCRLF(b) + 1)) = rest
  <1> DEFINE m == Len(line)
             end == <<CR, LF>>
             c == Content(b)
             whole == line \o end
             at == {i \in 1 .. Len(c) - 1 : c[i] = CR /\ c[i + 1] = LF}
             n == Len(rest)
  <1>1. end \in Texts /\ Len(end) = 2 /\ end[1] = CR /\ end[2] = LF
    BY ByteAssumption DEF Texts
  <1> HIDE DEF end
  <1>2. /\ whole \in Texts /\ Len(whole) = m + 2 /\ m \in Nat /\ n \in Nat
        /\ \A i \in 1 .. m : whole[i] = line[i]
        /\ whole[m + 1] = CR /\ whole[m + 2] = LF
    <2>1. /\ whole \in Texts /\ m \in Nat /\ n \in Nat
          /\ Len(whole) = m + Len(end)
          /\ \A i \in 1 .. m : whole[i] = line[i]
          /\ \A i \in m + 1 .. m + Len(end) : whole[i] = end[i - m]
      BY <1>1, ElementsOfConcat
    <2>2. /\ m + 1 \in m + 1 .. m + Len(end) /\ (m + 1) - m = 1
          /\ m + 2 \in m + 1 .. m + Len(end) /\ (m + 2) - m = 2
      BY <1>1, <2>1
    <2> HIDE DEF whole, m, n
    <2> QED
      BY <1>1, <2>1, <2>2
  <1>3. c = whole \o rest
    BY DEF end
  <1> HIDE DEF whole
  <1>4. /\ c \in Texts /\ Len(c) = m + 2 + n
        /\ \A i \in 1 .. m + 2 : c[i] = whole[i]
    <2>1. /\ whole \o rest \in Texts
          /\ Len(whole \o rest) = Len(whole) + n
          /\ \A i \in 1 .. Len(whole) : (whole \o rest)[i] = whole[i]
      BY <1>2, ElementsOfConcat
    <2> HIDE DEF c, n
    <2> QED
      BY <1>2, <1>3, <2>1
  <1> HIDE DEF c
  <1>5. /\ at \in SUBSET Nat /\ m + 1 \in at
        /\ \A i \in at : m + 1 <= i
    <2>1. /\ m + 1 \in 1 .. (m + 2 + n) - 1 /\ m + 1 \in 1 .. m + 2
          /\ m + 2 \in 1 .. m + 2 /\ (m + 1) + 1 = m + 2
      BY <1>2
    <2>2. ASSUME NEW i \in at, ~(m + 1 <= i)
          PROVE  FALSE
      <3>1. i \in 1 .. m /\ i \in 1 .. m + 2 /\ c[i] = CR
        BY <1>2, <1>4, <2>2
      <3>2. c[i] = line[i]
        BY <1>2, <1>4, <3>1
      <3> QED
        BY <3>1, <3>2
    <2>3. at \in SUBSET Nat /\ m + 1 \in at
      BY <1>2, <1>4, <2>1
    <2>4. \A i \in at : m + 1 <= i
      BY <2>2
    <2> QED
      BY <2>3, <2>4
  <1>6. FindCRLF(b) = m + 1
    <2>1. FindCRLF(b) = CHOOSE i \in at : \A j \in at : i <= j
      BY <1>5 DEF FindCRLF, c
    <2> HIDE DEF at
    <2>2. \A i \in at : (\A j \in at : i <= j) => i = m + 1
      BY <1>2, <1>5
    <2> QED
      BY <1>5, <2>1, <2>2
  <1>7. SubSeq(c, 1, m) = line
    <2>1. /\ end \o rest \in Texts /\ c = line \o (end \o rest)
      BY <1>1, <1>3, TextsConcat, TextsAssociate DEF whole
    <2> DEFINE more == end \o rest
    <2>2. more \in Texts /\ c = line \o more
      BY <2>1
    <2> HIDE DEF more
    <2> QED
      BY <2>2, PartsOfConcat DEF Texts
  <1>8. SubSeq(c, m + 3, m + 2 + n) = rest
    <2>1. SubSeq(whole \o rest, Len(whole) + 1, Len(whole) + Len(rest)) = rest
      BY <1>2, PartsOfConcat DEF Texts
    <2>2. Len(whole) + 1 = m + 3 /\ Len(whole) + Len(rest) = m + 2 + n
      BY <1>2
    <2> QED
      BY <1>3, <2>1, <2>2
  <1>9. Before(c, m + 1) = line
    <2>1. (m + 1) - 1 = m
      BY <1>2
    <2> QED
      BY <1>7, <2>1 DEF Before
  <1>10. /\ BufferOK(Retrieve(b, m + 2))
         /\ Content(Retrieve(b, m + 2)) = rest
    <2>1. m + 2 \in Nat /\ (m + 2) + 1 = m + 3
      BY <1>2
    <2>2. ReadableBytes(b) = m + 2 + n
      BY <1>4, ContentType DEF c
    <2> QED
      BY <1>8, <2>1, <2>2, RetrieveDrops DEF c
  <1>11. m + 1 # 0 /\ (m + 1) + 1 = m + 2
    BY <1>2
  <1> QED
    BY <1>6, <1>9, <1>10, <1>11 DEF c

-----------------------------------------------------------------------------
(***************************************************************************)
(* What the parser makes of a request: each segment of a well cut stream   *)
(* takes it from one line to a later one.                                  *)
(***************************************************************************)
(* A tuple that ends with a pair.                                          *)
LEMMA EndsWithPair ==
  /\ \A a, b, c, d : <<a, b>> \o <<c, d>> = <<a, b, c, d>>
  /\ \A a, b, c, d, e, f : <<a, b, c, d>> \o <<e, f>> = <<a, b, c, d, e, f>>
  <1>1. ASSUME NEW a, NEW b, NEW c, NEW d
        PROVE  <<a, b>> \o <<c, d>> = <<a, b, c, d>>
    <2> DEFINE S == {a, b, c, d}
               s == <<a, b>>
               t == <<c, d>>
               st == <<a, b, c, d>>
    <2>1. /\ s \in Seq(S) /\ t \in Seq(S) /\ st \in Seq(S)
          /\ Len(s) = 2 /\ Len(t) = 2 /\ Len(st) = 4
          /\ s[1] = st[1] /\ s[2] = st[2] /\ t[1] = st[3] /\ t[2] = st[4]
      OBVIOUS
    <2> HIDE DEF S, s, t, st
    <2>2. /\ s \o t \in Seq(S) /\ Len(s \o t) = Len(s) + Len(t)
          /\ \A i \in 1 .. Len(s) + Len(t) :
               (s \o t)[i] = IF i <= Len(s) THEN s[i] ELSE t[i - Len(s)]
      BY <2>1, ConcatProperties
    <2>3. \A i \in 1 .. 4 : (s \o t)[i] = st[i]
      BY <2>1, <2>2
    <2>4. s \o t = st
      BY <2>1, <2>2, <2>3, SeqEqual
    <2> QED
      BY <2>4 DEF s, t, st
  <1>2. ASSUME NEW a, NEW b, NEW c, NEW d, NEW e, NEW f
        PROVE  <<a, b, c, d>> \o <<e, f>> = <<a, b, c, d, e, f>>
    <2> DEFINE S == {a, b, c, d, e, f}
               s == <<a, b, c, d>>
               t == <<e, f>>
               st == <<a, b, c, d, e, f>>
    <2>1. /\ s \in Seq(S) /\ t \in Seq(S) /\ st \in Seq(S)
          /\ Len(s) = 4 /\ Len(t) = 2 /\ Len(st) = 6
          /\ s[1] = st[1] /\ s[2] = st[2] /\ s[3] = st[3] /\ s[4] = st[4]
          /\ t[1] = st[5] /\ t[2] = st[6]
      OBVIOUS
    <2> HIDE DEF S, s, t, st
    <2>2. /\ s \o t \in Seq(S) /\ Len(s \o t) = Len(s) + Len(t)
          /\ \A i \in 1 .. Len(s) + Len(t) :
               (s \o t)[i] = IF i <= Len(s) THEN s[i] ELSE t[i - Len(s)]
      BY <2>1, ConcatProperties
    <2>3. Len(s \o t) = Len(st)
          /\ \A i \in 1 .. Len(s \o t) : (s \o t)[i] = st[i]
      <3>1. Len(s \o t) = 6 /\ Len(st) = 6
        BY <2>1, <2>2
      <3>2. \A i \in 1 .. 4 : (s \o t)[i] = st[i]
        BY <2>1, <2>2
      <3>3. (s \o t)[5] = st[5] /\ (s \o t)[6] = st[6]
        BY <2>1, <2>2
      <3>4. \A i \in 1 .. 6 : i \in 1 .. 4 \/ i = 5 \/ i = 6
        OBVIOUS
      <3> QED
        BY <3>1, <3>2, <3>3, <3>4
    <2> DEFINE whole == s \o t
    <2>4. whole = st
      <3>1. /\ whole \in Seq(S) /\ st \in Seq(S) /\ Len(whole) = Len(st)
            /\ \A i \in 1 .. Len(whole) : whole[i] = st[i]
        BY <2>1, <2>2, <2>3
      <3> HIDE DEF whole
      <3> QED
        BY <3>1, SeqEqual
    <2> QED
      BY <2>4 DEF s, t, st, whole
  <1> QED
    BY <1>1, <1>2

(* A request line the parser refuses, and the tokens of header lines.      *)
BadVersion(u) == u.method \in Methods /\ u.version \notin Versions
WordTokens == {t \in Byte : Len(t) = 1}

(* A context that holds what a request says, up to its headers.            *)
Holds(c, u, State) ==
  /\ ContextOK(c) /\ c.State = State
  /\ c.path = IF u.method \in Methods THEN Page(u) ELSE <<>>
  /\ c.version = IF u.method \notin Methods THEN "UnKnown"
                 ELSE IF u.version = "HTTP/1.0" THEN "Http10" ELSE "Http11"
  /\ \A field \in DOMAIN c.Heads : c.Heads[field] \in Seq(WordTokens)

(* The texts of a request line.                                            *)
LEMMA RequestLineTexts ==
  ASSUME NEW u \in Requests, RequestLine(u) \in Texts
  PROVE  LET name == <<Text(u.method)>>
             number == <<Text(u.version)>>
             space == <<SP>>
             line == (name \o space) \o ((u.target \o space) \o number)
         IN /\ name \in Texts /\ number \in Texts /\ space \in Texts
            /\ line \in Texts /\ u.target \in Texts
            /\ RequestLine(u) = line \o <<CR, LF>>
            /\ \A i \in 1 .. Len(line) : line[i] # CR
            /\ \A i \in 1 .. Len(name) : name[i] # SP
            /\ \A i \in 1 .. Len(u.target) : u.target[i] # SP
  <1> DEFINE m == Text(u.method)
             v == Text(u.version)
             t == u.target
             n == Len(t)
             S == Byte \union {m, v, SP}
             name == <<m>>
             number == <<v>>
             space == <<SP>>
             end == <<CR, LF>>
             head == name \o space
             tail == space \o number
             first == head \o t
             line == first \o tail
  <1>1. /\ t \in Seq(Byte \ {SP, CR}) /\ m \notin {SP, CR} /\ v \notin {SP, CR}
    BY DEF Requests, Words
  <1>2. /\ t \in Seq(S) /\ t \in Texts /\ n \in Nat
        /\ \A i \in 1 .. n : t[i] \notin {SP, CR}
    BY <1>1 DEF Texts
  <1>3. /\ name \in Seq(S) /\ number \in Seq(S) /\ space \in Seq(S)
        /\ end \in Seq(S) /\ end \in Texts
    BY ByteAssumption DEF Texts
  <1>4. /\ head = <<m, SP>> /\ tail = <<SP, v>>
        /\ tail \o end = <<SP, v, CR, LF>>
    <2>1. head = <<m, SP>>
      BY PairIsConcat
    <2>2. tail = <<SP, v>>
      BY PairIsConcat
    <2>3. <<SP, v>> \o <<CR, LF>> = <<SP, v, CR, LF>>
      BY EndsWithPair
    <2> QED
      BY <2>1, <2>2, <2>3
  <1>5. /\ head \in Seq(S) /\ Len(head) = 2 /\ head[1] = m /\ head[2] = SP
        /\ tail \in Seq(S) /\ Len(tail) = 2 /\ tail[1] = SP /\ tail[2] = v
    BY <1>4
  <1>6. RequestLine(u) = first \o (tail \o end)
    BY <1>4 DEF RequestLine
  <1> HIDE DEF S, m, v, t, n, name, number, space, end, head, tail
  <1>7. /\ first \in Seq(S) /\ Len(first) = n + 2
        /\ first[1] = m /\ first[2] = SP
        /\ \A i \in 1 .. n + 2 : first[i] # CR
    <2>1. /\ first \in Seq(S) /\ Len(first) = Len(head) + n
          /\ \A i \in 1 .. Len(head) + n :
               first[i] = IF i <= Len(head) THEN head[i] ELSE t[i - Len(head)]
      BY <1>2, <1>5, ConcatProperties DEF n
    <2>2. SP # CR
      BY SeparatorsAssumption
    <2>3. ASSUME NEW i \in 1 .. n + 2
          PROVE  first[i] # CR
      <3>1. CASE i <= 2
        BY <1>1, <1>2, <1>5, <2>1, <2>2, <2>3, <3>1
      <3>2. CASE ~(i <= 2)
        <4>1. i - 2 \in 1 .. n
          BY <1>2, <2>3, <3>2
        <4>2. first[i] = t[i - 2]
          BY <1>2, <1>5, <2>1, <2>3, <3>2
        <4> QED
          BY <1>2, <4>1, <4>2
      <3> QED
        BY <3>1, <3>2
    <2> HIDE DEF first
    <2>4. 1 \in 1 .. 2 + n /\ 2 \in 1 .. 2 + n
      BY <1>2
    <2> QED
      BY <1>2, <1>5, <2>1, <2>3, <2>4
  <1> HIDE DEF first
  <1>8. /\ line \in Seq(S) /\ Len(line) = n + 4
        /\ line[1] = m /\ line[2] = SP /\ line[n + 4] = v
        /\ \A i \in 1 .. n + 4 : line[i] # CR
    <2>1. /\ line \in Seq(S) /\ Len(line) = Len(first) + Len(tail)
          /\ \A i \in 1 .. Len(first) + Len(tail) :
               line[i] = IF i <= Len(first) THEN first[i]
                         ELSE tail[i - Len(first)]
      BY <1>5, <1>7, ConcatProperties
    <2>2. SP # CR
      BY SeparatorsAssumption
    <2> HIDE DEF line
    <2>3. ASSUME NEW i \in 1 .. n + 4
          PROVE  line[i] # CR
      <3>1. CASE i <= n + 2
        BY <1>2, <1>5, <1>7, <2>1, <2>3, <3>1
      <3>2. CASE i = n + 3
        BY <1>2, <1>5, <1>7, <2>1, <2>2, <3>2
      <3>3. CASE i = n + 4
        BY <1>1, <1>2, <1>5, <1>7, <2>1, <3>3 DEF v
      <3> QED
        BY <1>2, <2>3, <3>1, <3>2, <3>3
    <2>4. /\ 1 \in 1 .. n + 4 /\ 2 \in 1 .. n + 4 /\ n + 4 \in 1 .. n + 4
          /\ (n + 4) - (n + 2) = 2 /\ ~(n + 4 <= n + 2)
      BY <1>2
    <2> QED
      BY <1>2, <1>5, <1>7, <2>1, <2>3, <2>4
  <1>9. RequestLine(u) = line \o end
    <2>1. (first \o tail) \o end = first \o (tail \o end)
      <3>1. first \in Seq(S) /\ tail \in Seq(S) /\ end \in Seq(S)
        BY <1>3, <1>5, <1>7
      <3> QED
        BY <3>1, ConcatAssociative
    <2> QED
      BY <1>6, <2>1, Zenon
  <1>10. m \in Byte /\ SP \in Byte /\ v \in Byte
    <2>1. /\ \A i \in 1 .. n + 4 : (line \o end)[i] = line[i]
          /\ Len(line \o end) = n + 4 + Len(end)
      <3>1. /\ Len(line \o end) = Len(line) + Len(end)
            /\ \A i \in 1 .. Len(line) + Len(end) :
                 (line \o end)[i] = IF i <= Len(line) THEN line[i]
                                    ELSE end[i - Len(line)]
        BY <1>3, <1>8, ConcatProperties
      <3>2. Len(end) \in Nat
        BY <1>3
      <3> HIDE DEF line
      <3> QED
        BY <1>2, <1>8, <3>1, <3>2
    <2>2. \A i \in 1 .. n + 4 : line[i] \in Byte
      <3>1. Len(end) \in Nat
        BY <1>3
      <3>2. \A i \in 1 .. n + 4 : i \in 1 .. n + 4 + Len(end)
        BY <1>2, <3>1
      <3> HIDE DEF line
      <3> QED
        BY <1>9, <2>1, <3>2 DEF Texts
    <2>3. 1 \in 1 .. n + 4 /\ 2 \in 1 .. n + 4 /\ n + 4 \in 1 .. n + 4
      BY <1>2
    <2> QED
      BY <1>8, <2>2, <2>3
  <1>11. /\ name \in Texts /\ number \in Texts /\ space \in Texts
         /\ Len(name) = 1 /\ name[1] = m
    BY <1>10 DEF Texts, name, number, space
  <1>12. line = head \o ((t \o space) \o number) /\ line \in Texts
    <2>1. head \in Texts /\ tail \in Texts /\ first \in Texts
      BY <1>2, <1>11, TextsConcat DEF head, tail, first
    <2>2. line = head \o (t \o tail)
      BY <1>2, <2>1, TextsAssociate DEF first
    <2>3. t \o tail = (t \o space) \o number
      BY <1>2, <1>11, TextsAssociate DEF tail
    <2> QED
      BY <2>1, <2>2, <2>3, TextsConcat
  <1>13. \A i \in 1 .. Len(name) : name[i] # SP
    BY <1>1, <1>11 DEF m
  <1> HIDE DEF line
  <1>14. /\ RequestLine(u) = (head \o ((t \o space) \o number)) \o end
         /\ head \o ((t \o space) \o number) \in Texts
         /\ \A i \in 1 .. Len(head \o ((t \o space) \o number)) :
              (head \o ((t \o space) \o number))[i] # CR
    BY <1>8, <1>9, <1>12
  <1> QED
    BY <1>2, <1>11, <1>13, <1>14
       DEF head, name, number, space, end, m, v, t, n

(* A character that is there is found.                                     *)
LEMMA Found ==
  ASSUME NEW text \in Texts, NEW i \in 1 .. Len(text)
  PROVE  FindIn(text, text[i]) # 0
  <1> DEFINE c == text[i]
             I == {k \in 1 .. Len(text) : text[k] = c}
  <1>1. FindIn(text, c) = IF I # {} THEN Min(I) ELSE 0
    BY DEF FindIn, SelectInSeq
  <1>2. i \in I /\ I \in SUBSET Nat /\ 0 \notin I
    BY DEF Texts
  <1> HIDE DEF I
  <1>3. Min(I) \in I
    BY <1>2, MinOfNaturals
  <1> HIDE DEF c
  <1>4. FindIn(text, c) # 0
    BY <1>1, <1>2, <1>3
  <1> QED
    BY <1>4 DEF c

(* The request line of a client: what ProcessRequestLine() takes of it.    *)
LEMMA RequestLineParsed ==
  ASSUME NEW u \in Requests,
         LET name == <<Text(u.method)>>
             number == <<Text(u.version)>>
             space == <<SP>>
         IN /\ name \in Texts /\ number \in Texts /\ space \in Texts
            /\ u.target \in Texts
            /\ \A i \in 1 .. Len(name) : name[i] # SP
            /\ \A i \in 1 .. Len(u.target) : u.target[i] # SP
  PROVE  LET name == <<Text(u.method)>>
             number == <<Text(u.version)>>
             space == <<SP>>
             line == (name \o space) \o ((u.target \o space) \o number)
             first == ProcessRequestLine(NewHttpContext, line)
         IN IF BadVersion(u)
            THEN ~first.ok /\ ~GetAll(first.context)
            ELSE /\ first.ok
                 /\ Holds([first.context EXCEPT !.State = "KExpectHeader"], u,
                          "KExpectHeader")
  <1> DEFINE name == <<Text(u.method)>>
             number == <<Text(u.version)>>
             space == <<SP>>
             rest == (u.target \o space) \o number
             line == (name \o space) \o rest
             c == NewHttpContext
             first == ProcessRequestLine(c, line)
             named == [c EXCEPT !.method = u.method]
             there == WithTarget(named, u.target)
  <1>1. /\ name \in Texts /\ number \in Texts /\ space \in Texts
        /\ u.target \in Texts /\ SP \in Byte /\ Len(name) = 1
        /\ \A i \in 1 .. Len(name) : name[i] # SP
        /\ \A i \in 1 .. Len(u.target) : u.target[i] # SP
    <2>1. /\ name \in Texts /\ number \in Texts /\ space \in Texts
          /\ u.target \in Texts /\ Len(name) = 1
          /\ \A i \in 1 .. Len(name) : name[i] # SP
          /\ \A i \in 1 .. Len(u.target) : u.target[i] # SP
      OBVIOUS
    <2>2. space[1] = SP /\ Len(space) = 1
      OBVIOUS
    <2>3. SP \in Byte
      BY <2>1, <2>2 DEF Texts
    <2> QED
      BY <2>1, <2>3
  <1>2. rest \in Texts
    BY <1>1, TextsConcat
  <1>3. ContextOK(c) /\ c.State = "KExpectRequestLine" /\ c.Heads = <<>>
        /\ c.version = "UnKnown" /\ c.path = <<>>
    BY NewContextOK DEF NewHttpContext
  <1>4. MethodOf(name) = IF u.method \in Methods THEN u.method ELSE "KInvalid"
    <2>1. \A m : name = <<Text(m)>> <=> m = u.method
      BY DEF Text
    <2> QED
      BY <2>1 DEF MethodOf
  <1>5. /\ FindIn(line, SP) = 2 /\ Before(line, 2) = name
        /\ After(line, 2) = rest
    <2> HIDE DEF rest, name
    <2>1. /\ FindIn(line, SP) = Len(name) + 1
          /\ Before(line, Len(name) + 1) = name
          /\ After(line, Len(name) + 1) = rest
      BY <1>1, <1>2, FindsFirst
    <2>2. Len(name) + 1 = 2
      BY <1>1
    <2> QED
      BY <2>1, <2>2
  <1>6. "KInvalid" \notin Methods
    BY DEF Methods
  <1> HIDE DEF line, name, rest
  <1> DEFINE space1 == FindIn(line, SP)
             method == MethodOf(Before(line, space1))
  <1>7. /\ space1 = 2 /\ After(line, space1) = rest
        /\ method = IF u.method \in Methods THEN u.method ELSE "KInvalid"
    BY <1>4, <1>5
  <1>8. first = IF space1 = 0 THEN [ok |-> TRUE, context |-> c]
                 ELSE IF method = "KInvalid"
                 THEN [ok |-> TRUE, context |-> [c EXCEPT !.method = method]]
                 ELSE WithRest([c EXCEPT !.method = method],
                               After(line, space1))
    BY DEF ProcessRequestLine
  <1> HIDE DEF space1, method
  <1>9. CASE u.method \notin Methods
    <2> DEFINE other == [c EXCEPT !.method = "KInvalid"]
    <2>1. first = [ok |-> TRUE, context |-> other]
      BY <1>7, <1>8, <1>9
    <2>2. ContextOK([other EXCEPT !.State = "KExpectHeader"])
      <3>1. ContextOK(other)
        BY <1>3, ContextUpdates
      <3> HIDE DEF other
      <3> QED
        BY <3>1, ContextUpdates
    <2>3. Holds([other EXCEPT !.State = "KExpectHeader"], u, "KExpectHeader")
      <3> DEFINE d == [other EXCEPT !.State = "KExpectHeader"]
      <3>1. /\ d.State = "KExpectHeader" /\ d.Heads = <<>>
            /\ d.version = "UnKnown" /\ d.path = <<>> /\ ContextOK(d)
        BY <2>2 DEF NewHttpContext
      <3>2. DOMAIN d.Heads = {}
        BY <3>1
      <3> HIDE DEF d
      <3>3. Holds(d, u, "KExpectHeader")
        BY <1>9, <3>1, <3>2 DEF Holds
      <3> QED
        BY <3>3 DEF d
    <2>4. ~BadVersion(u)
      BY <1>9 DEF BadVersion
    <2>5. first.ok /\ first.context = other
      BY <2>1
    <2> HIDE DEF first, other
    <2> QED
      BY <2>3, <2>4, <2>5 DEF first, line, name, rest
  <1>10. CASE u.method \in Methods
    <2> HIDE DEF c
    <2>1. first = WithRest(named, rest)
      BY <1>6, <1>7, <1>8, <1>10
    <2>2. /\ FindIn(rest, SP) = Len(u.target) + 1
          /\ Before(rest, Len(u.target) + 1) = u.target
          /\ After(rest, Len(u.target) + 1) = number
      <3> HIDE DEF number
      <3> QED
        BY <1>1, FindsFirst DEF rest
    <2>3. first = WithVersion(there, number)
      <3> HIDE DEF rest, number, named
      <3> QED
        BY <2>1, <2>2 DEF WithRest
    <2>4. ContextOK(named)
      BY <1>3, <1>10, ContextUpdates
    <2>5. /\ ContextOK(there) /\ there.State = "KExpectRequestLine"
          /\ there.Heads = <<>> /\ there.path = Page(u)
      <3>1. ContextOK(there)
        <4> HIDE DEF named
        <4> QED
          BY <1>1, <2>4, TargetOK
      <3> DEFINE q == FindIn(u.target, QMARK)
      <3>2. CASE q = 0
        <4>1. there = [named EXCEPT !.path = u.target] /\ Page(u) = u.target
          BY <3>2 DEF WithTarget, Page
        <4> QED
          BY <1>3, <3>1, <4>1 DEF c, NewHttpContext
      <3>3. CASE q # 0
        <4>1. /\ there = [named EXCEPT !.path = Before(u.target, q),
                            !.query = SubSeq(u.target, q, Len(u.target))]
              /\ Page(u) = Before(u.target, q)
          BY <3>3 DEF WithTarget, Page
        <4> HIDE DEF q
        <4> QED
          BY <1>3, <3>1, <4>1 DEF c, NewHttpContext
      <3> QED
        BY <3>2, <3>3
    <2> HIDE DEF there
    <2>6. /\ number = <<Text("HTTP/1.0")>> <=> u.version = "HTTP/1.0"
          /\ number = <<Text("HTTP/1.1")>> <=> u.version = "HTTP/1.1"
      BY DEF Text
    <2> HIDE DEF number, first
    <2>7. ASSUME NEW version \in {"Http10", "Http11"},
                 first = [ok |-> TRUE,
                          context |-> [there EXCEPT !.version = version]],
                 u.version \in Versions,
                 version = IF u.version = "HTTP/1.0" THEN "Http10"
                           ELSE "Http11"
          PROVE  IF BadVersion(u) THEN ~first.ok /\ ~GetAll(first.context)
                 ELSE /\ first.ok
                      /\ Holds([first.context EXCEPT
                                  !.State = "KExpectHeader"], u,
                               "KExpectHeader")
      <3> DEFINE d == [there EXCEPT !.version = version]
                 e == [d EXCEPT !.State = "KExpectHeader"]
      <3>1. ContextOK(d)
        BY <2>5, ContextUpdates
      <3>2. ContextOK(e)
        <4> HIDE DEF d
        <4> QED
          BY <3>1, ContextUpdates
      <3>3. /\ e.State = "KExpectHeader" /\ e.path = Page(u)
            /\ e.version = version /\ DOMAIN e.Heads = {}
        BY <2>5 DEF ContextOK
      <3>4. first.ok /\ first.context = d /\ ~BadVersion(u)
        BY <2>7 DEF BadVersion
      <3> HIDE DEF e
      <3>5. Holds(e, u, "KExpectHeader")
        BY <1>10, <2>7, <3>2, <3>3 DEF Holds
      <3> HIDE DEF d
      <3> QED
        BY <3>4, <3>5 DEF e
    <2>8. CASE u.version = "HTTP/1.0"
      <3>1. /\ first = [ok |-> TRUE,
                        context |-> [there EXCEPT !.version = "Http10"]]
            /\ u.version \in Versions
        BY <2>3, <2>6, <2>8 DEF WithVersion, Versions
      <3>2. "Http10" = IF u.version = "HTTP/1.0" THEN "Http10" ELSE "Http11"
        BY <2>8
      <3> QED
        BY <2>7, <3>1, <3>2 DEF first, line, name, number, c, rest
    <2>9. CASE u.version = "HTTP/1.1"
      <3>1. /\ first = [ok |-> TRUE,
                        context |-> [there EXCEPT !.version = "Http11"]]
            /\ u.version \in Versions
        BY <2>3, <2>6, <2>9 DEF WithVersion, Versions
      <3>2. "Http11" = IF u.version = "HTTP/1.0" THEN "Http10" ELSE "Http11"
        BY <2>9
      <3> QED
        BY <2>7, <3>1, <3>2 DEF first, line, name, number, c, rest
    <2>10. CASE u.version \notin Versions
      <3>1. first = [ok |-> FALSE, context |-> there]
        BY <2>3, <2>6, <2>10 DEF WithVersion, Versions
      <3>2. ~first.ok /\ first.context = there /\ BadVersion(u)
        BY <1>10, <2>10, <3>1 DEF BadVersion
      <3>3. ~GetAll(first.context)
        BY <2>5, <3>2 DEF GetAll
      <3> QED
        BY <3>2, <3>3 DEF first, line, name, number, c, rest
    <2> QED
      BY <2>8, <2>9, <2>10 DEF Versions
  <1> QED
    BY <1>9, <1>10

(* A round with a request line.                                            *)
LEMMA RequestLineRead ==
  ASSUME NEW p \in ParseStates, p.context = NewHttpContext,
         NEW u \in Requests, RequestLine(u) \in Texts, NEW rest \in Texts,
         Content(p.buf) = RequestLine(u) \o rest
  PROVE  LET q == Round(p, Content(p.buf), FindCRLF(p.buf))
         IN IF BadVersion(u) THEN ~q.ok /\ ~q.More /\ ~GetAll(q.context)
            ELSE /\ q.ok = p.ok /\ q.More = p.More
                 /\ Holds(q.context, u, "KExpectHeader")
                 /\ Content(q.buf) = rest
  <1> DEFINE name == <<Text(u.method)>>
             number == <<Text(u.version)>>
             space == <<SP>>
             line == (name \o space) \o ((u.target \o space) \o number)
             first == ProcessRequestLine(NewHttpContext, line)
             content == Content(p.buf)
             crlf == FindCRLF(p.buf)
             q == Round(p, content, crlf)
             left == Retrieve(p.buf, crlf + 1)
  <1>1. /\ name \in Texts /\ number \in Texts /\ space \in Texts
        /\ line \in Texts /\ u.target \in Texts
        /\ RequestLine(u) = line \o <<CR, LF>>
        /\ \A i \in 1 .. Len(line) : line[i] # CR
        /\ \A i \in 1 .. Len(name) : name[i] # SP
        /\ \A i \in 1 .. Len(u.target) : u.target[i] # SP
    BY RequestLineTexts
  <1>2. IF BadVersion(u) THEN ~first.ok /\ ~GetAll(first.context)
        ELSE /\ first.ok
             /\ Holds([first.context EXCEPT !.State = "KExpectHeader"], u,
                      "KExpectHeader")
    BY <1>1, RequestLineParsed
  <1>3. BufferOK(p.buf)
    BY DEF ParseStates
  <1> HIDE DEF line
  <1>4. /\ crlf # 0 /\ Before(content, crlf) = line /\ Content(left) = rest
    <2>1. Content(p.buf) = (line \o <<CR, LF>>) \o rest
      BY <1>1
    <2>2. line \in Texts /\ \A i \in 1 .. Len(line) : line[i] # CR
      BY <1>1
    <2> QED
      BY <1>3, <2>1, <2>2, LineSplits
  <1>5. p.context.State = "KExpectRequestLine"
    BY DEF NewHttpContext
  <1> HIDE DEF content, crlf, left
  <1>6. q = RequestLineRound(p, first, crlf)
    BY <1>4, <1>5 DEF Round
  <1> HIDE DEF first
  <1>7. CASE BadVersion(u)
    <2>1. ~first.ok /\ ~GetAll(first.context)
      BY <1>2, <1>7
    <2>2. q = [p EXCEPT !.More = FALSE, !.ok = FALSE,
                        !.context = first.context]
      BY <1>6, <2>1 DEF RequestLineRound
    <2>3. ~q.ok /\ ~q.More /\ q.context = first.context
      BY <2>2 DEF ParseStates
    <2> HIDE DEF q
    <2>4. ~q.ok /\ ~q.More /\ ~GetAll(q.context)
      BY <2>1, <2>3
    <2> QED
      BY <1>7, <2>4 DEF q, content, crlf
  <1>8. CASE ~BadVersion(u)
    <2> DEFINE next == [first.context EXCEPT !.State = "KExpectHeader"]
    <2>1. first.ok /\ Holds(next, u, "KExpectHeader")
      BY <1>2, <1>8
    <2>2. q = [p EXCEPT !.buf = left, !.context = next]
      BY <1>6, <2>1 DEF RequestLineRound, left
    <2> HIDE DEF next
    <2>3. /\ q.ok = p.ok /\ q.More = p.More /\ q.buf = left
          /\ q.context = next
      BY <2>2 DEF ParseStates
    <2> HIDE DEF q
    <2>4. /\ q.ok = p.ok /\ q.More = p.More
          /\ Holds(q.context, u, "KExpectHeader") /\ Content(q.buf) = rest
      BY <1>4, <2>1, <2>3
    <2> QED
      BY <1>8, <2>4 DEF q, content, crlf
  <1> QED
    BY <1>7, <1>8

(* The last token of a line that is not a space, from a colon on.          *)
LEMMA LastToken ==
  ASSUME NEW line \in Texts, NEW colon \in 1 .. Len(line), line[colon] = COLON
  PROVE  (CHOOSE i \in colon .. Len(line) :
            /\ line[i] # SP
            /\ \A j \in i + 1 .. Len(line) : line[j] = SP)
           \in colon .. Len(line)
  <1> DEFINE Ends(i) == /\ line[i] # SP
                        /\ \A j \in i + 1 .. Len(line) : line[j] = SP
             n == Len(line)
  <1>1. n \in Nat
    BY DEF Texts
  <1>2. \E i \in colon .. n : Ends(i)
    <2> DEFINE I == {k \in Nat : n - k \in colon .. n /\ line[n - k] # SP}
    <2>1. n - colon \in I
      <3>1. n - (n - colon) = colon /\ n - colon \in Nat
        BY <1>1
      <3>2. COLON # SP
        BY DEF COLON, SP, Text
      <3> QED
        BY <1>1, <3>1, <3>2
    <2>2. PICK k \in I : \A m \in I : k <= m
      <3> HIDE DEF I
      <3>1. I \in SUBSET Nat
        BY DEF I
      <3> QED
        BY <2>1, <3>1, MinOfNaturals
    <2>3. \A j \in (n - k) + 1 .. n : line[j] = SP
      <3> SUFFICES ASSUME NEW j \in (n - k) + 1 .. n, line[j] # SP
                   PROVE  FALSE
        OBVIOUS
      <3>1. n - j \in Nat /\ n - (n - j) = j /\ j \in colon .. n
        BY <1>1
      <3>2. n - j \in I /\ n - j < k
        BY <1>1, <3>1
      <3> QED
        BY <1>1, <2>2, <3>2
    <2> QED
      BY <2>2, <2>3
  <1> QED
    BY <1>2

(* A header line: its texts.                                               *)
LEMMA HeaderLineTexts ==
  ASSUME NEW h \in Words \X Words, HeaderLine(h) \in Texts
  PROVE  LET line == <<Text(h[1]), COLON, SP, Text(h[2])>>
         IN /\ line \in Seq(WordTokens) /\ Len(line) = 4 /\ line[2] = COLON
            /\ HeaderLine(h) = line \o <<CR, LF>>
            /\ \A i \in 1 .. Len(line) : line[i] # CR
  <1> DEFINE line == <<Text(h[1]), COLON, SP, Text(h[2])>>
             a == Text(h[1])
             b == Text(h[2])
             whole == HeaderLine(h)
  <1>1. h[1] \in Words /\ h[2] \in Words
    OBVIOUS
  <1>2. a # CR /\ b # CR /\ COLON # CR /\ SP # CR
    BY <1>1, SeparatorsAssumption DEF Words
  <1>3. whole = line \o <<CR, LF>>
    BY EndsWithPair DEF HeaderLine
  <1>4. Len(whole) = 6 /\ whole[1] = a /\ whole[2] = COLON /\ whole[3] = SP
        /\ whole[4] = b
    BY DEF HeaderLine
  <1>5. Len(a) = 1 /\ Len(b) = 1 /\ Len(COLON) = 1 /\ Len(SP) = 1
    BY DEF Text, COLON, SP
  <1> HIDE DEF whole, a, b
  <1>6. \A i \in 1 .. 4 : whole[i] \in Byte
    <2>1. \A i \in 1 .. 4 : i \in 1 .. Len(whole)
      BY <1>4
    <2> QED
      BY <2>1 DEF Texts, whole
  <1>7. /\ a \in WordTokens /\ b \in WordTokens /\ COLON \in WordTokens
        /\ SP \in WordTokens
    BY <1>4, <1>5, <1>6 DEF WordTokens
  <1>8. line = <<a, COLON, SP, b>>
    BY DEF a, b
  <1>9. line \in Seq(WordTokens) /\ Len(line) = 4 /\ line[2] = COLON
    BY <1>7, <1>8
  <1>10. \A i \in 1 .. Len(line) : line[i] # CR
    BY <1>2, <1>8
  <1> HIDE DEF line
  <1> QED
    BY <1>3, <1>9, <1>10 DEF line, whole

(* A round with a header line: the context keeps what it has of the        *)
(* request line.                                                           *)
LEMMA HeaderRead ==
  ASSUME NEW p \in ParseStates, NEW u, Holds(p.context, u, "KExpectHeader"),
         NEW h \in Words \X Words, HeaderLine(h) \in Texts,
         NEW rest \in Texts, Content(p.buf) = HeaderLine(h) \o rest
  PROVE  LET q == Round(p, Content(p.buf), FindCRLF(p.buf))
         IN /\ q.ok = p.ok /\ q.More = p.More
            /\ Holds(q.context, u, "KExpectHeader")
            /\ Content(q.buf) = rest
  <1> DEFINE line == <<Text(h[1]), COLON, SP, Text(h[2])>>
             content == Content(p.buf)
             crlf == FindCRLF(p.buf)
             q == Round(p, content, crlf)
             left == Retrieve(p.buf, crlf + 1)
             c == p.context
             colon == FindIn(line, COLON)
             next == AddHeader(c, line, colon)
  <1>1. /\ line \in Seq(WordTokens) /\ Len(line) = 4 /\ line[2] = COLON
        /\ HeaderLine(h) = line \o <<CR, LF>>
        /\ \A i \in 1 .. Len(line) : line[i] # CR
    BY HeaderLineTexts
  <1>2. BufferOK(p.buf) /\ ContextOK(c) /\ c.State = "KExpectHeader"
    BY DEF ParseStates, Holds
  <1> HIDE DEF line
  <1>3. line \in Texts
    BY <1>1 DEF Texts, WordTokens
  <1>4. crlf # 0 /\ Before(content, crlf) = line /\ Content(left) = rest
    <2> DEFINE b == p.buf
    <2>1. Content(b) = (line \o <<CR, LF>>) \o rest
      BY <1>1
    <2>2. \A i \in 1 .. Len(line) : line[i] # CR
      BY <1>1
    <2>3. BufferOK(b)
      BY <1>2
    <2> HIDE DEF b
    <2>4. /\ FindCRLF(b) # 0 /\ Before(Content(b), FindCRLF(b)) = line
          /\ Content(Retrieve(b, FindCRLF(b) + 1)) = rest
      BY <1>3, <2>1, <2>2, <2>3, LineSplits
    <2> QED
      BY <2>4 DEF b
  <1>5. colon \in 1 .. 4 /\ line[colon] = COLON
    <2>1. colon \in 0 .. Len(line) /\ (colon # 0 => line[colon] = COLON)
      BY <1>3, PlaceOf
    <2>2. 2 \in 1 .. Len(line)
      BY <1>1
    <2>3. colon # 0
      BY <1>1, <1>3, <2>2, Found
    <2> HIDE DEF colon
    <2> QED
      BY <1>1, <2>1, <2>3
  <1> HIDE DEF content, crlf, left, colon
  <1>6. q = [p EXCEPT !.buf = left, !.context = next]
    <2>1. q = HeaderRound(p, line, crlf)
      BY <1>2, <1>4 DEF Round
    <2>2. colon # 0
      BY <1>5
    <2>3. HeaderRound(p, line, crlf) =
            [p EXCEPT !.buf = Retrieve(p.buf, crlf + 1),
                      !.context = IF colon # 0
                                  THEN AddHeader(p.context, line, colon)
                                  ELSE [p.context EXCEPT
                                          !.State = "KExpectBody"]]
      BY DEF HeaderRound, colon, ParseStates
    <2> QED
      BY <2>1, <2>2, <2>3 DEF left
  <1> DEFINE last == CHOOSE i \in colon .. Len(line) :
                       /\ line[i] # SP
                       /\ \A j \in i + 1 .. Len(line) : line[j] = SP
             field == Before(line, colon)
             value == SubSeq(line, colon, last)
             heads == [f \in DOMAIN c.Heads \union {field} |->
                         IF f = field THEN value ELSE c.Heads[f]]
  <1>7. colon \in 1 .. Len(line)
    BY <1>1, <1>5
  <1>8. last \in colon .. 4
    <2>1. last \in colon .. Len(line)
      BY <1>3, <1>5, <1>7, LastToken
    <2> QED
      BY <1>1, <2>1
  <1>9. next = [c EXCEPT !.Heads = heads]
    BY DEF AddHeader
  <1> HIDE DEF last
  <1>10. value \in Seq(WordTokens)
    <2>1. colon \in Nat \ {0} /\ last \in Int /\ last <= Len(line)
      BY <1>1, <1>5, <1>8
    <2> QED
      BY <1>1, <2>1, SubSeqType
  <1>11. ContextOK(next)
    BY <1>2, <1>3, <1>5, <1>7, HeaderOK
  <1> HIDE DEF field, value
  <1>12. \A f \in DOMAIN heads : heads[f] \in Seq(WordTokens)
    BY <1>10 DEF Holds
  <1> HIDE DEF heads
  <1>13. /\ next.Heads = heads /\ next.State = c.State
         /\ next.path = c.path /\ next.version = c.version
    BY <1>2, <1>9 DEF ContextOK
  <1> HIDE DEF next
  <1>14. Holds(next, u, "KExpectHeader")
    BY <1>11, <1>12, <1>13 DEF Holds
  <1>15. /\ q.ok = p.ok /\ q.More = p.More /\ q.buf = left
         /\ q.context = next
    BY <1>6 DEF ParseStates
  <1> HIDE DEF q, c
  <1>16. /\ q.ok = p.ok /\ q.More = p.More
         /\ Holds(q.context, u, "KExpectHeader") /\ Content(q.buf) = rest
    BY <1>4, <1>14, <1>15
  <1> QED
    BY <1>16 DEF q, content, crlf

(* The blank line: the body follows.                                       *)
LEMMA BlankRead ==
  ASSUME NEW p \in ParseStates, NEW u, Holds(p.context, u, "KExpectHeader"),
         NEW body \in Texts, Content(p.buf) = <<CR, LF>> \o body
  PROVE  LET q == Round(p, Content(p.buf), FindCRLF(p.buf))
         IN /\ q.ok = p.ok /\ q.More = p.More
            /\ Holds(q.context, u, "KExpectBody")
  <1> DEFINE line == <<>>
             end == <<CR, LF>>
             content == Content(p.buf)
             crlf == FindCRLF(p.buf)
             q == Round(p, content, crlf)
             left == Retrieve(p.buf, crlf + 1)
             c == p.context
             next == [c EXCEPT !.State = "KExpectBody"]
  <1>1. line \in Texts /\ Len(line) = 0 /\ end \in Texts
    BY ByteAssumption DEF Texts
  <1>2. BufferOK(p.buf) /\ ContextOK(c) /\ c.State = "KExpectHeader"
    BY DEF ParseStates, Holds
  <1> HIDE DEF end
  <1>3. line \o end = end
    BY <1>1, ConcatEmptySeq DEF Texts
  <1> HIDE DEF line
  <1>4. Content(p.buf) = (line \o <<CR, LF>>) \o body
    BY <1>3 DEF end
  <1>5. \A i \in 1 .. Len(line) : line[i] # CR
    BY <1>1
  <1>6. crlf # 0 /\ Before(content, crlf) = line
    BY <1>1, <1>2, <1>4, <1>5, LineSplits
  <1>7. FindIn(line, COLON) = 0
    <2>1. FindIn(line, COLON) \in 0 .. Len(line)
      BY <1>1, PlaceOf
    <2> QED
      BY <1>1, <2>1
  <1> HIDE DEF content, crlf
  <1>8. q = [p EXCEPT !.buf = left, !.context = next]
    BY <1>2, <1>6, <1>7 DEF Round, HeaderRound, left, ParseStates
  <1>9. ContextOK(next)
    BY <1>2, ContextUpdates
  <1>10. /\ next.Heads = c.Heads /\ next.State = "KExpectBody"
         /\ next.path = c.path /\ next.version = c.version
    BY <1>2 DEF ContextOK
  <1> HIDE DEF next
  <1>11. Holds(next, u, "KExpectBody")
    BY <1>9, <1>10 DEF Holds
  <1>12. q.ok = p.ok /\ q.More = p.More /\ q.context = next
    BY <1>8 DEF ParseStates
  <1> HIDE DEF q, c
  <1>13. q.ok = p.ok /\ q.More = p.More /\ Holds(q.context, u, "KExpectBody")
    BY <1>11, <1>12
  <1> QED
    BY <1>13 DEF q, content, crlf

(* The round that takes what is left as the body.                          *)
LEMMA BodyRead ==
  ASSUME NEW p \in ParseStates, NEW u, Holds(p.context, u, "KExpectBody")
  PROVE  LET q == Round(p, Content(p.buf), FindCRLF(p.buf))
         IN q.ok = p.ok /\ ~q.More /\ Holds(q.context, u, "KGotAll")
  <1> DEFINE content == Content(p.buf)
             crlf == FindCRLF(p.buf)
             q == Round(p, content, crlf)
             c == p.context
             query == IF content # <<>> THEN content ELSE c.query
             got == [c EXCEPT !.State = "KGotAll"]
             next == [got EXCEPT !.query = query]
  <1>1. BufferOK(p.buf) /\ ContextOK(c) /\ c.State = "KExpectBody"
    BY DEF ParseStates, Holds
  <1>2. query \in Texts
    BY <1>1, ContentType DEF ContextOK, Texts
  <1>3. q = [p EXCEPT !.More = FALSE, !.context = next]
    BY <1>1 DEF Round, BodyRound, ParseStates, Contexts
  <1> HIDE DEF query, content, crlf
  <1>4. ContextOK(got)
    BY <1>1, ContextUpdates
  <1>5. /\ got.Heads = c.Heads /\ got.State = "KGotAll"
        /\ got.path = c.path /\ got.version = c.version
    BY <1>1 DEF ContextOK
  <1> HIDE DEF got
  <1>6. ContextOK(next)
    BY <1>2, <1>4, ContextUpdates
  <1>7. /\ next.Heads = c.Heads /\ next.State = "KGotAll"
        /\ next.path = c.path /\ next.version = c.version
    BY <1>4, <1>5 DEF ContextOK
  <1> HIDE DEF next
  <1>8. Holds(next, u, "KGotAll")
    BY <1>6, <1>7 DEF Holds
  <1>9. q.ok = p.ok /\ ~q.More /\ q.context = next
    BY <1>3 DEF ParseStates
  <1> HIDE DEF q, c
  <1>10. q.ok = p.ok /\ ~q.More /\ Holds(q.context, u, "KGotAll")
    BY <1>8, <1>9
  <1> QED
    BY <1>10 DEF q, content, crlf

(* Nothing is left, and a header is expected: the parser stops.            *)
LEMMA NothingRead ==
  ASSUME NEW p \in ParseStates, p.context.State = "KExpectHeader",
         Content(p.buf) = <<>>
  PROVE  Round(p, Content(p.buf), FindCRLF(p.buf)) = [p EXCEPT !.More = FALSE]
  <1>1. FindCRLF(p.buf) = 0
    <2>1. FindCRLF(p.buf) \in 0 .. Len(Content(p.buf))
      BY CRLFPlace DEF ParseStates
    <2> QED
      BY <2>1
  <1> QED
    BY <1>1 DEF Round

(* Once a round has stopped the parser the rest of them changes nothing.   *)
LEMMA ParseStops ==
  ASSUME NEW c, NEW buf, NEW rounds, Rounds(rounds, c, buf),
         NEW m \in Nat, ~rounds[m].More,
         ReadableBytes(buf) \in Nat, m <= ReadableBytes(buf) + 2
  PROVE  ParseBuffer(c, buf) = rounds[m]
  <1> DEFINE T == {k \in Nat : rounds[m + k] = rounds[m]}
             n == ReadableBytes(buf) + 2
  <1>1. 0 \in T
    OBVIOUS
  <1>2. ASSUME NEW k \in Nat, k \in T
        PROVE  k + 1 \in T
    <2>1. m + k \in Nat /\ m + (k + 1) = (m + k) + 1
      OBVIOUS
    <2>2. rounds[m + k] = rounds[m]
      BY <1>2
    <2>3. rounds[(m + k) + 1] = rounds[m + k]
      BY <2>1, <2>2 DEF Rounds
    <2> QED
      BY <2>1, <2>2, <2>3
  <1>3. Nat \subseteq T
    <2> HIDE DEF T
    <2> QED
      BY <1>1, <1>2, SetInduction
  <1>4. n - m \in Nat /\ m + (n - m) = n
    OBVIOUS
  <1>5. rounds[n] = rounds[m]
    <2>1. n - m \in T
      BY <1>3, <1>4
    <2> QED
      BY <1>4, <2>1
  <1> QED
    BY <1>5 DEF Rounds

(* What is between the ends of two sequences of a concatenation.           *)
Part(seqs, i, j) ==
  SubSeq(FlattenSeq(seqs), EndOf(seqs, i) + 1, EndOf(seqs, j))

(* The ends of sequences that are not empty leave room for each.           *)
LEMMA EndsSpread ==
  ASSUME NEW S, NEW seqs \in Seq(Seq(S)),
         \A i \in 1 .. Len(seqs) : seqs[i] # <<>>,
         NEW i \in 0 .. Len(seqs), NEW j \in i .. Len(seqs)
  PROVE  EndOf(seqs, i) + (j - i) <= EndOf(seqs, j)
  <1> DEFINE n == Len(seqs)
             e == [k \in 0 .. n |-> EndOf(seqs, k)]
             T == {k \in Nat : i + k <= n => e[i] + k <= e[i + k]}
  <1>1. n \in Nat
    OBVIOUS
  <1>2. /\ \A k \in 0 .. n : e[k] \in Nat
        /\ \A k \in Nat : k + 1 <= n => e[k] < e[k + 1]
    <2>1. /\ \A k \in 0 .. n : EndOf(seqs, k) \in Nat
          /\ \A k, m \in 0 .. n : k < m => EndOf(seqs, k) < EndOf(seqs, m)
      BY EndsIncrease
    <2>2. \A k \in Nat : k + 1 <= n =>
            k \in 0 .. n /\ k + 1 \in 0 .. n /\ k < k + 1
      BY <1>1
    <2> HIDE DEF n
    <2> QED
      BY <2>1, <2>2
  <1> HIDE DEF e, n
  <1>3. i \in 0 .. n /\ j \in i .. n
    BY DEF n
  <1>4. 0 \in T
    BY <1>1, <1>2, <1>3
  <1>5. ASSUME NEW k \in Nat, k \in T
        PROVE  k + 1 \in T
    <2>1. ASSUME i + (k + 1) <= n
          PROVE  e[i] + (k + 1) <= e[i + (k + 1)]
      <3>1. /\ i + k \in Nat /\ i + k <= n /\ (i + k) + 1 = i + (k + 1)
            /\ i + k \in 0 .. n /\ i + (k + 1) \in 0 .. n
        BY <1>1, <1>3, <2>1
      <3>2. e[i + k] < e[i + (k + 1)] /\ e[i] + k <= e[i + k]
        BY <1>2, <1>5, <2>1, <3>1
      <3>3. e[i] \in Nat /\ e[i + k] \in Nat /\ e[i + (k + 1)] \in Nat
        BY <1>2, <1>3, <3>1
      <3> QED
        BY <3>2, <3>3
    <2> QED
      BY <2>1
  <1>6. j - i \in T
    <2> HIDE DEF T
    <2>1. Nat \subseteq T
      BY <1>4, <1>5, SetInduction
    <2> QED
      BY <1>1, <1>3, <2>1
  <1>7. i + (j - i) = j /\ i \in 0 .. n /\ j \in 0 .. n
    BY <1>1, <1>3
  <1>8. e[i] + (j - i) <= e[j]
    BY <1>1, <1>3, <1>6, <1>7
  <1> QED
    BY <1>7, <1>8 DEF e

(* Of such a part: its length, and its first sequence.                     *)
LEMMA PartSplits ==
  ASSUME NEW S, NEW seqs \in Seq(Seq(S)),
         \A i \in 1 .. Len(seqs) : seqs[i] # <<>>,
         NEW i \in 0 .. Len(seqs), NEW j \in i .. Len(seqs)
  PROVE  /\ Part(seqs, i, j) \in Seq(S)
         /\ Len(Part(seqs, i, j)) = EndOf(seqs, j) - EndOf(seqs, i)
         /\ j - i <= Len(Part(seqs, i, j))
         /\ i = j => Part(seqs, i, j) = <<>>
         /\ i < j => Part(seqs, i, j) = seqs[i + 1] \o Part(seqs, i + 1, j)
  <1> DEFINE n == Len(seqs)
             s == FlattenSeq(seqs)
             E(k) == EndOf(seqs, k)
  <1>1. n \in Nat /\ s \in Seq(S) /\ Len(s) \in Nat /\ Len(s) = E(n)
    BY FlattenType, FirstAndLastEnd
  <1>2. /\ \A k \in 0 .. n : E(k) \in Nat
        /\ \A k, m \in 0 .. n : k < m => E(k) < E(m)
    BY EndsIncrease
  <1>3. E(i) + (j - i) <= E(j)
    BY EndsSpread
  <1>4. E(i) <= E(j) /\ E(j) <= Len(s) /\ E(i) \in Nat /\ E(j) \in Nat
    <2>1. i \in 0 .. n /\ j \in 0 .. n /\ n \in 0 .. n
          /\ (i < j \/ i = j) /\ (j < n \/ j = n)
      BY <1>1
    <2> HIDE DEF n, s, E
    <2>2. E(i) \in Nat /\ E(j) \in Nat /\ E(n) \in Nat
      BY <1>2, <2>1
    <2> QED
      BY <1>1, <1>2, <2>1, <2>2
  <1> DEFINE part == SubSeq(s, E(i) + 1, E(j))
  <1>5. part \in Seq(S) /\ Len(part) = E(j) - E(i)
    <2> HIDE DEF s, E
    <2>1. \A k \in E(i) + 1 .. E(j) : s[k] \in S
      <3>1. \A k \in E(i) + 1 .. E(j) : k \in 1 .. Len(s)
        BY <1>1, <1>4
      <3> QED
        BY <1>1, <3>1
    <2>2. /\ E(i) + 1 \in Int /\ E(j) \in Int
          /\ E(j) - (E(i) + 1) + 1 = E(j) - E(i)
          /\ (~(E(i) + 1 <= E(j)) => E(j) - E(i) = 0)
      BY <1>4
    <2>3. /\ part \in Seq(S)
          /\ Len(part) = IF E(i) + 1 <= E(j) THEN E(j) - (E(i) + 1) + 1 ELSE 0
      BY <2>1, <2>2, SubSeqProperties
    <2> QED
      BY <2>2, <2>3
  <1>6. i = j => part = <<>>
    <2> HIDE DEF s, E
    <2>1. i = j => Len(part) = 0
      BY <1>4, <1>5
    <2> QED
      BY <1>5, <2>1, EmptySeq
  <1>7. ASSUME i < j
        PROVE  part = seqs[i + 1] \o SubSeq(s, E(i + 1) + 1, E(j))
    <2>1. /\ i + 1 \in 1 .. n /\ (i + 1) - 1 = i /\ i + 1 \in 0 .. n
          /\ j \in 0 .. n /\ i \in 0 .. n /\ i < i + 1
          /\ (i + 1 < j \/ i + 1 = j)
      BY <1>1, <1>7
    <2>2. SubSeq(s, E(i) + 1, E(i + 1)) = seqs[i + 1]
      <3>1. SubSeq(FlattenSeq(seqs), EndOf(seqs, (i + 1) - 1) + 1,
                   EndOf(seqs, i + 1)) = seqs[i + 1]
        BY <2>1, PartOfFlatten
      <3> QED
        BY <2>1, <3>1
    <2> HIDE DEF s, E, n
    <2>3. E(i + 1) \in Nat /\ E(i) < E(i + 1) /\ E(i + 1) <= E(j)
      BY <1>2, <1>4, <2>1
    <2>4. /\ E(i) + 1 \in 1 .. Len(s) + 1
          /\ E(i + 1) \in (E(i) + 1) - 1 .. Len(s)
          /\ E(j) \in E(i + 1) .. Len(s)
      BY <1>1, <1>4, <2>3
    <2>5. SubSeq(s, E(i) + 1, E(i + 1)) \o SubSeq(s, E(i + 1) + 1, E(j))
            = SubSeq(s, E(i) + 1, E(j))
      BY <1>1, <2>4, ConcatAdjacentSubSeq
    <2> QED
      BY <2>2, <2>5
  <1>8. j - i <= Len(part)
    <2> HIDE DEF s, E, part
    <2>1. i \in Nat /\ j \in Nat
      BY <1>1
    <2> QED
      BY <1>3, <1>4, <1>5, <2>1
  <1> QED
    BY <1>5, <1>6, <1>7, <1>8 DEF Part

(* The chunks of a request, none of which is empty.                        *)
LEMMA ChunksOfRequest ==
  ASSUME NEW u \in Requests, Chunks(u) \in Seq(Texts)
  PROVE  LET n == Len(u.headers)
             C == Chunks(u)
         IN /\ n \in Nat /\ Len(C) = n + 2
            /\ C[1] = RequestLine(u) /\ C[n + 2] = <<CR, LF>> \o u.body
            /\ \A i \in 1 .. n : /\ C[i + 1] = HeaderLine(u.headers[i])
                                 /\ u.headers[i] \in Words \X Words
            /\ \A i \in 1 .. n + 2 : C[i] \in Texts /\ C[i] # <<>>
            /\ u.body \in Seq(Byte)
  <1> DEFINE n == Len(u.headers)
             C == Chunks(u)
             hs == [i \in DOMAIN u.headers |-> HeaderLine(u.headers[i])]
             first == RequestLine(u)
             last == <<CR, LF>> \o u.body
             S == {first, last} \union {HeaderLine(h) : h \in Words \X Words}
             one == <<first>>
             end == <<last>>
  <1>1. /\ u.headers \in Seq(Words \X Words) /\ u.body \in Seq(Byte)
        /\ u.kind = "request"
    BY DEF Requests
  <1>2. /\ n \in Nat /\ \A i \in 1 .. n : u.headers[i] \in Words \X Words
        /\ DOMAIN u.headers = 1 .. n
    BY <1>1
  <1>3. /\ hs \in Seq(S) /\ Len(hs) = n
        /\ \A i \in 1 .. n : hs[i] = HeaderLine(u.headers[i])
    BY <1>2
  <1>4. /\ one \in Seq(S) /\ Len(one) = 1 /\ one[1] = first
        /\ end \in Seq(S) /\ Len(end) = 1 /\ end[1] = last
    OBVIOUS
  <1>5. C = (one \o hs) \o end
    BY <1>1 DEF Chunks
  <1> HIDE DEF n, C, hs, S, one, end
  <1> DEFINE oh == one \o hs
  <1>6. /\ oh \in Seq(S) /\ Len(oh) = n + 1
        /\ oh[1] = first /\ \A i \in 1 .. n : oh[i + 1] = hs[i]
    <2>1. /\ oh \in Seq(S) /\ Len(oh) = Len(one) + Len(hs)
          /\ \A i \in 1 .. Len(one) + Len(hs) :
               oh[i] = IF i <= Len(one) THEN one[i] ELSE hs[i - Len(one)]
      BY <1>3, <1>4, ConcatProperties
    <2> HIDE DEF oh
    <2>2. \A i \in 1 .. n : /\ i + 1 \in 1 .. 1 + n /\ ~(i + 1 <= 1)
                            /\ (i + 1) - 1 = i
      BY <1>2
    <2>3. \A i \in 1 .. n : oh[i + 1] = hs[i]
      BY <1>3, <1>4, <2>1, <2>2
    <2>4. Len(oh) = n + 1 /\ 1 \in 1 .. 1 + n /\ 1 <= 1
      BY <1>2, <1>3, <1>4, <2>1
    <2> QED
      BY <1>3, <1>4, <2>1, <2>3, <2>4
  <1> HIDE DEF oh
  <1>7. /\ Len(C) = n + 2 /\ C[n + 2] = last
        /\ \A i \in 1 .. n + 1 : C[i] = oh[i]
    <2>1. /\ oh \o end \in Seq(S) /\ Len(oh \o end) = Len(oh) + Len(end)
          /\ \A i \in 1 .. Len(oh) + Len(end) :
               (oh \o end)[i] = IF i <= Len(oh) THEN oh[i] ELSE end[i - Len(oh)]
      BY <1>4, <1>6, ConcatProperties
    <2>2. C = oh \o end
      BY <1>5 DEF oh
    <2>3. /\ n + 2 \in 1 .. n + 1 + 1 /\ ~(n + 2 <= n + 1)
          /\ (n + 2) - (n + 1) = 1 /\ (n + 1) + 1 = n + 2
          /\ \A i \in 1 .. n + 1 : i \in 1 .. n + 1 + 1 /\ i <= n + 1
      BY <1>2
    <2> DEFINE all == oh \o end
    <2>4. /\ Len(all) = n + 1 + 1
          /\ \A i \in 1 .. n + 1 + 1 :
               all[i] = IF i <= n + 1 THEN oh[i] ELSE end[i - (n + 1)]
      BY <1>4, <1>6, <2>1
    <2> HIDE DEF all
    <2>5. Len(all) = n + 2 /\ \A i \in 1 .. n + 1 : all[i] = oh[i]
      BY <2>3, <2>4
    <2>6. all[n + 2] = last
      BY <1>4, <2>3, <2>4
    <2> QED
      BY <2>2, <2>5, <2>6 DEF all
  <1>8. C[1] = first /\ \A i \in 1 .. n : C[i + 1] = HeaderLine(u.headers[i])
    <2>1. 1 \in 1 .. n + 1 /\ \A i \in 1 .. n : i + 1 \in 1 .. n + 1
      BY <1>2
    <2> QED
      BY <1>3, <1>6, <1>7, <2>1
  <1>9. \A i \in 1 .. n + 2 : C[i] \in Texts
    BY <1>7 DEF C
  <1>10. first # <<>>
    <2> DEFINE line == (<<Text(u.method)>> \o <<SP>>)
                         \o ((u.target \o <<SP>>) \o <<Text(u.version)>>)
               eol == <<CR, LF>>
    <2>1. first \in Texts
      <3>1. 1 \in 1 .. n + 2
        BY <1>2
      <3> QED
        BY <1>8, <1>9, <3>1
    <2>2. line \in Texts /\ first = line \o eol
      BY <2>1, RequestLineTexts
    <2>3. eol \in Texts /\ Len(eol) = 2
      BY ByteAssumption DEF Texts
    <2> HIDE DEF line, eol
    <2> HIDE DEF first
    <2>4. Len(first) = Len(line) + 2 /\ Len(line) \in Nat
      <3>1. Len(line \o eol) = Len(line) + Len(eol)
        BY <2>2, <2>3, TextsConcat
      <3>2. Len(line) \in Nat
        BY <2>2 DEF Texts
      <3> QED
        BY <2>2, <2>3, <3>1, <3>2
    <2>5. Len(first) # 0
      BY <2>4
    <2> QED
      BY <2>5
  <1>11. last # <<>>
    <2> DEFINE eol == <<CR, LF>>
               body == u.body
    <2>1. eol \in Texts /\ Len(eol) = 2 /\ body \in Texts /\ Len(body) \in Nat
      BY <1>1, ByteAssumption DEF Texts
    <2> HIDE DEF eol, body
    <2>2. Len(eol \o body) = Len(eol) + Len(body)
      BY <2>1, TextsConcat
    <2>3. Len(eol \o body) # 0
      BY <2>1, <2>2
    <2>4. eol \o body # <<>>
      BY <2>3
    <2> QED
      BY <2>4 DEF eol, body
  <1>12. \A h : HeaderLine(h) # <<>>
    BY DEF HeaderLine
  <1> HIDE DEF first, last
  <1>13. \A i \in 1 .. n + 2 : C[i] # <<>>
    <2> TAKE i \in 1 .. n + 2
    <2>1. CASE i = 1
      BY <1>8, <1>10, <2>1
    <2>2. CASE i = n + 2
      BY <1>7, <1>11, <2>2
    <2>3. CASE i # 1 /\ i # n + 2
      <3>1. i - 1 \in 1 .. n /\ (i - 1) + 1 = i
        BY <1>2, <2>3
      <3>2. C[i] = HeaderLine(u.headers[i - 1])
        BY <1>8, <3>1
      <3> QED
        BY <1>12, <3>2
    <2> QED
      BY <2>1, <2>2, <2>3
  <1> QED
    BY <1>1, <1>2, <1>7, <1>8, <1>9, <1>13 DEF n, C, first, last

(* What the parser makes of the whole lines of a request that one segment  *)
(* brings: from the request line on, or behind lines it has read before.   *)
THEOREM SegmentParse ==
  ASSUME NEW u \in Requests, Chunks(u) \in Seq(Texts),
         NEW i \in 0 .. Len(Chunks(u)) - 1,
         NEW j \in i + 1 .. Len(Chunks(u)),
         NEW c, NEW buf, BufferOK(buf), Content(buf) = Part(Chunks(u), i, j),
         IF i = 0 THEN c = NewHttpContext
         ELSE ~BadVersion(u) /\ Holds(c, u, "KExpectHeader")
  PROVE  LET p == ParseBuffer(c, buf)
         IN IF BadVersion(u) THEN ~p.ok /\ ~GetAll(p.context)
            ELSE /\ p.ok
                 /\ Holds(p.context, u, IF j = Len(Chunks(u)) THEN "KGotAll"
                                        ELSE "KExpectHeader")
  <1> DEFINE n == Len(u.headers)
             C == Chunks(u)
             L == Len(C)
             P(k) == Part(C, k, j)
  <1>1. /\ n \in Nat /\ L = n + 2
        /\ C[1] = RequestLine(u) /\ C[n + 2] = <<CR, LF>> \o u.body
        /\ \A k \in 1 .. n : /\ C[k + 1] = HeaderLine(u.headers[k])
                             /\ u.headers[k] \in Words \X Words
        /\ \A k \in 1 .. L : C[k] \in Texts /\ C[k] # <<>>
        /\ u.body \in Texts
    BY ChunksOfRequest DEF Texts
  <1>2. ContextOK(c)
    BY NewContextOK DEF Holds
  <1>3. i \in Nat /\ j \in Nat /\ i < j /\ j <= L /\ L \in Nat
    BY <1>1
  <1>4. \A k \in 0 .. L : k <= j =>
          /\ P(k) \in Texts /\ j - k <= Len(P(k))
          /\ k = j => P(k) = <<>>
          /\ k < j => P(k) = C[k + 1] \o P(k + 1)
    <2> TAKE k \in 0 .. L
    <2> HAVE k <= j
    <2>1. C \in Seq(Seq(Byte)) /\ \A m \in 1 .. Len(C) : C[m] # <<>>
      BY <1>1 DEF Texts
    <2>2. k \in 0 .. Len(C) /\ j \in k .. Len(C)
      BY <1>3
    <2> HIDE DEF C
    <2> QED
      BY <2>1, <2>2, PartSplits DEF Texts
  <1>5. Content(buf) = P(i)
    OBVIOUS
  <1>6. PICK rounds : Rounds(rounds, c, buf)
    BY <1>2, ParseRounds
  <1>7. /\ rounds[0] = [ok |-> TRUE, More |-> TRUE, context |-> c, buf |-> buf]
        /\ \A k \in Nat :
             /\ rounds[k] \in ParseStates
             /\ rounds[k + 1] =
                  IF rounds[k].More
                  THEN Round(rounds[k], Content(rounds[k].buf),
                             FindCRLF(rounds[k].buf))
                  ELSE rounds[k]
    BY <1>6 DEF Rounds
  <1>8. /\ rounds[0].ok /\ rounds[0].More /\ rounds[0].context = c
        /\ rounds[0].buf = buf
    BY <1>7
  <1> HIDE DEF C, P, n, L
  <1>9. ReadableBytes(buf) \in Nat /\ j - i <= ReadableBytes(buf)
    <2>1. i \in 0 .. L /\ i <= j
      BY <1>3
    <2>2. j - i <= Len(P(i))
      BY <1>4, <2>1
    <2> QED
      BY <1>5, <2>2, ContentType, ArithBuffer
  <1>10. ASSUME NEW m \in Nat, m <= (j - i) + 1, ~rounds[m].More
         PROVE  ParseBuffer(c, buf) = rounds[m]
    <2>1. m <= ReadableBytes(buf) + 2
      BY <1>3, <1>9, <1>10
    <2> QED
      BY <1>6, <1>9, <1>10, <2>1, ParseStops
  <1>11. CASE BadVersion(u)
    <2>1. i = 0 /\ c = NewHttpContext
      BY <1>11
    <2>2. P(0) = RequestLine(u) \o P(1) /\ P(1) \in Texts
      <3>1. /\ 0 \in 0 .. L /\ 0 <= j /\ 0 < j /\ 1 \in 0 .. L /\ 1 <= j
            /\ 0 + 1 = 1
        BY <1>3, <2>1
      <3> QED
        BY <1>1, <1>4, <3>1
    <2> DEFINE p == rounds[0]
               q == Round(p, Content(p.buf), FindCRLF(p.buf))
    <2>3. /\ p \in ParseStates /\ p.context = NewHttpContext
          /\ Content(p.buf) = RequestLine(u) \o P(1)
      BY <1>5, <1>7, <1>8, <2>1, <2>2
    <2>4. RequestLine(u) \in Texts
      <3>1. 1 \in 1 .. L
        BY <1>1
      <3> QED
        BY <1>1, <3>1
    <2>5. rounds[1] = q
      <3>1. 0 \in Nat /\ 0 + 1 = 1
        OBVIOUS
      <3> QED
        BY <1>7, <1>8, <3>1
    <2> HIDE DEF p
    <2>6. ~q.ok /\ ~q.More /\ ~GetAll(q.context)
      BY <1>11, <2>2, <2>3, <2>4, RequestLineRead
    <2> HIDE DEF q
    <2>7. ParseBuffer(c, buf) = q
      <3>1. 1 \in Nat /\ 1 <= (j - i) + 1
        BY <1>3
      <3> QED
        BY <1>10, <2>5, <2>6, <3>1
    <2> QED
      BY <1>11, <2>6, <2>7
  <1>12. CASE ~BadVersion(u)
    <2> DEFINE At(k) ==
                 /\ rounds[k].ok /\ rounds[k].More
                 /\ Content(rounds[k].buf) = P(i + k)
                 /\ IF i + k = 0 THEN rounds[k].context = NewHttpContext
                    ELSE Holds(rounds[k].context, u, "KExpectHeader")
               T == {k \in Nat : i + k <= j /\ i + k < L => At(k)}
    <2>1. 0 \in T
      <3>1. i + 0 = i
        BY <1>3
      <3> QED
        BY <1>5, <1>8, <3>1
    <2>2. ASSUME NEW k \in Nat, k \in T
          PROVE  k + 1 \in T
      <3>1. ASSUME i + (k + 1) <= j, i + (k + 1) < L
            PROVE  At(k + 1)
        <4> DEFINE m == i + k
                   p == rounds[k]
                   q == Round(p, Content(p.buf), FindCRLF(p.buf))
        <4>1. /\ m \in 0 .. L /\ m <= j /\ m < j /\ m < L /\ m \in Nat
              /\ i + (k + 1) = m + 1 /\ m + 1 \in 0 .. L /\ m + 1 <= j
              /\ m + 1 # 0 /\ m + 1 \in 1 .. L /\ (m # 0 => m \in 1 .. n)
          BY <1>1, <1>3, <3>1
        <4>2. At(k)
          BY <2>2, <4>1
        <4>3. /\ p.ok /\ p.More /\ Content(p.buf) = C[m + 1] \o P(m + 1)
              /\ p \in ParseStates /\ P(m + 1) \in Texts
              /\ C[m + 1] \in Texts
              /\ IF m = 0 THEN p.context = NewHttpContext
                 ELSE Holds(p.context, u, "KExpectHeader")
          BY <1>1, <1>4, <1>7, <4>1, <4>2
        <4>4. rounds[k + 1] = q
          BY <1>7, <4>3
        <4> HIDE DEF m, p
        <4>5. /\ q.ok = p.ok /\ q.More = p.More
              /\ Holds(q.context, u, "KExpectHeader")
              /\ Content(q.buf) = P(m + 1)
          <5>1. CASE m = 0
            <6>1. C[m + 1] = RequestLine(u)
              BY <1>1, <5>1
            <6> DEFINE rest == P(m + 1)
            <6>2. /\ p.context = NewHttpContext /\ p \in ParseStates
                  /\ RequestLine(u) \in Texts /\ rest \in Texts
                  /\ Content(p.buf) = RequestLine(u) \o rest
              BY <4>3, <5>1, <6>1
            <6> HIDE DEF rest
            <6>3. /\ q.ok = p.ok /\ q.More = p.More
                  /\ Holds(q.context, u, "KExpectHeader")
                  /\ Content(q.buf) = rest
              BY <1>12, <6>2, RequestLineRead
            <6> QED
              BY <6>3 DEF rest
          <5>2. CASE m # 0
            <6>1. /\ C[m + 1] = HeaderLine(u.headers[m])
                  /\ u.headers[m] \in Words \X Words
              BY <1>1, <4>1, <5>2
            <6> DEFINE h == u.headers[m]
                       rest == P(m + 1)
            <6>2. /\ Holds(p.context, u, "KExpectHeader") /\ p \in ParseStates
                  /\ h \in Words \X Words /\ HeaderLine(h) \in Texts
                  /\ rest \in Texts
                  /\ Content(p.buf) = HeaderLine(h) \o rest
              BY <4>3, <5>2, <6>1
            <6> HIDE DEF h, rest
            <6>3. /\ q.ok = p.ok /\ q.More = p.More
                  /\ Holds(q.context, u, "KExpectHeader")
                  /\ Content(q.buf) = rest
              BY <6>2, HeaderRead
            <6> QED
              BY <6>3 DEF rest
          <5> QED
            BY <5>1, <5>2
        <4> HIDE DEF q
        <4> QED
          BY <4>1, <4>3, <4>4, <4>5
      <3> QED
        BY <3>1
    <2>3. \A k \in Nat : i + k <= j /\ i + k < L => At(k)
      <3>1. Nat \subseteq T
        <4> HIDE DEF T
        <4> QED
          BY <2>1, <2>2, SetInduction
      <3> HIDE DEF At
      <3> QED
        BY <3>1
    <2>4. CASE j < L
      <3> DEFINE m == j - i
                 p == rounds[m]
      <3>1. m \in Nat /\ i + m = j /\ j # 0 /\ j \in 0 .. L /\ j <= j
        BY <1>3
      <3>2. At(m)
        BY <2>3, <2>4, <3>1
      <3> HIDE DEF m
      <3>3. /\ p.ok /\ p.More /\ Content(p.buf) = <<>>
            /\ Holds(p.context, u, "KExpectHeader") /\ p \in ParseStates
        BY <1>4, <1>7, <3>1, <3>2
      <3>4. rounds[m + 1] = Round(p, Content(p.buf), FindCRLF(p.buf))
        BY <1>7, <3>1, <3>3
      <3>5. rounds[m + 1] = [p EXCEPT !.More = FALSE]
        BY <3>3, <3>4, NothingRead DEF Holds
      <3>6. /\ rounds[m + 1].ok /\ ~rounds[m + 1].More
            /\ rounds[m + 1].context = p.context
        BY <3>3, <3>5 DEF ParseStates
      <3>7. ParseBuffer(c, buf) = rounds[m + 1]
        <4>1. m + 1 \in Nat /\ m + 1 <= (j - i) + 1
          BY <3>1 DEF m
        <4> QED
          BY <1>10, <3>6, <4>1
      <3>8. j # L
        BY <1>3, <2>4
      <3> QED
        BY <1>12, <3>3, <3>6, <3>7, <3>8 DEF L, C
    <2>5. CASE j = L
      <3> DEFINE m == (n + 1) - i
                 p == rounds[m]
                 q == rounds[m + 1]
                 r == rounds[m + 2]
      <3>1. /\ m \in Nat /\ i + m = n + 1 /\ n + 1 <= j /\ n + 1 < L
            /\ n + 1 # 0 /\ n + 1 \in 0 .. L /\ n + 1 < j
            /\ (n + 1) + 1 = n + 2 /\ n + 2 \in 0 .. L /\ n + 2 <= j
            /\ n + 2 = j /\ m + 1 \in Nat /\ (m + 1) + 1 = m + 2
            /\ m + 2 \in Nat /\ m + 2 <= (j - i) + 1
        BY <1>1, <1>3, <2>5
      <3>2. At(m)
        BY <2>3, <3>1
      <3> HIDE DEF m
      <3>3. P(n + 1) = <<CR, LF>> \o u.body
        <4>1. P(n + 1) = C[n + 2] \o P(n + 2) /\ P(n + 2) = <<>>
          BY <1>4, <3>1
        <4>2. C[n + 2] \o <<>> = C[n + 2]
          <5>1. n + 2 \in 1 .. L
            BY <1>1
          <5> QED
            BY <1>1, <5>1, ConcatEmptySeq DEF Texts
        <4> QED
          BY <1>1, <4>1, <4>2
      <3>4. /\ p.ok /\ p.More /\ Content(p.buf) = <<CR, LF>> \o u.body
            /\ Holds(p.context, u, "KExpectHeader") /\ p \in ParseStates
        BY <1>7, <3>1, <3>2, <3>3
      <3>5. q = Round(p, Content(p.buf), FindCRLF(p.buf))
        BY <1>7, <3>1, <3>4
      <3>6. q.ok /\ q.More /\ Holds(q.context, u, "KExpectBody")
        BY <1>1, <3>4, <3>5, BlankRead
      <3>7. r = Round(q, Content(q.buf), FindCRLF(q.buf)) /\ q \in ParseStates
        BY <1>7, <3>1, <3>6
      <3>8. r.ok /\ ~r.More /\ Holds(r.context, u, "KGotAll")
        BY <3>6, <3>7, BodyRead
      <3>9. ParseBuffer(c, buf) = r
        <4>1. m + 2 \in Nat /\ m + 2 <= (j - i) + 1
          BY <3>1
        <4> QED
          BY <1>10, <3>8, <4>1
      <3> QED
        BY <1>12, <2>5, <3>8, <3>9 DEF L, C
    <2> QED
      BY <1>3, <2>4, <2>5
  <1> QED
    BY <1>11, <1>12

-----------------------------------------------------------------------------
(***************************************************************************)
(* What the callbacks answer to a request and to a frame.                  *)
(***************************************************************************)
(* The head of a response, line by line.                                   *)
LEMMA HeadIsConcat ==
  /\ \A a, b, c : (<<a>> \o <<b>>) \o <<c>> = <<a, b, c>>
  /\ \A a, b, c, d : (<<a>> \o <<b, c>>) \o <<d>> = <<a, b, c, d>>
  <1>1. ASSUME NEW a, NEW b, NEW c
        PROVE  <<a, b>> \o <<c>> = <<a, b, c>>
    <2> DEFINE S == {a, b, c}
               s == <<a, b>>
               t == <<c>>
               st == <<a, b, c>>
    <2>1. /\ s \in Seq(S) /\ t \in Seq(S) /\ st \in Seq(S)
          /\ Len(s) = 2 /\ Len(t) = 1 /\ Len(st) = 3
          /\ s[1] = a /\ s[2] = b /\ t[1] = c
          /\ st[1] = a /\ st[2] = b /\ st[3] = c
      OBVIOUS
    <2> HIDE DEF S, s, t, st
    <2>2. /\ s \o t \in Seq(S) /\ Len(s \o t) = Len(s) + Len(t)
          /\ \A i \in 1 .. Len(s) + Len(t) :
               (s \o t)[i] = IF i <= Len(s) THEN s[i] ELSE t[i - Len(s)]
      BY <2>1, ConcatProperties
    <2>3. Len(s \o t) = 3 /\ \A i \in 1 .. 3 : (s \o t)[i] = st[i]
      BY <2>1, <2>2
    <2>4. s \o t = st
      BY <2>1, <2>2, <2>3, SeqEqual
    <2> QED
      BY <2>4 DEF s, t, st
  <1>2. ASSUME NEW a, NEW b, NEW c, NEW d
        PROVE  <<a, b>> \o <<c, d>> = (<<a>> \o <<b, c>>) \o <<d>>
    <2> DEFINE S == {a, b, c, d}
               w == <<a>>
               x == <<b>>
               y == <<c>>
               z == <<d>>
    <2>1. w \in Seq(S) /\ x \in Seq(S) /\ y \in Seq(S) /\ z \in Seq(S)
      OBVIOUS
    <2>2. x \o y = <<b, c>> /\ w \o x = <<a, b>> /\ y \o z = <<c, d>>
      BY PairIsConcat
    <2>3. w = <<a>> /\ z = <<d>>
      OBVIOUS
    <2> HIDE DEF w, x, y, z, S
    <2>4. (w \o x) \o (y \o z) = (w \o (x \o y)) \o z
      BY <2>1, AssociatesFour, SMTT(30)
    <2> QED
      BY <2>2, <2>3, <2>4, Zenon
  <1>3. ASSUME NEW a, NEW b, NEW c
        PROVE  (<<a>> \o <<b>>) \o <<c>> = <<a, b, c>>
    <2>1. <<a>> \o <<b>> = <<a, b>>
      BY PairIsConcat
    <2>2. <<a, b>> \o <<c>> = <<a, b, c>>
      BY <1>1
    <2> QED
      BY <2>1, <2>2, Zenon
  <1>4. ASSUME NEW a, NEW b, NEW c, NEW d
        PROVE  (<<a>> \o <<b, c>>) \o <<d>> = <<a, b, c, d>>
    <2>1. <<a, b>> \o <<c, d>> = <<a, b, c, d>>
      BY EndsWithPair
    <2>2. <<a, b>> \o <<c, d>> = (<<a>> \o <<b, c>>) \o <<d>>
      BY <1>2
    <2> QED
      BY <2>1, <2>2, Zenon
  <1> QED
    BY <1>3, <1>4

(* The answer to a request, its head written out.                          *)
LEMMA AnswerDoes ==
  ASSUME NEW code \in {"200", "404"}, NEW close \in BOOLEAN,
         NEW body \in Texts,
         close \/ <<"Content-Length", Len(body)>> \in Byte
  PROVE  LET head == IF close
                     THEN <<Text(code), Text("close"), Text("blank")>>
                     ELSE <<Text(code), Text("Keep-Alive"),
                            <<"Content-Length", Len(body)>>, Text("blank")>>
         IN /\ head \in Texts
            /\ Does(Answer(code, close, body), head \o body, close)
  <1> DEFINE data == Content(AppendToBuffer(code, close, body))
             line == <<Text(code)>>
             flds == Fields(close, body)
             blank == <<Text("blank")>>
             lead == (line \o flds) \o blank
             head == IF close THEN <<Text(code), Text("close"), Text("blank")>>
                     ELSE <<Text(code), Text("Keep-Alive"),
                            <<"Content-Length", Len(body)>>, Text("blank")>>
             calls == Answer(code, close, body)
  <1>1. /\ line \in Texts /\ flds \in Texts /\ blank \in Texts
        /\ data = lead \o body /\ lead \o body \in Texts
    BY AnswerContent
  <1>2. lead = head
    <2>1. CASE close
      <3>1. flds = <<Text("close")>> /\ head = <<Text(code), Text("close"),
                                                 Text("blank")>>
        BY <2>1 DEF Fields
      <3>2. (<<Text(code)>> \o <<Text("close")>>) \o <<Text("blank")>> =
              <<Text(code), Text("close"), Text("blank")>>
        BY HeadIsConcat
      <3> HIDE DEF flds, head
      <3> QED
        BY <3>1, <3>2, Zenon
    <2>2. CASE ~close
      <3> DEFINE len == <<"Content-Length", Len(body)>>
      <3>1. /\ flds = <<Text("Keep-Alive"), len>>
            /\ head = <<Text(code), Text("Keep-Alive"), len, Text("blank")>>
        BY <2>2 DEF Fields
      <3> HIDE DEF flds, head, len
      <3>2. (<<Text(code)>> \o <<Text("Keep-Alive"), len>>) \o <<Text("blank")>>
              = <<Text(code), Text("Keep-Alive"), len, Text("blank")>>
        BY HeadIsConcat
      <3> QED
        BY <3>1, <3>2, Zenon
    <2> QED
      BY <2>1, <2>2
  <1>3. lead \in Texts
    <2> HIDE DEF line, flds, blank
    <2> DEFINE one == line \o flds
    <2>1. one \in Texts
      BY <1>1, TextsConcat
    <2> HIDE DEF one
    <2>2. one \o blank \in Texts
      BY <1>1, <2>1, TextsConcat
    <2> QED
      BY <2>2 DEF one
  <1>4. calls \in Seq(Calls)
    BY AnswerCalls
  <1>5. calls = <<SendCall(data)>> \o IF close THEN <<ShutdownCall>> ELSE <<>>
    BY DEF Answer
  <1> HIDE DEF head, lead, line, flds, blank, data
  <1>6. data = head \o body
    BY <1>1, <1>2, Zenon
  <1>7. Does(calls, data, close)
    <2>1. data \in Texts
      BY <1>1, Zenon
    <2>2. CASE close
      <3>1. /\ Len(calls) >= 2 /\ calls[1] = SendCall(data)
            /\ calls[2] = ShutdownCall
        BY <1>5, <2>2
      <3> HIDE DEF calls
      <3>2. Does(calls, data, TRUE)
        BY <1>4, <2>1, <3>1, ClosingCallsDo
      <3> QED
        BY <2>2, <3>2 DEF Does
    <2>3. CASE ~close
      <3>1. calls = <<SendCall(data)>>
        BY <1>5, <2>3
      <3> HIDE DEF calls
      <3>2. Does(<<SendCall(data)>>, data, FALSE)
        BY <2>1, KeepingCallsDo
      <3>3. Does(calls, data, FALSE)
        BY <3>1, <3>2
      <3> QED
        BY <2>3, <3>3 DEF Does
    <2> QED
      BY <2>2, <2>3
  <1> HIDE DEF calls
  <1>8. head \in Texts /\ Does(calls, head \o body, close)
    BY <1>2, <1>3, <1>6, <1>7
  <1> QED
    BY <1>8 DEF head, calls

(***************************************************************************)
(* What the servers do answer to a unit, and to the first n units, whatever*)
(* the headers of the requests say.                                        *)
(***************************************************************************)
HttpAnswer(u) ==
  IF u.method \notin Methods THEN Closing("404")
  ELSE IF u.version \notin Versions THEN Refusal
  ELSE IF Page(u) \notin Pages THEN Closing("404")
  ELSE IF u.version = "HTTP/1.0"
  THEN [Closing("200") EXCEPT !.bytes = @ \o Page(u)]
  ELSE [close |-> FALSE,
        bytes |-> <<Text("200"), Text("Keep-Alive"),
                    <<"Content-Length", Len(Page(u))>>, Text("blank")>>
                    \o Page(u)]

AnswerTo(u) == IF script.service = "http" THEN HttpAnswer(u) ELSE Refusal

AnswersTo(n) ==
  LET closing == {i \in 1 .. n : AnswerTo(Units[i]).close}
  IN FlattenSeq([i \in 1 .. n |-> IF \E j \in closing : j < i THEN <<>>
                                  ELSE AnswerTo(Units[i]).bytes])

(* No request's Connection is "close" or "Keep-Alive".                     *)
LEMMA ValuesKeepColon ==
  ASSUME NEW c, ContextOK(c), NEW field, NEW word \in {"close", "Keep-Alive"}
  PROVE  GetHeader(c, field) # <<Text(word)>>
  <1>1. CASE <<field>> \in DOMAIN c.Heads
    <2>1. /\ GetHeader(c, field) = c.Heads[<<field>>]
          /\ c.Heads[<<field>>][1] = COLON
      BY <1>1 DEF GetHeader, ContextOK
    <2>2. <<Text(word)>>[1] # COLON
      BY DEF Text, COLON
    <2> QED
      BY <2>1, <2>2
  <1>2. CASE <<field>> \notin DOMAIN c.Heads
    BY <1>2 DEF GetHeader
  <1> QED
    BY <1>1, <1>2

(* onRequest() of a context that holds a request makes its reply.          *)
LEMMA RequestAnswered ==
  ASSUME NEW u \in Requests, ~BadVersion(u),
         NEW c, Holds(c, u, "KGotAll")
  PROVE  Does(OnRequest(c), HttpAnswer(u).bytes, HttpAnswer(u).close)
  <1> DEFINE connection == GetHeader(c, Text("Connection"))
             close == \/ connection = <<Text("close")>>
                      \/ /\ c.version = "Http10"
                         /\ connection # <<Text("Keep-Alive")>>
             page == Page(u)
  <1>1. /\ ContextOK(c)
        /\ c.path = IF u.method \in Methods THEN page ELSE <<>>
        /\ c.version = IF u.method \notin Methods THEN "UnKnown"
                       ELSE IF u.version = "HTTP/1.0" THEN "Http10"
                       ELSE "Http11"
    BY DEF Holds
  <1>2. close <=> c.version = "Http10"
    <2>1. /\ connection # <<Text("close")>>
          /\ connection # <<Text("Keep-Alive")>>
      BY <1>1, ValuesKeepColon
    <2> QED
      BY <2>1
  <1>3. OnRequest(c) = HttpCallback(c.path, close)
    BY DEF OnRequest
  <1>4. close \in BOOLEAN
    OBVIOUS
  <1>5. u.method \in Methods => u.version \in Versions
    BY DEF BadVersion
  <1>6. CASE c.path \notin Pages
    <2> DEFINE empty == <<>>
               head == <<Text("404"), Text("close"), Text("blank")>>
    <2>1. OnRequest(c) = Answer("404", TRUE, empty)
      BY <1>3, <1>6 DEF HttpCallback
    <2>2. HttpAnswer(u) = Closing("404")
      BY <1>1, <1>5, <1>6 DEF HttpAnswer
    <2>3. HttpAnswer(u).bytes = head /\ HttpAnswer(u).close = TRUE
      BY <2>2 DEF Closing
    <2>4. empty \in Texts
      BY DEF Texts
    <2>5. /\ head \in Texts
          /\ Does(Answer("404", TRUE, empty), head \o empty, TRUE)
      BY <2>4, AnswerDoes
    <2>6. head \o empty = head
      BY <2>5, ConcatEmptySeq DEF Texts
    <2> HIDE DEF head, empty
    <2> QED
      BY <2>1, <2>3, <2>5, <2>6
  <1>7. CASE c.path \in Pages
    <2>1. /\ u.method \in Methods /\ u.version \in Versions /\ c.path = page
          /\ page \in Pages /\ page \in Texts
          /\ <<"Content-Length", Len(page)>> \in Byte
      <3>1. u.method \in Methods
        BY <1>1, <1>7, PagesAssumption
      <3>2. u.version \in Versions /\ c.path = page /\ page \in Pages
        BY <1>1, <1>5, <1>7, <3>1
      <3> HIDE DEF page
      <3>3. page \in Texts /\ <<"Content-Length", Len(page)>> \in Byte
        BY <3>2, PagesAssumption DEF Texts
      <3> QED
        BY <3>1, <3>2, <3>3
    <2>2. OnRequest(c) = Answer("200", close, page)
      BY <1>3, <1>7, <2>1 DEF HttpCallback
    <2>3. HttpAnswer(u).close = close
      <3>1. CASE u.version = "HTTP/1.0"
        <4>1. close
          BY <1>1, <1>2, <2>1, <3>1
        <4> QED
          BY <2>1, <3>1, <4>1 DEF HttpAnswer, Closing
      <3>2. CASE u.version # "HTTP/1.0"
        <4>1. ~close
          BY <1>1, <1>2, <2>1, <3>2
        <4>2. HttpAnswer(u).close = FALSE
          BY <2>1, <3>2 DEF HttpAnswer, Closing
        <4> QED
          BY <4>1, <4>2
      <3> QED
        BY <3>1, <3>2
    <2>4. close <=> u.version = "HTTP/1.0"
      BY <1>1, <1>2, <2>1
    <2> HIDE DEF close, page
    <2> DEFINE head == IF close
                       THEN <<Text("200"), Text("close"), Text("blank")>>
                       ELSE <<Text("200"), Text("Keep-Alive"),
                              <<"Content-Length", Len(page)>>, Text("blank")>>
    <2>5. HttpAnswer(u).bytes = head \o page
      BY <2>1, <2>4 DEF HttpAnswer, Closing, page
    <2>6. Does(Answer("200", close, page), head \o page, close)
      BY <1>4, <2>1, AnswerDoes
    <2> HIDE DEF head
    <2> QED
      BY <2>2, <2>3, <2>5, <2>6
  <1> QED
    BY <1>6, <1>7

(* A reply of HttpServer that refuses closes.                              *)
LEMMA BadVersionRefused ==
  ASSUME NEW u, BadVersion(u)
  PROVE  HttpAnswer(u).bytes = BadRequest /\ HttpAnswer(u).close = TRUE
  BY DEF BadVersion, HttpAnswer, Refusal

(* HttpServer::onMessage() with lines of one request.                      *)
LEMMA SegmentAnswered ==
  ASSUME NEW u \in Requests, Chunks(u) \in Seq(Texts),
         NEW i \in 0 .. Len(Chunks(u)) - 1, NEW j \in i + 1 .. Len(Chunks(u)),
         NEW buf, BufferOK(buf), Content(buf) = Part(Chunks(u), i, j),
         NEW c, IF i = 0 THEN c = NewHttpContext
                ELSE ~BadVersion(u) /\ Holds(c, u, "KExpectHeader")
  PROVE  LET r == HttpOnMessage(c, buf)
         IN IF BadVersion(u) THEN Does(r.calls, BadRequest, TRUE)
            ELSE IF j < Len(Chunks(u))
            THEN /\ Does(r.calls, <<>>, FALSE)
                 /\ Holds(r.context, u, "KExpectHeader")
            ELSE /\ Does(r.calls, HttpAnswer(u).bytes, HttpAnswer(u).close)
                 /\ r.context = NewHttpContext
  <1> DEFINE p == ParseBuffer(c, buf)
             r == HttpOnMessage(c, buf)
             L == Len(Chunks(u))
             refusal == IF p.ok THEN <<>> ELSE Refuse
             answer == IF GetAll(p.context) THEN OnRequest(p.context) ELSE <<>>
  <1>1. IF BadVersion(u) THEN ~p.ok /\ ~GetAll(p.context)
        ELSE /\ p.ok
             /\ Holds(p.context, u,
                      IF j = L THEN "KGotAll" ELSE "KExpectHeader")
    BY SegmentParse
  <1>2. /\ r.calls = refusal \o answer
        /\ r.context = IF GetAll(p.context) THEN NewHttpContext ELSE p.context
    BY DEF HttpOnMessage, HttpParsed
  <1>3. answer \in Seq(Calls)
    BY OnRequestCalls
  <1>4. j \in Nat /\ j <= L /\ L \in Nat
    OBVIOUS
  <1> HIDE DEF p, r, L
  <1>5. CASE BadVersion(u)
    <2>1. refusal = Refuse
      BY <1>1, <1>5
    <2> HIDE DEF refusal, answer
    <2> QED
      BY <1>2, <1>3, <1>5, <2>1, RefuseDoes DEF r
  <1>6. CASE ~BadVersion(u)
    <2>1. refusal = <<>>
      BY <1>1, <1>6
    <2>2. r.calls = answer
      <3> HIDE DEF refusal, answer
      <3> QED
        BY <1>2, <1>3, <2>1, ConcatEmptySeq
    <2>3. CASE j < L
      <3>1. Holds(p.context, u, "KExpectHeader") /\ ~GetAll(p.context)
        <4>1. Holds(p.context, u, "KExpectHeader")
          BY <1>1, <1>4, <1>6, <2>3
        <4> QED
          BY <4>1 DEF Holds, GetAll
      <3>2. r.calls = <<>> /\ r.context = p.context
        BY <1>2, <2>2, <3>1
      <3> QED
        BY <1>6, <2>3, <3>1, <3>2, KeepingCallsDo DEF r, L
    <2>4. CASE j = L
      <3>1. Holds(p.context, u, "KGotAll") /\ GetAll(p.context)
        <4>1. Holds(p.context, u, "KGotAll")
          BY <1>1, <1>6, <2>4
        <4> QED
          BY <4>1 DEF Holds, GetAll
      <3>2. r.calls = OnRequest(p.context) /\ r.context = NewHttpContext
        BY <1>2, <2>2, <3>1
      <3>3. Does(OnRequest(p.context), HttpAnswer(u).bytes, HttpAnswer(u).close)
        BY <1>6, <3>1, RequestAnswered
      <3>4. ~(j < L)
        BY <1>4, <2>4
      <3>5. Does(r.calls, HttpAnswer(u).bytes, HttpAnswer(u).close)
        BY <3>2, <3>3
      <3> QED
        BY <1>6, <3>2, <3>4, <3>5 DEF r, L
    <2>5. j < L \/ j = L
      BY <1>4
    <2> QED
      BY <2>3, <2>4, <2>5, Zenon
  <1> QED
    BY <1>5, <1>6

(* The data of a refusal and of the answer behind it that the code makes   *)
(* of the client's key.                                                    *)
LEMMA SentBehindRefusal ==
  ASSUME NEW d \in Texts
  PROVE  Sent(Refuse \o <<SendCall(d)>>) = BadRequest \o d
  <1> DEFINE refusal == Refuse
             one == <<SendCall(d)>>
             calls == refusal \o one
             parts == [i \in DOMAIN calls |->
                         IF calls[i] = ShutdownCall THEN <<>> ELSE calls[i][2]]
             F(n) == FlattenSeq(SubSeq(parts, 1, n))
  <1>1. BadRequest \in Texts /\ <<>> \in Texts
    BY AnswerAssumption DEF BadRequest, Texts
  <1>2. /\ refusal \in Seq(Calls) /\ Len(refusal) = 2
        /\ refusal[1] = SendCall(BadRequest) /\ refusal[2] = ShutdownCall
    BY RefuseCalls DEF Refuse
  <1>3. one \in Seq(Calls) /\ Len(one) = 1 /\ one[1] = SendCall(d)
    BY DEF Calls
  <1>4. Sent(calls) = FlattenSeq(parts)
    BY DEF Sent
  <1> HIDE DEF refusal, one
  <1>5. /\ calls \in Seq(Calls) /\ Len(calls) = 3
        /\ calls[1] = SendCall(BadRequest) /\ calls[2] = ShutdownCall
        /\ calls[3] = SendCall(d)
    <2>1. /\ calls \in Seq(Calls) /\ Len(calls) = Len(refusal) + Len(one)
          /\ \A i \in 1 .. Len(refusal) + Len(one) :
               calls[i] = IF i <= Len(refusal) THEN refusal[i]
                          ELSE one[i - Len(refusal)]
      BY <1>2, <1>3, ConcatProperties
    <2> HIDE DEF calls
    <2> QED
      BY <1>2, <1>3, <2>1
  <1>6. parts \in Seq(Texts) /\ Len(parts) = 3 /\ parts[1] = BadRequest
        /\ parts[2] = <<>> /\ parts[3] = d
    <2> HIDE DEF calls
    <2>1. DOMAIN calls = 1 .. 3
      BY <1>5
    <2>2. /\ \A b : SendCall(b) # ShutdownCall
          /\ \A b : SendCall(b)[2] = b
      BY DEF SendCall, ShutdownCall
    <2>3. Len(parts) = 3 /\ parts[1] = BadRequest
          /\ parts[2] = <<>> /\ parts[3] = d
      BY <1>5, <2>1, <2>2
    <2>4. \A i \in 1 .. 3 : parts[i] \in Texts
      <3>1. \A i \in 1 .. 3 : i = 1 \/ i = 2 \/ i = 3
        OBVIOUS
      <3> HIDE DEF parts
      <3> QED
        BY <1>1, <2>3, <3>1
    <2>5. parts = [i \in 1 .. 3 |-> parts[i]]
      BY <2>1
    <2> HIDE DEF parts
    <2>6. parts \in Seq(Texts)
      BY <2>4, <2>5
    <2> QED
      BY <2>3, <2>6
  <1> HIDE DEF parts
  <1>7. \A i \in 1 .. 3 : F(i) = F(i - 1) \o parts[i] /\ F(i - 1) \in Texts
    <2> TAKE i \in 1 .. 3
    <2>1. parts \in Seq(Seq(Byte)) /\ i \in 1 .. Len(parts)
      BY <1>6 DEF Texts
    <2> QED
      BY <2>1, BeginningGrows DEF Texts
  <1>8. F(0) = <<>> /\ F(3) = FlattenSeq(parts)
    <2>1. parts \in Seq(Seq(Byte)) /\ Len(parts) = 3
      BY <1>6 DEF Texts
    <2> QED
      BY <2>1, FirstAndLastEnd
  <1> HIDE DEF F
  <1>9. F(1) = BadRequest
    <2>1. F(1) = F(0) \o parts[1]
      BY <1>7
    <2> QED
      BY <1>1, <1>6, <1>8, <2>1, ConcatEmptySeq DEF Texts
  <1>10. F(2) = BadRequest
    <2>1. F(2) = F(1) \o parts[2]
      BY <1>7
    <2> QED
      BY <1>1, <1>6, <1>9, <2>1, ConcatEmptySeq DEF Texts
  <1>11. F(3) = F(2) \o parts[3]
    BY <1>7
  <1> QED
    BY <1>4, <1>6, <1>8, <1>10, <1>11 DEF calls, refusal, one

(* WebSocketServer::onMessage() with the request for the handshake: it is  *)
(* refused, and answered in words that nobody gets if its version is known.*)
LEMMA HandshakeAnswered ==
  ASSUME NEW u \in Requests, Chunks(u) \in Seq(Texts),
         NEW buf, BufferOK(buf), Content(buf) = Bytes(u)
  PROVE  LET r == WebSocketOnMessage("kUnconnect", buf)
         IN /\ Does(r.calls, BadRequest, TRUE)
            /\ ~BadVersion(u) => /\ r.context = "kHandsharked"
                                 /\ Sent(r.calls) \in Seq(WordTokens)
  <1> DEFINE C == Chunks(u)
             p == ParseBuffer(NewHttpContext, buf)
             r == WebSocketOnMessage("kUnconnect", buf)
             key == GetHeader(p.context, Text("Sec-WebSocket-Key"))
             reply == <<SendCall(HandleShared(key))>>
  <1>1. /\ Len(C) \in Nat /\ 0 \in 0 .. Len(C) - 1
        /\ Len(C) \in 0 + 1 .. Len(C)
    <2>1. Len(C) = Len(u.headers) + 2 /\ Len(u.headers) \in Nat
      BY ChunksOfRequest
    <2> HIDE DEF C
    <2> QED
      BY <2>1
  <1>2. Content(buf) = Part(C, 0, Len(C))
    <2>1. /\ C \in Seq(Seq(Byte)) /\ EndOf(C, 0) = 0
          /\ EndOf(C, Len(C)) = Len(FlattenSeq(C))
          /\ FlattenSeq(C) \in Seq(Byte)
      BY FirstAndLastEnd, FlattenType DEF Texts
    <2>2. Part(C, 0, Len(C)) = SubSeq(FlattenSeq(C), 1, Len(FlattenSeq(C)))
      BY <2>1 DEF Part
    <2>3. SubSeq(FlattenSeq(C), 1, Len(FlattenSeq(C))) = FlattenSeq(C)
      BY <2>1, SubSeqFull
    <2> QED
      BY <2>2, <2>3 DEF Bytes
  <1>3. IF BadVersion(u) THEN ~p.ok /\ ~GetAll(p.context)
        ELSE p.ok /\ Holds(p.context, u, "KGotAll")
    <2> DEFINE i == 0
               j == Len(C)
               c == NewHttpContext
    <2>1. /\ i \in 0 .. Len(C) - 1 /\ j \in i + 1 .. Len(C)
          /\ Content(buf) = Part(C, i, j) /\ i = 0 /\ c = NewHttpContext
          /\ j = Len(C)
      BY <1>1, <1>2
    <2> HIDE DEF i, j, c
    <2>2. LET q == ParseBuffer(c, buf)
          IN IF BadVersion(u) THEN ~q.ok /\ ~GetAll(q.context)
             ELSE /\ q.ok
                  /\ Holds(q.context, u, IF j = Len(Chunks(u)) THEN "KGotAll"
                                         ELSE "KExpectHeader")
      BY <2>1, SegmentParse
    <2> QED
      BY <2>1, <2>2
  <1>4. r = HandshakeParsed(p)
    BY DEF WebSocketOnMessage
  <1> HIDE DEF C, p, r
  <1>5. CASE BadVersion(u)
    <2> DEFINE none == <<>>
    <2>1. r.calls = Refuse
      BY <1>3, <1>4, <1>5 DEF HandshakeParsed
    <2>2. none \in Seq(Calls) /\ Refuse \o none = Refuse
      BY RefuseCalls, ConcatEmptySeq
    <2> HIDE DEF none
    <2>3. Does(Refuse \o none, BadRequest, TRUE)
      BY <2>2, RefuseDoes
    <2>4. Does(r.calls, BadRequest, TRUE)
      BY <2>1, <2>2, <2>3
    <2> QED
      BY <1>5, <2>4 DEF r
  <1>6. CASE ~BadVersion(u)
    <2>1. Holds(p.context, u, "KGotAll") /\ ContextOK(p.context)
      BY <1>3, <1>6 DEF Holds
    <2>2. ~IsUpgrade(p.context) /\ GetAll(p.context)
      BY <2>1, NoUpgrade DEF Holds, GetAll
    <2>3. r.context = "kHandsharked" /\ r.calls = Refuse \o reply
      BY <1>4, <2>2 DEF HandshakeParsed
    <2>4. key \in Seq(WordTokens)
      <3>1. \A field \in DOMAIN p.context.Heads :
              p.context.Heads[field] \in Seq(WordTokens)
        BY <2>1 DEF Holds
      <3> QED
        BY <3>1 DEF GetHeader
    <2> HIDE DEF key
    <2> DEFINE d == <<Text("101")>> \o key
    <2>5. d \in Seq(WordTokens) /\ d \in Texts
      <3>1. <<Text("101")>> \in Seq(WordTokens)
        BY HandshakeAssumption DEF WordTokens, Text
      <3>2. d \in Seq(WordTokens)
        BY <2>4, <3>1, ConcatProperties
      <3> QED
        BY <3>2 DEF WordTokens, Texts
    <2> HIDE DEF d
    <2>6. HandleShared(key) = d
      <3>1. Content(AppendData(NewBuffer, d)) = <<>> \o d
        BY <2>5, NewBufferEmpty, AppendAdds DEF Texts
      <3> QED
        BY <2>5, <3>1, ConcatEmptySeq DEF HandleShared, d, Texts
    <2>7. reply = <<SendCall(d)>> /\ reply \in Seq(Calls)
      BY <2>5, <2>6 DEF Calls
    <2> HIDE DEF reply
    <2>8. Does(r.calls, BadRequest, TRUE)
      BY <2>3, <2>7, RefuseDoes
    <2>9. Sent(r.calls) = BadRequest \o d
      BY <2>3, <2>5, <2>7, SentBehindRefusal
    <2>10. BadRequest \in Seq(WordTokens)
      BY AnswerAssumption DEF BadRequest, WordTokens, Text
    <2>11. BadRequest \o d \in Seq(WordTokens)
      BY <2>5, <2>10, ConcatProperties
    <2> QED
      BY <1>6, <2>3, <2>8, <2>9, <2>11 DEF r
  <1> QED
    BY <1>5, <1>6

(* A frame whose length has the first form.                                *)
ShortFrame(u) == u \in Frames /\ Len(u.payload) < Short

(* The frame that answers one can be in a Buffer.                          *)
LEMMA EchoType ==
  ASSUME NEW u, ShortFrame(u)
  PROVE  Plain(u) \in Texts /\ EchoOf(u) \in Texts
  <1> DEFINE V == {v \in STRING : Data(v, {}) \in Byte}
             n == Len(u.payload)
             reply(op, data) == <<Fin(1, op), Length(0, Len(data))>>
                                  \o [i \in DOMAIN data |-> Data(data[i], {})]
  <1>1. /\ u.opcode \in 0 .. 15 /\ u.payload \in Seq(V) /\ n \in Nat
        /\ n < Short
    BY DEF ShortFrame, Frames
  <1>2. ASSUME NEW op \in 0 .. 15, NEW data \in Seq(V), Len(data) < Short
        PROVE  /\ reply(op, data) \in Texts
               /\ [i \in DOMAIN data |-> Data(data[i], {})] \in Texts
    <2> DEFINE head == <<Fin(1, op), Length(0, Len(data))>>
               body == [i \in DOMAIN data |-> Data(data[i], {})]
    <2>1. Len(data) \in 0 .. Short - 1
      BY <1>2, ShortAssumption
    <2>2. Fin(1, op) \in Byte /\ Length(0, Len(data)) \in Byte
      BY <2>1, HeadsAssumption
    <2>3. head \in Texts
      BY <2>2 DEF Texts
    <2>4. body \in Texts
      <3>1. \A i \in DOMAIN data : Data(data[i], {}) \in Byte
        OBVIOUS
      <3>2. DOMAIN data = 1 .. Len(data) /\ Len(data) \in Nat
        OBVIOUS
      <3> QED
        BY <3>1, <3>2 DEF Texts
    <2> HIDE DEF head, body
    <2>5. head \o body \in Texts
      BY <2>3, <2>4, TextsConcat
    <2> QED
      BY <2>4, <2>5 DEF head, body
  <1> DEFINE empty == <<>>
  <1>3. empty \in Seq(V) /\ Len(empty) < Short /\ empty \in Texts
    BY ShortAssumption DEF Texts
  <1> HIDE DEF V
  <1>4. Plain(u) \in Texts
    <2>1. 0 \in 0 .. 15
      OBVIOUS
    <2> HIDE DEF reply
    <2> QED
      BY <1>1, <1>2, <2>1 DEF Plain
  <1>5. /\ reply(u.opcode, u.payload) \in Texts /\ reply(8, empty) \in Texts
        /\ reply(10, empty) \in Texts
    <2>1. 8 \in 0 .. 15 /\ 10 \in 0 .. 15
      OBVIOUS
    <2> HIDE DEF reply, empty
    <2> QED
      BY <1>1, <1>2, <1>3, <2>1
  <1>6. EchoOf(u) = CASE u.opcode \in {0, 1, 2} -> reply(u.opcode, u.payload)
                      [] u.opcode = 8 -> reply(8, empty)
                      [] u.opcode = 9 -> reply(10, empty)
                      [] OTHER -> empty
    BY DEF EchoOf, Opcodes
  <1> HIDE DEF reply, empty
  <1> QED
    BY <1>3, <1>4, <1>5, <1>6

(* WebSocketServer::onMessage() with a frame behind the handshake.         *)
LEMMA FrameAnswered ==
  ASSUME NEW u, ShortFrame(u), NEW buf, BufferOK(buf), Content(buf) = Bytes(u)
  PROVE  LET r == WebSocketOnMessage("kHandsharked", buf)
         IN r.context = "kHandsharked" /\ Sent(r.calls) = EchoOf(u)
  <1> DEFINE r == WebSocketOnMessage("kHandsharked", buf)
             V == {v \in STRING : Data(v, {}) \in Byte}
             one == <<Frame(u)>>
  <1>1. /\ u.mask \in {0, 1} /\ u.payload \in Seq(V) /\ u.kind = "frame"
        /\ Len(u.payload) < Short
    BY DEF ShortFrame, Frames
  <1>2. Content(buf) = Frame(u)
    <2>1. Chunks(u) = one
      BY <1>1 DEF Chunks
    <2>2. Len(one) = 1 /\ one[1] = Frame(u)
      OBVIOUS
    <2> HIDE DEF one
    <2>3. FlattenSeq(one) = Frame(u)
      BY <2>2, FlattenOne
    <2> QED
      BY <2>1, <2>3 DEF Bytes
  <1>3. Plain(u) \in Texts /\ EchoOf(u) \in Texts
    BY EchoType
  <1> HIDE DEF V
  <1>4. HandleData(buf) = IF EchoOf(u) = <<>> THEN <<>>
                          ELSE <<SendCall(EchoOf(u))>>
    BY <1>1, <1>2, <1>3, EchoReturnsPayload
  <1>5. r.context = "kHandsharked" /\ r.calls = HandleData(buf)
    BY DEF WebSocketOnMessage
  <1> HIDE DEF r
  <1>6. Sent(r.calls) = EchoOf(u)
    <2> DEFINE e == EchoOf(u)
    <2>1. e \in Texts /\ r.calls = IF e = <<>> THEN <<>> ELSE <<SendCall(e)>>
      BY <1>3, <1>4, <1>5
    <2> HIDE DEF e
    <2>2. Sent(r.calls) = e
      <3>1. CASE e = <<>>
        BY <2>1, <3>1, SentOfOne
      <3>2. CASE e # <<>>
        BY <2>1, <3>2, SentOfOne
      <3> QED
        BY <3>1, <3>2
    <2> QED
      BY <2>2 DEF e
  <1> QED
    BY <1>5, <1>6 DEF r

-----------------------------------------------------------------------------
(***************************************************************************)
(* The stream of a script, and the places where it is cut well.            *)
(***************************************************************************)
(* What begins with something is something.                                *)
LEMMA LeadStays ==
  ASSUME NEW S, NEW a \in Seq(S), NEW b \in Seq(S), a # <<>>
  PROVE  a \o b \in Seq(S) /\ a \o b # <<>>
  <1>1. Len(a) \in Nat \ {0} /\ Len(b) \in Nat
    BY EmptySeq
  <1>2. a \o b \in Seq(S) /\ Len(a \o b) = Len(a) + Len(b)
    BY ConcatProperties
  <1>3. Len(a \o b) # 0
    BY <1>1, <1>2
  <1>4. Len(<<>>) = 0
    OBVIOUS
  <1> QED
    BY <1>2, <1>3, <1>4

(* No chunk of a unit is empty, and there is one at least.                 *)
LEMMA ChunksOfUnit ==
  ASSUME NEW u \in Requests \union Frames, Chunks(u) \in Seq(Texts)
  PROVE  /\ Len(Chunks(u)) \in Nat \ {0}
         /\ \A i \in 1 .. Len(Chunks(u)) : Chunks(u)[i] # <<>>
  <1>1. CASE u \in Requests
    <2> DEFINE C == Chunks(u)
               n == Len(u.headers)
    <2>1. n \in Nat /\ Len(C) = n + 2 /\ \A i \in 1 .. n + 2 : C[i] # <<>>
      BY <1>1, ChunksOfRequest
    <2> HIDE DEF C, n
    <2>2. Len(C) \in Nat \ {0} /\ \A i \in 1 .. Len(C) : C[i] # <<>>
      BY <2>1
    <2> QED
      BY <2>2 DEF C
  <1>2. CASE u \in Frames
    <2> DEFINE n == Len(u.payload)
               keys(i) == IF u.mask = 1 THEN {((i - 1) % 4) + 1} ELSE {}
               lead == <<Fin(1, u.opcode)>>
               size == IF n < Short THEN <<Length(u.mask, n)>>
                       ELSE <<Length(u.mask, Short), Extended(n)>>
               key == IF u.mask = 1 THEN [i \in 1 .. 4 |-> Key(i)] ELSE <<>>
               data == [i \in DOMAIN u.payload |-> Data(u.payload[i], keys(i))]
               S == {Fin(1, u.opcode), Length(u.mask, n),
                     Length(u.mask, Short), Extended(n)}
                      \union {Key(i) : i \in 1 .. 4}
                      \union {Data(u.payload[i], keys(i)) : i \in 1 .. n}
    <2>1. n \in Nat /\ DOMAIN u.payload = 1 .. n
      BY <1>2 DEF Frames
    <2>2. lead \in Seq(S) /\ lead # <<>>
      OBVIOUS
    <2>3. size \in Seq(S)
      <3> DEFINE a == Length(u.mask, n)
                 b == Length(u.mask, Short)
                 c == Extended(n)
      <3>1. a \in S /\ b \in S /\ c \in S
        OBVIOUS
      <3>2. size = IF n < Short THEN <<a>> ELSE <<b, c>>
        OBVIOUS
      <3> HIDE DEF a, b, c, S, size
      <3>3. <<a>> \in Seq(S) /\ <<b, c>> \in Seq(S)
        BY <3>1
      <3> QED
        BY <3>2, <3>3
    <2>4. key \in Seq(S)
      <3> DEFINE four == 4
                 all == [i \in 1 .. four |-> Key(i)]
      <3>1. four \in Nat /\ all \in [1 .. four -> S]
        OBVIOUS
      <3>2. key = IF u.mask = 1 THEN all ELSE <<>>
        OBVIOUS
      <3> HIDE DEF four, all, S, key
      <3>3. all \in Seq(S) /\ <<>> \in Seq(S)
        BY <3>1
      <3> QED
        BY <3>2, <3>3
    <2>5. data \in Seq(S)
      <3>1. data \in [1 .. n -> S]
        BY <2>1
      <3> HIDE DEF data, S
      <3> QED
        BY <2>1, <3>1
    <2>6. Frame(u) = ((lead \o size) \o key) \o data
      BY DEF Frame
    <2> HIDE DEF lead, size, key, data, S
    <2> DEFINE two == lead \o size
               three == two \o key
    <2>7. two \in Seq(S) /\ two # <<>>
      BY <2>2, <2>3, LeadStays
    <2> HIDE DEF two
    <2>8. three \in Seq(S) /\ three # <<>>
      BY <2>4, <2>7, LeadStays
    <2> HIDE DEF three
    <2>9. three \o data # <<>>
      BY <2>5, <2>8, LeadStays
    <2>10. Frame(u) # <<>>
      BY <2>6, <2>9 DEF three, two
    <2>11. Chunks(u) = <<Frame(u)>>
      BY <1>2 DEF Chunks, Frames
    <2> QED
      BY <2>10, <2>11
  <1> QED
    BY <1>1, <1>2

(* A part of a part.                                                       *)
LEMMA PartOfPart ==
  ASSUME NEW S, NEW s \in Seq(S), NEW a \in Nat, NEW b \in Nat,
         NEW c \in Nat, NEW d \in Nat, a <= b, b <= Len(s), c <= d, d <= b - a
  PROVE  SubSeq(SubSeq(s, a + 1, b), c + 1, d) = SubSeq(s, a + c + 1, a + d)
  <1> DEFINE t == SubSeq(s, a + 1, b)
             v == SubSeq(t, c + 1, d)
             w == SubSeq(s, a + c + 1, a + d)
  <1>1. ASSUME NEW r \in Seq(S), NEW m \in Nat, NEW n \in Nat,
               m <= n, n <= Len(r)
        PROVE  /\ SubSeq(r, m + 1, n) \in Seq(S)
               /\ Len(SubSeq(r, m + 1, n)) = n - m
               /\ \A i \in 1 .. n - m : SubSeq(r, m + 1, n)[i] = r[m + i]
    <2>1. m + 1 \in Int /\ n \in Int /\ Len(r) \in Nat
          /\ \A i \in m + 1 .. n : i \in 1 .. Len(r)
      BY <1>1
    <2>2. \A i \in m + 1 .. n : r[i] \in S
      BY <2>1
    <2> DEFINE p == SubSeq(r, m + 1, n)
    <2>3. /\ p \in Seq(S)
          /\ Len(p) = IF m + 1 <= n THEN n - (m + 1) + 1 ELSE 0
          /\ \A i \in 1 .. n - (m + 1) + 1 : p[i] = r[(m + 1) + i - 1]
      BY <2>1, <2>2, SubSeqProperties
    <2> HIDE DEF p
    <2>4. Len(p) = n - m
      BY <1>1, <2>3
    <2>5. \A i \in 1 .. n - m : p[i] = r[m + i]
      <3>1. n - (m + 1) + 1 = n - m
            /\ \A i \in 1 .. n - m : (m + 1) + i - 1 = m + i
        OBVIOUS
      <3> QED
        BY <2>3, <3>1
    <2> QED
      BY <2>3, <2>4, <2>5 DEF p
  <1>2. /\ t \in Seq(S) /\ Len(t) = b - a
        /\ \A i \in 1 .. b - a : t[i] = s[a + i]
    BY <1>1
  <1> HIDE DEF t
  <1>3. /\ v \in Seq(S) /\ Len(v) = d - c
        /\ \A i \in 1 .. d - c : v[i] = t[c + i]
    BY <1>1, <1>2
  <1>4. /\ w \in Seq(S) /\ Len(w) = d - c
        /\ \A i \in 1 .. d - c : w[i] = s[a + c + i]
    <2> DEFINE m == a + c
               n == a + d
    <2>1. m \in Nat /\ n \in Nat /\ m <= n /\ n <= Len(s) /\ n - m = d - c
      OBVIOUS
    <2> HIDE DEF m, n
    <2>2. /\ SubSeq(s, m + 1, n) \in Seq(S)
          /\ Len(SubSeq(s, m + 1, n)) = n - m
          /\ \A i \in 1 .. n - m : SubSeq(s, m + 1, n)[i] = s[m + i]
      BY <1>1, <2>1
    <2> QED
      BY <2>1, <2>2 DEF m, n
  <1> HIDE DEF v, w
  <1>5. \A i \in 1 .. d - c : v[i] = w[i]
    <2> TAKE i \in 1 .. d - c
    <2>1. c + i \in 1 .. b - a /\ a + (c + i) = a + c + i
      OBVIOUS
    <2> QED
      BY <1>2, <1>3, <1>4, <2>1
  <1>6. v = w
    BY <1>3, <1>4, <1>5, SeqEqual
  <1> QED
    BY <1>6 DEF v, w, t

(* The units of a script, their chunks and their bytes.                    *)
LEMMA UnitTypes ==
  ASSUME script \in Scripts
  PROVE  /\ Units \in Seq(Requests \union Frames) /\ Len(Units) \in Nat
         /\ \A i \in 1 .. Len(Units) :
              /\ Units[i] \in Requests \union Frames
              /\ script.service = "http" \/ i = 1 => Units[i] \in Requests
              /\ Chunks(Units[i]) \in Seq(Texts)
              /\ Len(Chunks(Units[i])) \in Nat \ {0}
              /\ \A j \in 1 .. Len(Chunks(Units[i])) :
                   Chunks(Units[i])[j] # <<>>
              /\ Bytes(Units[i]) \in Texts /\ Bytes(Units[i]) # <<>>
              /\ Len(Bytes(Units[i])) =
                   EndOf(Chunks(Units[i]), Len(Chunks(Units[i])))
         /\ script.service \in {"http", "websocket"}
  <1>1. /\ Units \in Seq(Requests \union Frames)
        /\ script.service \in {"http", "websocket"}
        /\ \A i \in DOMAIN Units :
             /\ Chunks(Units[i]) \in Seq(Seq(Byte))
             /\ script.service = "http" \/ i = 1 => Units[i] \in Requests
    BY ScriptsAssumption DEF Units
  <1>2. Len(Units) \in Nat /\ DOMAIN Units = 1 .. Len(Units)
    BY <1>1
  <1>3. ASSUME NEW i \in 1 .. Len(Units)
        PROVE  /\ Units[i] \in Requests \union Frames
               /\ script.service = "http" \/ i = 1 => Units[i] \in Requests
               /\ Chunks(Units[i]) \in Seq(Texts)
               /\ Len(Chunks(Units[i])) \in Nat \ {0}
               /\ \A j \in 1 .. Len(Chunks(Units[i])) :
                    Chunks(Units[i])[j] # <<>>
               /\ Bytes(Units[i]) \in Texts /\ Bytes(Units[i]) # <<>>
               /\ Len(Bytes(Units[i])) =
                    EndOf(Chunks(Units[i]), Len(Chunks(Units[i])))
    <2> DEFINE u == Units[i]
               C == Chunks(u)
    <2>1. u \in Requests \union Frames /\ C \in Seq(Texts)
      BY <1>1, <1>2 DEF Texts
    <2>2. script.service = "http" \/ i = 1 => u \in Requests
      BY <1>1, <1>2
    <2> HIDE DEF u
    <2>3. Len(C) \in Nat \ {0} /\ \A j \in 1 .. Len(C) : C[j] # <<>>
      BY <2>1, ChunksOfUnit
    <2>4. Bytes(u) = FlattenSeq(C)
      BY DEF Bytes
    <2> HIDE DEF C
    <2>5. C \in Seq(Seq(Byte))
      BY <2>1 DEF Texts
    <2>6. Bytes(u) \in Texts
      BY <2>4, <2>5, FlattenType DEF Texts
    <2>7. EndOf(C, Len(C)) = Len(Bytes(u)) /\ EndOf(C, 0) = 0
      BY <2>4, <2>5, FirstAndLastEnd
    <2>8. EndOf(C, 0) < EndOf(C, Len(C))
      <3>1. 0 \in 0 .. Len(C) /\ Len(C) \in 0 .. Len(C) /\ 0 < Len(C)
        BY <2>3
      <3> QED
        BY <2>3, <2>5, <3>1, EndsIncrease
    <2>9. Bytes(u) # <<>>
      BY <2>7, <2>8
    <2> QED
      BY <2>1, <2>2, <2>3, <2>6, <2>7, <2>9 DEF u, C
  <1> QED
    BY <1>1, <1>2, <1>3

(* The units lie one behind the other in the stream.                       *)
LEMMA UnitPositions ==
  ASSUME script \in Scripts
  PROVE  /\ Stream(Units) \in Texts
         /\ UnitEnd(0) = 0 /\ UnitEnd(Len(Units)) = Len(Stream(Units))
         /\ \A i \in 0 .. Len(Units) : UnitEnd(i) \in Nat
         /\ \A i, j \in 0 .. Len(Units) : i < j => UnitEnd(i) < UnitEnd(j)
         /\ \A i \in 1 .. Len(Units) :
              /\ Bytes(Units[i]) =
                   SubSeq(Stream(Units), UnitEnd(i - 1) + 1, UnitEnd(i))
              /\ UnitEnd(i) = UnitEnd(i - 1) + Len(Bytes(Units[i]))
  <1> DEFINE n == Len(Units)
             B == [i \in DOMAIN Units |-> Bytes(Units[i])]
  <1>1. /\ Units \in Seq(Requests \union Frames) /\ n \in Nat
        /\ \A i \in 1 .. n : Bytes(Units[i]) \in Texts /\ Bytes(Units[i]) # <<>>
    BY UnitTypes
  <1>2. DOMAIN Units = 1 .. n
    BY <1>1
  <1>3. /\ B \in Seq(Seq(Byte)) /\ Len(B) = n
        /\ \A i \in 1 .. n : B[i] = Bytes(Units[i]) /\ B[i] # <<>>
    BY <1>1, <1>2 DEF Texts
  <1>4. Stream(Units) = FlattenSeq(B)
    BY DEF Stream
  <1>5. \A i \in 0 .. n : UnitEnd(i) = EndOf(B, i)
    <2> TAKE i \in 0 .. n
    <2> DEFINE us == SubSeq(Units, 1, i)
               bs == SubSeq(B, 1, i)
               each == [k \in DOMAIN us |-> Bytes(us[k])]
    <2>1. i \in Nat /\ i <= n /\ \A k \in 1 .. i : k \in 1 .. n
      BY <1>1
    <2>2. /\ us \in Seq(Requests \union Frames) /\ Len(us) = i
          /\ \A k \in 1 .. i : us[k] = Units[k]
      <3>1. \A k \in 1 .. i : Units[k] \in Requests \union Frames
        BY <1>1, <2>1
      <3>2. /\ Len(us) = IF 1 <= i THEN i - 1 + 1 ELSE 0
            /\ us \in Seq(Requests \union Frames)
            /\ \A k \in 1 .. i - 1 + 1 : us[k] = Units[1 + k - 1]
        BY <1>1, <2>1, <3>1, SubSeqProperties
      <3> HIDE DEF us
      <3> QED
        BY <2>1, <3>2
    <2>3. /\ bs \in Seq(Seq(Byte)) /\ Len(bs) = i
          /\ \A k \in 1 .. i : bs[k] = B[k]
      <3> HIDE DEF B
      <3>1. \A k \in 1 .. i : B[k] \in Seq(Byte)
        BY <1>3, <2>1
      <3>2. /\ Len(bs) = IF 1 <= i THEN i - 1 + 1 ELSE 0
            /\ bs \in Seq(Seq(Byte))
            /\ \A k \in 1 .. i - 1 + 1 : bs[k] = B[1 + k - 1]
        BY <1>3, <2>1, <3>1, SubSeqProperties
      <3> HIDE DEF bs
      <3> QED
        BY <2>1, <3>2
    <2> HIDE DEF us, bs
    <2>4. Len(each) = i /\ \A k \in 1 .. i : each[k] = bs[k]
      <3>1. DOMAIN us = 1 .. i
        BY <2>2
      <3>2. Len(each) = i /\ \A k \in 1 .. i : each[k] = Bytes(us[k])
        BY <2>1, <3>1
      <3> HIDE DEF each, B
      <3>3. \A k \in 1 .. i : Bytes(us[k]) = bs[k]
        <4> TAKE k \in 1 .. i
        <4>1. us[k] = Units[k] /\ bs[k] = B[k] /\ k \in 1 .. n
          BY <2>1, <2>2, <2>3
        <4> QED
          BY <1>3, <4>1
      <3> QED
        BY <3>2, <3>3
    <2>5. each \in Seq(Seq(Byte))
      <3>1. DOMAIN us = 1 .. i
        BY <2>2
      <3>2. each \in [1 .. i -> Seq(Byte)]
        <4>1. \A k \in 1 .. i : Bytes(us[k]) \in Seq(Byte)
          BY <1>1, <2>1, <2>2 DEF Texts
        <4> QED
          BY <3>1, <4>1
      <3> HIDE DEF each
      <3> QED
        BY <2>1, <3>2
    <2> HIDE DEF each
    <2>6. each = bs
      BY <2>3, <2>4, <2>5, SeqEqual
    <2>7. UnitEnd(i) = Len(FlattenSeq(each))
      BY DEF UnitEnd, Stream, each, us
    <2> QED
      BY <2>6, <2>7 DEF EndOf, bs
  <1> HIDE DEF B
  <1>6. /\ EndOf(B, 0) = 0 /\ EndOf(B, n) = Len(FlattenSeq(B))
        /\ FlattenSeq(B) \in Seq(Byte)
    BY <1>3, FirstAndLastEnd, FlattenType
  <1>7. /\ \A i \in 0 .. n : EndOf(B, i) \in Nat
        /\ \A i, j \in 0 .. n : i < j => EndOf(B, i) < EndOf(B, j)
    BY <1>3, EndsIncrease
  <1>8. ASSUME NEW i \in 1 .. n
        PROVE  /\ Bytes(Units[i]) =
                    SubSeq(Stream(Units), UnitEnd(i - 1) + 1, UnitEnd(i))
               /\ UnitEnd(i) = UnitEnd(i - 1) + Len(Bytes(Units[i]))
    <2>1. i \in 0 .. n /\ i - 1 \in 0 .. n /\ i \in 1 .. Len(B)
      BY <1>1, <1>3
    <2>2. UnitEnd(i) = EndOf(B, i) /\ UnitEnd(i - 1) = EndOf(B, i - 1)
      BY <1>5, <2>1
    <2>3. SubSeq(FlattenSeq(B), EndOf(B, i - 1) + 1, EndOf(B, i)) = B[i]
      BY <1>3, <2>1, PartOfFlatten
    <2>4. EndOf(B, i) = EndOf(B, i - 1) + Len(B[i])
      BY <1>3, <2>1, BeginningGrows
    <2> QED
      BY <1>3, <1>4, <2>2, <2>3, <2>4
  <1>9. 0 \in 0 .. n /\ n \in 0 .. n
    BY <1>1
  <1> QED
    BY <1>4, <1>5, <1>6, <1>7, <1>8, <1>9 DEF Texts

(* The places between two segments of a well cut stream: behind unit k, or *)
(* behind the first j chunks of the next one.                              *)
IsPlace(k, j) ==
  /\ k \in 0 .. Len(Units) /\ j \in Nat
  /\ j > 0 => k < Len(Units) /\ j < Len(Chunks(Units[k + 1]))

Offset(k, j) ==
  UnitEnd(k) + IF j = 0 THEN 0 ELSE EndOf(Chunks(Units[k + 1]), j)

(* Where the chunks of a unit end in the stream.                           *)
LEMMA ChunkPositions ==
  ASSUME script \in Scripts, NEW k \in 0 .. Len(Units) - 1
  PROVE  LET C == Chunks(Units[k + 1])
         IN /\ EndOf(C, 0) = 0
            /\ \A i \in 0 .. Len(C) : EndOf(C, i) \in Nat
            /\ \A i, j \in 0 .. Len(C) : i < j => EndOf(C, i) < EndOf(C, j)
            /\ UnitEnd(k + 1) = UnitEnd(k) + EndOf(C, Len(C))
            /\ UnitEnd(k) \in Nat /\ UnitEnd(k + 1) \in Nat
            /\ UnitEnd(k + 1) <= Len(Stream(Units))
            /\ \A i \in 0 .. Len(C) : \A j \in i .. Len(C) :
                 Part(C, i, j) = SubSeq(Stream(Units),
                                        UnitEnd(k) + EndOf(C, i) + 1,
                                        UnitEnd(k) + EndOf(C, j))
  <1> DEFINE L == Len(Units)
             u == Units[k + 1]
             C == Chunks(u)
             S == Stream(Units)
             E(i) == EndOf(C, i)
             a == UnitEnd(k)
             b == UnitEnd(k + 1)
  <1>1. L \in Nat
    BY UnitTypes
  <1>2. k + 1 \in 1 .. L /\ k \in 0 .. L /\ k + 1 \in 0 .. L /\ (k + 1) - 1 = k
    BY <1>1
  <1>3. /\ C \in Seq(Texts) /\ Len(C) \in Nat \ {0}
        /\ \A i \in 1 .. Len(C) : C[i] # <<>>
        /\ Bytes(u) \in Texts /\ Len(Bytes(u)) = E(Len(C))
    BY <1>2, UnitTypes
  <1>4. /\ S \in Texts /\ a \in Nat /\ b \in Nat
        /\ Bytes(u) = SubSeq(S, a + 1, b) /\ b = a + Len(Bytes(u))
        /\ UnitEnd(L) = Len(S) /\ UnitEnd(L) \in Nat
        /\ k + 1 < L => b < UnitEnd(L)
    <2>1. L \in 0 .. L
      BY <1>1
    <2> QED
      BY <1>2, <2>1, UnitPositions
  <1>5. b <= Len(S) /\ Len(S) \in Nat
    <2>1. k + 1 < L \/ k + 1 = L
      BY <1>1, <1>2
    <2>2. CASE k + 1 = L
      BY <1>4, <2>2
    <2>3. CASE k + 1 < L
      BY <1>4, <2>3
    <2> QED
      BY <1>4, <2>1, <2>2, <2>3
  <1>6. Bytes(u) = FlattenSeq(C)
    BY DEF Bytes
  <1> HIDE DEF C
  <1>7. C \in Seq(Seq(Byte))
    BY <1>3 DEF Texts
  <1>8. /\ E(0) = 0 /\ \A i \in 0 .. Len(C) : E(i) \in Nat
        /\ \A i, j \in 0 .. Len(C) : i < j => E(i) < E(j)
    BY <1>3, <1>7, FirstAndLastEnd, EndsIncrease
  <1> HIDE DEF L, u, S, E, a, b
  <1>9. ASSUME NEW i \in 0 .. Len(C), NEW j \in i .. Len(C)
        PROVE  Part(C, i, j) = SubSeq(S, a + E(i) + 1, a + E(j))
    <2>1. /\ i \in 0 .. Len(C) /\ j \in 0 .. Len(C) /\ Len(C) \in 0 .. Len(C)
          /\ (i < j \/ i = j) /\ (j < Len(C) \/ j = Len(C))
      BY <1>3
    <2>2. E(i) \in Nat /\ E(j) \in Nat /\ E(Len(C)) \in Nat
      BY <1>8, <2>1
    <2>3. E(i) <= E(j)
      BY <1>8, <2>1, <2>2
    <2>4. E(j) <= E(Len(C))
      BY <1>8, <2>1, <2>2
    <2>5. a <= b /\ E(j) <= b - a
      BY <1>3, <1>4, <2>2, <2>4
    <2>6. Part(C, i, j) = SubSeq(SubSeq(S, a + 1, b), E(i) + 1, E(j))
      BY <1>4, <1>6 DEF Part, E
    <2>7. S \in Seq(Byte)
      BY <1>4 DEF Texts
    <2>8. SubSeq(SubSeq(S, a + 1, b), E(i) + 1, E(j))
            = SubSeq(S, a + E(i) + 1, a + E(j))
      <3> DEFINE c == E(i)
                 d == E(j)
      <3>1. /\ S \in Seq(Byte) /\ a \in Nat /\ b \in Nat
            /\ c \in Nat /\ d \in Nat
            /\ a <= b /\ b <= Len(S) /\ c <= d /\ d <= b - a
        BY <1>4, <1>5, <2>2, <2>3, <2>5, <2>7
      <3> HIDE DEF c, d
      <3>2. SubSeq(SubSeq(S, a + 1, b), c + 1, d) = SubSeq(S, a + c + 1, a + d)
        BY <3>1, PartOfPart
      <3> QED
        BY <3>2 DEF c, d
    <2> QED
      BY <2>6, <2>8, Zenon
  <1>10. b = a + E(Len(C))
    BY <1>3, <1>4
  <1> QED
    BY <1>4, <1>5, <1>8, <1>9, <1>10 DEF C, u, S, E, a, b

(* A place is at the end of its unit or before the end of the next one.    *)
LEMMA PlaceRange ==
  ASSUME script \in Scripts, NEW k, NEW j, IsPlace(k, j)
  PROVE  /\ Offset(k, j) \in Nat /\ Offset(k, j) <= Len(Stream(Units))
         /\ UnitEnd(k) \in Nat /\ UnitEnd(k) <= Offset(k, j)
         /\ j = 0 => Offset(k, j) = UnitEnd(k)
         /\ j > 0 => UnitEnd(k) < Offset(k, j)
         /\ k < Len(Units) => /\ Offset(k, j) < UnitEnd(k + 1)
                              /\ UnitEnd(k + 1) \in Nat
                              /\ Offset(k, j) = UnitEnd(k) +
                                   EndOf(Chunks(Units[k + 1]), j)
         /\ k = Len(Units) => Offset(k, j) = Len(Stream(Units))
  <1> DEFINE L == Len(Units)
             S == Stream(Units)
             C == Chunks(Units[k + 1])
             a == UnitEnd(k)
             p == Offset(k, j)
  <1>1. /\ L \in Nat /\ k \in 0 .. L /\ j \in Nat
        /\ j > 0 => k < L /\ j < Len(C)
    BY UnitTypes DEF IsPlace
  <1>2. p = a + IF j = 0 THEN 0 ELSE EndOf(C, j)
    BY DEF Offset
  <1>3. a \in Nat /\ UnitEnd(L) = Len(S)
    BY <1>1, UnitPositions
  <1> HIDE DEF L, S, C, a, p
  <1>4. CASE k = L
    <2>1. j = 0 /\ p = a
      BY <1>1, <1>2, <1>3, <1>4
    <2>2. a = Len(S)
      BY <1>3, <1>4 DEF a
    <2> QED
      BY <1>1, <1>3, <1>4, <2>1, <2>2 DEF L, S, a, p
  <1>5. CASE k # L
    <2> DEFINE b == UnitEnd(k + 1)
    <2>1. k \in 0 .. L - 1 /\ k < L
      BY <1>1, <1>5
    <2>2. /\ EndOf(C, 0) = 0
          /\ \A i \in 0 .. Len(C) : EndOf(C, i) \in Nat
          /\ \A i, m \in 0 .. Len(C) : i < m => EndOf(C, i) < EndOf(C, m)
          /\ b = a + EndOf(C, Len(C)) /\ b \in Nat /\ b <= Len(S)
      BY <2>1, ChunkPositions DEF L, S, C, a
    <2>3. Len(C) \in Nat \ {0}
      <3>1. k + 1 \in 1 .. L
        BY <1>1, <2>1
      <3> QED
        BY <3>1, UnitTypes DEF L, C
    <2>4. j \in 0 .. Len(C) /\ Len(C) \in 0 .. Len(C) /\ j < Len(C)
          /\ 0 \in 0 .. Len(C)
      BY <1>1, <2>3
    <2>5. /\ EndOf(C, j) \in Nat /\ EndOf(C, j) < EndOf(C, Len(C))
          /\ (j > 0 => EndOf(C, j) > 0) /\ EndOf(C, Len(C)) \in Nat
      BY <1>1, <2>2, <2>4
    <2>6. p = a + EndOf(C, j)
      BY <1>2, <1>3, <2>2
    <2> HIDE DEF b
    <2>7. /\ p \in Nat /\ p <= Len(S) /\ a <= p /\ p < b
          /\ (j = 0 => p = a) /\ (j > 0 => a < p)
      <3>1. p < b /\ p \in Nat /\ a <= p
        BY <1>3, <2>2, <2>5, <2>6
      <3>2. (j = 0 => p = a) /\ (j > 0 => a < p)
        BY <1>1, <1>2, <1>3, <2>5, <2>6
      <3>3. p <= Len(S)
        <4>1. Len(S) \in Nat
          BY UnitPositions DEF S, Texts
        <4> QED
          BY <2>2, <3>1, <4>1
      <3> QED
        BY <3>1, <3>2, <3>3
    <2> QED
      BY <1>3, <1>5, <2>2, <2>6, <2>7 DEF L, S, a, p, b, C
  <1> QED
    BY <1>4, <1>5

(* A clean cut behind a place is at the end of a later chunk of the same   *)
(* unit, and of its last one for the WebSocketServer.                      *)
LEMMA CutPlace ==
  ASSUME script \in Scripts, NEW k, NEW j, IsPlace(k, j),
         NEW q \in Nat, Offset(k, j) < q, q <= Len(Stream(Units)),
         CleanCut(Offset(k, j), q)
  PROVE  /\ k < Len(Units)
         /\ LET C == Chunks(Units[k + 1])
            IN \E t \in j + 1 .. Len(C) :
                 /\ q = UnitEnd(k) + EndOf(C, t)
                 /\ script.service = "http" \/ t = Len(C)
  <1> DEFINE L == Len(Units)
             S == Stream(Units)
             C == Chunks(Units[k + 1])
             E(i) == UnitEnd(i)
             p == Offset(k, j)
  <1>1. /\ L \in Nat /\ k \in 0 .. L /\ j \in Nat
        /\ j > 0 => k < L /\ j < Len(C)
        /\ script.service \in {"http", "websocket"}
    BY UnitTypes DEF IsPlace
  <1>2. /\ p \in Nat /\ p <= Len(S) /\ E(k) \in Nat /\ E(k) <= p
        /\ k < L => p < E(k + 1) /\ E(k + 1) \in Nat /\ p = E(k) + EndOf(C, j)
        /\ k = L => p = Len(S)
    BY PlaceRange
  <1>3. /\ \A i \in 0 .. L : E(i) \in Nat
        /\ \A i, m \in 0 .. L : i < m => E(i) < E(m)
        /\ Len(S) \in Nat
    BY UnitPositions DEF Texts
  <1>4. p < q /\ q <= Len(S)
    OBVIOUS
  <1>5. k < L
    BY <1>1, <1>2, <1>3, <1>4
  <1>6. /\ k \in 0 .. L - 1 /\ k + 1 \in 0 .. L /\ k + 1 \in 1 .. L
    BY <1>1, <1>5
  <1>7. /\ EndOf(C, 0) = 0
        /\ \A i \in 0 .. Len(C) : EndOf(C, i) \in Nat
        /\ \A i, m \in 0 .. Len(C) : i < m => EndOf(C, i) < EndOf(C, m)
        /\ E(k + 1) = E(k) + EndOf(C, Len(C))
    BY <1>6, ChunkPositions
  <1>8. Len(C) \in Nat \ {0}
    BY <1>6, UnitTypes
  <1>9. q <= E(k + 1)
    <2>1. E(k + 1) \in UnitEnds
      BY <1>6 DEF UnitEnds
    <2>2. E(k + 1) <= p \/ q <= E(k + 1)
      BY <2>1 DEF CleanCut
    <2> HIDE DEF p, E
    <2> QED
      BY <1>2, <1>5, <2>2
  <1>10. q \in IF script.service = "http" THEN ChunkEnds ELSE UnitEnds
    BY DEF CleanCut
  <1> HIDE DEF L, S, p
  <1>11. CASE script.service = "http"
    <2>1. PICK i \in DOMAIN Units : \E t \in DOMAIN Chunks(Units[i]) :
            q = UnitEnd(i - 1) + EndOf(Chunks(Units[i]), t)
      BY <1>10, <1>11 DEF ChunkEnds, EndOf
    <2>2. i \in 1 .. L
      BY UnitTypes DEF L
    <2> DEFINE D == Chunks(Units[i])
               m == i - 1
    <2>3. /\ m \in 0 .. L - 1 /\ m + 1 = i /\ m \in 0 .. L
          /\ m + 1 \in 0 .. L /\ m \in Nat
      BY <1>1, <2>2
    <2>4. /\ D \in Seq(Texts) /\ Len(D) \in Nat \ {0}
      BY <2>2, UnitTypes DEF L
    <2>5. PICK t \in 1 .. Len(D) : q = E(m) + EndOf(D, t)
      <3>1. DOMAIN D = 1 .. Len(D)
        BY <2>4
      <3> QED
        BY <2>1, <3>1
    <2>6. /\ \A x \in 0 .. Len(D) : EndOf(D, x) \in Nat
          /\ \A x, y \in 0 .. Len(D) : x < y => EndOf(D, x) < EndOf(D, y)
          /\ E(m + 1) = E(m) + EndOf(D, Len(D))
          /\ EndOf(D, 0) = 0
      <3> DEFINE D2 == Chunks(Units[m + 1])
      <3>1. /\ \A x \in 0 .. Len(D2) : EndOf(D2, x) \in Nat
            /\ \A x, y \in 0 .. Len(D2) : x < y => EndOf(D2, x) < EndOf(D2, y)
            /\ E(m + 1) = E(m) + EndOf(D2, Len(D2))
            /\ EndOf(D2, 0) = 0
        BY <2>3, ChunkPositions DEF L
      <3>2. D2 = D
        BY <2>3
      <3> HIDE DEF D2, D, E, m
      <3> QED
        BY <3>1, <3>2
    <2>7. E(m) < q /\ q <= E(m + 1)
      <3>1. /\ t \in 0 .. Len(D) /\ 0 \in 0 .. Len(D) /\ 0 < t
            /\ Len(D) \in 0 .. Len(D) /\ (t < Len(D) \/ t = Len(D))
        BY <2>4
      <3> HIDE DEF D
      <3>2. /\ EndOf(D, t) \in Nat /\ 0 < EndOf(D, t)
            /\ EndOf(D, Len(D)) \in Nat /\ EndOf(D, t) <= EndOf(D, Len(D))
        BY <2>6, <3>1
      <3>3. E(m) \in Nat /\ E(m + 1) \in Nat
        BY <1>3, <2>3
      <3> HIDE DEF E
      <3> QED
        BY <2>5, <2>6, <3>2, <3>3
    <2>8. m = k
      <3>1. k \in 0 .. L /\ m \in 0 .. L /\ k \in Nat /\ m \in Nat
            /\ k + 1 \in 0 .. L /\ m + 1 \in 0 .. L
        BY <1>1, <1>6, <2>3
      <3>2. /\ E(k) \in Nat /\ E(m) \in Nat /\ E(k + 1) \in Nat
            /\ E(m + 1) \in Nat
        BY <1>3, <3>1
      <3> HIDE DEF E, m
      <3>3. ~(k < m)
        <4> SUFFICES ASSUME k < m PROVE FALSE
          OBVIOUS
        <4>1. k + 1 < m \/ k + 1 = m
          BY <3>1
        <4>2. E(k + 1) <= E(m)
          BY <1>3, <3>1, <3>2, <4>1
        <4> QED
          BY <1>9, <2>7, <3>2, <4>2
      <3>4. ~(m < k)
        <4> SUFFICES ASSUME m < k PROVE FALSE
          OBVIOUS
        <4>1. m + 1 < k \/ m + 1 = k
          BY <3>1
        <4>2. E(m + 1) <= E(k)
          BY <1>3, <3>1, <3>2, <4>1
        <4> QED
          BY <1>2, <1>4, <2>7, <3>2, <4>2
      <3> QED
        BY <3>1, <3>3, <3>4
    <2>9. D = C
      BY <2>3, <2>8
    <2> HIDE DEF D, C, E, m
    <2>10. t \in 1 .. Len(C) /\ q = E(k) + EndOf(C, t)
      BY <2>5, <2>8, <2>9
    <2>11. j < t
      <3> SUFFICES ASSUME ~(j < t) PROVE FALSE
        OBVIOUS
      <3>1. j > 0
        BY <1>1, <2>10
      <3>2. /\ j \in 0 .. Len(C) /\ t \in 0 .. Len(C)
            /\ (t < j \/ t = j)
        BY <1>1, <1>8, <2>10, <3>1
      <3>3. EndOf(C, t) <= EndOf(C, j) /\ EndOf(C, t) \in Nat
            /\ EndOf(C, j) \in Nat
        BY <1>7, <3>2
      <3> QED
        BY <1>2, <1>4, <1>5, <2>10, <3>3
    <2>12. t \in j + 1 .. Len(C)
      BY <1>1, <1>8, <2>10, <2>11
    <2> QED
      BY <1>5, <1>11, <2>10, <2>12 DEF C, L, E
  <1>12. CASE script.service = "websocket"
    <2>1. PICK m \in 0 .. L : q = E(m)
      BY <1>10, <1>12 DEF UnitEnds, L
    <2>2. k \in 0 .. L /\ k + 1 \in 0 .. L /\ k \in Nat /\ m \in Nat
      BY <1>1, <1>6
    <2>3. E(k) \in Nat /\ E(k + 1) \in Nat /\ E(m) \in Nat
      BY <1>3, <2>2
    <2> HIDE DEF E, C
    <2>4. m = k + 1
      <3>1. ~(k + 1 < m)
        BY <1>3, <1>9, <2>1, <2>2, <2>3
      <3>2. ~(m < k) /\ m # k
        BY <1>2, <1>3, <1>4, <2>1, <2>2, <2>3
      <3> QED
        BY <2>2, <3>1, <3>2
    <2>5. q = E(k) + EndOf(C, Len(C))
      BY <1>7, <2>1, <2>4
    <2>6. Len(C) \in j + 1 .. Len(C)
      BY <1>1, <1>8
    <2> QED
      BY <1>5, <2>5, <2>6 DEF C, L, E
  <1> QED
    BY <1>1, <1>11, <1>12

(* What is read from a place to a clean cut: some chunks of the next unit, *)
(* all of them by the WebSocketServer. The cut is a place again.           *)
LEMMA SegmentRead ==
  ASSUME script \in Scripts, NEW k, NEW j, IsPlace(k, j),
         toCome = Rest(Stream(Units), Offset(k, j)),
         NEW n \in DOMAIN toCome, CleanCut(Position, Position + n)
  PROVE  /\ Position = Offset(k, j) /\ k < Len(Units)
         /\ LET C == Chunks(Units[k + 1])
            IN \E t \in j + 1 .. Len(C) :
                 /\ First(toCome, n) = Part(C, j, t)
                 /\ script.service = "http" \/ t = Len(C)
                 /\ IF t = Len(C)
                    THEN /\ IsPlace(k + 1, 0)
                         /\ Rest(toCome, n) =
                              Rest(Stream(Units), Offset(k + 1, 0))
                    ELSE /\ IsPlace(k, t)
                         /\ Rest(toCome, n) =
                              Rest(Stream(Units), Offset(k, t))
  <1> DEFINE L == Len(Units)
             S == Stream(Units)
             C == Chunks(Units[k + 1])
             a == UnitEnd(k)
             p == Offset(k, j)
             q == p + n
  <1>1. /\ L \in Nat /\ k \in 0 .. L /\ j \in Nat
        /\ j > 0 => k < L /\ j < Len(C)
    BY UnitTypes DEF IsPlace
  <1>2. /\ p \in Nat /\ p <= Len(S) /\ a \in Nat
        /\ k < L => p = a + EndOf(C, j)
    BY PlaceRange
  <1>3. S \in Seq(Byte) /\ Len(S) \in Nat
    BY UnitPositions DEF Texts
  <1>4. toCome = SubSeq(S, p + 1, Len(S))
    BY DEF Rest
  <1> HIDE DEF S, p
  <1>5. Len(toCome) = Len(S) - p /\ DOMAIN toCome = 1 .. Len(S) - p
    <2>1. \A i \in p + 1 .. Len(S) : S[i] \in Byte
      <3>1. \A i \in p + 1 .. Len(S) : i \in 1 .. Len(S)
        BY <1>2, <1>3
      <3> QED
        BY <1>3, <3>1
    <2>2. /\ SubSeq(S, p + 1, Len(S)) \in Seq(Byte)
          /\ Len(SubSeq(S, p + 1, Len(S))) =
               IF p + 1 <= Len(S) THEN Len(S) - (p + 1) + 1 ELSE 0
      <3>1. p + 1 \in Int /\ Len(S) \in Int
        BY <1>2, <1>3
      <3> QED
        BY <1>3, <2>1, <3>1, SubSeqProperties
    <2>3. toCome \in Seq(Byte) /\ Len(toCome) = Len(S) - p
      BY <1>2, <1>3, <1>4, <2>2
    <2>4. DOMAIN toCome = 1 .. Len(toCome)
      BY <2>3
    <2> QED
      BY <2>3, <2>4
  <1>6. n \in Nat /\ 1 <= n /\ n <= Len(S) - p
    BY <1>2, <1>3, <1>5
  <1>7. Position = p
    BY <1>2, <1>3, <1>5 DEF Position, S
  <1>8. q \in Nat /\ p < q /\ q <= Len(S)
    BY <1>2, <1>3, <1>6
  <1>9. CleanCut(p, q)
    BY <1>7
  <1> HIDE DEF q
  <1>10. /\ k < L
         /\ \E t \in j + 1 .. Len(C) :
              /\ q = a + EndOf(C, t)
              /\ script.service = "http" \/ t = Len(C)
    BY <1>8, <1>9, CutPlace DEF S, p
  <1>11. PICK t \in j + 1 .. Len(C) :
           /\ q = a + EndOf(C, t)
           /\ script.service = "http" \/ t = Len(C)
    BY <1>10
  <1>12. k \in 0 .. L - 1 /\ k + 1 \in 0 .. L /\ k + 1 \in 1 .. L
    BY <1>1, <1>10
  <1>13. Len(C) \in Nat \ {0}
    BY <1>12, UnitTypes
  <1>14. j \in 0 .. Len(C) /\ t \in j .. Len(C) /\ t \in Nat /\ t > 0
    BY <1>1, <1>11, <1>13
  <1>15. First(toCome, n) = Part(C, j, t)
    <2>1. Part(C, j, t) = SubSeq(S, a + EndOf(C, j) + 1, a + EndOf(C, t))
      BY <1>12, <1>14, ChunkPositions DEF S
    <2>2. First(toCome, n) = SubSeq(SubSeq(S, p + 1, Len(S)), 0 + 1, n)
      BY <1>4 DEF First
    <2> DEFINE c == 0
               b == Len(S)
    <2>3. /\ S \in Seq(Byte) /\ p \in Nat /\ b \in Nat /\ c \in Nat /\ n \in Nat
          /\ p <= b /\ b <= Len(S) /\ c <= n /\ n <= b - p
      BY <1>2, <1>3, <1>6
    <2>4. p + c + 1 = p + 1
      BY <1>2
    <2> HIDE DEF b, c
    <2>5. SubSeq(SubSeq(S, p + 1, b), c + 1, n) = SubSeq(S, p + c + 1, p + n)
      BY <2>3, PartOfPart
    <2>6. First(toCome, n) = SubSeq(S, p + 1, q)
      BY <2>2, <2>4, <2>5 DEF b, c, q
    <2> QED
      BY <1>2, <1>10, <1>11, <2>1, <2>6
  <1>16. Rest(toCome, n) = Rest(S, q)
    <2> DEFINE b == Len(S)
               c == n
               d == Len(S) - p
    <2>1. Rest(toCome, n) = SubSeq(SubSeq(S, p + 1, b), c + 1, d)
      BY <1>4, <1>5 DEF Rest
    <2>2. /\ S \in Seq(Byte) /\ p \in Nat /\ b \in Nat /\ c \in Nat /\ d \in Nat
          /\ p <= b /\ b <= Len(S) /\ c <= d /\ d <= b - p
      BY <1>2, <1>3, <1>6
    <2>3. p + d = Len(S) /\ p + c = q
      BY <1>2, <1>3 DEF q
    <2> HIDE DEF b, c, d
    <2>4. SubSeq(SubSeq(S, p + 1, b), c + 1, d) = SubSeq(S, p + c + 1, p + d)
      BY <2>2, PartOfPart
    <2> QED
      BY <2>1, <2>3, <2>4 DEF Rest
  <1>17. IF t = Len(C) THEN IsPlace(k + 1, 0) /\ Offset(k + 1, 0) = q
         ELSE IsPlace(k, t) /\ Offset(k, t) = q
    <2>1. CASE t = Len(C)
      <3>1. UnitEnd(k + 1) = a + EndOf(C, Len(C)) /\ UnitEnd(k + 1) \in Nat
        BY <1>12, ChunkPositions
      <3>2. IsPlace(k + 1, 0)
        BY <1>12 DEF IsPlace
      <3>3. Offset(k + 1, 0) = q
        BY <1>11, <2>1, <3>1 DEF Offset
      <3> QED
        BY <2>1, <3>2, <3>3
    <2>2. CASE t # Len(C)
      <3>1. t < Len(C)
        BY <1>13, <1>14, <2>2
      <3>2. IsPlace(k, t)
        BY <1>1, <1>10, <1>14, <3>1 DEF IsPlace
      <3>3. Offset(k, t) = q
        BY <1>11, <1>14 DEF Offset
      <3> QED
        BY <2>2, <3>2, <3>3
    <2> QED
      BY <2>1, <2>2
  <1>18. IF t = Len(C)
         THEN IsPlace(k + 1, 0) /\ Rest(toCome, n) = Rest(S, Offset(k + 1, 0))
         ELSE IsPlace(k, t) /\ Rest(toCome, n) = Rest(S, Offset(k, t))
    BY <1>16, <1>17
  <1> QED
    <2> HIDE DEF C, L
    <2>1. \E v \in j + 1 .. Len(C) :
            /\ First(toCome, n) = Part(C, j, v)
            /\ script.service = "http" \/ v = Len(C)
            /\ IF v = Len(C)
               THEN /\ IsPlace(k + 1, 0)
                    /\ Rest(toCome, n) = Rest(S, Offset(k + 1, 0))
               ELSE /\ IsPlace(k, v)
                    /\ Rest(toCome, n) = Rest(S, Offset(k, v))
      BY <1>11, <1>15, <1>18
    <2> QED
      BY <1>7, <1>10, <2>1 DEF S, p, C, L

-----------------------------------------------------------------------------
(***************************************************************************)
(* The answers that are expected, and the invariant that relates what is   *)
(* accepted and offered to the place the stream was read to.               *)
(***************************************************************************)
(* One of the first n units is answered by closing the connection.         *)
Closed(n) == \E i \in 1 .. n : AnswerTo(Units[i]).close

(* Replies are bytes.                                                      *)
LEMMA ReplyType ==
  ASSUME NEW u
  PROVE  /\ AnswerTo(u).bytes \in Texts /\ AnswerTo(u).close \in BOOLEAN
         /\ Refusal.bytes = BadRequest /\ Refusal.close = TRUE
  <1>1. /\ Closing("404").bytes \in Texts /\ Closing("404").close = TRUE
        /\ Refusal.bytes \in Texts /\ Refusal.close = TRUE
        /\ Refusal.bytes = BadRequest
    BY AnswerAssumption DEF Closing, Refusal, BadRequest, Texts
  <1>2. HttpAnswer(u).bytes \in Texts /\ HttpAnswer(u).close \in BOOLEAN
    <2> DEFINE page == Page(u)
    <2>1. CASE \/ u.method \notin Methods \/ u.version \notin Versions
               \/ page \notin Pages
      BY <1>1, <2>1 DEF HttpAnswer
    <2>2. CASE /\ u.method \in Methods /\ u.version \in Versions
               /\ page \in Pages
      <3>1. page \in Texts /\ <<"Content-Length", Len(page)>> \in Byte
        BY <2>2, PagesAssumption DEF Texts
      <3> HIDE DEF page
      <3> DEFINE short == <<Text("200"), Text("close"), Text("blank")>>
                 long == <<Text("200"), Text("Keep-Alive"),
                           <<"Content-Length", Len(page)>>, Text("blank")>>
      <3>2. short \in Texts /\ long \in Texts
        BY <3>1, AnswerAssumption DEF Texts
      <3>3. \/ /\ HttpAnswer(u).bytes = short \o page
               /\ HttpAnswer(u).close = TRUE
            \/ /\ HttpAnswer(u).bytes = long \o page
               /\ HttpAnswer(u).close = FALSE
        BY <2>2 DEF HttpAnswer, Closing, page
      <3> HIDE DEF short, long
      <3>4. short \o page \in Texts /\ long \o page \in Texts
        BY <3>1, <3>2, TextsConcat
      <3> QED
        BY <3>3, <3>4
    <2> QED
      BY <2>1, <2>2
  <1> QED
    BY <1>1, <1>2 DEF AnswerTo

(* The answers to one unit more.                                           *)
LEMMA ExpectedGrows ==
  ASSUME NEW n \in Nat
  PROVE  /\ AnswersTo(0) = <<>> /\ ~Closed(0)
         /\ AnswersTo(n) \in Texts
         /\ AnswersTo(n + 1) = AnswersTo(n) \o
              (IF Closed(n) THEN <<>> ELSE AnswerTo(Units[n + 1]).bytes)
         /\ Closed(n + 1) <=> Closed(n) \/ AnswerTo(Units[n + 1]).close
  <1> DEFINE closing(m) == {i \in 1 .. m : AnswerTo(Units[i]).close}
             one(m, i) == IF \E j \in closing(m) : j < i THEN <<>>
                          ELSE AnswerTo(Units[i]).bytes
             all(m) == [i \in 1 .. m |-> one(m, i)]
             s == all(n)
             t == all(n + 1)
  <1>1. \A m : AnswersTo(m) = FlattenSeq(all(m))
    BY DEF AnswersTo
  <1>2. ASSUME NEW m \in Nat
        PROVE  /\ all(m) \in Seq(Texts) /\ Len(all(m)) = m
               /\ \A i \in 1 .. m : all(m)[i] = one(m, i)
    <2>1. \A i \in 1 .. m : one(m, i) \in Texts
      <3> TAKE i \in 1 .. m
      <3>1. AnswerTo(Units[i]).bytes \in Texts
        BY ReplyType
      <3>2. <<>> \in Texts
        BY DEF Texts
      <3> HIDE DEF closing
      <3> QED
        BY <3>1, <3>2
    <2> HIDE DEF one
    <2> QED
      BY <2>1
  <1>3. /\ s \in Seq(Texts) /\ t \in Seq(Texts) /\ Len(s) = n /\ Len(t) = n + 1
        /\ \A i \in 1 .. n : s[i] = one(n, i)
        /\ \A i \in 1 .. n + 1 : t[i] = one(n + 1, i)
    <2>1. n + 1 \in Nat
      OBVIOUS
    <2> HIDE DEF all, one
    <2> QED
      BY <1>2, <2>1
  <1>4. \A i \in 1 .. n : one(n + 1, i) = one(n, i)
    <2> TAKE i \in 1 .. n
    <2>1. (\E j \in closing(n + 1) : j < i) <=> (\E j \in closing(n) : j < i)
      OBVIOUS
    <2> HIDE DEF closing
    <2> QED
      BY <2>1
  <1>5. one(n + 1, n + 1) = IF Closed(n) THEN <<>>
                            ELSE AnswerTo(Units[n + 1]).bytes
    <2>1. (\E j \in closing(n + 1) : j < n + 1) <=> Closed(n)
      BY DEF Closed
    <2> HIDE DEF closing
    <2> QED
      BY <2>1
  <1> HIDE DEF one, all, closing
  <1>6. FlattenSeq(t) = FlattenSeq(s) \o t[Len(t)]
    <2>1. /\ s \in Seq(Seq(Byte)) /\ t \in Seq(Seq(Byte))
          /\ Len(t) = Len(s) + 1
      BY <1>3 DEF Texts
    <2>2. \A i \in 1 .. Len(s) : t[i] = s[i]
      <3> TAKE i \in 1 .. Len(s)
      <3>1. i \in 1 .. n /\ i \in 1 .. n + 1
        BY <1>3
      <3> QED
        BY <1>3, <1>4, <3>1
    <2> HIDE DEF s, t
    <2> QED
      BY <2>1, <2>2, FlattenGrows
  <1>7. t[Len(t)] = one(n + 1, n + 1)
    <2>1. n + 1 \in 1 .. n + 1
      OBVIOUS
    <2> QED
      BY <1>3, <2>1
  <1>8. AnswersTo(n) \in Texts
    <2>1. s \in Seq(Seq(Byte))
      BY <1>3 DEF Texts
    <2> HIDE DEF s
    <2>2. FlattenSeq(s) \in Seq(Byte)
      BY <2>1, FlattenType
    <2> QED
      BY <1>1, <2>2 DEF s, Texts
  <1>9. AnswersTo(n + 1) = AnswersTo(n) \o
          (IF Closed(n) THEN <<>> ELSE AnswerTo(Units[n + 1]).bytes)
    BY <1>1, <1>5, <1>6, <1>7
  <1>10. AnswersTo(0) = <<>> /\ ~Closed(0)
    <2>1. all(0) = <<>>
      BY <1>2, EmptySeq
    <2>2. FlattenSeq(<<>>) = <<>>
      BY DEF FlattenSeq
    <2>3. ~Closed(0)
      BY DEF Closed
    <2> QED
      BY <1>1, <2>1, <2>2, <2>3
  <1>11. Closed(n + 1) <=> Closed(n) \/ AnswerTo(Units[n + 1]).close
    <2>1. \A i : i \in 1 .. n + 1 <=> i \in 1 .. n \/ i = n + 1
      OBVIOUS
    <2> QED
      BY <2>1 DEF Closed
  <1> QED
    BY <1>8, <1>9, <1>10, <1>11

(* How many units were answered at a place: a request that is refused is   *)
(* when its first line is read.                                            *)
Reached(k, j) == IF j > 0 /\ BadVersion(Units[k + 1]) THEN k + 1 ELSE k

(* The answers to the frames behind the handshake.                         *)
Echoes(n) == FlattenSeq([i \in 1 .. n |-> EchoOf(Units[i + 1])])

(* What the WebSocketServer has given to send() behind unit k: words for   *)
(* the handshake, then the answers to the frames.                          *)
Echoed(k) ==
  IF k = 0 THEN context = "kUnconnect" /\ offered = <<>>
  ELSE ~BadVersion(Units[1]) =>
         /\ context = "kHandsharked"
         /\ (\A i \in 2 .. k : ShortFrame(Units[i])) =>
              \E answer \in Seq(WordTokens) : offered = answer \o Echoes(k - 1)

(* What is accepted behind the replies to m units.                         *)
Replied(m) == /\ accepted = AnswersTo(m)
              /\ state_ = "kConnected" <=> ~Closed(m)

(* What holds at a place of a well cut stream.                             *)
IsAt(k, j, m) ==
  /\ IsPlace(k, j) /\ (j > 0 => script.service = "http")
  /\ toCome = Rest(Stream(Units), Offset(k, j))
  /\ m = Reached(k, j) /\ Replied(m)
  /\ IF script.service = "http"
     THEN state_ = "kConnected" =>
            IF j = 0 THEN context = NewHttpContext
            ELSE Holds(context, Units[k + 1], "KExpectHeader")
     ELSE Echoed(k)

(* The inductive invariant of the answers.                                 *)
AnswersInv == clean => \E k, j, m \in Nat : IsAt(k, j, m)

(* The script stays what it is.                                            *)
LEMMA SameScript ==
  ASSUME script' = script
  PROVE  Units' = Units /\ \A u : AnswerTo(u)' = AnswerTo(u)
  BY DEF Units, AnswerTo

(* So does what is expected of it.                                         *)
LEMMA SameExpected ==
  ASSUME script' = script, NEW n
  PROVE  AnswersTo(n)' = AnswersTo(n) /\ (Closed(n)' <=> Closed(n))
  <1>1. Units' = Units /\ \A u : AnswerTo(u)' = AnswerTo(u)
    BY SameScript
  <1>2. Closed(n)' <=> Closed(n)
    BY <1>1 DEF Closed
  <1>3. AnswersTo(n)' = AnswersTo(n)
    BY <1>1 DEF AnswersTo
  <1> QED
    BY <1>2, <1>3

(* What send() and shutdown() make of calls.                               *)
LEMMA PerformDoes ==
  ASSUME NEW calls, NEW d \in Texts, NEW close \in BOOLEAN, Perform(calls),
         state_ = "kConnected" => Does(calls, d, close)
  PROVE  IF state_ = "kConnected"
         THEN accepted' = accepted \o d /\ (state_' = "kConnected" <=> ~close)
         ELSE accepted' = accepted /\ state_' = state_
  <1>1. CASE state_ = "kConnected"
    <2>1. /\ accepted' = accepted \o d
          /\ IF ~close THEN state_' = state_ ELSE state_' = "kDisconnecting"
      BY <1>1 DEF Perform, SendInLoop, Does
    <2> QED
      BY <1>1, <2>1
  <1>2. CASE state_ # "kConnected"
    BY <1>2 DEF Perform
  <1> QED
    BY <1>1, <1>2

(* A reply more, if the connection was open.                               *)
LEMMA ReplyFollows ==
  ASSUME NEW m \in Nat, Replied(m), script' = script,
         NEW calls, Perform(calls),
         state_ = "kConnected" =>
           Does(calls, AnswerTo(Units[m + 1]).bytes,
                AnswerTo(Units[m + 1]).close)
  PROVE  Replied(m + 1)'
  <1> DEFINE d == AnswerTo(Units[m + 1]).bytes
             close == AnswerTo(Units[m + 1]).close
  <1>1. d \in Texts /\ close \in BOOLEAN
    BY ReplyType
  <1>2. /\ AnswersTo(m) \in Texts
        /\ AnswersTo(m + 1) = AnswersTo(m) \o (IF Closed(m) THEN <<>> ELSE d)
        /\ Closed(m + 1) <=> Closed(m) \/ close
    BY ExpectedGrows
  <1>3. /\ AnswersTo(m + 1)' = AnswersTo(m + 1)
        /\ Closed(m + 1)' <=> Closed(m + 1)
    BY SameExpected
  <1> HIDE DEF d, close
  <1>4. IF state_ = "kConnected"
        THEN accepted' = accepted \o d /\ (state_' = "kConnected" <=> ~close)
        ELSE accepted' = accepted /\ state_' = state_
    BY <1>1, PerformDoes DEF d, close
  <1>5. CASE state_ = "kConnected"
    BY <1>2, <1>3, <1>4, <1>5 DEF Replied
  <1>6. CASE state_ # "kConnected"
    <2>1. AnswersTo(m) \o <<>> = AnswersTo(m)
      BY <1>2, ConcatEmptySeq DEF Texts
    <2> QED
      BY <1>2, <1>3, <1>4, <1>6, <2>1 DEF Replied
  <1> QED
    BY <1>5, <1>6

(* No reply, or none that anybody gets.                                    *)
LEMMA NothingFollows ==
  ASSUME NEW m \in Nat, Replied(m), script' = script,
         NEW calls, Perform(calls),
         state_ = "kConnected" => Does(calls, <<>>, FALSE)
  PROVE  Replied(m)' /\ (state_' = "kConnected" => state_ = "kConnected")
  <1> DEFINE d == <<>>
  <1>1. d \in Texts
    BY DEF Texts
  <1>2. AnswersTo(m) \in Texts
    BY ExpectedGrows
  <1>3. AnswersTo(m)' = AnswersTo(m) /\ (Closed(m)' <=> Closed(m))
    BY SameExpected
  <1>4. AnswersTo(m) \o <<>> = AnswersTo(m)
    BY <1>2, ConcatEmptySeq DEF Texts
  <1> DEFINE close == FALSE
  <1>5. close \in BOOLEAN /\ (state_ = "kConnected" => Does(calls, d, close))
    OBVIOUS
  <1> HIDE DEF d, close
  <1>6. IF state_ = "kConnected"
        THEN accepted' = accepted \o d /\ (state_' = "kConnected" <=> ~close)
        ELSE accepted' = accepted /\ state_' = state_
    BY <1>1, <1>5, PerformDoes
  <1> QED
    BY <1>3, <1>4, <1>6 DEF d, close, Replied

(* The places stay, too.                                                   *)
LEMMA SamePlace ==
  ASSUME script' = script, NEW k, NEW j
  PROVE  /\ IsPlace(k, j)' <=> IsPlace(k, j)
         /\ Offset(k, j)' = Offset(k, j) /\ Reached(k, j)' = Reached(k, j)
  <1>1. Units' = Units
    BY SameScript
  <1>2. UnitEnd(k)' = UnitEnd(k)
    BY <1>1 DEF UnitEnd
  <1> QED
    BY <1>1, <1>2 DEF IsPlace, Offset, Reached

(* What a step has to show of the place it leads to.                       *)
LEMMA Arrives ==
  ASSUME script' = script, NEW k, NEW j, NEW m,
         IsPlace(k, j), j > 0 => script.service = "http",
         toCome' = Rest(Stream(Units), Offset(k, j)),
         m = Reached(k, j), Replied(m)',
         IF script.service = "http"
         THEN state_' = "kConnected" =>
                IF j = 0 THEN context' = NewHttpContext
                ELSE Holds(context', Units[k + 1], "KExpectHeader")
         ELSE Echoed(k)'
  PROVE  IsAt(k, j, m)'
  <1>1. /\ IsPlace(k, j)' <=> IsPlace(k, j)
        /\ Offset(k, j)' = Offset(k, j) /\ Reached(k, j)' = Reached(k, j)
    BY SamePlace
  <1>2. Units' = Units
    BY SameScript
  <1>3. toCome' = Rest(Stream(Units), Offset(k, j))'
    BY <1>1, <1>2
  <1> QED
    BY <1>1, <1>2, <1>3 DEF IsAt

(* What the input Buffer holds when the callback is called.                *)
LEMMA SegmentInBuffer ==
  ASSUME ServicesInv, NEW n \in DOMAIN toCome
  PROVE  /\ BufferOK(ReadFd(inputBuffer_, First(toCome, n)))
         /\ Content(ReadFd(inputBuffer_, First(toCome, n))) = First(toCome, n)
  <1> DEFINE part == First(toCome, n)
  <1>1. part \in Texts
    <2>1. toCome \in Texts /\ DOMAIN toCome = 1 .. Len(toCome)
      BY DEF ServicesInv, Texts
    <2>2. n \in 0 .. Len(toCome)
      BY <2>1 DEF Texts
    <2> QED
      BY <2>1, <2>2, FirstAndRest
  <1>2. BufferOK(inputBuffer_) /\ Content(inputBuffer_) = <<>>
    BY EmptyContent DEF ServicesInv, BuffersOK
  <1> HIDE DEF part
  <1>3. /\ BufferOK(ReadFd(inputBuffer_, part))
        /\ Content(ReadFd(inputBuffer_, part)) = <<>> \o part
    BY <1>1, <1>2, ReadFdAdds DEF Texts
  <1>4. <<>> \o part = part
    BY <1>1, ConcatEmptySeq DEF Texts
  <1> QED
    BY <1>3, <1>4 DEF part

(* The HttpServer and a segment of a well cut stream.                      *)
LEMMA HttpAdvances ==
  ASSUME ServicesInv, script.service = "http",
         NEW k \in Nat, NEW j \in Nat, NEW m \in Nat, IsAt(k, j, m),
         NEW n \in DOMAIN toCome, HandleRead(n),
         CleanCut(Position, Position + n)
  PROVE  \E k2, j2, m2 \in Nat : IsAt(k2, j2, m2)'
  <1> DEFINE u == Units[k + 1]
             C == Chunks(u)
             L == Len(C)
             buf == ReadFd(inputBuffer_, First(toCome, n))
             r == OnMessage(buf)
             conn == state_ = "kConnected"
  <1>1. /\ IsPlace(k, j) /\ toCome = Rest(Stream(Units), Offset(k, j))
        /\ m = Reached(k, j) /\ Replied(m)
        /\ conn => IF j = 0 THEN context = NewHttpContext
                   ELSE Holds(context, u, "KExpectHeader")
    BY DEF IsAt
  <1>2. script \in Scripts
    BY DEF ServicesInv
  <1>3. /\ k < Len(Units)
        /\ \E t \in j + 1 .. L :
             /\ First(toCome, n) = Part(C, j, t)
             /\ IF t = L
                THEN /\ IsPlace(k + 1, 0)
                     /\ Rest(toCome, n) = Rest(Stream(Units), Offset(k + 1, 0))
                ELSE /\ IsPlace(k, t)
                     /\ Rest(toCome, n) = Rest(Stream(Units), Offset(k, t))
    BY <1>1, <1>2, SegmentRead
  <1>4. PICK t \in j + 1 .. L :
          /\ First(toCome, n) = Part(C, j, t)
          /\ IF t = L
             THEN /\ IsPlace(k + 1, 0)
                  /\ Rest(toCome, n) = Rest(Stream(Units), Offset(k + 1, 0))
             ELSE /\ IsPlace(k, t)
                  /\ Rest(toCome, n) = Rest(Stream(Units), Offset(k, t))
    BY <1>3
  <1>5. u \in Requests /\ C \in Seq(Texts) /\ L \in Nat \ {0}
    <2>1. Len(Units) \in Nat /\ k + 1 \in 1 .. Len(Units)
      BY <1>2, <1>3, UnitTypes
    <2> QED
      BY <1>2, <2>1, UnitTypes
  <1>6. BufferOK(buf) /\ Content(buf) = Part(C, j, t)
    BY <1>4, SegmentInBuffer
  <1>7. /\ Perform(r.calls) /\ context' = r.context /\ script' = script
        /\ toCome' = Rest(toCome, n)
    BY DEF HandleRead
  <1>8. r = HttpOnMessage(context, buf)
    BY DEF OnMessage
  <1> HIDE DEF buf, r
  <1>9. j \in 0 .. L - 1 /\ t \in Nat /\ t > 0 /\ t <= L
    BY <1>5
  <1>10. \A v : AnswerTo(v) = HttpAnswer(v)
    BY DEF AnswerTo
  <1>11. ASSUME conn, j = 0 \/ ~BadVersion(u)
         PROVE  IF BadVersion(u) THEN Does(r.calls, BadRequest, TRUE)
                ELSE IF t < L
                THEN /\ Does(r.calls, <<>>, FALSE)
                     /\ Holds(r.context, u, "KExpectHeader")
                ELSE /\ Does(r.calls, HttpAnswer(u).bytes, HttpAnswer(u).close)
                     /\ r.context = NewHttpContext
    <2> DEFINE c == context
    <2>1. /\ u \in Requests /\ Chunks(u) \in Seq(Texts)
          /\ j \in 0 .. Len(Chunks(u)) - 1 /\ t \in j + 1 .. Len(Chunks(u))
          /\ BufferOK(buf) /\ Content(buf) = Part(Chunks(u), j, t)
      BY <1>4, <1>5, <1>6, <1>9
    <2>2. IF j = 0 THEN c = NewHttpContext
          ELSE ~BadVersion(u) /\ Holds(c, u, "KExpectHeader")
      BY <1>1, <1>11
    <2>3. r = HttpOnMessage(c, buf)
      BY <1>8
    <2> HIDE DEF u, c
    <2> QED
      BY <2>1, <2>2, <2>3, SegmentAnswered
  <1> HIDE DEF u, C, L
  <1>12. CASE j > 0 /\ BadVersion(u)
    <2>1. m = k + 1
      BY <1>1, <1>12 DEF Reached, u
    <2>2. ~conn
      <3>1. AnswerTo(u).close
        BY <1>10, <1>12, BadVersionRefused
      <3>2. Closed(k + 1)
        BY <3>1 DEF Closed, u
      <3> QED
        BY <1>1, <2>1, <3>2 DEF Replied
    <2>3. Replied(m)' /\ state_' # "kConnected"
      BY <1>1, <1>7, <2>2, NothingFollows
    <2>4. CASE t = L
      <3> DEFINE k2 == k + 1
                 j2 == 0
      <3>1. /\ k2 \in Nat /\ j2 \in Nat /\ IsPlace(k2, j2)
            /\ toCome' = Rest(Stream(Units), Offset(k2, j2))
            /\ m = Reached(k2, j2) /\ ~(j2 > 0)
        BY <1>4, <1>7, <2>1, <2>4 DEF Reached
      <3> HIDE DEF k2, j2
      <3>2. IsAt(k2, j2, m)'
        BY <1>7, <2>3, <3>1, Arrives
      <3> QED
        BY <3>1, <3>2
    <2>5. CASE t # L
      <3>1. /\ IsPlace(k, t) /\ toCome' = Rest(Stream(Units), Offset(k, t))
            /\ m = Reached(k, t)
        BY <1>4, <1>7, <1>9, <1>12, <2>1, <2>5 DEF Reached, u
      <3>2. IsAt(k, t, m)'
        BY <1>7, <2>3, <3>1, Arrives
      <3> QED
        BY <1>9, <3>2
    <2> QED
      BY <2>4, <2>5
  <1>13. CASE j = 0 /\ BadVersion(u)
    <2>1. m = k
      BY <1>1, <1>13 DEF Reached
    <2>2. conn => Does(r.calls, AnswerTo(u).bytes, AnswerTo(u).close)
      <3>1. AnswerTo(u).bytes = BadRequest /\ AnswerTo(u).close = TRUE
        BY <1>10, <1>13, BadVersionRefused
      <3> QED
        BY <1>11, <1>13, <3>1
    <2> DEFINE m2 == k + 1
    <2>3. Replied(m2)'
      BY <1>1, <1>7, <2>1, <2>2, ReplyFollows DEF u
    <2>4. state_' # "kConnected"
      <3>1. AnswerTo(u).close
        BY <1>10, <1>13, BadVersionRefused
      <3>2. Closed(m2)
        BY <3>1 DEF Closed, u
      <3>3. Closed(m2)' <=> Closed(m2)
        BY <1>7, SameExpected
      <3> QED
        BY <2>3, <3>2, <3>3 DEF Replied
    <2> HIDE DEF m2
    <2>5. CASE t = L
      <3> DEFINE k2 == k + 1
                 j2 == 0
      <3>1. /\ k2 \in Nat /\ j2 \in Nat /\ IsPlace(k2, j2)
            /\ toCome' = Rest(Stream(Units), Offset(k2, j2))
            /\ m2 = Reached(k2, j2) /\ ~(j2 > 0) /\ m2 \in Nat
        BY <1>4, <1>7, <2>5 DEF Reached, m2
      <3> HIDE DEF k2, j2
      <3>2. IsAt(k2, j2, m2)'
        BY <1>7, <2>3, <2>4, <3>1, Arrives
      <3> QED
        BY <3>1, <3>2
    <2>6. CASE t # L
      <3>1. /\ IsPlace(k, t) /\ toCome' = Rest(Stream(Units), Offset(k, t))
            /\ m2 = Reached(k, t) /\ m2 \in Nat
        BY <1>4, <1>7, <1>9, <1>13, <2>6 DEF Reached, u, m2
      <3>2. IsAt(k, t, m2)'
        BY <1>7, <2>3, <2>4, <3>1, Arrives
      <3> QED
        BY <1>9, <3>1, <3>2
    <2> QED
      BY <2>5, <2>6
  <1>14. CASE ~BadVersion(u)
    <2>1. m = k
      BY <1>1, <1>14 DEF Reached, u
    <2>2. CASE t = L
      <3>1. conn => /\ Does(r.calls, AnswerTo(u).bytes, AnswerTo(u).close)
                    /\ r.context = NewHttpContext
        <4>1. ~(t < L)
          BY <1>5, <1>9, <2>2
        <4> QED
          BY <1>10, <1>11, <1>14, <4>1
      <3> DEFINE k2 == k + 1
                 j2 == 0
                 m2 == k + 1
      <3>2. Replied(m2)'
        BY <1>1, <1>7, <2>1, <3>1, ReplyFollows DEF u
      <3>3. state_' = "kConnected" => context' = NewHttpContext
        <4>1. state_' = "kConnected" => conn
          BY <1>7 DEF Perform
        <4> QED
          BY <1>7, <3>1, <4>1
      <3>4. /\ k2 \in Nat /\ j2 \in Nat /\ IsPlace(k2, j2)
            /\ toCome' = Rest(Stream(Units), Offset(k2, j2))
            /\ m2 = Reached(k2, j2) /\ ~(j2 > 0) /\ m2 \in Nat /\ j2 = 0
        BY <1>4, <1>7, <2>2 DEF Reached
      <3> HIDE DEF k2, j2, m2
      <3>5. IsAt(k2, j2, m2)'
        BY <1>7, <3>2, <3>3, <3>4, Arrives
      <3> QED
        BY <3>4, <3>5
    <2>3. CASE t # L
      <3>1. conn => /\ Does(r.calls, <<>>, FALSE)
                    /\ Holds(r.context, u, "KExpectHeader")
        <4>1. t < L
          BY <1>5, <1>9, <2>3
        <4> QED
          BY <1>11, <1>14, <4>1
      <3>2. Replied(m)' /\ (state_' = "kConnected" => conn)
        BY <1>1, <1>7, <3>1, NothingFollows
      <3>3. state_' = "kConnected" => Holds(context', Units[k + 1],
                                            "KExpectHeader")
        BY <1>7, <3>1, <3>2 DEF u
      <3>4. /\ IsPlace(k, t) /\ toCome' = Rest(Stream(Units), Offset(k, t))
            /\ m = Reached(k, t) /\ t # 0
        BY <1>4, <1>7, <1>9, <1>14, <2>1, <2>3 DEF Reached, u
      <3>5. IsAt(k, t, m)'
        BY <1>7, <3>2, <3>3, <3>4, Arrives
      <3> QED
        BY <1>9, <3>5
    <2> QED
      BY <2>2, <2>3
  <1> QED
    BY <1>12, <1>13, <1>14

(* The answer to one frame more.                                           *)
LEMMA EchoesGrow ==
  ASSUME NEW n \in Nat,
         \A i \in 1 .. n + 1 : EchoOf(Units[i + 1]) \in Texts
  PROVE  /\ Echoes(0) = <<>> /\ Echoes(n) \in Texts
         /\ Echoes(n + 1) = Echoes(n) \o EchoOf(Units[n + 2])
  <1> DEFINE all(m) == [i \in 1 .. m |-> EchoOf(Units[i + 1])]
             s == all(n)
             t == all(n + 1)
  <1>1. \A m : Echoes(m) = FlattenSeq(all(m))
    BY DEF Echoes
  <1>2. /\ s \in Seq(Seq(Byte)) /\ Len(s) = n
        /\ \A i \in 1 .. n : s[i] = EchoOf(Units[i + 1])
    BY DEF Texts
  <1>3. /\ t \in Seq(Seq(Byte)) /\ Len(t) = n + 1
        /\ \A i \in 1 .. n + 1 : t[i] = EchoOf(Units[i + 1])
    <2> DEFINE m == n + 1
    <2>1. m \in Nat /\ \A i \in 1 .. m : EchoOf(Units[i + 1]) \in Seq(Byte)
      BY DEF Texts
    <2> HIDE DEF m
    <2>2. /\ all(m) \in Seq(Seq(Byte)) /\ Len(all(m)) = m
          /\ \A i \in 1 .. m : all(m)[i] = EchoOf(Units[i + 1])
      BY <2>1
    <2> QED
      BY <2>2 DEF m
  <1>4. all(0) = <<>>
    OBVIOUS
  <1> HIDE DEF all
  <1> HIDE DEF s, t
  <1>5. /\ Len(t) = Len(s) + 1 /\ \A i \in 1 .. Len(s) : t[i] = s[i]
    <2>1. \A i \in 1 .. n : i \in 1 .. n + 1
      OBVIOUS
    <2> QED
      BY <1>2, <1>3, <2>1
  <1> USE DEF s, t
  <1>6. FlattenSeq(t) = FlattenSeq(s) \o t[Len(t)]
    <2> HIDE DEF s, t
    <2> QED
      BY <1>2, <1>3, <1>5, FlattenGrows
  <1>7. t[Len(t)] = EchoOf(Units[n + 2])
    <2>1. n + 1 \in 1 .. n + 1 /\ (n + 1) + 1 = n + 2
      OBVIOUS
    <2> QED
      BY <1>3, <2>1
  <1>8. FlattenSeq(s) \in Seq(Byte)
    <2> HIDE DEF s
    <2> QED
      BY <1>2, FlattenType
  <1>9. Echoes(0) = <<>>
    <2>1. FlattenSeq(<<>>) = <<>>
      BY DEF FlattenSeq
    <2> QED
      BY <1>1, <1>4, <2>1
  <1>10. Echoes(n) = FlattenSeq(s) /\ Echoes(n + 1) = FlattenSeq(t)
    BY <1>1
  <1> HIDE DEF s, t
  <1> QED
    BY <1>6, <1>7, <1>8, <1>9, <1>10 DEF Texts

(* The answers of the WebSocketServer, its handshake or a frame behind it. *)
LEMMA EchoAdvances ==
  ASSUME ServicesInv, script.service = "websocket",
         NEW k \in Nat, k < Len(Units), Echoed(k),
         NEW buf, BufferOK(buf), Content(buf) = Bytes(Units[k + 1]),
         script' = script, context' = OnMessage(buf).context,
         offered' = offered \o Sent(OnMessage(buf).calls)
  PROVE  Echoed(k + 1)'
  <1> DEFINE u == Units[k + 1]
             r == OnMessage(buf)
             good == ~BadVersion(Units[1])
             short(n) == \A i \in 2 .. n : ShortFrame(Units[i])
  <1>1. script \in Scripts
    BY DEF ServicesInv
  <1>2. Len(Units) \in Nat /\ k + 1 \in 1 .. Len(Units)
    BY <1>1, UnitTypes
  <1>3. r = WebSocketOnMessage(context, buf)
    BY DEF OnMessage
  <1>4. Units' = Units /\ Echoes(k)' = Echoes(k)
    BY SameScript DEF Echoes
  <1>5. /\ context' = r.context /\ offered' = offered \o Sent(r.calls)
    OBVIOUS
  <1> HIDE DEF r
  <1>6. SUFFICES ASSUME good
                 PROVE  /\ context' = "kHandsharked"
                        /\ short(k + 1) => \E answer \in Seq(WordTokens) :
                                             offered' = answer \o Echoes(k)
    <2>1. k + 1 # 0 /\ (k + 1) - 1 = k
      OBVIOUS
    <2> QED
      BY <1>4, <1>6, <2>1 DEF Echoed
  <1>7. CASE k = 0
    <2>1. context = "kUnconnect" /\ offered = <<>> /\ u = Units[1]
      BY <1>7 DEF Echoed
    <2>2. u \in Requests /\ Chunks(u) \in Seq(Texts) /\ Content(buf) = Bytes(u)
      BY <1>1, <1>2, <1>7, UnitTypes
    <2>3. r = WebSocketOnMessage("kUnconnect", buf)
      BY <1>3, <2>1
    <2> DEFINE d == Sent(r.calls)
    <2>4. r.context = "kHandsharked" /\ d \in Seq(WordTokens)
      <3>1. ~BadVersion(u)
        BY <1>6, <2>1
      <3> HIDE DEF u
      <3> QED
        BY <2>2, <2>3, <3>1, HandshakeAnswered
    <2>5. offered' = d \o Echoes(k)
      <3>1. Echoes(k) = <<>>
        BY <1>7 DEF Echoes, FlattenSeq
      <3>2. <<>> \o d = d /\ d \o <<>> = d
        <4> HIDE DEF d
        <4> QED
          BY <2>4, ConcatEmptySeq
      <3> QED
        BY <1>5, <2>1, <3>1, <3>2
    <2> HIDE DEF d
    <2> QED
      BY <1>5, <2>4, <2>5
  <1>8. CASE k # 0
    <2>1. /\ context = "kHandsharked"
          /\ short(k) => \E answer \in Seq(WordTokens) :
                           offered = answer \o Echoes(k - 1)
      BY <1>6, <1>8 DEF Echoed
    <2>2. r = WebSocketOnMessage("kHandsharked", buf)
      BY <1>3, <2>1
    <2>3. r.context = "kHandsharked"
      BY <2>2 DEF WebSocketOnMessage
    <2>4. ASSUME short(k + 1)
          PROVE  \E answer \in Seq(WordTokens) : offered' = answer \o Echoes(k)
      <3>1. short(k) /\ ShortFrame(u)
        <4>1. /\ \A i \in 2 .. k : i \in 2 .. k + 1
              /\ k + 1 \in 2 .. k + 1
          BY <1>8
        <4> QED
          BY <2>4, <4>1
      <3>2. PICK answer \in Seq(WordTokens) : offered = answer \o Echoes(k - 1)
        BY <2>1, <3>1
      <3>3. Sent(r.calls) = EchoOf(u) /\ EchoOf(u) \in Texts
        <4>1. ShortFrame(u) /\ Content(buf) = Bytes(u)
          BY <3>1
        <4> HIDE DEF u
        <4> QED
          BY <2>2, <4>1, FrameAnswered, EchoType
      <3> DEFINE n == k - 1
      <3>4. n \in Nat /\ n + 1 = k /\ n + 2 = k + 1
        BY <1>8
      <3>5. \A i \in 1 .. n + 1 : EchoOf(Units[i + 1]) \in Texts
        <4> TAKE i \in 1 .. n + 1
        <4>1. i + 1 \in 2 .. k + 1
          BY <3>4
        <4>2. ShortFrame(Units[i + 1])
          BY <2>4, <4>1
        <4> QED
          BY <4>2, EchoType
      <3> HIDE DEF n, u
      <3>6. /\ Echoes(n) \in Texts
            /\ Echoes(n + 1) = Echoes(n) \o EchoOf(Units[n + 2])
        BY <3>4, <3>5, EchoesGrow
      <3>7. Echoes(k) = Echoes(n) \o EchoOf(u)
        BY <3>4, <3>6 DEF u
      <3>8. offered = answer \o Echoes(n)
        BY <3>2 DEF n
      <3>9. answer \in Texts
        BY DEF WordTokens, Texts
      <3> DEFINE e == EchoOf(u)
                 es == Echoes(n)
      <3>10. e \in Texts /\ es \in Texts
        BY <3>3, <3>6
      <3>11. offered' = (answer \o es) \o e /\ Echoes(k) = es \o e
        BY <1>5, <3>3, <3>7, <3>8
      <3> HIDE DEF e, es
      <3>12. (answer \o es) \o e = answer \o (es \o e)
        BY <3>9, <3>10, TextsAssociate
      <3>13. offered' = answer \o Echoes(k)
        BY <3>11, <3>12
      <3> QED
        BY <3>13
    <2> QED
      BY <1>5, <2>3, <2>4
  <1> QED
    BY <1>7, <1>8

(* The WebSocketServer and a segment of a well cut stream.                 *)
LEMMA WebSocketAdvances ==
  ASSUME ServicesInv, script.service = "websocket",
         NEW k \in Nat, NEW j \in Nat, NEW m \in Nat, IsAt(k, j, m),
         NEW n \in DOMAIN toCome, HandleRead(n),
         CleanCut(Position, Position + n)
  PROVE  \E k2, j2, m2 \in Nat : IsAt(k2, j2, m2)'
  <1> DEFINE u == Units[k + 1]
             C == Chunks(u)
             L == Len(C)
             buf == ReadFd(inputBuffer_, First(toCome, n))
             r == OnMessage(buf)
  <1>1. /\ IsPlace(k, j) /\ toCome = Rest(Stream(Units), Offset(k, j))
        /\ m = Reached(k, j) /\ Replied(m) /\ j = 0 /\ Echoed(k)
    BY DEF IsAt
  <1>2. script \in Scripts
    BY DEF ServicesInv
  <1>3. /\ k < Len(Units)
        /\ \E t \in j + 1 .. L :
             /\ First(toCome, n) = Part(C, j, t)
             /\ script.service = "http" \/ t = L
             /\ IF t = L
                THEN /\ IsPlace(k + 1, 0)
                     /\ Rest(toCome, n) = Rest(Stream(Units), Offset(k + 1, 0))
                ELSE /\ IsPlace(k, t)
                     /\ Rest(toCome, n) = Rest(Stream(Units), Offset(k, t))
    BY <1>1, <1>2, SegmentRead
  <1>4. /\ First(toCome, n) = Part(C, 0, L) /\ IsPlace(k + 1, 0)
        /\ Rest(toCome, n) = Rest(Stream(Units), Offset(k + 1, 0))
    <2> HIDE DEF C, L
    <2> QED
      BY <1>1, <1>3
  <1>5. C \in Seq(Texts) /\ (k = 0 => u \in Requests)
    <2>1. Len(Units) \in Nat /\ k + 1 \in 1 .. Len(Units)
      BY <1>2, <1>3, UnitTypes
    <2>2. k = 0 => k + 1 = 1
      OBVIOUS
    <2> QED
      BY <1>2, <2>1, <2>2, UnitTypes
  <1>6. Part(C, 0, L) = Bytes(u)
    <2>1. /\ C \in Seq(Seq(Byte)) /\ EndOf(C, 0) = 0
          /\ EndOf(C, L) = Len(FlattenSeq(C)) /\ FlattenSeq(C) \in Seq(Byte)
      BY <1>5, FirstAndLastEnd, FlattenType DEF Texts
    <2>2. Part(C, 0, L) = SubSeq(FlattenSeq(C), 1, Len(FlattenSeq(C)))
      BY <2>1 DEF Part
    <2>3. SubSeq(FlattenSeq(C), 1, Len(FlattenSeq(C))) = FlattenSeq(C)
      BY <2>1, SubSeqFull
    <2> QED
      BY <2>2, <2>3 DEF Bytes
  <1>7. BufferOK(buf) /\ Content(buf) = Bytes(u)
    BY <1>4, <1>6, SegmentInBuffer
  <1>8. /\ Perform(r.calls) /\ context' = r.context /\ script' = script
        /\ toCome' = Rest(toCome, n) /\ offered' = offered \o Sent(r.calls)
    BY DEF HandleRead
  <1> HIDE DEF C, L, buf
  <1>9. Echoed(k + 1)'
    <2>1. context' = OnMessage(buf).context
      BY <1>8
    <2>2. offered' = offered \o Sent(OnMessage(buf).calls)
      BY <1>8
    <2>3. k < Len(Units) /\ Echoed(k) /\ Content(buf) = Bytes(Units[k + 1])
          /\ script' = script /\ BufferOK(buf)
      BY <1>1, <1>3, <1>7, <1>8
    <2> HIDE DEF r, u
    <2> QED
      BY <2>1, <2>2, <2>3, EchoAdvances
  <1>10. \A v : AnswerTo(v).bytes = BadRequest /\ AnswerTo(v).close = TRUE
    <2>1. Refusal.bytes = BadRequest /\ Refusal.close = TRUE
      BY ReplyType
    <2> QED
      BY <2>1 DEF AnswerTo
  <1>11. state_ = "kConnected" =>
           Does(r.calls, AnswerTo(Units[m + 1]).bytes,
                AnswerTo(Units[m + 1]).close)
    <2> SUFFICES ASSUME state_ = "kConnected"
                 PROVE  Does(r.calls, BadRequest, TRUE)
      BY <1>10
    <2>1. m = k
      BY <1>1 DEF Reached
    <2>2. k = 0
      <3> SUFFICES ASSUME k # 0 PROVE FALSE
        OBVIOUS
      <3>1. 1 \in 1 .. k /\ AnswerTo(Units[1]).close
        BY <1>10
      <3>2. Closed(k)
        BY <3>1 DEF Closed
      <3> QED
        BY <1>1, <2>1, <3>2 DEF Replied
    <2>3. r = WebSocketOnMessage("kUnconnect", buf)
      BY <1>1, <2>2 DEF OnMessage, Echoed
    <2>4. u \in Requests /\ Chunks(u) \in Seq(Texts)
      BY <1>5, <2>2 DEF C
    <2> HIDE DEF u, r
    <2> QED
      BY <1>7, <2>3, <2>4, HandshakeAnswered
  <1> HIDE DEF r
  <1>12. Replied(m + 1)'
    BY <1>1, <1>8, <1>11, ReplyFollows
  <1> DEFINE k2 == k + 1
             j2 == 0
             m2 == m + 1
  <1>13. /\ k2 \in Nat /\ j2 \in Nat /\ m2 \in Nat /\ IsPlace(k2, j2)
         /\ ~(j2 > 0) /\ m2 = Reached(k2, j2) /\ script.service # "http"
         /\ toCome' = Rest(Stream(Units), Offset(k2, j2))
         /\ Replied(m2)' /\ Echoed(k2)' /\ script' = script
    BY <1>1, <1>4, <1>8, <1>9, <1>12 DEF Reached
  <1> HIDE DEF k2, j2, m2
  <1>14. IsAt(k2, j2, m2)'
    BY <1>13, Arrives
  <1> QED
    BY <1>13, <1>14

(* At first nothing of the stream was read.                                *)
LEMMA InitAnswers ==
  ASSUME Init, script \in Scripts
  PROVE  AnswersInv
  <1> DEFINE z == 0
  <1>1. AnswersTo(0) = <<>> /\ ~Closed(0)
    BY ExpectedGrows
  <1>2. /\ toCome = Stream(Units) /\ context = IF script.service = "http"
                                               THEN NewHttpContext
                                               ELSE "kUnconnect"
        /\ state_ = "kConnected" /\ accepted = <<>> /\ offered = <<>>
    BY DEF Init, Units, HttpOnConnection, WebSocketOnConnection
  <1>3. z = 0 /\ z \in Nat /\ ~(z > 0) /\ IsPlace(z, z) /\ z = Reached(z, z)
    BY UnitTypes DEF IsPlace, Reached
  <1>4. Offset(z, z) = 0 /\ Stream(Units) \in Texts
    <2>1. Offset(z, z) = UnitEnd(z) + 0
      BY DEF Offset
    <2>2. UnitEnd(0) = 0 /\ Stream(Units) \in Texts
      BY UnitPositions
    <2> QED
      BY <2>1, <2>2
  <1>5. toCome = Rest(Stream(Units), Offset(z, z))
    <2> DEFINE S == Stream(Units)
    <2>1. S \in Seq(Byte) /\ SubSeq(S, 1, Len(S)) = S
      BY <1>4, SubSeqFull DEF Texts
    <2>2. 0 + 1 = 1
      OBVIOUS
    <2> HIDE DEF S
    <2> QED
      BY <1>2, <1>4, <2>1, <2>2 DEF Rest, S
  <1>6. Replied(z)
    BY <1>1, <1>2 DEF Replied
  <1>7. Echoed(z) \/ script.service = "http"
    BY <1>2 DEF Echoed
  <1> HIDE DEF z
  <1>8. IsAt(z, z, z)
    BY <1>2, <1>3, <1>5, <1>6, <1>7 DEF IsAt
  <1> QED
    BY <1>3, <1>8 DEF AnswersInv

(* A place is kept while nothing is read and nothing is answered.          *)
LEMMA PlaceKept ==
  ASSUME NEW k \in Nat, NEW j, NEW m, IsAt(k, j, m),
         UNCHANGED <<script, toCome, context, state_, accepted, offered>>
  PROVE  IsAt(k, j, m)'
  <1>1. /\ script' = script /\ toCome' = toCome /\ context' = context
        /\ state_' = state_ /\ accepted' = accepted /\ offered' = offered
    OBVIOUS
  <1>2. /\ IsPlace(k, j) /\ (j > 0 => script.service = "http")
        /\ toCome = Rest(Stream(Units), Offset(k, j))
        /\ m = Reached(k, j) /\ Replied(m)
        /\ IF script.service = "http"
           THEN state_ = "kConnected" =>
                  IF j = 0 THEN context = NewHttpContext
                  ELSE Holds(context, Units[k + 1], "KExpectHeader")
           ELSE Echoed(k)
    BY DEF IsAt
  <1>3. Replied(m)'
    <2>1. AnswersTo(m)' = AnswersTo(m) /\ (Closed(m)' <=> Closed(m))
      BY <1>1, SameExpected
    <2> QED
      BY <1>1, <1>2, <2>1 DEF Replied
  <1>4. Echoed(k) => Echoed(k)'
    <2>1. Units' = Units
      BY <1>1, SameScript
    <2>2. Echoes(k - 1)' = Echoes(k - 1)
      BY <2>1 DEF Echoes
    <2> QED
      BY <1>1, <2>1, <2>2 DEF Echoed
  <1> QED
    BY <1>1, <1>2, <1>3, <1>4, Arrives

(* Every step leads from a place to a place, or cuts the stream badly.     *)
LEMMA NextAnswers ==
  ASSUME ServicesInv, AnswersInv, [Next]_vars
  PROVE  AnswersInv'
  <1> SUFFICES ASSUME clean' PROVE \E k2, j2, m2 \in Nat : IsAt(k2, j2, m2)'
    BY DEF AnswersInv
  <1>1. ASSUME NEW n \in DOMAIN toCome, HandleRead(n)
        PROVE  \E k2, j2, m2 \in Nat : IsAt(k2, j2, m2)'
    <2>1. clean /\ CleanCut(Position, Position + n)
      BY <1>1 DEF HandleRead
    <2>2. PICK k, j, m \in Nat : IsAt(k, j, m)
      BY <2>1 DEF AnswersInv
    <2>3. script.service \in {"http", "websocket"}
      BY UnitTypes DEF ServicesInv
    <2>4. CASE script.service = "http"
      BY <1>1, <2>1, <2>2, <2>4, HttpAdvances
    <2>5. CASE script.service = "websocket"
      BY <1>1, <2>1, <2>2, <2>5, WebSocketAdvances
    <2> QED
      BY <2>3, <2>4, <2>5
  <1>2. CASE HandleWrite \/ ClientReads \/ UNCHANGED vars
    <2>1. UNCHANGED <<script, toCome, context, state_, accepted, offered,
                      clean>>
      BY <1>2 DEF HandleWrite, ClientReads, vars
    <2>2. PICK k, j, m \in Nat : IsAt(k, j, m)
      BY <2>1 DEF AnswersInv
    <2>3. IsAt(k, j, m)'
      BY <2>1, <2>2, PlaceKept
    <2> QED
      BY <2>3
  <1> QED
    BY <1>1, <1>2 DEF Next

(* Behind a unit, its place and the replies to all units up to it.         *)
LEMMA AtUnitEnd ==
  ASSUME ServicesInv, AnswersInv, clean,
         NEW n \in 0 .. Len(Units), Position = UnitEnd(n)
  PROVE  IsAt(n, 0, n)
  <1> DEFINE L == Len(Units)
             S == Stream(Units)
             E(i) == UnitEnd(i)
  <1>1. PICK k, j, m \in Nat : IsAt(k, j, m)
    BY DEF AnswersInv
  <1> DEFINE p == Offset(k, j)
  <1>2. /\ IsPlace(k, j) /\ toCome = Rest(S, p) /\ m = Reached(k, j)
    BY <1>1 DEF IsAt
  <1>3. script \in Scripts
    BY DEF ServicesInv
  <1>4. /\ L \in Nat /\ k \in 0 .. L /\ j \in Nat
    BY <1>2, <1>3, UnitTypes DEF IsPlace
  <1>5. /\ p \in Nat /\ p <= Len(S) /\ E(k) \in Nat
        /\ j = 0 => p = E(k)
        /\ j > 0 => E(k) < p
        /\ k < L => p < E(k + 1) /\ E(k + 1) \in Nat
        /\ k = L => p = Len(S)
    BY <1>2, <1>3, PlaceRange
  <1>6. /\ S \in Texts /\ E(L) = Len(S)
        /\ \A i \in 0 .. L : E(i) \in Nat
        /\ \A i, t \in 0 .. L : i < t => E(i) < E(t)
    BY <1>3, UnitPositions
  <1>7. Position = p
    <2>1. Len(S) \in Nat
      BY <1>6 DEF Texts
    <2>2. p \in 0 .. Len(S)
      BY <1>5, <2>1
    <2> HIDE DEF S, p
    <2>3. Len(toCome) = Len(S) - p
      BY <1>2, <1>6, <2>2, FirstAndRest
    <2>4. Position = Len(S) - (Len(S) - p)
      BY <2>3 DEF Position, S
    <2> QED
      BY <2>1, <2>2, <2>4
  <1>8. p = E(n) /\ n \in 0 .. L
    BY <1>7
  <1> HIDE DEF L, S, E, p
  <1>9. k = n
    <2>1. ~(n < k)
      <3> SUFFICES ASSUME n < k PROVE FALSE
        OBVIOUS
      <3>1. E(n) < E(k) /\ E(n) \in Nat
        BY <1>4, <1>6, <1>8
      <3>2. E(k) <= p
        BY <1>4, <1>5
      <3> QED
        BY <1>5, <1>8, <3>1, <3>2
    <2>2. ~(k < n)
      <3> SUFFICES ASSUME k < n PROVE FALSE
        OBVIOUS
      <3>1. k < L /\ k + 1 \in 0 .. L /\ (k + 1 < n \/ k + 1 = n)
        BY <1>4, <1>8
      <3>2. E(k + 1) <= E(n) /\ E(n) \in Nat /\ E(k + 1) \in Nat
        BY <1>6, <1>8, <3>1
      <3> QED
        BY <1>5, <1>8, <3>1, <3>2
    <2> QED
      BY <1>4, <1>8, <2>1, <2>2
  <1>10. j = 0
    BY <1>4, <1>5, <1>8, <1>9
  <1>11. m = n
    BY <1>2, <1>9, <1>10 DEF Reached
  <1> QED
    BY <1>1, <1>9, <1>10, <1>11

(* The two invariants of a connection, as one.                             *)
LEMMA AnswersInvariant == Spec => [](ServicesInv /\ AnswersInv)
  <1>1. Init => AnswersInv
    <2>1. Init => ServicesInv
      BY InitInv
    <2> QED
      BY <2>1, InitAnswers DEF ServicesInv
  <1>2. ServicesInv /\ AnswersInv /\ [Next]_vars => AnswersInv'
    BY NextAnswers
  <1> QED
    BY <1>1, <1>2, ServicesInvariant, PTL DEF Spec

(* While no request is misread, the servers answer what they should.       *)
LEMMA AnswersAsExpected ==
  ASSUME script \in Scripts, NEW n \in 0 .. Len(Units),
         \A i \in 1 .. n : ~Misread(Units[i])
  PROVE  AnswersTo(n) = Expected(n)
  <1> DEFINE do == {i \in 1 .. n : AnswerTo(Units[i]).close}
             would == {i \in 1 .. n : Reply(Units[i]).close}
             done(i) == \E j \in do : j < i
             should(i) == \E j \in would : j < i
  <1>1. CASE script.service = "http"
    <2>1. \A i \in 1 .. n : AnswerTo(Units[i]) = Reply(Units[i])
      <3> TAKE i \in 1 .. n
      <3>1. CloseAsked(Units[i]) <=> Units[i].version = "HTTP/1.0"
        BY <1>1 DEF Misread
      <3> QED
        BY <1>1, <3>1 DEF AnswerTo, Reply, HttpAnswer, HttpReply
    <2> QED
      BY <2>1 DEF AnswersTo, Expected
  <1>2. CASE script.service # "http"
    <2>1. \A u : AnswerTo(u) = Refusal
      BY <1>2 DEF AnswerTo
    <2>2. n > 0 => Reply(Units[1]) = Refusal
      <3> SUFFICES ASSUME n > 0 PROVE Reply(Units[1]) = Refusal
        OBVIOUS
      <3>1. 1 \in 1 .. n /\ 1 \in 1 .. Len(Units)
        BY UnitTypes
      <3>2. Units[1] \in Requests
        BY <1>2, <3>1, UnitTypes
      <3>3. Units[1].kind = "request"
        BY <3>2 DEF Requests
      <3>4. ~AsksUpgrade(Units[1])
        BY <1>2, <3>1, <3>3 DEF Misread
      <3> QED
        BY <1>2, <3>3, <3>4 DEF Reply, WebSocketReply
    <2>3. Refusal.close = TRUE
      BY DEF Refusal
    <2>4. n \in Nat
      BY UnitTypes
    <2>5. \A i \in 1 .. n : /\ done(i) <=> i > 1
                            /\ should(i) <=> i > 1
      <3> TAKE i \in 1 .. n
      <3>1. 1 \in 1 .. n /\ n > 0
        BY <2>4
      <3>2. AnswerTo(Units[1]).close /\ Reply(Units[1]).close
        BY <2>1, <2>2, <2>3, <3>1
      <3>3. i > 1 => done(i) /\ should(i)
        BY <3>1, <3>2
      <3>4. \A j \in 1 .. n : j < i => i > 1
        BY <2>4
      <3> QED
        BY <3>3, <3>4
    <2>6. \A i \in 1 .. n :
            (IF done(i) THEN <<>> ELSE AnswerTo(Units[i]).bytes)
              = (IF should(i) THEN <<>> ELSE Reply(Units[i]).bytes)
      <3> TAKE i \in 1 .. n
      <3>1. CASE i > 1
        BY <2>5, <3>1
      <3>2. CASE ~(i > 1)
        <4>1. i = 1 /\ n > 0
          BY <2>4, <3>2
        <4>2. ~done(i) /\ ~should(i)
          BY <2>5, <3>2
        <4> HIDE DEF done, should
        <4> QED
          BY <2>1, <2>2, <4>1, <4>2
      <3> QED
        BY <3>1, <3>2
    <2> QED
      BY <2>6 DEF AnswersTo, Expected
  <1> QED
    BY <1>1, <1>2

(* A client whose segments are requests or whole lines of one gets the     *)
(* answers to its requests, in order, up to the first that closes, as long *)
(* as the headers of none are misread: for every script, page and size of  *)
(* the buffers.                                                            *)
THEOREM AnswersAlwaysMatch == Spec => []AnswersMatch
  <1>1. ServicesInv /\ AnswersInv => AnswersMatch
    <2> SUFFICES ASSUME ServicesInv, AnswersInv, NEW n \in 0 .. Len(Units),
                        clean, Position = UnitEnd(n),
                        \A i \in 1 .. n : ~Misread(Units[i])
                 PROVE  accepted = Expected(n)
      BY DEF AnswersMatch
    <2>1. IsAt(n, 0, n)
      BY AtUnitEnd
    <2>2. accepted = AnswersTo(n)
      BY <2>1 DEF IsAt, Replied
    <2>3. script \in Scripts
      BY DEF ServicesInv
    <2> QED
      BY <2>2, <2>3, AnswersAsExpected
  <1> QED
    BY <1>1, AnswersInvariant, PTL

(* What the WebSocketServer gives to send() behind its handshake are the   *)
(* frames with the payloads it was sent, in their order.                   *)
THEOREM EchoesAreFaithful == Spec => []EchoFaithful
  <1>1. ServicesInv /\ AnswersInv => EchoFaithful
    <2> SUFFICES ASSUME ServicesInv, AnswersInv, NEW n \in DOMAIN Units,
                        clean, Position = UnitEnd(n),
                        script.service = "websocket",
                        Units[1].version \in Versions,
                        \A i \in 2 .. n : /\ Units[i].kind = "frame"
                                          /\ Len(Units[i].payload) < Short
                 PROVE  \E k \in 0 .. Len(offered) :
                          /\ \A i \in 1 .. k : Len(offered[i]) = 1
                          /\ Rest(offered, k) = Echoes(n - 1)
      BY DEF EchoFaithful, Echoes
    <2>1. script \in Scripts
      BY DEF ServicesInv
    <2>2. /\ Len(Units) \in Nat /\ n \in 1 .. Len(Units)
          /\ n \in 0 .. Len(Units)
      BY <2>1, UnitTypes
    <2>3. Echoed(n)
      <3>1. IsAt(n, 0, n)
        BY <2>2, AtUnitEnd
      <3> QED
        BY <3>1 DEF IsAt
    <2>4. ~BadVersion(Units[1])
      BY DEF BadVersion, Versions
    <2>5. \A i \in 2 .. n : ShortFrame(Units[i])
      <3> TAKE i \in 2 .. n
      <3>1. i \in 1 .. Len(Units)
        BY <2>2
      <3>2. Units[i] \in Requests \union Frames /\ Units[i].kind = "frame"
        BY <2>1, <3>1, UnitTypes
      <3>3. Units[i] \notin Requests
        BY <3>2 DEF Requests
      <3> QED
        BY <3>2, <3>3 DEF ShortFrame
    <2>6. PICK answer \in Seq(WordTokens) : offered = answer \o Echoes(n - 1)
      <3>1. n # 0
        BY <2>2
      <3>2. (\A i \in 2 .. n : ShortFrame(Units[i])) =>
              \E answer \in Seq(WordTokens) : offered = answer \o Echoes(n - 1)
        BY <2>3, <2>4, <3>1 DEF Echoed
      <3> QED
        BY <2>5, <3>2
    <2>7. Echoes(n - 1) \in Texts
      <3> DEFINE c == n - 1
      <3>1. /\ [i \in 1 .. c |-> EchoOf(Units[i + 1])] \in Seq(Seq(Byte))
        <4>1. c \in Nat
          BY <2>2
        <4>2. \A i \in 1 .. c : EchoOf(Units[i + 1]) \in Seq(Byte)
          <5> TAKE i \in 1 .. c
          <5>1. i + 1 \in 2 .. n
            BY <2>2
          <5>2. ShortFrame(Units[i + 1])
            BY <2>5, <5>1
          <5> QED
            BY <5>2, EchoType DEF Texts
        <4> HIDE DEF c
        <4> QED
          BY <4>1, <4>2
      <3> QED
        BY <3>1, FlattenType DEF Echoes, Texts
    <2> DEFINE es == Echoes(n - 1)
               k == Len(answer)
    <2>8. answer \in Seq(Byte) /\ es \in Seq(Byte) /\ offered = answer \o es
      BY <2>6, <2>7 DEF WordTokens, Texts
    <2> HIDE DEF es
    <2>9. k \in 0 .. Len(offered) /\ Rest(offered, k) = es
      <3>1. /\ Len(answer \o es) = Len(answer) + Len(es)
            /\ Len(answer) \in Nat /\ Len(es) \in Nat
        BY <2>8, ConcatProperties
      <3>2. SubSeq(answer \o es, Len(answer) + 1, Len(answer \o es)) = es
        BY <2>8, <3>1, PartsOfConcat
      <3> QED
        BY <2>8, <3>1, <3>2 DEF Rest
    <2>10. \A i \in 1 .. k : Len(offered[i]) = 1
      <3> TAKE i \in 1 .. k
      <3>1. offered[i] = answer[i]
        BY <2>8, ConcatProperties
      <3>2. answer[i] \in WordTokens
        BY <2>6
      <3> QED
        BY <3>1, <3>2 DEF WordTokens
    <2> QED
      BY <2>9, <2>10 DEF es
  <1> QED
    BY <1>1, AnswersInvariant, PTL

=============================================================================
