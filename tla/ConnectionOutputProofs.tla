------------------------ MODULE ConnectionOutputProofs ------------------------
(***************************************************************************)
(* Theorems about ConnectionOutput, for every set of messages, whatever    *)
(* their lengths, and every capacity of the socket.                        *)
(***************************************************************************)
EXTENDS ConnectionOutput, SequenceTheorems, TLAPS

(* A sequence is what write() took of it followed by the rest.             *)
LEMMA CutConcat ==
  ASSUME NEW b \in Seq(Byte), NEW k \in 0 .. Len(b)
  PROVE  /\ First(b, k) \in Seq(Byte) /\ Len(First(b, k)) = k
         /\ Rest(b, k) \in Seq(Byte) /\ Len(Rest(b, k)) = Len(b) - k
         /\ First(b, k) \o Rest(b, k) = b
  <1> DEFINE n == Len(b)
  <1>1. n \in Nat /\ \A i \in 1 .. n : b[i] \in Byte
    OBVIOUS
  <1>2. /\ SubSeq(b, 1, k) \in Seq(Byte)
        /\ Len(SubSeq(b, 1, k)) = IF 1 <= k THEN k - 1 + 1 ELSE 0
    <2>1. \A i \in 1 .. k : b[i] \in Byte
      BY <1>1
    <2>2. 1 \in Int /\ k \in Int
      BY <1>1
    <2>3. QED
      BY <2>1, <2>2, SubSeqProperties
  <1>3. /\ SubSeq(b, k + 1, n) \in Seq(Byte)
        /\ Len(SubSeq(b, k + 1, n)) = IF k + 1 <= n THEN n - (k + 1) + 1 ELSE 0
    <2>1. \A i \in k + 1 .. n : b[i] \in Byte
      BY <1>1
    <2>2. k + 1 \in Int /\ n \in Int
      BY <1>1
    <2>3. QED
      BY <2>1, <2>2, SubSeqProperties
  <1>4. SubSeq(b, 1, k) \o SubSeq(b, k + 1, n) = SubSeq(b, 1, n)
    <2>1. 1 \in 1 .. n + 1 /\ k \in 1 - 1 .. n /\ n \in k .. n
      BY <1>1
    <2>2. QED
      BY <2>1, ConcatAdjacentSubSeq
  <1>5. SubSeq(b, 1, n) = b
    BY SubSeqFull
  <1>6. Len(SubSeq(b, 1, k)) = k /\ Len(SubSeq(b, k + 1, n)) = n - k
    BY <1>1, <1>2, <1>3
  <1> HIDE DEF n
  <1>7. First(b, k) = SubSeq(b, 1, k) /\ Rest(b, k) = SubSeq(b, k + 1, n)
    BY DEF First, Rest, n
  <1>8. QED
    BY <1>2, <1>3, <1>4, <1>5, <1>6, <1>7 DEF n

(* A name for the type, which the provers then leave folded.               *)
Texts == Seq(Byte)

(* Concatenation is associative, in the direction the steps below need.    *)
LEMMA RegroupSeq ==
  ASSUME NEW a \in Seq(Byte), NEW b \in Seq(Byte), NEW c \in Seq(Byte)
  PROVE  a \o (b \o c) = (a \o b) \o c
  BY ConcatAssociative

(* The same of Texts.                                                      *)
LEMMA Regroup ==
  ASSUME NEW a \in Texts, NEW b \in Texts, NEW c \in Texts
  PROVE  a \o (b \o c) = (a \o b) \o c
  BY RegroupSeq, Zenon DEF Texts

(* Moving the front of b behind a leaves a followed by b the same.         *)
LEMMA MoveFront ==
  ASSUME NEW a \in Seq(Byte), NEW b \in Seq(Byte), NEW k \in 0 .. Len(b)
  PROVE  (a \o First(b, k)) \o Rest(b, k) = a \o b
  <1>1. a \in Texts /\ First(b, k) \in Texts /\ Rest(b, k) \in Texts
    BY CutConcat DEF Texts
  <1>2. (a \o First(b, k)) \o Rest(b, k) = a \o (First(b, k) \o Rest(b, k))
    BY <1>1, Regroup
  <1>3. QED
    BY <1>2, CutConcat

(* The client's read of one byte moves it from the front of the socket's   *)
(* buffer behind what was received.                                        *)
LEMMA MoveHead ==
  ASSUME NEW a \in Seq(Byte), NEW b \in Seq(Byte), b # <<>>
  PROVE  /\ Append(a, Head(b)) \in Seq(Byte) /\ Tail(b) \in Seq(Byte)
         /\ Len(Tail(b)) = Len(b) - 1
         /\ Append(a, Head(b)) \o Tail(b) = a \o b
  <1>1. /\ Head(b) \in Byte /\ Tail(b) \in Seq(Byte)
        /\ Len(Tail(b)) = Len(b) - 1
    BY HeadTailProperties
  <1>2. Len(b) \in Nat \ {0}
    BY EmptySeq, LenProperties
  <1>3. <<Head(b)>> \in Seq(Byte) /\ <<Head(b)>> \o Tail(b) = b
    <2>1. SubSeq(b, 1, Len(b)) = <<b[1]>> \o SubSeq(b, 1 + 1, Len(b))
      <3>1. 1 \in 1 .. Len(b) /\ Len(b) \in 1 .. Len(b)
        BY <1>2
      <3>2. QED
        BY <3>1, SubSeqRecursiveFirst
    <2>2. SubSeq(b, 1, Len(b)) = b /\ Tail(b) = SubSeq(b, 2, Len(b))
      BY SubSeqFull, TailIsSubSeq
    <2>3. b[1] = Head(b) /\ 1 + 1 = 2
      OBVIOUS
    <2>4. QED
      BY <1>1, <2>1, <2>2, <2>3
  <1>4. /\ Append(a, Head(b)) = a \o <<Head(b)>>
        /\ Append(a, Head(b)) \in Seq(Byte)
    BY <1>1, AppendIsConcat
  <1>5. (a \o <<Head(b)>>) \o Tail(b) = a \o (<<Head(b)>> \o Tail(b))
    BY <1>1, <1>3, ConcatAssociative
  <1>6. QED
    BY <1>1, <1>3, <1>4, <1>5

(* The bytes of a message.                                                 *)
LEMMA BytesType == \A m \in Msgs : Bytes(m) \in Seq(Byte)
  <1> SUFFICES ASSUME NEW m \in Msgs PROVE Bytes(m) \in Seq(Byte)
    OBVIOUS
  <1>1. Size[m] \in Nat
    BY SizeAssumption
  <1>2. Bytes(m) \in [1 .. Size[m] -> Byte]
    BY <1>1 DEF Bytes, Byte
  <1>3. QED
    BY <1>1, <1>2, SeqDef

-----------------------------------------------------------------------------
(* The inductive invariant: that nothing is left behind the FIN depends on *)
(* the interest in EPOLLOUT matching the buffer, and that the stream is    *)
(* whole on the types of its parts.                                        *)
IInv == OutputInv /\ FinIsLast /\ StreamIntact

(* The start: nothing buffered, nothing watched.                           *)
LEMMA InitInv == Init => IInv
  <1> SUFFICES ASSUME Init PROVE IInv
    OBVIOUS
  <1> USE DEF Init
  <1>1. TypeOK
    <2>1. /\ outputBuffer_ \in Seq(Byte) /\ sndbuf \in Seq(Byte)
          /\ received \in Seq(Byte) /\ accepted \in Seq(Byte)
          /\ Len(sndbuf) = 0
      OBVIOUS
    <2>2. Len(sndbuf) <= SndBuf
      BY <2>1, SndBufAssumption
    <2>3. QED
      BY <2>1, <2>2 DEF TypeOK
  <1>2. InterestIffBuffered /\ FinIsLast
    BY DEF InterestIffBuffered, FinIsLast
  <1>3. StreamIntact
    <2>1. <<>> \in Seq(Byte)
      OBVIOUS
    <2>2. <<>> \o <<>> = <<>>
      BY <2>1, ConcatEmptySeq
    <2>3. QED
      BY <2>2 DEF StreamIntact
  <1>4. QED
    BY <1>1, <1>2, <1>3 DEF IInv, OutputInv

(* What write() may take of b leaves room in the socket.                   *)
LEMMA TakesFits ==
  ASSUME TypeOK, NEW b \in Seq(Byte), NEW k \in Takes(b)
  PROVE  /\ k \in 0 .. Len(b) /\ k <= Room
         /\ sndbuf \o First(b, k) \in Seq(Byte)
         /\ Len(sndbuf \o First(b, k)) <= SndBuf
  <1>1. Len(sndbuf) \in Nat /\ Len(b) \in Nat /\ Room \in Nat
    BY SndBufAssumption DEF TypeOK, Room
  <1>2. k \in 0 .. Len(b) /\ k <= Room
    BY <1>1 DEF Takes
  <1>3. First(b, k) \in Seq(Byte) /\ Len(First(b, k)) = k
    BY <1>2, CutConcat
  <1>4. /\ sndbuf \o First(b, k) \in Seq(Byte)
        /\ Len(sndbuf \o First(b, k)) = Len(sndbuf) + k
    BY <1>3, ConcatProperties DEF TypeOK
  <1>5. Len(sndbuf) + k <= SndBuf
    BY <1>1, <1>2, SndBufAssumption DEF Room
  <1>6. QED
    BY <1>2, <1>4, <1>5

-----------------------------------------------------------------------------
(* send() in state kConnected: the bytes go into the socket as far as they *)
(* fit and nothing is buffered before them, the rest behind the buffer.    *)
LEMMA SendInv ==
  ASSUME IInv, NEW m \in Msgs, Send(m) PROVE IInv'
  <1> DEFINE b == Bytes(m)
  <1>1. b \in Seq(Byte)
    BY BytesType
  <1> HIDE DEF b
  <1>2. /\ UNCHANGED <<state_, received, wrClosed, peer>>
        /\ sent' = sent \union {m}
    BY DEF Send
  <1>3. /\ outputBuffer_ \in Seq(Byte) /\ sndbuf \in Seq(Byte)
        /\ received \in Seq(Byte) /\ accepted \in Seq(Byte)
        /\ received \o sndbuf \in Seq(Byte)
        /\ received \o sndbuf \o outputBuffer_ = accepted
    BY ConcatProperties DEF IInv, OutputInv, TypeOK, StreamIntact
  <1>4. CASE UNCHANGED <<outputBuffer_, isWrite, sndbuf, accepted>>
    BY <1>2, <1>4 DEF IInv, OutputInv, TypeOK, InterestIffBuffered, FinIsLast,
                      StreamIntact
  <1>5. CASE state_ = "kConnected" /\ ~isWrite /\ outputBuffer_ = <<>>
             /\ \E k \in Takes(b) : /\ sndbuf' = sndbuf \o First(b, k)
                                    /\ Buffer(Rest(b, k))
                                    /\ accepted' = accepted \o b
    <2>1. PICK k \in Takes(b) : /\ sndbuf' = sndbuf \o First(b, k)
                                /\ Buffer(Rest(b, k))
                                /\ accepted' = accepted \o b
      BY <1>5
    <2>2. k \in 0 .. Len(b) /\ sndbuf' \in Seq(Byte) /\ Len(sndbuf') <= SndBuf
      BY <1>1, <2>1, TakesFits DEF IInv, OutputInv
    <2>3. First(b, k) \in Seq(Byte) /\ Rest(b, k) \in Seq(Byte)
      BY <1>1, <2>2, CutConcat
    <2>4. outputBuffer_' = Rest(b, k)
      BY <1>5, <2>1, <2>3, ConcatEmptySeq DEF Buffer
    <2>5. isWrite' = (outputBuffer_' # <<>>)
      BY <1>5, <2>1, <2>4 DEF Buffer
    <2>6. accepted' \in Seq(Byte)
      BY <1>1, <1>3, <2>1, ConcatProperties
    <2>7. StreamIntact'
      <3>1. received \o sndbuf = accepted
        BY <1>3, <1>5, ConcatEmptySeq
      <3>2. received \o (sndbuf \o First(b, k))
              = (received \o sndbuf) \o First(b, k)
        <4>1. received \in Texts /\ sndbuf \in Texts /\ First(b, k) \in Texts
          BY <1>3, <2>3 DEF Texts
        <4>2. QED
          BY <4>1, Regroup
      <3>3. (accepted \o First(b, k)) \o Rest(b, k) = accepted \o b
        BY <1>1, <1>3, <2>2, MoveFront
      <3>4. QED
        BY <1>2, <2>1, <2>4, <3>1, <3>2, <3>3 DEF StreamIntact
    <2>8. TypeOK'
      BY <1>2, <2>2, <2>3, <2>4, <2>5, <2>6 DEF IInv, OutputInv, TypeOK
    <2>9. InterestIffBuffered' /\ FinIsLast'
      BY <1>2, <1>5, <2>5 DEF IInv, InterestIffBuffered, FinIsLast
    <2>10. QED
      BY <2>7, <2>8, <2>9 DEF IInv, OutputInv
  <1>6. CASE state_ = "kConnected" /\ ~(~isWrite /\ outputBuffer_ = <<>>)
             /\ Buffer(b) /\ accepted' = accepted \o b /\ UNCHANGED sndbuf
    <2>1. outputBuffer_ # <<>> /\ isWrite = TRUE
      BY <1>6 DEF IInv, OutputInv, InterestIffBuffered, TypeOK
    <2>2. /\ outputBuffer_' = outputBuffer_ \o b
          /\ outputBuffer_' \in Seq(Byte) /\ accepted' \in Seq(Byte)
      BY <1>1, <1>3, <1>6, ConcatProperties DEF Buffer
    <2>3. outputBuffer_' # <<>> /\ isWrite' = TRUE
      <3>1. outputBuffer_ \o b # <<>>
        BY <1>1, <1>3, <2>1, ConcatEqualIffEmpty
      <3>2. QED
        BY <1>6, <2>1, <2>2, <3>1 DEF Buffer
    <2>4. StreamIntact'
      <3>1. (received \o sndbuf) \o (outputBuffer_ \o b)
              = ((received \o sndbuf) \o outputBuffer_) \o b
        <4> DEFINE a == received \o sndbuf
        <4>1. a \in Texts /\ outputBuffer_ \in Texts /\ b \in Texts
          BY <1>1, <1>3 DEF Texts
        <4> HIDE DEF a
        <4>2. a \o (outputBuffer_ \o b) = (a \o outputBuffer_) \o b
          BY <4>1, Regroup
        <4>3. QED
          BY <4>2 DEF a
      <3>2. QED
        BY <1>2, <1>3, <1>6, <2>2, <3>1 DEF StreamIntact
    <2>5. TypeOK'
      BY <1>2, <1>6, <2>2, <2>3 DEF IInv, OutputInv, TypeOK
    <2>6. InterestIffBuffered' /\ FinIsLast'
      BY <1>2, <1>6, <2>3 DEF IInv, InterestIffBuffered, FinIsLast
    <2>7. QED
      BY <2>4, <2>5, <2>6 DEF IInv, OutputInv
  <1>7. QED
    BY <1>4, <1>5, <1>6 DEF Send, SendInLoop, b

(* handleWrite() moves bytes from the front of the buffer into the socket. *)
LEMMA HandleWriteInv ==
  ASSUME IInv, HandleWrite PROVE IInv'
  <1>1. PICK k \in Takes(outputBuffer_) :
          /\ sndbuf' = sndbuf \o First(outputBuffer_, k)
          /\ outputBuffer_' = Rest(outputBuffer_, k)
          /\ isWrite' = (k # Len(outputBuffer_))
    BY DEF HandleWrite
  <1>2. UNCHANGED <<state_, received, wrClosed, peer, accepted, sent>>
    BY DEF HandleWrite
  <1>3. /\ outputBuffer_ \in Seq(Byte) /\ sndbuf \in Seq(Byte)
        /\ received \in Seq(Byte) /\ received \o sndbuf \in Seq(Byte)
    BY ConcatProperties DEF IInv, OutputInv, TypeOK
  <1>4. /\ k \in 0 .. Len(outputBuffer_)
        /\ sndbuf' \in Seq(Byte) /\ Len(sndbuf') <= SndBuf
    BY <1>1, <1>3, TakesFits DEF IInv, OutputInv
  <1>5. /\ First(outputBuffer_, k) \in Seq(Byte)
        /\ outputBuffer_' \in Seq(Byte)
        /\ Len(outputBuffer_') = Len(outputBuffer_) - k
    BY <1>1, <1>3, <1>4, CutConcat
  <1>6. isWrite' = (outputBuffer_' # <<>>)
    <2>1. outputBuffer_' = <<>> <=> Len(outputBuffer_') = 0
      BY <1>5, EmptySeq
    <2>2. Len(outputBuffer_') = 0 <=> k = Len(outputBuffer_)
      BY <1>3, <1>4, <1>5
    <2>3. QED
      BY <1>1, <2>1, <2>2
  <1>7. StreamIntact'
    <2>1. received \o (sndbuf \o First(outputBuffer_, k))
            = (received \o sndbuf) \o First(outputBuffer_, k)
      <3>1. /\ received \in Texts /\ sndbuf \in Texts
            /\ First(outputBuffer_, k) \in Texts
        BY <1>3, <1>5 DEF Texts
      <3>2. QED
        BY <3>1, Regroup
    <2>2. ((received \o sndbuf) \o First(outputBuffer_, k))
            \o Rest(outputBuffer_, k) = (received \o sndbuf) \o outputBuffer_
      BY <1>3, <1>4, MoveFront
    <2>3. QED
      BY <1>1, <1>2, <2>1, <2>2 DEF IInv, StreamIntact
  <1>8. TypeOK'
    BY <1>2, <1>4, <1>5, <1>6 DEF IInv, OutputInv, TypeOK
  <1>9. InterestIffBuffered' /\ FinIsLast'
    <2>1. InterestIffBuffered'
      BY <1>6 DEF InterestIffBuffered
    <2>2. wrClosed' = FALSE
      BY <1>2 DEF HandleWrite, WriteFails, IInv, OutputInv, TypeOK
    <2>3. QED
      BY <2>1, <2>2 DEF FinIsLast
  <1>10. QED
    BY <1>7, <1>8, <1>9 DEF IInv, OutputInv

(* The client's read leaves the stream as it was.                          *)
LEMMA ClientReadsInv ==
  ASSUME IInv, ClientReads PROVE IInv'
  <1>1. /\ outputBuffer_ \in Seq(Byte) /\ sndbuf \in Seq(Byte)
        /\ received \in Seq(Byte)
    BY DEF IInv, OutputInv, TypeOK
  <1>2. /\ received' \in Seq(Byte) /\ sndbuf' \in Seq(Byte)
        /\ Len(sndbuf') = Len(sndbuf) - 1
        /\ received' \o sndbuf' = received \o sndbuf
    BY <1>1, MoveHead DEF ClientReads
  <1>3. Len(sndbuf') <= SndBuf
    <2>1. Len(sndbuf) \in Nat /\ Len(sndbuf) <= SndBuf /\ SndBuf \in Nat
      BY <1>1, SndBufAssumption DEF IInv, OutputInv, TypeOK
    <2>2. QED
      BY <1>2, <2>1
  <1>4. TypeOK'
    BY <1>2, <1>3 DEF IInv, OutputInv, TypeOK, ClientReads
  <1>5. InterestIffBuffered' /\ FinIsLast'
    BY DEF IInv, OutputInv, InterestIffBuffered, FinIsLast, ClientReads
  <1>6. StreamIntact'
    BY <1>2 DEF IInv, StreamIntact, ClientReads
  <1>7. QED
    BY <1>4, <1>5, <1>6 DEF IInv, OutputInv

(* Every step preserves the invariant.                                     *)
LEMMA NextInv == IInv /\ [Next]_vars => IInv'
  <1> SUFFICES ASSUME IInv, [Next]_vars PROVE IInv'
    OBVIOUS
  <1>1. CASE \E m \in Msgs : Send(m)
    BY <1>1, SendInv
  <1>2. CASE HandleWrite
    BY <1>2, HandleWriteInv
  <1>3. CASE ClientReads
    BY <1>3, ClientReadsInv
  <1>4. CASE Shutdown
    <2>1. TypeOK'
      BY <1>4 DEF IInv, OutputInv, TypeOK, Shutdown
    <2>2. InterestIffBuffered' /\ StreamIntact'
      BY <1>4 DEF IInv, OutputInv, InterestIffBuffered, StreamIntact, Shutdown
    <2>3. FinIsLast'
      BY <1>4 DEF IInv, OutputInv, TypeOK, InterestIffBuffered, FinIsLast,
                  Shutdown
    <2>4. QED
      BY <2>1, <2>2, <2>3 DEF IInv, OutputInv
  <1>5. CASE HandleClose
    <2>1. TypeOK'
      BY <1>5 DEF IInv, OutputInv, TypeOK, HandleClose
    <2>2. InterestIffBuffered' /\ FinIsLast' /\ StreamIntact'
      BY <1>5 DEF IInv, InterestIffBuffered, FinIsLast, StreamIntact,
                  HandleClose
    <2>3. QED
      BY <2>1, <2>2 DEF IInv, OutputInv
  <1>6. CASE \E how \in {"finished", "gone"} : ClientEnds(how)
    BY <1>6 DEF IInv, OutputInv, TypeOK, InterestIffBuffered, FinIsLast,
                StreamIntact, ClientEnds
  <1>7. CASE UNCHANGED vars
    BY <1>7 DEF vars, IInv, OutputInv, TypeOK, InterestIffBuffered, FinIsLast,
                StreamIntact
  <1>8. QED
    BY <1>1, <1>2, <1>3, <1>4, <1>5, <1>6, <1>7 DEF Next

(* The inductive invariant holds throughout.                               *)
LEMMA AlwaysIInv == Spec => []IInv
  BY InitInv, NextInv, PTL DEF Spec

-----------------------------------------------------------------------------
(* The interest in EPOLLOUT follows the output buffer (enableWriting() in  *)
(* sendInLoop(), disableWriting() in handleWrite()), for any messages.     *)
THEOREM OutputInvariant == Spec => []OutputInv
  <1>1. IInv => OutputInv
    BY DEF IInv
  <1>2. QED
    BY <1>1, AlwaysIInv, PTL

(* The write side is only ever closed behind an empty buffer, and nothing  *)
(* is buffered after it: what shutdownInLoop() tests is enough.            *)
THEOREM NothingBehindFin == Spec => []FinIsLast
  <1>1. IInv => FinIsLast
    BY DEF IInv
  <1>2. QED
    BY <1>1, AlwaysIInv, PTL

(* Direct writes of sendInLoop() and buffered writes of handleWrite()      *)
(* together deliver the accepted bytes in order.                           *)
THEOREM StreamStaysIntact == Spec => []StreamIntact
  <1>1. IInv => StreamIntact
    BY DEF IInv
  <1>2. QED
    BY <1>1, AlwaysIInv, PTL
=============================================================================
