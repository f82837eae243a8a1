-------------------------------- MODULE Buffer --------------------------------
(***************************************************************************)
(* The class Buffer as operators on records: the vector buffer_ and two    *)
(* indices into it, which count from 0 as in the code (cell i of the       *)
(* vector is buffer_[i + 1] here). A constant of the code's own sizes is a *)
(* parameter.                                                              *)
(***************************************************************************)
EXTENDS Naturals, Sequences

CONSTANTS Byte,
          Zero,           \* what a cell holds that nothing was written to
          CR, LF,
          KCheapPrepend, KInitailSize,
          ExtraSize       \* size of readFd()'s buffer on the stack

ASSUME ByteAssumption == {Zero, CR, LF} \subseteq Byte
ASSUME SizesAssumption == /\ KCheapPrepend \in Nat /\ KInitailSize \in Nat
                          /\ ExtraSize \in Nat

BufferRecord == [buffer_: Seq(Byte), readerIndex_: Nat, writerIndex_: Nat]

(* The indices stay ordered, as the drawing at Buffer.hpp:11-18 has it,    *)
(* and the first KCheapPrepend cells stay free.                            *)
BufferOK(b) == /\ b \in BufferRecord
               /\ KCheapPrepend <= b.readerIndex_
               /\ b.readerIndex_ <= b.writerIndex_
               /\ b.writerIndex_ <= Len(b.buffer_)

NewBuffer == [buffer_ |-> [i \in 1 .. KCheapPrepend + KInitailSize |-> Zero],
              readerIndex_ |-> KCheapPrepend, writerIndex_ |-> KCheapPrepend]

ReadableBytes(b) == b.writerIndex_ - b.readerIndex_
WriteableBytes(b) == Len(b.buffer_) - b.writerIndex_
PrependableBytes(b) == b.readerIndex_

(* The bytes from peek() to beginWirte().                                  *)
Content(b) == [i \in 1 .. ReadableBytes(b) |-> b.buffer_[b.readerIndex_ + i]]

RetrieveAll(b) == [b EXCEPT !.readerIndex_ = KCheapPrepend,
                            !.writerIndex_ = KCheapPrepend]

(* Variant for testing the properties: only one index goes back.           *)
RetrieveWriterOnly(b, len) ==
  IF len < ReadableBytes(b)
  THEN [b EXCEPT !.readerIndex_ = @ + len]
  ELSE [b EXCEPT !.writerIndex_ = KCheapPrepend]

Retrieve(b, len) == IF len < ReadableBytes(b)
                    THEN [b EXCEPT !.readerIndex_ = @ + len]
                    ELSE RetrieveAll(b)

(* resize() keeps the cells there are and zeroes the new ones.             *)
Resize(b, size) ==
  [b EXCEPT !.buffer_ =
     [i \in 1 .. size |-> IF i <= Len(b.buffer_) THEN b.buffer_[i] ELSE Zero]]

(* Variant: the indices go to the front, the cells do not.                 *)
MoveToFrontNoCopy(b) ==
  [b EXCEPT !.readerIndex_ = KCheapPrepend,
            !.writerIndex_ = KCheapPrepend + ReadableBytes(b)]

(* std::copy of the readable cells to the front.                           *)
MoveToFront(b) ==
  LET last == KCheapPrepend + ReadableBytes(b)
  IN [buffer_ |-> [i \in 1 .. Len(b.buffer_) |->
                     IF KCheapPrepend < i /\ i <= last
                     THEN b.buffer_[b.readerIndex_ + i - KCheapPrepend]
                     ELSE b.buffer_[i]],
      readerIndex_ |-> KCheapPrepend,
      writerIndex_ |-> last]

MakeSpace(b, len) ==
  IF WriteableBytes(b) + PrependableBytes(b) < len + KCheapPrepend
  THEN Resize(b, b.writerIndex_ + len)
  ELSE MoveToFront(b)

EnsureSpace(b, len) == IF WriteableBytes(b) < len THEN MakeSpace(b, len) ELSE b

(* The cells behind the writer get the data.                               *)
Write(b, data) ==
  [buffer_ |-> [i \in DOMAIN b.buffer_ |->
                  IF b.writerIndex_ < i /\ i <= b.writerIndex_ + Len(data)
                  THEN data[i - b.writerIndex_] ELSE b.buffer_[i]],
   readerIndex_ |-> b.readerIndex_,
   writerIndex_ |-> b.writerIndex_ + Len(data)]

AppendData(b, data) == Write(EnsureSpace(b, Len(data)), data)

(* append() of one byte, with room for allLen bytes made first.            *)
AppendByte(b, byte, allLen) == Write(EnsureSpace(b, allLen), <<byte>>)

(* readFd(): the most one readv() may bring, and what becomes of the bytes *)
(* it brought: they fill the vector, the rest comes from the stack buffer. *)
ReadLimit(b) == WriteableBytes(b)
                  + IF WriteableBytes(b) < ExtraSize THEN ExtraSize ELSE 0

ReadFd(b, bytes) ==
  LET writable == WriteableBytes(b)
  IN IF Len(bytes) <= writable
     THEN Write(b, bytes)
     ELSE AppendData(Write(b, SubSeq(bytes, 1, writable)),
                     SubSeq(bytes, writable + 1, Len(bytes)))

(* findCRLF(): the position in the content of the first CR LF; 0: none.    *)
FindCRLF(b) ==
  LET c == Content(b)
      at == {i \in 1 .. Len(c) - 1 : c[i] = CR /\ c[i + 1] = LF}
  IN IF at = {} THEN 0 ELSE CHOOSE i \in at : \A j \in at : i <= j
=============================================================================
