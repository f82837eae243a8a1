--------------------------- MODULE AsyncLoggerProofs ---------------------------
(***************************************************************************)
(* A theorem about AsyncLogger, for any number of lines of any length and  *)
(* any number of buffers after which it drops some.                        *)
(***************************************************************************)
EXTENDS AsyncLogger, TLAPS

(* What the constants stand for.                                           *)
Sizes == Size \in [Lines -> Nat] /\ MaxPending \in Nat
NullIsNoBuffer == Null \notin Buffer

(* What is appended to a buffer leaves a buffer.                           *)
LEMMA AppendedIsBuffer ==
  ASSUME Sizes, NEW l \in Lines, NEW buf \in Buffer
  PROVE  FixedAppend(buf, Bytes(l)) \in Buffer
  <1>1. Bytes(l) \in Buffer
    BY DEF Sizes, Bytes, Buffer, LogByte
  <1>2. QED
    BY <1>1 DEF FixedAppend, Buffer

(* reset() leaves an empty buffer.                                         *)
LEMMA ResetIsBuffer == Reset \in Buffer
  BY DEF Reset, Buffer

(* The start, with its buffers in place.                                   *)
LEMMA InitBuffers == ASSUME NullIsNoBuffer PROVE Init => BuffersThere
  BY ResetIsBuffer DEF Init, BuffersThere, NullIsNoBuffer

(* A line goes to a buffer whichever way it is found.                      *)
LEMMA LogLineBuffers ==
  ASSUME Sizes, BuffersThere, NEW l \in Lines, LogLine(l)
  PROVE  BuffersThere'
  <1> USE DEF BuffersThere
  <1>1. CASE Available(Current_Buffer) > Size[l]
    BY <1>1, AppendedIsBuffer DEF LogLine, local
  <1>2. CASE ~(Available(Current_Buffer) > Size[l])
    <2> DEFINE next == IF Next_Buffer # Null THEN Next_Buffer ELSE Reset
    <2>1. next \in Buffer
      BY ResetIsBuffer
    <2>2. Current_Buffer' \in Buffer
      <3>1. Current_Buffer' = FixedAppend(next, Bytes(l))
        BY <1>2 DEF LogLine
      <3>2. QED
        BY <2>1, <3>1, AppendedIsBuffer
    <2>3. Buffers' \in Seq(Buffer) /\ Next_Buffer' = Null
      BY <1>2 DEF LogLine
    <2>4. QED
      BY <2>2, <2>3 DEF LogLine, local
  <1>3. QED
    BY <1>1, <1>2

(* The swap takes the spare buffer, which is there, and leaves at least    *)
(* one buffer to write.                                                    *)
LEMMA SwapBuffers ==
  ASSUME BuffersThere, thread # "write", Swap
  PROVE  BuffersThere'
  <1> USE DEF BuffersThere
  <1>1. Append(Buffers, Current_Buffer) \in Seq(Buffer) \ {<<>>}
    OBVIOUS
  <1>2. BufferToWrite' \in Seq(Buffer) /\ BufferToWrite' # <<>>
    BY <1>1 DEF Swap
  <1>3. Buffers' \in Seq(Buffer) /\ Current_Buffer' \in Buffer
    BY DEF Swap
  <1>4. /\ Next_Buffer' \in Buffer \union {Null}
        /\ newBuffer2' \in Buffer \union {Null}
        /\ newBuffer1' = Null /\ thread' = "write"
    BY DEF Swap
  <1>5. QED
    BY <1>2, <1>3, <1>4

(* Behind the writing the first spare buffer is there again.               *)
LEMMA WriteOutBuffers ==
  ASSUME NullIsNoBuffer, BuffersThere, WriteOut
  PROVE  BuffersThere'
  <1> USE DEF BuffersThere
  <1>1. UNCHANGED <<Current_Buffer, Next_Buffer, Buffers>>
    BY DEF WriteOut, front
  <1>2. BufferToWrite' = <<>> /\ thread' # "write"
    BY DEF WriteOut
  <1>3. newBuffer1' \in Buffer
    BY ResetIsBuffer DEF WriteOut
  <1>4. newBuffer2' \in Buffer \union {Null}
    BY ResetIsBuffer DEF WriteOut
  <1>5. newBuffer1' # Null
    BY <1>3 DEF NullIsNoBuffer
  <1>6. QED
    BY <1>1, <1>2, <1>3, <1>4, <1>5

(* Every step, from the lemmas above.                                      *)
LEMMA NextBuffers ==
  ASSUME Sizes, NullIsNoBuffer, BuffersThere, StartedOnce, [Next]_vars
  PROVE  BuffersThere' /\ StartedOnce'
  <1>0. StartedOnce'
    BY DEF StartedOnce, Next, LogLine, Test, TakeAtOnce, StartToWait, Wake,
           Swap, WriteOut, Leave, Start, Stop, StopReturns, vars
  <1>1. ASSUME NEW l \in Lines, LogLine(l)
        PROVE  BuffersThere'
    BY <1>1, LogLineBuffers
  <1>2. CASE TakeAtOnce \/ Wake
    BY <1>0, <1>2, SwapBuffers DEF TakeAtOnce, Wake
  <1>3. CASE WriteOut
    BY <1>0, <1>3, WriteOutBuffers
  <1>4. CASE Test \/ StartToWait \/ Leave \/ Start
    BY <1>0, <1>4 DEF BuffersThere, StartedOnce, Test, StartToWait, Leave,
                      Start, front, local
  <1>5. CASE Stop \/ StopReturns \/ UNCHANGED vars
    BY <1>0, <1>5 DEF BuffersThere, Stop, StopReturns, vars, front, local
  <1>6. QED
    BY <1>0, <1>1, <1>2, <1>3, <1>4, <1>5 DEF Next

(* Neither a logger nor the logger's thread uses a null pointer where the  *)
(* code does not test for one, however their steps interleave and whenever *)
(* stop() comes: Append() always finds a Current_Buffer, and the thread a  *)
(* buffer to write and to keep (AsyncLogger.cpp:33, :63, :116, :128).      *)
THEOREM BuffersAreThere ==
  ASSUME Sizes, NullIsNoBuffer
  PROVE  Spec => []BuffersThere
  <1>1. Init => BuffersThere /\ StartedOnce
    BY InitBuffers DEF Init, StartedOnce
  <1>2. BuffersThere /\ StartedOnce /\ [Next]_vars
          => BuffersThere' /\ StartedOnce'
    BY NextBuffers
  <1>3. QED
    BY <1>1, <1>2, PTL DEF Spec
=============================================================================
