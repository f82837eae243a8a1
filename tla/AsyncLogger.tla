----------------------------- MODULE AsyncLogger -----------------------------
(***************************************************************************)
(* AsyncLogger with FixedBuffer, LogFile and AppendFile: threads that log  *)
(* lines append to buffers under the mutex, the logger's thread swaps the  *)
(* buffers out and writes them to the file, and stop() ends that thread.   *)
(* A critical section is one step; running is read and written outside of  *)
(* the mutex. The clock and AppendFile::WrittenBytes, which is never       *)
(* initialized, decide between rolling, flushing and neither: any of the   *)
(* three may happen.                                                       *)
(***************************************************************************)
EXTENDS Naturals, Sequences, SequencesExt

CONSTANTS Lines, Size,  \* the lines, each logged once, and their lengths
          MaxPending,   \* 25: with more buffers all but Spared are dropped
          Null

Spared == 2

VARIABLES running,
          Current_Buffer, Next_Buffer, Buffers,
          thread,                  \* where the logger's thread is
          newBuffer1, newBuffer2, BufferToWrite,  \* its local variables
          stdio,                   \* written to the FILE, not yet flushed
          disk,                    \* flushed, in all log files together
          stopper,                 \* the thread that calls start() and stop()
          appended,                \* history: lines whose Append() returned
          due                      \* history: appended when stop() was called

vars == <<running, Current_Buffer, Next_Buffer, Buffers, thread, newBuffer1,
          newBuffer2, BufferToWrite, stdio, disk, stopper, appended, due>>

front == <<Current_Buffer, Next_Buffer, Buffers>>
local == <<newBuffer1, newBuffer2, BufferToWrite>>
output == <<stdio, disk>>

Bytes(l) == [i \in 1 .. Size[l] |-> <<l, i>>]

-----------------------------------------------------------------------------
(* FixedBuffer: what was appended since Reset(). Available() is the length *)
(* of that, not the room behind it.                                        *)
Reset == <<>>
Available(buf) == Len(buf)
FixedAppend(buf, str) ==
  IF Available(buf) > Len(str) THEN buf \o str ELSE buf

Init == /\ running = FALSE
        /\ Current_Buffer = Reset /\ Next_Buffer = Reset /\ Buffers = <<>>
        /\ thread = "none"
        /\ newBuffer1 = Reset /\ newBuffer2 = Reset /\ BufferToWrite = <<>>
        /\ stdio = <<>> /\ disk = <<>>
        /\ stopper = "new" /\ appended = {} /\ due = {}

(* Append()                                                                *)
LogLine(l) ==
  /\ l \notin appended
  /\ appended' = appended \union {l}
  /\ IF Available(Current_Buffer) > Size[l]
     THEN /\ Current_Buffer' = FixedAppend(Current_Buffer, Bytes(l))
          /\ UNCHANGED <<Next_Buffer, Buffers>>
     ELSE /\ Buffers' = Append(Buffers, Current_Buffer)
          /\ Current_Buffer' =
               FixedAppend(IF Next_Buffer # Null THEN Next_Buffer ELSE Reset,
                           Bytes(l))
          /\ Next_Buffer' = Null
  /\ UNCHANGED <<running, thread, local, output, stopper, due>>

-----------------------------------------------------------------------------
(* LogFile and AppendFile. Flush(), and the new file of rollFile(), which  *)
(* closes the old one, bring what was written to the disk.                 *)
Flush(log) == [disk |-> log.disk \o log.stdio, stdio |-> <<>>]
RollFile(log) == Flush(log)

LogFileAppend(log, data) ==
  LET written == [log EXCEPT !.stdio = @ \o data]
  IN {written, RollFile(written), Flush(written)}

-----------------------------------------------------------------------------
(* ThreadFunc(): the test of the loop.                                     *)
Test == /\ thread = "loop"
        /\ thread' = IF running THEN "lock" ELSE "out"
        /\ UNCHANGED <<running, front, local, output, stopper, appended, due>>

(* The rest of the critical section, with the mutex held (again).          *)
Swap == /\ BufferToWrite' = Append(Buffers, Current_Buffer)
        /\ Buffers' = BufferToWrite
        /\ Current_Buffer' = newBuffer1
        /\ newBuffer1' = Null
        /\ IF Next_Buffer = Null
           THEN Next_Buffer' = newBuffer2 /\ newBuffer2' = Null
           ELSE UNCHANGED <<Next_Buffer, newBuffer2>>
        /\ thread' = "write"
        /\ UNCHANGED <<running, output, stopper, appended, due>>

TakeAtOnce == thread = "lock" /\ Buffers # <<>> /\ Swap

StartToWait ==
  /\ thread = "lock" /\ Buffers = <<>>
  /\ thread' = "waiting"
  /\ UNCHANGED <<running, front, local, output, stopper, appended, due>>

(* A notify, the time Flush_Interval or nothing at all ends wait_for().    *)
Wake == thread = "waiting" /\ Swap

(* The buffers are written; one or two of them become spares again. As     *)
(* coded a second is taken although newBuffer2 is there; back() of an      *)
(* empty vector then ends the process.                                     *)
WriteOut ==
  LET kept == IF Len(BufferToWrite) > MaxPending
              THEN SubSeq(BufferToWrite, 1, Spared) ELSE BufferToWrite
      left == IF Len(kept) > Spared THEN SubSeq(kept, 1, Spared) ELSE kept
      taken1 == newBuffer1 = Null
      rest == IF taken1 THEN Front(left) ELSE left
      logs[i \in 0 .. Len(kept)] ==
        IF i = 0 THEN {[stdio |-> stdio, disk |-> disk]}
        ELSE UNION {LogFileAppend(log, kept[i]) : log \in logs[i - 1]}
  IN /\ thread = "write"
     /\ BufferToWrite' = <<>>
     /\ newBuffer1' = IF taken1 THEN Reset ELSE newBuffer1
     /\ newBuffer2' = IF newBuffer2 # Null THEN Reset ELSE newBuffer2
     /\ thread' = IF newBuffer2 # Null /\ rest = <<>> THEN "crashed"
                  ELSE "loop"
     /\ \E log \in logs[Len(kept)] : /\ disk' = Flush(log).disk
                                     /\ stdio' = Flush(log).stdio
     /\ UNCHANGED <<running, front, stopper, appended, due>>

(* After the loop.                                                         *)
Leave == /\ thread = "out"
         /\ thread' = "done"
         /\ disk' = disk \o stdio
         /\ stdio' = <<>>
         /\ UNCHANGED <<running, front, local, stopper, appended, due>>

-----------------------------------------------------------------------------
Start == /\ stopper = "new"
         /\ stopper' = "started"
         /\ running' = TRUE
         /\ thread' = "loop"
         /\ UNCHANGED <<front, local, output, appended, due>>

(* stop(): its notify_one() may as well be lost, see Wake.                 *)
Stop == /\ stopper = "started"
        /\ stopper' = "joining"
        /\ running' = FALSE
        /\ due' = appended
        /\ UNCHANGED <<front, thread, local, output, appended>>

StopReturns == /\ stopper = "joining" /\ thread = "done"
               /\ stopper' = "stopped"
               /\ UNCHANGED <<running, front, thread, local, output,
                              appended, due>>

Next == /\ thread # "crashed"
        /\ \/ \E l \in Lines : LogLine(l)
           \/ Test \/ TakeAtOnce \/ StartToWait \/ Wake \/ WriteOut \/ Leave
           \/ Start \/ Stop \/ StopReturns

Spec == Init /\ [][Next]_vars

-----------------------------------------------------------------------------
(***************************************************************************)
(* Properties.                                                             *)
(***************************************************************************)

(* Buffers travel between the loggers and the logger's thread by moves     *)
(* that leave a null pointer behind. None of the pointers used without a   *)
(* test is null: Current_Buffer in Append() (AsyncLogger.cpp:33, :63), the *)
(* buffers that are written (:116) and the first back() (:128).            *)
LogByte == Lines \X Nat
Buffer == Seq(LogByte)

BuffersThere ==
  /\ Current_Buffer \in Buffer
  /\ Next_Buffer \in Buffer \union {Null}
  /\ Buffers \in Seq(Buffer)
  /\ newBuffer1 \in Buffer \union {Null}
  /\ newBuffer2 \in Buffer \union {Null}
  /\ BufferToWrite \in Seq(Buffer)
  /\ IF thread = "write" THEN BufferToWrite # <<>>
     ELSE BufferToWrite = <<>> /\ newBuffer1 # Null

(* Before start() there is no thread.                                      *)
StartedOnce == stopper = "new" => thread = "none"

(* When stop() has returned, the lines logged before it was called are in  *)
(* the file: the comment at AsyncLogger.hpp:41 says that stop() notifies   *)
(* the thread so that what is left in the buffers is put out.              *)
StopDrains == stopper = "stopped" => due \subseteq {b[1] : b \in ToSet(disk)}
=============================================================================
