--------------------------- MODULE ConnectionOutput ---------------------------
(***************************************************************************)
(* The sending side of one established Connection: send(), shutdown(), the *)
(* output buffer with its interest in EPOLLOUT, the socket's send buffer   *)
(* and the client that reads it. Every call is made on the connection's    *)
(* loop, as HttpServer does, so a handler is one step; what the kernel and *)
(* the client do comes between the handlers. A byte is a pair of message   *)
(* and position.                                                           *)
(***************************************************************************)
EXTENDS Naturals, Sequences

CONSTANTS Msgs,    \* the messages the application may send, each once
          Size,    \* their lengths
          SndBuf   \* capacity of the socket's send buffer

ASSUME SizeAssumption == Size \in [Msgs -> Nat]
ASSUME SndBufAssumption == SndBuf \in Nat \ {0}

VARIABLES state_,
          outputBuffer_,
          isWrite,     \* EPOLLOUT is among the channel's events
          sndbuf,      \* written to the socket, not yet read by the client
          received,    \* read by the client
          wrClosed,    \* shutdown(SHUT_WR) was called
          peer,        \* the client: it may have ended its stream or reset
          accepted,    \* history: the bytes sendInLoop() took charge of
          sent         \* history: the messages given to send()

vars == <<state_, outputBuffer_, isWrite, sndbuf, received, wrClosed,
          peer, accepted, sent>>

Byte == Msgs \X Nat
Bytes(m) == [i \in 1 .. Size[m] |-> <<m, i>>]

TypeOK == /\ state_ \in {"kConnected", "kDisconnecting", "kDisconnected"}
          /\ outputBuffer_ \in Seq(Byte)
          /\ isWrite \in BOOLEAN
          /\ sndbuf \in Seq(Byte) /\ Len(sndbuf) <= SndBuf
          /\ received \in Seq(Byte)
          /\ wrClosed \in BOOLEAN
          /\ peer \in {"open", "finished", "gone"}
          /\ accepted \in Seq(Byte)
          /\ sent \subseteq Msgs

(* After connectEstablished().                                             *)
Init == /\ state_ = "kConnected"
        /\ outputBuffer_ = <<>> /\ isWrite = FALSE
        /\ sndbuf = <<>> /\ received = <<>>
        /\ wrClosed = FALSE /\ peer = "open"
        /\ accepted = <<>> /\ sent = {}

-----------------------------------------------------------------------------
(* write() of the bytes b: how many of them the kernel may take. With room *)
(* it takes at least one; without, EWOULDBLOCK; zero bytes always succeed. *)
Room == SndBuf - Len(sndbuf)
Takes(b) == IF b = <<>> \/ Room = 0 THEN {0}
            ELSE {k \in 1 .. Len(b) : k <= Room}

WriteFails == wrClosed \/ peer = "gone"   \* EPIPE, ECONNRESET

First(b, k) == SubSeq(b, 1, k)
Rest(b, k) == SubSeq(b, k + 1, Len(b))

-----------------------------------------------------------------------------
(* The remaining bytes go behind what is buffered, and the channel becomes *)
(* interested in EPOLLOUT.                                                 *)
Buffer(b) == /\ outputBuffer_' = outputBuffer_ \o b
             /\ isWrite' = (isWrite \/ b # <<>>)

(* Variant for testing the properties: the direct write does not wait for  *)
(* the buffered bytes.                                                     *)
SendInLoopOvertakes(b) ==
  \E k \in Takes(b) : /\ sndbuf' = sndbuf \o First(b, k)
                      /\ Buffer(Rest(b, k))
                      /\ accepted' = accepted \o b

(* Variant: the interest in EPOLLOUT is not set.                           *)
SendInLoopNoInterest(b) ==
  /\ outputBuffer_' = outputBuffer_ \o b
  /\ accepted' = accepted \o b
  /\ UNCHANGED <<sndbuf, isWrite>>

(* sendInLoop(), not reached in state kDisconnected: see Send.             *)
SendInLoop(b) ==
  IF ~isWrite /\ outputBuffer_ = <<>>
  THEN IF WriteFails
       THEN UNCHANGED <<outputBuffer_, isWrite, sndbuf, accepted>>
       ELSE \E k \in Takes(b) : /\ sndbuf' = sndbuf \o First(b, k)
                                /\ Buffer(Rest(b, k))
                                /\ accepted' = accepted \o b
  ELSE /\ Buffer(b)
       /\ accepted' = accepted \o b
       /\ UNCHANGED sndbuf

(* send(): nothing happens unless connected.                               *)
Send(m) ==
  /\ m \notin sent
  /\ sent' = sent \union {m}
  /\ IF state_ = "kConnected"
     THEN SendInLoop(Bytes(m))
     ELSE UNCHANGED <<outputBuffer_, isWrite, sndbuf, accepted>>
  /\ UNCHANGED <<state_, received, wrClosed, peer>>

(* Variant: the write side is closed with bytes still buffered.            *)
ShutdownAtOnce ==
  /\ state_ = "kConnected"
  /\ state_' = "kDisconnecting"
  /\ wrClosed' = TRUE
  /\ UNCHANGED <<outputBuffer_, isWrite, sndbuf, received, peer,
                 accepted, sent>>

(* shutdown() and shutdownInLoop().                                        *)
Shutdown ==
  /\ state_ = "kConnected"
  /\ state_' = "kDisconnecting"
  /\ wrClosed' = ~isWrite
  /\ UNCHANGED <<outputBuffer_, isWrite, sndbuf, received, peer,
                 accepted, sent>>

(* Variant: the interest goes after the first write, however short.        *)
HandleWriteOneShot ==
  /\ isWrite
  /\ ~WriteFails
  /\ Room > 0
  /\ \E k \in Takes(outputBuffer_) :
       /\ sndbuf' = sndbuf \o First(outputBuffer_, k)
       /\ outputBuffer_' = Rest(outputBuffer_, k)
  /\ isWrite' = FALSE
  /\ UNCHANGED <<state_, received, wrClosed, peer, accepted, sent>>

(* handleWrite(), called for EPOLLOUT, and also when the connection failed *)
(* (EPOLLERR and EPOLLHUP come with EPOLLOUT; the write then fails and     *)
(* nothing changes).                                                       *)
HandleWrite ==
  /\ isWrite
  /\ ~WriteFails
  /\ Room > 0
  /\ \E k \in Takes(outputBuffer_) :
       /\ sndbuf' = sndbuf \o First(outputBuffer_, k)
       /\ outputBuffer_' = Rest(outputBuffer_, k)
       /\ isWrite' = (k # Len(outputBuffer_))
  /\ UNCHANGED <<state_, received, wrClosed, peer, accepted, sent>>

(* handleClose(), from handleRead() once the client ended its stream or    *)
(* reset the connection: disableAll(), what is buffered is never written.  *)
HandleClose ==
  /\ peer # "open"
  /\ state_ # "kDisconnected"
  /\ state_' = "kDisconnected"
  /\ isWrite' = FALSE
  /\ UNCHANGED <<outputBuffer_, sndbuf, received, wrClosed, peer,
                 accepted, sent>>

-----------------------------------------------------------------------------
(* The client: it reads, ends its own stream, resets the connection.       *)
ClientReads ==
  /\ sndbuf # <<>> /\ peer # "gone"
  /\ received' = Append(received, Head(sndbuf))
  /\ sndbuf' = Tail(sndbuf)
  /\ UNCHANGED <<state_, outputBuffer_, isWrite, wrClosed, peer,
                 accepted, sent>>

ClientEnds(how) ==
  /\ peer = "open" \/ (peer = "finished" /\ how = "gone")
  /\ peer' = how
  /\ UNCHANGED <<state_, outputBuffer_, isWrite, sndbuf, received, wrClosed,
                 accepted, sent>>

-----------------------------------------------------------------------------
Next == \/ \E m \in Msgs : Send(m)
        \/ Shutdown \/ HandleWrite \/ HandleClose
        \/ ClientReads
        \/ \E how \in {"finished", "gone"} : ClientEnds(how)

Spec == Init /\ [][Next]_vars

(* The loop serves the ready channel, and the client keeps reading unless  *)
(* it resets the connection. The application need not send or shut down.   *)
FairSpec == /\ Spec
            /\ WF_vars(HandleWrite) /\ WF_vars(HandleClose)
            /\ WF_vars(ClientReads)
-----------------------------------------------------------------------------
(***************************************************************************)
(* Properties.                                                             *)
(***************************************************************************)

(* The client gets the bytes of the accepted messages in the order of the  *)
(* calls of send(), none lost, doubled or overtaken by a direct write:     *)
(* what it read, what is under way and what is buffered is what was        *)
(* accepted (Connection.cpp:212-269, :153-180).                            *)
StreamIntact == received \o sndbuf \o outputBuffer_ = accepted

(* EPOLLOUT is watched exactly while bytes are buffered: the loop neither  *)
(* spins on a writable socket nor forgets buffered bytes.                  *)
InterestIffBuffered ==
  state_ # "kDisconnected" => (isWrite <=> outputBuffer_ # <<>>)

OutputInv == TypeOK /\ InterestIffBuffered

(* Nothing stays behind the FIN: once the write side is closed send() is   *)
(* refused for good and no accepted byte is left in the buffer, where no   *)
(* write could reach the client any more.                                  *)
FinIsLast == wrClosed => state_ # "kConnected" /\ outputBuffer_ = <<>>

(* Buffered bytes reach a client that keeps reading and keeps its own side *)
(* open, also after shutdown().                                            *)
BufferDrains ==
  outputBuffer_ # <<>> ~> outputBuffer_ = <<>> \/ peer # "open"

(* shutdown() gets to close the write side once the buffered bytes are     *)
(* sent, as the comments at Connection.cpp:96 and :99 have it.             *)
ShutdownCompletes ==
  state_ = "kDisconnecting" ~> wrClosed \/ peer # "open"
=============================================================================
