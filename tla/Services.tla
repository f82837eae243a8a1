------------------------------- MODULE Services -------------------------------
(***************************************************************************)
(* One connection from its client's bytes to its answers: handleRead() of  *)
(* the Connection with the input Buffer, the message callback of the       *)
(* HttpServer or of the WebSocketServer, send() and shutdown() with the    *)
(* output Buffer. The stream arrives in segments the client's TCP chooses. *)
(* A handler is one step, since all of them run on the connection's loop.  *)
(***************************************************************************)
EXTENDS WebSocketServer

CONSTANTS Scripts,  \* what clients send: a service, a sequence of units,
                    \* and inside of which chunks the stream may be cut
          SndBuf    \* capacity of the socket's send buffer

ASSUME SndBufAssumption == SndBuf \in Nat \ {0}

VARIABLES script,
          toCome,         \* of the client's stream, not yet read
          inputBuffer_, outputBuffer_,
          context,        \* the connection's HttpContext or Status
          state_,
          isWrite,        \* EPOLLOUT is among the channel's events
          sndbuf,         \* written to the socket, not yet read by the client
          received,       \* read by the client
          wrClosed,       \* shutdown(SHUT_WR) was called
          accepted,       \* history: the bytes sendInLoop() took charge of
          offered,        \* history: the bytes given to send()
          clean           \* history: how the stream was cut, see CleanCut

vars == <<script, toCome, inputBuffer_, outputBuffer_, context, state_, isWrite,
          sndbuf, received, wrClosed, accepted, offered, clean>>

-----------------------------------------------------------------------------
(* The client. A unit is a request or a frame; its chunks are the lines of *)
(* the head, the blank line together with the body, and a whole frame.     *)
RequestLine(u) == <<Text(u.method), SP>> \o u.target
                    \o <<SP, Text(u.version), CR, LF>>

HeaderLine(h) == <<Text(h[1]), COLON, SP, Text(h[2]), CR, LF>>

Frame(u) ==
  <<Fin(1, u.opcode)>>
    \o (IF Len(u.payload) < Short THEN <<Length(u.mask, Len(u.payload))>>
        ELSE <<Length(u.mask, Short), Extended(Len(u.payload))>>)
    \o (IF u.mask = 1 THEN [i \in 1 .. 4 |-> Key(i)] ELSE <<>>)
    \o [i \in DOMAIN u.payload |->
          Data(u.payload[i], IF u.mask = 1 THEN {((i - 1) % 4) + 1} ELSE {})]

Chunks(u) == IF u.kind = "frame" THEN <<Frame(u)>>
             ELSE <<RequestLine(u)>>
                    \o [i \in DOMAIN u.headers |-> HeaderLine(u.headers[i])]
                    \o << <<CR, LF>> \o u.body >>

Bytes(u) == FlattenSeq(Chunks(u))
Stream(us) == FlattenSeq([i \in DOMAIN us |-> Bytes(us[i])])

(* The requests and frames there are. No word of a request is a separator. *)
Words == {w \in STRING : Text(w) \notin {SP, CR}}
Requests == [kind: {"request"}, method: Words, target: Seq(Byte \ {SP, CR}),
             version: Words, headers: Seq(Words \X Words), body: Seq(Byte)]
Frames == [kind: {"frame"}, opcode: 0 .. 15, mask: {0, 1},
           payload: Seq({v \in STRING : Data(v, {}) \in Byte})]

(* The stream can be in a Buffer; a WebSocket client begins with a request.*)
ASSUME ScriptsAssumption ==
  \A s \in Scripts :
    /\ s.service \in {"http", "websocket"}
    /\ s.units \in Seq(Requests \union Frames)
    /\ \A i \in DOMAIN s.units :
         /\ Chunks(s.units[i]) \in Seq(Seq(Byte))
         /\ s.service = "http" \/ i = 1 => s.units[i] \in Requests

Units == script.units

(* Positions of the stream: where unit i ends, and where chunks end.       *)
UnitEnd(i) == Len(Stream(SubSeq(Units, 1, i)))
UnitEnds == {UnitEnd(i) : i \in 0 .. Len(Units)}
ChunkEnds ==
  UNION {{UnitEnd(i - 1) + Len(FlattenSeq(SubSeq(Chunks(Units[i]), 1, j))) :
            j \in DOMAIN Chunks(Units[i])} : i \in DOMAIN Units}

Position == Len(Stream(Units)) - Len(toCome)

(* The cuts the servers are written for: a segment ends with a line of one *)
(* request at the earliest and with the request at the latest; for the     *)
(* WebSocketServer a segment is a request or a frame.                      *)
CleanCut(p, q) ==
  /\ q \in (IF script.service = "http" THEN ChunkEnds ELSE UnitEnds)
  /\ \A e \in UnitEnds : e <= p \/ q <= e

-----------------------------------------------------------------------------
Init == /\ script \in Scripts
        /\ toCome = Stream(script.units)
        /\ inputBuffer_ = NewBuffer /\ outputBuffer_ = NewBuffer
        /\ context = IF script.service = "http" THEN HttpOnConnection
                     ELSE WebSocketOnConnection
        /\ state_ = "kConnected" /\ isWrite = FALSE
        /\ sndbuf = <<>> /\ received = <<>> /\ wrClosed = FALSE
        /\ accepted = <<>> /\ offered = <<>> /\ clean = TRUE

(* The cells that are not readable are never read again: their values are  *)
(* dropped between the handlers.                                           *)
Forget(b) ==
  [b EXCEPT !.buffer_ =
     [i \in DOMAIN @ |-> IF b.readerIndex_ < i /\ i <= b.writerIndex_
                         THEN @[i] ELSE Zero]]

-----------------------------------------------------------------------------
Room == SndBuf - Len(sndbuf)

(* write() of a number of bytes: how many the kernel takes.                *)
Takes(n) == IF n = 0 \/ Room = 0 THEN {0} ELSE {k \in 1 .. n : k <= Room}

First(b, k) == SubSeq(b, 1, k)
Rest(b, k) == SubSeq(b, k + 1, Len(b))

(* sendInLoop(): a direct write if nothing waits, the rest is buffered.    *)
SendInLoop(b) ==
  \E k \in IF ~isWrite /\ ReadableBytes(outputBuffer_) = 0
           THEN Takes(Len(b)) ELSE {0} :
    /\ sndbuf' = sndbuf \o First(b, k)
    /\ outputBuffer_' = Forget(AppendData(outputBuffer_, Rest(b, k)))
    /\ isWrite' = (isWrite \/ k # Len(b))
    /\ accepted' = accepted \o b

(* The data a callback's calls of send() pass; those after shutdown() are  *)
(* ignored, and there is one at most before it.                            *)
Sent(calls) == FlattenSeq([i \in DOMAIN calls |->
                 IF calls[i] = ShutdownCall THEN <<>> ELSE calls[i][2]])

Effective(calls) == LET i == SelectInSeq(calls, LAMBDA c : c = ShutdownCall)
                    IN IF i = 0 THEN calls ELSE SubSeq(calls, 1, i - 1)

(* What send() and shutdown() do of a callback's calls.                    *)
Perform(calls) ==
  IF state_ = "kConnected"
  THEN /\ SendInLoop(Sent(Effective(calls)))
       /\ IF Effective(calls) = calls
          THEN UNCHANGED <<state_, wrClosed>>
          ELSE /\ state_' = "kDisconnecting"
               /\ wrClosed' = ~isWrite'
  ELSE UNCHANGED <<state_, wrClosed, sndbuf, outputBuffer_, isWrite, accepted>>

OnMessage(buf) == IF script.service = "http" THEN HttpOnMessage(context, buf)
                  ELSE WebSocketOnMessage(context, buf)

(* The parser throws, and the process ends: nothing follows.               *)
Fatal(buf) == IF script.service = "http" THEN Throws(context, buf)
              ELSE context = "kUnconnect" /\ Throws(NewHttpContext, buf)

(* handleRead() with a segment of n bytes, the message callback and, last, *)
(* the retrieval of what the callback left.                                *)
HandleRead(n) ==
  /\ n <= ReadLimit(inputBuffer_)
  /\ Position + n \in ChunkEnds \union script.cuts
  /\ ~Fatal(ReadFd(inputBuffer_, First(toCome, n)))
  /\ \E r \in {OnMessage(ReadFd(inputBuffer_, First(toCome, n)))} :
        /\ context' = r.context
        /\ inputBuffer_' = Forget(Retrieve(r.buf, ReadableBytes(r.buf)))
        /\ Perform(r.calls)
        /\ offered' = offered \o Sent(r.calls)
  /\ toCome' = Rest(toCome, n)
  /\ clean' = (clean /\ CleanCut(Position, Position + n))
  /\ UNCHANGED <<script, received>>

(* Variant for testing the properties: the rest of a short write is given  *)
(* up with the interest in EPOLLOUT.                                       *)
HandleWriteOneShot ==
  /\ isWrite /\ Room > 0
  /\ \E k \in Takes(ReadableBytes(outputBuffer_)) :
       /\ sndbuf' = sndbuf \o First(Content(outputBuffer_), k)
       /\ outputBuffer_' = Forget(Retrieve(outputBuffer_, k))
  /\ isWrite' = FALSE
  /\ UNCHANGED <<script, toCome, inputBuffer_, context, state_, received,
                 wrClosed, accepted, offered, clean>>

(* handleWrite()                                                           *)
HandleWrite ==
  /\ isWrite /\ Room > 0
  /\ \E k \in Takes(ReadableBytes(outputBuffer_)) :
       /\ sndbuf' = sndbuf \o First(Content(outputBuffer_), k)
       /\ outputBuffer_' = Forget(Retrieve(outputBuffer_, k))
  /\ isWrite' = (ReadableBytes(outputBuffer_') # 0)
  /\ UNCHANGED <<script, toCome, inputBuffer_, context, state_, received,
                 wrClosed, accepted, offered, clean>>

ClientReads ==
  /\ sndbuf # <<>>
  /\ received' = received \o sndbuf
  /\ sndbuf' = <<>>
  /\ UNCHANGED <<script, toCome, inputBuffer_, outputBuffer_, context, state_,
                 isWrite, wrClosed, accepted, offered, clean>>

Next == \/ \E n \in DOMAIN toCome : HandleRead(n)
        \/ HandleWrite
        \/ ClientReads

Spec == Init /\ [][Next]_vars

(* The loop serves a writable socket, and the client reads. It need not    *)
(* send all it could.                                                      *)
FairSpec == Spec /\ WF_vars(HandleWrite) /\ WF_vars(ClientReads)

-----------------------------------------------------------------------------
(* What the client of a well cut stream should get for its units, stated   *)
(* on the requests themselves as the client wrote them. An answer closes   *)
(* or keeps the connection.                                                *)
Page(u) == LET q == FindIn(u.target, QMARK)
           IN IF q = 0 THEN u.target ELSE Before(u.target, q)

(* The value a request gives a header; the last line counts.               *)
HeaderOf(u, field) ==
  LET i == SelectLastInSeq(u.headers, LAMBDA h : h[1] = field)
  IN IF i = 0 THEN "" ELSE u.headers[i][2]

Closing(code) == [close |-> TRUE,
                  bytes |-> <<Text(code), Text("close"), Text("blank")>>]
Refusal == [close |-> TRUE, bytes |-> BadRequest]

Versions == {"HTTP/1.0", "HTTP/1.1"}

(* The client wants the connection closed (HttpServer.cpp:77-78).          *)
CloseAsked(u) ==
  \/ HeaderOf(u, "Connection") = "close"
  \/ u.version = "HTTP/1.0" /\ HeaderOf(u, "Connection") # "Keep-Alive"

HttpReply(u) ==
  IF u.method \notin Methods THEN Closing("404")
  ELSE IF u.version \notin Versions THEN Refusal
  ELSE IF Page(u) \notin Pages THEN Closing("404")
  ELSE IF CloseAsked(u) THEN [Closing("200") EXCEPT !.bytes = @ \o Page(u)]
  ELSE [close |-> FALSE,
        bytes |-> <<Text("200"), Text("Keep-Alive"),
                    <<"Content-Length", Len(Page(u))>>, Text("blank")>>
                    \o Page(u)]

(* A request that asks for the WebSocket (WebSocketServer.cpp:72-75).      *)
AsksUpgrade(u) == /\ HeaderOf(u, "Upgrade") = "websocket"
                  /\ HeaderOf(u, "Connection") = "Upgrade"
                  /\ HeaderOf(u, "Sec-WebSocket-Version") = "13"
                  /\ HeaderOf(u, "Sec-WebSocket-Key") # ""

(* The frame that answers a frame with a short payload.                    *)
EchoOf(u) ==
  LET o == Opcodes
      reply(op, data) == <<Fin(1, op), Length(0, Len(data))>>
                           \o [i \in DOMAIN data |-> Data(data[i], {})]
  IN CASE u.opcode \in {o.WSOpcode_Continue, o.WSOpcode_Text, o.WSOpcode_Binary}
            -> reply(u.opcode, u.payload)
       [] u.opcode = o.WSOpcode_Close -> reply(o.WSOpcode_Close, <<>>)
       [] u.opcode = o.WSOpcode_Ping -> reply(o.WSOpcode_Pong, <<>>)
       [] OTHER -> <<>>

(* Of the WebSocketServer: only what does not ask for the WebSocket is     *)
(* refused; the frames behind an upgrade are answered one by one.          *)
WebSocketReply(u) ==
  IF u.kind = "frame" THEN [close |-> FALSE, bytes |-> EchoOf(u)]
  ELSE IF AsksUpgrade(u) /\ u.version \in Versions
  THEN [close |-> FALSE,
        bytes |-> <<Text("101"), Text(HeaderOf(u, "Sec-WebSocket-Key"))>>]
  ELSE Refusal

Reply(u) == IF script.service = "http" THEN HttpReply(u) ELSE WebSocketReply(u)

(* The answers to the first n units: up to the first that closes.          *)
Expected(n) ==
  LET closing == {i \in 1 .. n : Reply(Units[i]).close}
  IN FlattenSeq([i \in 1 .. n |-> IF \E j \in closing : j < i THEN <<>>
                                  ELSE Reply(Units[i]).bytes])

(* The parser keeps the colon in a header's value (HttpRequest.cpp:71-74), *)
(* and no value equals a word that the servers look for. So they act       *)
(* against the client's wish on these requests: a Connection that says     *)
(* other than the version implies, and every upgrade.                      *)
Misread(u) == IF script.service = "http"
              THEN CloseAsked(u) # (u.version = "HTTP/1.0")
              ELSE u.kind = "request" /\ AsksUpgrade(u)

-----------------------------------------------------------------------------
(***************************************************************************)
(* Properties.                                                             *)
(***************************************************************************)

(* The indices of both buffers stay in order and inside the vector through *)
(* growth, moves, short writes and reads beyond the vector's end (the      *)
(* asserts at Buffer.hpp:62-63 and :73), nothing is left in the input      *)
(* buffer for the next message, and EPOLLOUT is watched exactly while      *)
(* output waits.                                                           *)
BuffersOK == /\ BufferOK(inputBuffer_) /\ BufferOK(outputBuffer_)
             /\ ReadableBytes(inputBuffer_) = 0
             /\ isWrite <=> ReadableBytes(outputBuffer_) # 0
             /\ Len(sndbuf) <= SndBuf

(* Through the output Buffer's retrieve(), growth and moves to the front   *)
(* no accepted byte is lost, doubled or moved: what the client read, what  *)
(* is under way and what is buffered is what was accepted.                 *)
OutputIsWhole == received \o sndbuf \o Content(outputBuffer_) = accepted

(* A context of the parser: a header's value begins with its colon.        *)
ContextOK(c) ==
  /\ c \in [State: {"KExpectRequestLine", "KExpectHeader", "KExpectBody",
                    "KGotAll"},
            method: Methods \union {"KInvalid"},
            version: {"UnKnown", "Http10", "Http11"},
            path: Seq(Byte), query: Seq(Byte),
            Heads: [DOMAIN c.Heads -> Seq(Byte)]]
  /\ \A field \in DOMAIN c.Heads : /\ field \in Seq(Byte)
                                   /\ c.Heads[field] # <<>>
                                   /\ c.Heads[field][1] = COLON

(* The inductive invariant. No message finds the context in KGotAll, where *)
(* the parser would not end. A WebSocket connection that handles frames    *)
(* was refused its upgrade and is no longer sent to.                       *)
ServicesInv ==
  /\ script \in Scripts
  /\ {toCome, sndbuf, received} \subseteq Seq(Byte)
  /\ isWrite \in BOOLEAN
  /\ BuffersOK /\ OutputIsWhole
  /\ IF script.service = "http" THEN ContextOK(context) /\ ~GetAll(context)
     ELSE /\ context \in {"kUnconnect", "kHandsharked"}
          /\ context = "kHandsharked" => state_ # "kConnected"

(* A client whose segments are requests or whole lines of one gets the     *)
(* answers to its requests, in order, each from its own request alone, up  *)
(* to the first one that closes (HttpServer.cpp:48-92): no answer is mixed *)
(* up with the request before it, or follows an answer that closes. This   *)
(* holds until the first request whose headers are misread.                *)
AnswersMatch ==
  \A n \in 0 .. Len(Units) :
    clean /\ Position = UnitEnd(n) /\ (\A i \in 1 .. n : ~Misread(Units[i]))
      => accepted = Expected(n)

(* A client that asks for the WebSocket is upgraded, and its frames are    *)
(* answered: the 400 is for what is not the WebSocket protocol, says the   *)
(* comment at WebSocketServer.cpp:77, and the page test.html:192-195 and   *)
(* :245-266 shows the replies to its messages after "connected".           *)
UpgradesServed ==
  \A n \in DOMAIN Units :
    (/\ clean /\ Position = UnitEnd(n) /\ script.service = "websocket"
     /\ AsksUpgrade(Units[1]) /\ Units[1].version \in Versions)
      => accepted = Expected(n)

(* However the stream was cut: a response that does not announce its       *)
(* length is the last thing that is sent, since only the end of the stream *)
(* ends its body (HttpResponse.cpp:26-31, HttpServer.cpp:87-90).           *)
OnlyTheLastLacksLength ==
  LET starts == {i \in DOMAIN accepted : accepted[i] \in StatusLines}
  IN \A i, j \in starts :
       i < j => \E k \in i .. j : accepted[k][1] = "Content-Length"

(* The frames handled after the handshake are answered with their own      *)
(* payload, unmasked, in their order (WebSocketPacket.cpp:43-99). This is  *)
(* about what is given to send(), which ignores it once a refused          *)
(* handshake has called shutdown(): behind the words that answer the       *)
(* handshake there are these frames and nothing else.                      *)
EchoFaithful ==
  \A n \in DOMAIN Units :
    (/\ clean /\ Position = UnitEnd(n)
     /\ script.service = "websocket" /\ Units[1].version \in Versions
     /\ \A i \in 2 .. n : /\ Units[i].kind = "frame"
                           /\ Len(Units[i].payload) < Short)
    => \E k \in 0 .. Len(offered) :
         /\ \A i \in 1 .. k : Len(offered[i]) = 1
         /\ Rest(offered, k) = FlattenSeq([i \in 1 .. n - 1 |->
                                             EchoOf(Units[i + 1])])

(* The client gets all the answers in the end, though send() returned with *)
(* most of them still in the buffer and shutdown() was called behind them: *)
(* those to its requests if the headers of none of them are misread.       *)
AnswersArrive ==
  (/\ clean /\ toCome = <<>>
   /\ \A i \in DOMAIN Units : ~Misread(Units[i]))
    ~> received = Expected(Len(Units))
=============================================================================
