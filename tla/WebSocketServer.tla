---------------------------- MODULE WebSocketServer ---------------------------
(***************************************************************************)
(* What WebSocketServer does with a message, and the frame codec of        *)
(* WebSocketPacket. A frame on the wire is a sequence of tokens: its first *)
(* byte, its second byte, an extended length, the four bytes of the key,   *)
(* and the payload. A byte of payload is a value together with the key     *)
(* bytes it is masked with; masking is its own inverse. A frame begins at  *)
(* the front of a message and is all there; its length has no 64-bit form. *)
(***************************************************************************)
EXTENDS HttpServer

CONSTANTS Short  \* 126: the first payload length that needs another form

ASSUME ShortAssumption == Short \in Nat \ {0}
ASSUME HandshakeAssumption == Text("101") \in Byte

Fin(fin, opcode) == <<"frame", fin, opcode>>
Length(mask, len) == <<"length", mask, len>>  \* "extended": 126
Extended(len) == <<"extended length", len>>   \* 16 bits of length
Key(i) == <<"key", i>>
Data(v, keys) == <<"data", v, keys>>

ASSUME HeadsAssumption == /\ \A opcode \in 0 .. 15 : Fin(1, opcode) \in Byte
                          /\ \A len \in 0 .. Short - 1 : Length(0, len) \in Byte

(* operator ^ on a payload byte and a byte of the key.                     *)
Xor(byte, key) == Data(byte[2], SymDiff(byte[3], {key[2]}))

Opcodes == [WSOpcode_Continue |-> 0, WSOpcode_Text |-> 1,
            WSOpcode_Binary |-> 2, WSOpcode_Close |-> 8,
            WSOpcode_Ping |-> 9, WSOpcode_Pong |-> 10]

Answered == {Opcodes[o] : o \in DOMAIN Opcodes \ {"WSOpcode_Pong"}}

(* Variant for testing the properties: the key does not wrap.              *)
UnmaskNoWrap(payload, keys) ==
  [i \in DOMAIN payload |-> Xor(payload[i], keys[IF i < 4 THEN i ELSE 4])]

Unmask(payload, keys) ==
  [i \in DOMAIN payload |-> Xor(payload[i], keys[((i - 1) % 4) + 1])]

(* append() of one byte after another, with room for len each time.        *)
AppendBytes(output, bytes, len) ==
  LET appended[i \in 0 .. Len(bytes)] ==
        IF i = 0 THEN output ELSE AppendByte(appended[i - 1], bytes[i], len)
  IN appended[Len(bytes)]

(* decodeFrame(): the opcode, and the payload put into output byte by byte *)
(* if it is masked.                                                        *)
DecodeFrame(msg, output) ==
  LET mask == msg[2][2]
      long == msg[2][3] >= Short
      len == IF long THEN msg[3][2] ELSE msg[2][3]
      pos == IF long THEN 3 ELSE 2
      keys == SubSeq(msg, pos + 1, pos + 4)
      plain == SubSeq(msg, pos + 1, pos + len)
      masked == SubSeq(msg, pos + 5, pos + 4 + len)
  IN [opcode_ |-> msg[1][3],
      output |-> IF mask = 1
                 THEN AppendBytes(output, Unmask(masked, keys), len)
                 ELSE AppendData(output, plain)]

(* encodeFrame() of a packet with fin_ 1 and no mask. From Short bytes on  *)
(* the code writes no length at all: it compares onebyte, then 0, with 126 *)
(* and 127.                                                                *)
EncodeFrame(output, opcode, data) ==
  LET len == ReadableBytes(data)
      head == AppendData(output, <<Fin(1, opcode)>>)
      sized == IF len < Short THEN AppendData(head, <<Length(0, len)>>)
               ELSE head
  IN AppendData(sized, Content(data))

(* DefaultWebSocketCallback(): the payload goes back.                      *)
Echo(data) == AppendData(NewBuffer, Content(data))

(* handleData(): the calls that answer a frame with this opcode and        *)
(* payload. A Pong and an unknown opcode are not answered.                 *)
AnswerFrame(opcode, payload) ==
  LET reply == IF opcode = Opcodes.WSOpcode_Ping THEN Opcodes.WSOpcode_Pong
               ELSE opcode
      called == opcode \notin {Opcodes.WSOpcode_Close, Opcodes.WSOpcode_Ping}
      data == IF called THEN Echo(payload) ELSE NewBuffer
  IN IF opcode \in Answered
     THEN <<SendCall(Content(EncodeFrame(NewBuffer, reply, data)))>>
     ELSE <<>>

HandleFrame(frame) == AnswerFrame(frame.opcode_, frame.output)
HandleData(buf) == HandleFrame(DecodeFrame(Content(buf), NewBuffer))

(* What the code requires of a request to upgrade. The values of a         *)
(* request's headers keep their colon, so that no request passes.          *)
IsUpgrade(c) ==
  /\ GetHeader(c, Text("Upgrade")) = <<Text("websocket")>>
  /\ GetHeader(c, Text("Connection")) = <<Text("Upgrade")>>
  /\ GetHeader(c, Text("Sec-WebSocket-Version")) = <<Text("13")>>
  /\ GetHeader(c, Text("Sec-WebSocket-Key")) # <<>>

(* WebSocketContext::handleShared(): the answer that upgrades.             *)
HandleShared(key) == Content(AppendData(NewBuffer, <<Text("101")>> \o key))

(* WebSocketServer::onConnetion()                                          *)
WebSocketOnConnection == "kUnconnect"

(* WebSocketServer::onMessage(), from what the parser made of the message: *)
(* each message is parsed on its own. The handshake is answered, and       *)
(* counts as done, also after a refusal.                                   *)
HandshakeParsed(p) ==
  LET key == GetHeader(p.context, Text("Sec-WebSocket-Key"))
  IN IF GetAll(p.context)
     THEN [context |-> "kHandsharked", buf |-> RetrieveAll(p.buf),
           calls |-> (IF IsUpgrade(p.context) THEN <<>> ELSE Refuse)
                       \o <<SendCall(HandleShared(key))>>]
     ELSE [context |-> "kUnconnect", buf |-> p.buf,
           calls |-> IF p.ok THEN <<>> ELSE Refuse]

WebSocketOnMessage(Status, buf) ==
  IF Status = "kHandsharked"
  THEN [context |-> Status, buf |-> buf, calls |-> HandleData(buf)]
  ELSE HandshakeParsed(ParseBuffer(NewHttpContext, buf))
=============================================================================
