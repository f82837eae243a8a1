------------------------------ MODULE MCServices ------------------------------
(* Instance of Services for TLC. The scripts: requests that are answered and *)
(* keep the connection, back to back; requests that close it, because of     *)
(* their version, method or page, with one more behind; one that asks to     *)
(* close it by a header, and one whose body, cut from its head, looks like a *)
(* request line; an upgrade with frames of every opcode, masked, plain, as   *)
(* long as the short form allows and longer; and what is no upgrade.         *)
EXTENDS Services

MCZero == Text("0")
MCCR == Text("CR")
MCLF == Text("LF")
MCPages == {<<Text("/hello")>>}

Req(method, target, version) ==
  [kind |-> "request", method |-> method, target |-> target,
   version |-> version, headers |-> <<>>, body |-> <<>>]

Hello == <<Text("/hello")>>
Get == Req("GET", Hello, "HTTP/1.1")
Ask == [Req("POST", Hello \o <<QMARK, Text("q")>>, "HTTP/1.1") EXCEPT
          !.headers = << <<"Connection", "keep-alive">> >>,
          !.body = <<Text("body")>>]
Leave == [Get EXCEPT !.headers = << <<"Connection", "close">> >>]
Put == [Req("PUT", Hello, "HTTP/1.1") EXCEPT
          !.body = <<Text("GET"), SP, Text("body"), CR, LF>>]
Old == Req("GET", Hello, "HTTP/1.0")
Lost == Req("GET", <<Text("/lost")>>, "HTTP/1.1")
Brew == Req("BREW", Hello, "HTTP/1.1")
Bad == Req("GET", Hello, "HTTP/2")
Upgrade == [Req("GET", <<Text("/")>>, "HTTP/1.1") EXCEPT
              !.headers = << <<"Upgrade", "websocket">>,
                             <<"Connection", "Upgrade">>,
                             <<"Sec-WebSocket-Version", "13">>,
                             <<"Sec-WebSocket-Key", "k">> >>]

Stale == [Upgrade EXCEPT !.headers[3] = <<"Sec-WebSocket-Version", "8">>]

FrameOf(opcode, mask, payload) == [kind |-> "frame", opcode |-> opcode,
                                   mask |-> mask, payload |-> payload]
O == Opcodes

(* An HTTP stream may be cut anywhere, the other in its request's head.      *)
Http(units) == [service |-> "http", units |-> units,
                cuts |-> 1 .. Len(Stream(units))]
WebSocket(request, frames) ==
  [service |-> "websocket", units |-> <<request>> \o frames, cuts |-> {3, 32}]

MCScripts ==
  {Http(<<Ask, Get>>), Http(<<Get, Brew>>), Http(<<Lost>>),
   [Http(<<Get, Ask, Old, Get>>) EXCEPT !.cuts = {5}],
   [Http(<<Get, Bad, Get>>) EXCEPT !.cuts = {}],
   [Http(<<Leave, Get>>) EXCEPT !.cuts = {}], Http(<<Put>>),
   WebSocket(Upgrade,
             <<FrameOf(O.WSOpcode_Text, 1, <<"a", "b", "a", "c", "b">>),
               FrameOf(O.WSOpcode_Ping, 0, <<"c">>),
               FrameOf(O.WSOpcode_Pong, 0, <<>>),
               FrameOf(O.WSOpcode_Binary, 0, <<"d">>),
               FrameOf(O.WSOpcode_Close, 1, <<>>)>>),
   WebSocket(Upgrade,
             <<FrameOf(O.WSOpcode_Text, 1, <<"a", "b", "a", "c", "b", "e">>),
               FrameOf(O.WSOpcode_Continue, 0, <<"e">>)>>),
   WebSocket(Get, <<>>),
   WebSocket(Stale, <<FrameOf(O.WSOpcode_Text, 1, <<"a">>)>>)}

(* The tokens of the streams and of the answers.                             *)
MCByte ==
  UNION {Range(Stream(s.units)) : s \in MCScripts}
    \union {MCZero, MCCR, MCLF, <<"Content-Length", 1>>}
    \union {Text(t) : t \in {"200", "404", "400", "101", "close",
                             "Keep-Alive", "blank"}}
    \union {Data(v, {}) : v \in {"a", "b", "c", "d", "e"}}
    \union {Fin(1, op) : op \in 0 .. 15} \union {Length(0, n) : n \in 0 .. 5}
=============================================================================
