------------------------------ MODULE HttpServer ------------------------------
(***************************************************************************)
(* What HttpServer does with a message: the calls it makes on the          *)
(* connection, and the context it leaves behind. The application is the    *)
(* onRequest() of main.cpp, the pages it knows being a parameter. A line   *)
(* of a response's head is one token.                                      *)
(***************************************************************************)
EXTENDS HttpContext

CONSTANT Pages  \* the paths that are answered with 200

(* The first lines of responses: tokens of their own, since no page holds  *)
(* such a line.                                                            *)
StatusLines == {Text("200"), Text("404"), Text("400")}

(* Paths and the lines of an answer can be in a Buffer; no path is empty.  *)
ASSUME PagesAssumption ==
  \A p \in Pages : /\ p \in Seq(Byte \ StatusLines) /\ p # <<>>
                   /\ <<"Content-Length", Len(p)>> \in Byte
ASSUME AnswerAssumption ==
  \A t \in {"200", "400", "404", "close", "Keep-Alive", "blank"} :
    Text(t) \in Byte

ShutdownCall == <<"shutdown">>
SendCall(data) == <<"send", data>>

BadRequest == <<Text("400"), Text("blank")>>

(* HttpResponse::appendToBuffer(): the length of the body is in the head   *)
(* exactly if the connection is kept. The header lines that the            *)
(* application adds are left out.                                          *)
Fields(close, body) ==
  IF close THEN <<Text("close")>>
  ELSE <<Text("Keep-Alive"), <<"Content-Length", Len(body)>> >>

AppendToBuffer(code, close, body) ==
  LET status == AppendData(NewBuffer, <<Text(code)>>)
      fields == AppendData(status, Fields(close, body))
      head == AppendData(fields, <<Text("blank")>>)
  IN AppendData(head, body)

(* Variant for testing the properties: the connection is never shut down.  *)
AnswerNoShutdown(code, close, body) ==
  <<SendCall(Content(AppendToBuffer(code, close, body)))>>

(* The calls that answer a request: send() and, if the response says so,   *)
(* shutdown().                                                             *)
Answer(code, close, body) ==
  <<SendCall(Content(AppendToBuffer(code, close, body)))>>
    \o IF close THEN <<ShutdownCall>> ELSE <<>>

(* The application: only for a page does it leave the connection to the    *)
(* server's decision.                                                      *)
HttpCallback(path, close) ==
  IF path \in Pages THEN Answer("200", close, path)
  ELSE Answer("404", TRUE, <<>>)

(* HttpServer::onRequest(). A header's value keeps its colon, so that no   *)
(* request's Connection equals "close" or "Keep-Alive".                    *)
OnRequest(c) ==
  LET connection == GetHeader(c, Text("Connection"))
      close == \/ connection = <<Text("close")>>
               \/ c.version = "Http10" /\ connection # <<Text("Keep-Alive")>>
  IN HttpCallback(c.path, close)

(* HttpServer::onConnection()                                              *)
HttpOnConnection == NewHttpContext

(* The calls for a bad request.                                            *)
Refuse == <<SendCall(BadRequest), ShutdownCall>>

(* Variant: the context is used for the next request as it is.             *)
HttpParsedNoReset(p) ==
  [context |-> [p.context EXCEPT
                  !.State = IF GetAll(p.context) THEN "KExpectRequestLine"
                            ELSE @],
   buf |-> p.buf,
   calls |-> (IF p.ok THEN <<>> ELSE Refuse)
               \o (IF GetAll(p.context) THEN OnRequest(p.context) ELSE <<>>)]

(* HttpServer::onMessage(), from what the parser made of the message.      *)
HttpParsed(p) ==
  [context |-> IF GetAll(p.context) THEN NewHttpContext ELSE p.context,
   buf |-> p.buf,
   calls |-> (IF p.ok THEN <<>> ELSE Refuse)
               \o (IF GetAll(p.context) THEN OnRequest(p.context) ELSE <<>>)]

HttpOnMessage(c, buf) == HttpParsed(ParseBuffer(c, buf))
=============================================================================
