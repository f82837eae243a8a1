----------------------------- MODULE HttpContext ------------------------------
(***************************************************************************)
(* The HTTP parser: HttpContext::ParseBuffer() with what it calls in       *)
(* HttpRequest. A "byte" of the stream is a token here: a word between     *)
(* separators, a separator, a CR or an LF, each one cell of the Buffer.    *)
(***************************************************************************)
EXTENDS Buffer, SequencesExt

Text(s) == <<s>>
SP == Text(" ")
COLON == Text(":")
QMARK == Text("?")

ASSUME SeparatorsAssumption == CR \notin {SP, COLON}

Methods == {"GET", "HEAD", "POST", "PUT", "DELETE"}

NewHttpContext == [State |-> "KExpectRequestLine", method |-> "KInvalid",
                   version |-> "UnKnown", path |-> <<>>, query |-> <<>>,
                   Heads |-> <<>>]

(* std::find() in a text: where the first c is; 0: there is none.          *)
FindIn(text, c) == SelectInSeq(text, LAMBDA x : x = c)

Before(text, i) == SubSeq(text, 1, i - 1)
After(text, i) == SubSeq(text, i + 1, Len(text))

(* SetMethod(): the method a text names, or KInvalid.                      *)
MethodOf(text) ==
  IF \E m \in Methods : text = <<Text(m)>>
  THEN CHOOSE m \in Methods : text = <<Text(m)>>
  ELSE "KInvalid"

(* The version of the last part of the request line: only a bad one is an *)
(* error.                                                                  *)
WithVersion(c, text) ==
  CASE text = <<Text("HTTP/1.0")>>
         -> [ok |-> TRUE, context |-> [c EXCEPT !.version = "Http10"]]
    [] text = <<Text("HTTP/1.1")>>
         -> [ok |-> TRUE, context |-> [c EXCEPT !.version = "Http11"]]
    [] OTHER -> [ok |-> FALSE, context |-> c]

(* SetPath() and, from a question mark on, SetQuery().                     *)
WithTarget(c, text) ==
  LET q == FindIn(text, QMARK)
  IN IF q = 0 THEN [c EXCEPT !.path = text]
     ELSE [c EXCEPT !.path = Before(text, q),
                    !.query = SubSeq(text, q, Len(text))]

(* What comes behind a method. Without another space the code throws: see  *)
(* Throws, which no caller of this lets happen.                            *)
WithRest(c, rest) ==
  LET space == FindIn(rest, SP)
  IN WithVersion(WithTarget(c, Before(rest, space)), After(rest, space))

(* ProcessRequestLine(). A line without a space or with another method     *)
(* succeeds and leaves the rest of the request as it was.                  *)
ProcessRequestLine(c, line) ==
  LET space == FindIn(line, SP)
      method == MethodOf(Before(line, space))
  IN IF space = 0 THEN [ok |-> TRUE, context |-> c]
     ELSE IF method = "KInvalid"
     THEN [ok |-> TRUE, context |-> [c EXCEPT !.method = method]]
     ELSE WithRest([c EXCEPT !.method = method], After(line, space))

(* addHeader(): the value begins with the colon, which is no white space,  *)
(* and ends with the last token that is not a space.                       *)
AddHeader(c, line, colon) ==
  LET last == CHOOSE i \in colon .. Len(line) :
                /\ line[i] # SP
                /\ \A j \in i + 1 .. Len(line) : line[j] = SP
      field == Before(line, colon)
  IN [c EXCEPT !.Heads = [f \in DOMAIN c.Heads \union {field} |->
                            IF f = field THEN SubSeq(line, colon, last)
                            ELSE c.Heads[f]]]

GetHeader(c, field) == IF <<field>> \in DOMAIN c.Heads
                       THEN c.Heads[<<field>>] ELSE <<>>

(* The rounds of the while loop, by State: with a line that ends at crlf,  *)
(* or with what is left as the body. In KGotAll the loop has no branch: it *)
(* would not end.                                                          *)
RequestLineRound(p, first, crlf) ==
  IF first.ok
  THEN [p EXCEPT !.buf = Retrieve(@, crlf + 1),
                 !.context = [first.context EXCEPT !.State = "KExpectHeader"]]
  ELSE [p EXCEPT !.More = FALSE, !.ok = FALSE, !.context = first.context]

HeaderRound(p, line, crlf) ==
  LET colon == FindIn(line, COLON)
  IN [p EXCEPT !.buf = Retrieve(@, crlf + 1),
               !.context = IF colon # 0 THEN AddHeader(@, line, colon)
                           ELSE [@ EXCEPT !.State = "KExpectBody"]]

BodyRound(p, body) ==
  [p EXCEPT !.More = FALSE,
            !.context.State = "KGotAll",
            !.context.query = IF body # <<>> THEN body ELSE @]

Round(p, content, crlf) ==
  LET State == p.context.State
  IN IF State = "KExpectBody" THEN BodyRound(p, content)
     ELSE IF State = "KGotAll" THEN p
     ELSE IF crlf = 0 THEN [p EXCEPT !.More = FALSE]
     ELSE IF State = "KExpectHeader"
     THEN HeaderRound(p, Before(content, crlf), crlf)
     ELSE RequestLineRound(p, ProcessRequestLine(p.context,
                                                 Before(content, crlf)), crlf)

(* ParseBuffer(). Every round but the last two takes a line.               *)
ParseBuffer(c, buf) ==
  LET rounds[n \in Nat] ==
        IF n = 0 THEN [ok |-> TRUE, More |-> TRUE, context |-> c, buf |-> buf]
        ELSE LET p == rounds[n - 1]
             IN IF p.More THEN Round(p, Content(p.buf), FindCRLF(p.buf)) ELSE p
  IN rounds[ReadableBytes(buf) + 2]

GetAll(c) == c.State = "KGotAll"

(* ParseBuffer() with a request line of a method and one space: the text   *)
(* of its version is std::string(end + 1, end), whose length_error nobody  *)
(* catches. Only the first line of a message is read as a request line.    *)
Throws(c, buf) ==
  LET crlf == FindCRLF(buf)
      line == Before(Content(buf), crlf)
      space == FindIn(line, SP)
  IN /\ c.State = "KExpectRequestLine" /\ crlf # 0 /\ space # 0
     /\ MethodOf(Before(line, space)) # "KInvalid"
     /\ FindIn(After(line, space), SP) = 0
=============================================================================
