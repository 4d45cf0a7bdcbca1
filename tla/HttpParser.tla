----------------------------- MODULE HttpParser -----------------------------
(***************************************************************************)
(* Http::Parser (http_parser.cpp) and the reading half of accept()         *)
(* (server_core.cpp): what a client sends arrives in pieces.  The first    *)
(* read ends anywhere behind the first empty line, every further one       *)
(* brings at least what expecting() says is missing, and may bring more.   *)
(*                                                                         *)
(* What a client sends is a stream of tokens: the request line, the lines  *)
(* of the head, the empty line, and the bytes it sends after it.  A token  *)
(* counts as one byte.                                                     *)
(***************************************************************************)
EXTENDS Naturals, Integers, SequencesExt

CONSTANTS
    Target,     \* what a request line asks for
    Wires,      \* what clients send
    BodyLimit   \* c_requestBodySizeLimit

(* A header line: a value of x-secret is 0 (empty), 1 (the secret) or 2    *)
(* (another text); a length below zero is no number; a blank line is made  *)
(* of spaces.                                                              *)
Field == {"x-secret", "content-length", "other", "blank"}
HeaderLine ==
    {l \in [field : Field, value : Int] : l.field = "x-secret" => l.value \in 0..2}

(* "bad": no space, no path, or nothing but separators up to the path.     *)
Wire == [method : {"get", "post", "other", "bad"}, target : Target,
         head : Seq(HeaderLine), sent : Nat, local : BOOLEAN]

ASSUME HttpAssumption == BodyLimit \in Nat /\ Wires \subseteq Wire

VARIABLES
    pc,         \* where accept() and the handler are
    wire,       \* what the client sends
    got,        \* how much of it has been read
    taken,      \* how much of that the parser has taken from the buffer
    reader,     \* m_reader
    step,       \* m_step
    expected,   \* m_expectedBodySize
    method,     \* Request::m_method
    secret,     \* m_header["x-secret"], 0 when it is missing
    body,       \* m_body: the tokens it is made of, by their place
    status,     \* Response::m_status
    data        \* Response::m_data

parserVars == <<got, taken, reader, step, expected, method, secret, body>>
httpVars == <<pc, wire, parserVars, status, data>>

StreamLen(w) == Len(w.head) + 2 + w.sent
HeadLen(w) == Len(w.head) + 2

Status == {"Ok", "MovedTemporarily", "BadRequest", "Forbidden", "NotFound",
           "MethodNotAllowed", "InternalServerError", "NotImplemented"}

Readers == {"parseMethod", "parseHeader", "parseBody", "dummyReader"}

HttpTypeOK ==
    /\ wire \in Wires
    /\ got \in 0..StreamLen(wire) /\ taken \in 0..got
    /\ reader \in Readers
    /\ step \in 0..2
    /\ expected \in 0..BodyLimit
    /\ method \in {"get", "post", "none"}
    /\ secret \in 0..2
    /\ body \in Seq(1..StreamLen(wire))
    /\ status \in Status

(* A new Request and its Parser.                                           *)
HttpInit ==
    \E w \in Wires :
        /\ pc = "head"
        /\ wire = w /\ got = 0 /\ taken = 0
        /\ reader = "parseMethod" /\ step = 0 /\ expected = 0
        /\ method = "none" /\ secret = 0 /\ body = <<>>
        /\ status = "Ok" /\ data = "none"

(* The next connection's request. *)
NewRequest(w) ==
    /\ pc' = "head"
    /\ wire' = w /\ got' = 0 /\ taken' = 0
    /\ reader' = "parseMethod" /\ step' = 0 /\ expected' = 0
    /\ method' = "none" /\ secret' = 0 /\ body' = <<>>
    /\ status' = "Ok" /\ data' = "none"

-----------------------------------------------------------------------------
(* Variant for the mutation runs: a byte too many is awaited.            *)
ExpectingOneMore ==
    IF status = "Ok" /\ step >= 2 /\ Len(body) <= expected
    THEN expected + 1 - Len(body) ELSE 0

Expecting ==
    IF status = "Ok" /\ step >= 2 /\ Len(body) < expected
    THEN expected - Len(body) ELSE 0

(* async_read_until "\r\n\r\n": what follows it may be in the buffer, too. *)
ReadHead ==
    /\ pc = "head"
    /\ \E n \in HeadLen(wire)..StreamLen(wire) : got' = n
    /\ pc' = "parse"
    /\ UNCHANGED <<wire, taken, reader, step, expected, method, secret, body,
                   status, data>>

(* async_read with transfer_at_least(expecting). *)
ReadMore ==
    /\ pc = "more"
    /\ \E n \in got + Expecting..StreamLen(wire) : got' = n
    /\ pc' = "parse"
    /\ UNCHANGED <<wire, taken, reader, step, expected, method, secret, body,
                   status, data>>

(* The client closes, or the timer of ConnectionLoop cancels the read.     *)
ReadFails ==
    /\ pc \in {"head", "more"}
    /\ pc' = "closed"
    /\ UNCHANGED <<wire, parserVars, status, data>>

-----------------------------------------------------------------------------
(* operator()(buffer): one reader call after the other, while there is     *)
(* something in the buffer.                                                *)
Parsing(r) == pc = "parse" /\ taken < got /\ reader = r

Reject(s) == status' = s /\ reader' = "dummyReader"

ParseMethod ==
    /\ Parsing("parseMethod")
    /\ taken' = taken + 1
    /\ \/ /\ wire.method = "bad"
          /\ Reject("BadRequest")
          /\ UNCHANGED <<method, step>>
       \/ /\ wire.method = "other"
          /\ Reject("NotImplemented")
          /\ UNCHANGED <<method, step>>
       \/ /\ wire.method \in {"get", "post"}
          /\ method' = wire.method
          /\ reader' = "parseHeader"
          /\ step' = step + 1
          /\ UNCHANGED status
    /\ UNCHANGED <<pc, wire, got, expected, secret, body, data>>

(* The line behind what has been taken; only head and empty line get here. *)
LineAt(i) == IF i < HeadLen(wire) THEN wire.head[i - 1]
             ELSE [field |-> "blank", value |-> 0]

EndOfHeader ==
    IF method = "post" /\ expected > 0
    THEN step' = step + 1 /\ reader' = "parseBody"
    ELSE reader' = "dummyReader" /\ UNCHANGED step

(* Variant for the mutation runs: any number will do.                      *)
NoNumber(l) == l.field = "content-length" /\ l.value < 0

(* Text::cast<size_t> throws, or the body would be too large.              *)
BadLength(l) == l.field = "content-length" /\ ~(l.value \in 0..BodyLimit)

(* Variant for the mutation runs: emplace() in place of operator[].        *)
SecretFirstWins(l) ==
    IF l.field = "x-secret" /\ secret = 0 THEN l.value ELSE secret

(* A later line of the same field replaces the value of the former.        *)
SecretAfter(l) == IF l.field = "x-secret" THEN l.value ELSE secret

ParseHeader ==
    /\ Parsing("parseHeader")
    /\ taken' = taken + 1
    /\ LET l == LineAt(taken + 1) IN
       \/ /\ l.field = "blank"
          /\ EndOfHeader
          /\ UNCHANGED <<expected, secret, status, data>>
       \/ /\ l.field # "blank" /\ ~BadLength(l)
          /\ secret' = SecretAfter(l)
          /\ expected' = IF l.field = "content-length" THEN l.value ELSE expected
          /\ UNCHANGED <<reader, step, status, data>>
       \/ /\ BadLength(l)
          /\ Reject("BadRequest")
          /\ expected' = IF l.value < 0 THEN expected ELSE 0
          /\ data' = IF l.value < 0 THEN data ELSE "text"
          /\ UNCHANGED <<step, secret>>
    /\ UNCHANGED <<pc, wire, got, method, body>>

Available == [i \in 1..(got - taken) |-> taken + i]

(* Variant for the mutation runs: assign() in place of append().           *)
ParseLastPiece ==
    /\ Parsing("parseBody")
    /\ body' = Available
    /\ taken' = got
    /\ UNCHANGED <<pc, wire, got, reader, step, expected, method, secret,
                   status, data>>

(* All that is in the buffer, be it more than was expected.                *)
ParseBody ==
    /\ Parsing("parseBody")
    /\ body' = body \o Available
    /\ taken' = got
    /\ UNCHANGED <<pc, wire, got, reader, step, expected, method, secret,
                   status, data>>

DummyReader ==
    /\ Parsing("dummyReader")
    /\ taken' = got
    /\ UNCHANGED <<pc, wire, got, reader, step, expected, method, secret, body,
                   status, data>>

(* The buffer is empty: a POST may need more.                              *)
Parsed ==
    /\ pc = "parse" /\ taken = got
    /\ \/ /\ method = "post" /\ Expecting > 0
          /\ pc' = "more"
          /\ UNCHANGED data
       \/ /\ ~(method = "post" /\ Expecting > 0)
          /\ pc' = "check"
          /\ data' = IF status # "Ok" /\ data = "none" THEN "text" ELSE data
    /\ UNCHANGED <<wire, parserVars, status>>

Parser ==
    \/ ParseMethod \/ ParseHeader \/ ParseBody \/ DummyReader \/ Parsed

-----------------------------------------------------------------------------
(* What the stream as a whole says, whatever pieces it comes in.           *)

(* The lines of the head before the first that is blank, and where it is.  *)
Lines(w) == {i \in DOMAIN w.head : \A j \in 1..i : w.head[j].field # "blank"}

EndOf(w) == CHOOSE e \in 1..Len(w.head) + 1 : Lines(w) = 1..e - 1

(* The value of the last line of a field, of the lines in a set.           *)
LastAmong(w, f, lines) ==
    LET at == {i \in lines : w.head[i].field = f}
    IN  IF at = {} THEN 0
        ELSE w.head[CHOOSE i \in at : \A j \in at : j <= i].value

LastValue(w, f) == LastAmong(w, f, Lines(w))

StatusOf(w) ==
    IF w.method = "other" THEN "NotImplemented"
    ELSE IF w.method = "bad" \/ \E i \in Lines(w) : BadLength(w.head[i])
    THEN "BadRequest" ELSE "Ok"

Declared(w) == IF w.method = "post" THEN LastValue(w, "content-length") ELSE 0

(* Where the body begins, and how much of it the client sends.             *)
BodyStart(w) == EndOf(w) + 2
BodySent(w) == StreamLen(w) - BodyStart(w) + 1

Whole(w) == StatusOf(w) = "Ok" => BodySent(w) >= Declared(w)
=============================================================================
