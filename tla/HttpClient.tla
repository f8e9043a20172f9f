----------------------------- MODULE HttpClient -----------------------------
(***************************************************************************)
(* http::Request (httprequest.hpp) as main.cpp uses it: a GET without      *)
(* timeout.  send() finds the tracker, sends the request and decodes       *)
(* whatever recv() hands it, a piece of the stream of any length at a      *)
(* time.  Data is text, sequences of characters.                           *)
(***************************************************************************)
EXTENDS HttpMessage

CONSTANTS Replies,      \* what the tracker may answer, see Reply
          SendSizes,    \* what Socket::send may take at once, other than all
          RecvSize,     \* tempBuffer.size()
          Faults        \* a subset of Fault

Fault == {"resolve", "connect", "send", "recv", "cut"}
HeaderEnd == Crlf \o Crlf

\* A reply: its status line and fields, the parts its body is sent in, and
\* whether the tracker closes the connection after it.  "framing" says how the end
\* of the body is told: by its length, by chunks, by the close (which may never
\* come), or by none of these because the reply is not what a client of this kind
\* can read.
Framing == {"length", "chunks", "close", "other"}

ASSUME HttpAssumption ==
    /\ \A r \in Replies : r.framing \in Framing /\ r.closes \in BOOLEAN
    /\ SendSizes \subseteq Nat \ {0} /\ RecvSize \in Nat \ {0}
    /\ Faults \subseteq Fault

VARIABLES client,   \* the locals of send(), see HttpInit
          reply,    \* the tracker's reply
          inbox,    \* what the tracker received, and at which address
          outbox,   \* what of the reply recv() has not returned yet
          cut       \* the connection was lost on the way

httpVars == <<client, reply, inbox, outbox, cut>>

----------------------------------------------------------------------------
(* The tracker.                                                            *)

Body(r) == FlattenSeq(r.parts)

\* A chunk: its size in hexadecimal, as many bytes, and an empty line.
Chunk(part) == HexOf(Len(part)) \o Crlf \o part \o Crlf

Framed(r) ==
    IF r.framing = "chunks"
    THEN FlattenSeq([k \in DOMAIN r.parts |-> Chunk(r.parts[k])]) \o <<"0">> \o HeaderEnd
    ELSE Body(r)

Stream(r) == r.header \o Crlf \o Framed(r)

\* The client reads the size of a chunk as the tracker wrote it, and sees where
\* it ends.
ASSUME SizeAssumption ==
    /\ \A n \in 1 .. 255 :
          /\ IsUint(HexOf(n), 16) /\ ToUint(HexOf(n), 16) = n
          /\ \A k \in 1 .. 2 : HexOf(n)[k] \in Character \ {"CR"}
    /\ IsUint(<<"0">>, 16) /\ ToUint(<<"0">>, 16) = 0 /\ "0" \in Character

----------------------------------------------------------------------------
(* The locals of send() and where it is:                                   *)
(*   at                    the loop or call it executes, "idle" before     *)
(*   uri, remaining        the address, and what is left of the request    *)
(*   responseData          received and not decoded yet                    *)
(*   parsingBody, chunkedResponse, expectedChunkSize,                      *)
(*   removeCrlfAfterChunk, contentLengthReceived, contentLength            *)
(*                         as in the code                                  *)
(*   body                  response.body                                   *)

Places == {"idle", "prepare", "connect", "send", "recv", "decode", "returned", "threw"}

ClientTypeOK ==
    /\ client.at \in Places
    /\ {client.parsingBody, client.chunkedResponse, client.removeCrlfAfterChunk,
        client.contentLengthReceived} \subseteq BOOLEAN
    /\ client.contentLength \in Nat /\ client.expectedChunkSize \in Nat
    /\ \A text \in {client.remaining, client.responseData, client.body, inbox.text, outbox} :
          ToSet(text) \subseteq Character
    /\ reply \in Replies
    /\ cut \in BOOLEAN

HttpInit ==
    /\ reply \in Replies
    /\ inbox = [host |-> <<>>, port |-> <<>>, text |-> <<>>]
    /\ outbox = <<>>
    /\ cut = FALSE
    /\ client = [at |-> "idle", uri |-> <<>>, remaining |-> <<>>, responseData |-> <<>>,
                 parsingBody |-> FALSE, chunkedResponse |-> FALSE,
                 contentLengthReceived |-> FALSE, contentLength |-> 0,
                 expectedChunkSize |-> 0, removeCrlfAfterChunk |-> FALSE, body |-> <<>>]

Go(place) == client' = [client EXCEPT !.at = place]
Fails(kind) == kind \in Faults /\ Go("threw")

\* The constructor of Request.
StartRequest(text) ==
    client' = IF IsUri(text)
              THEN [client EXCEPT !.at = "prepare", !.uri = ParseUri(text)]
              ELSE [client EXCEPT !.at = "threw"]

\* send() up to the socket: "Only HTTP scheme is supported", getaddrinfo, and the
\* text of the request.
Prepare ==
    /\ client.at = "prepare"
    /\ \/ IF client.uri.scheme = Chars("http") /\ Encodable(client.uri)
          THEN client' = [client EXCEPT !.at = "connect", !.remaining = EncodeHtml(client.uri)]
          ELSE Go("threw")
       \/ Fails("resolve")
    /\ UNCHANGED <<reply, inbox, outbox, cut>>

\* Socket::connect, and Socket::send until the request is out.
Connect ==
    /\ client.at = "connect"
    /\ \/ /\ Go("send")
          /\ inbox' = [inbox EXCEPT !.host = client.uri.host,
                            !.port = IF client.uri.port = <<>> THEN Chars("80") ELSE client.uri.port]
       \/ Fails("connect") /\ UNCHANGED inbox
    /\ UNCHANGED <<reply, outbox, cut>>

SendRequest ==
    /\ client.at = "send"
    /\ \E size \in 1 .. Len(client.remaining) :
          /\ size \in SendSizes \/ size = Len(client.remaining)
          /\ inbox' = [inbox EXCEPT !.text = @ \o SubSeq(client.remaining, 1, size)]
          /\ client' = [client EXCEPT !.remaining = From(@, size + 1),
                                      !.at = IF size = Len(client.remaining) THEN "recv" ELSE @]
          /\ outbox' = IF size = Len(client.remaining) THEN Stream(reply) ELSE <<>>
    /\ UNCHANGED <<reply, cut>>

SendFails ==
    /\ client.at = "send"
    /\ Fails("send")
    /\ UNCHANGED <<reply, inbox, outbox, cut>>

\* Socket::recv: some of what the tracker sent, or nothing more to come.
Recv ==
    /\ client.at = "recv"
    /\ \E size \in 1 .. RecvSize :
          /\ size <= Len(outbox)
          /\ client' = [client EXCEPT !.responseData = @ \o SubSeq(outbox, 1, size),
                                      !.at = "decode"]
          /\ outbox' = From(outbox, size + 1)
    /\ UNCHANGED <<reply, inbox, cut>>

Disconnected ==
    /\ client.at = "recv"
    /\ outbox = <<>> /\ (cut \/ reply.closes)
    /\ Go("returned")
    /\ UNCHANGED <<reply, inbox, outbox, cut>>

RecvFails ==
    /\ client.at = "recv"
    /\ Fails("recv")
    /\ UNCHANGED <<reply, inbox, outbox, cut>>

\* The connection is lost: what is on its way does not arrive.
Cut ==
    /\ "cut" \in Faults
    /\ client.at = "recv" /\ outbox # <<>>
    /\ outbox' = <<>>
    /\ cut' = TRUE
    /\ UNCHANGED <<client, reply, inbox>>

Decoding == client.at = "decode" /\ UNCHANGED <<reply, inbox, outbox, cut>>

\* The empty line is not in what was received first.
HeaderUnfinished ==
    /\ Decoding /\ ~client.parsingBody
    /\ Occurrences(client.responseData, HeaderEnd) = {}
    /\ Go("returned")

\* The values of the fields of a name.
Values(fields, name) == LET named == SelectSeq(fields, LAMBDA f : f.name = Chars(name))
                        IN  [k \in DOMAIN named |-> named[k].value]

ParseHeader ==
    LET data == client.responseData
        ends == Occurrences(data, HeaderEnd)
        Apply(encodings, lengths) ==
            IF \/ \E k \in DOMAIN encodings : encodings[k] # Chars("chunked")
               \/ \E k \in DOMAIN lengths : ~IsUint(lengths[k], 10)
            THEN Go("threw")
            ELSE client' = [client EXCEPT
                     !.parsingBody = TRUE,
                     !.chunkedResponse = encodings # <<>>,
                     !.contentLengthReceived = lengths # <<>>,
                     !.contentLength = IF lengths = <<>> THEN @ ELSE ToUint(Last(lengths), 10),
                     !.responseData = From(data, First(ends) + 4)]
    IN  /\ Decoding /\ ~client.parsingBody
        /\ ends # {}
        /\ \E parsed \in {ReadHeader(SubSeq(data, 1, First(ends) + 1))} :
              IF parsed.ok
              THEN Apply(Values(parsed.fields, "transfer-encoding"), Values(parsed.fields, "content-length"))
              ELSE Go("threw")

TakeBodyStrict ==    \* mutant: > where the code has >=
    /\ Decoding /\ client.parsingBody /\ ~client.chunkedResponse
    /\ client' = [client EXCEPT
           !.body = @ \o client.responseData,
           !.responseData = <<>>,
           !.at = IF /\ client.contentLengthReceived
                     /\ Len(client.body \o client.responseData) > client.contentLength
                  THEN "returned" ELSE "recv"]

\* A body that is not chunked: all data is body, until there is enough of it.
TakeBody ==
    /\ Decoding /\ client.parsingBody /\ ~client.chunkedResponse
    /\ client' = [client EXCEPT
           !.body = @ \o client.responseData,
           !.responseData = <<>>,
           !.at = IF /\ client.contentLengthReceived
                     /\ Len(client.body \o client.responseData) >= client.contentLength
                  THEN "returned" ELSE "recv"]

InChunks == Decoding /\ client.parsingBody /\ client.chunkedResponse

TakeChunkDataOnly ==    \* mutant: the line after the chunk is not skipped
    LET toWrite == Min({client.expectedChunkSize, Len(client.responseData)})
    IN  /\ InChunks /\ client.expectedChunkSize > 0
        /\ client' = [client EXCEPT
               !.body = @ \o SubSeq(client.responseData, 1, toWrite),
               !.responseData = From(@, toWrite + 1),
               !.expectedChunkSize = @ - toWrite,
               !.at = IF toWrite = Len(client.responseData) THEN "recv" ELSE @]

TakeAllData ==    \* mutant: the chunk does not end before the data does
    LET toWrite == Len(client.responseData)
    IN  /\ InChunks /\ client.expectedChunkSize > 0
        /\ client' = [client EXCEPT
               !.body = @ \o client.responseData,
               !.responseData = <<>>,
               !.expectedChunkSize = @ - toWrite,
               !.removeCrlfAfterChunk = @ \/ toWrite = client.expectedChunkSize,
               !.at = "recv"]

\* One turn of the loop over chunks, in the middle of one.
TakeChunkData ==
    LET toWrite == Min({client.expectedChunkSize, Len(client.responseData)})
    IN  /\ InChunks /\ client.expectedChunkSize > 0
        /\ client' = [client EXCEPT
               !.body = @ \o SubSeq(client.responseData, 1, toWrite),
               !.responseData = From(@, toWrite + 1),
               !.expectedChunkSize = @ - toWrite,
               !.removeCrlfAfterChunk = @ \/ toWrite = client.expectedChunkSize,
               !.at = IF toWrite = Len(client.responseData) THEN "recv" ELSE @]

\* Another turn: the line break that ends the chunk before.
TakeChunkEnd ==
    LET data == client.responseData
    IN  /\ InChunks /\ client.expectedChunkSize = 0 /\ client.removeCrlfAfterChunk
        /\ IF Len(data) < 2 THEN Go("recv")
           ELSE IF ~StartsAt(data, 1, Crlf) THEN Go("threw")
           ELSE client' = [client EXCEPT !.removeCrlfAfterChunk = FALSE,
                                         !.responseData = From(@, 3)]

\* The rest of that turn: the line with the size of the next chunk.
TakeChunkSize ==
    LET data == client.responseData
        ends == Occurrences(data, Crlf)
        digits == SubSeq(data, 1, First(ends) - 1)
    IN  /\ InChunks /\ client.expectedChunkSize = 0 /\ ~client.removeCrlfAfterChunk
        /\ IF ends = {} THEN Go("recv")
           ELSE IF ~IsUint(digits, 16) THEN Go("threw")
           ELSE client' = [client EXCEPT
                    !.expectedChunkSize = ToUint(digits, 16),
                    !.responseData = From(@, First(ends) + 2),
                    !.at = IF ToUint(digits, 16) = 0 THEN "returned" ELSE @]

Send ==
    \/ Prepare \/ Connect \/ SendRequest \/ Recv \/ Disconnected
    \/ HeaderUnfinished \/ ParseHeader \/ TakeBody
    \/ TakeChunkData \/ TakeChunkEnd \/ TakeChunkSize

HttpFaults == SendFails \/ RecvFails \/ Cut

\* One exchange by itself, for any address.
Begin ==
    /\ client.at = "idle"
    /\ \/ client' = [client EXCEPT !.at = "prepare", !.uri = client'.uri]
       \/ Go("threw")
    /\ UNCHANGED <<reply, inbox, outbox, cut>>

HttpNext == Begin \/ Send \/ HttpFaults

HttpSpec == HttpInit /\ [][HttpNext]_httpVars

----------------------------------------------------------------------------
(* Properties.                                                             *)

\* A tracker that can be read announces in its header, which the first empty line
\* ends, how it tells the end of the body; a chunk is not empty, and its size has
\* two digits.
Announces(r) ==
    LET parsed == ReadHeader(r.header)
        encodings == Values(parsed.fields, "transfer-encoding")
        lengths == Values(parsed.fields, "content-length")
    IN  /\ r.header \in Seq(Character) /\ r.parts \in Seq(Seq(Character))
        /\ Occurrences(r.header \o Crlf, HeaderEnd) = {Len(r.header) - 1}
        /\ parsed.ok
        /\ r.framing = "chunks" <=> encodings # <<>>
        /\ r.framing = "chunks" => \A k \in DOMAIN r.parts : Len(r.parts[k]) \in 1 .. 255
        /\ r.framing = "length" => lengths # <<>> /\ ToUint(Last(lengths), 10) = Len(Body(r))
        /\ r.framing = "close" => lengths = <<>>

ASSUME HonestAssumption == \A r \in Replies : r.framing # "other" => Announces(r)

Honest == reply.framing # "other"

\* What send() takes for the body is the beginning of the body the tracker
\* sent, however recv() cuts the stream up: in the middle of a chunk, of its
\* size, or between the two characters of a line break that may also be data.  (Of
\* a tracker that frames the body as its header announces.)
BodyIsPrefix == Honest => IsPrefix(client.body, Body(reply))

\* When a response is returned whose header was read and whose connection was
\* not lost, its body is all of the tracker's.
ReturnedBodyIsWhole ==
    Honest /\ client.at = "returned" /\ client.parsingBody /\ ~cut => client.body = Body(reply)

\* "Empty line indicates the end of the header section": a response is not
\* returned before that line was read, unless the connection ended.
HeaderReadToItsEnd ==
    client.at = "returned" => client.parsingBody \/ outbox = <<>>
=============================================================================
