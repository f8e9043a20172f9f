------------------------------ MODULE Startup ------------------------------
(***************************************************************************)
(* main() up to the swarm (main.cpp): the torrent file is read, the        *)
(* tracker asked, and its response made a list of peers.                   *)
(***************************************************************************)
EXTENDS Metadata, HttpClient

CONSTANTS Worlds,     \* pairs of a file and a reply
          ReadSize    \* read_size of read_file

\* A file is its text and what it says: whether it is a torrent, whether it has a
\* string whose length is beyond the signed integers (overlong), and then the parts
\* of the announce address (plain, if its scheme is http or udp and the code finds
\* no other "udp" in it), the entries of the info dictionary and the text of that
\* dictionary (canonical, if an encoder would write it so).  A reply also says
\* whether it is overlong, and whether it lists peers, and which.

ASSUME StartupAssumption ==
    /\ \A w \in Worlds : w.reply \in Replies
    /\ ReadSize \in Nat \ {0}

VARIABLES file,   \* the file
          main    \* where main() is, and the objects it made

vars == <<file, main, client, reply, inbox, outbox, cut>>

peer_id == Chars("-pt0001-0123456789ab")
port == 6881

----------------------------------------------------------------------------

\* The text of the address requested, in send_request.
RequestUri(tor) ==
    tor.announce \o Chars("?info_hash=") \o urlencode(tor.info_hash)
        \o Chars("&peer_id=") \o peer_id \o Chars("&port=") \o Decimal[port]
        \o Chars("&uploaded=0&downloaded=0&compact=1&left=") \o Decimal[tor.file_length]

MainPlaces == {"read", "construct", "request", "send", "run", "threw", "died", "lost"}

\* The text read so far, the torrent, and the tracker's response; a place of
\* "threw" is an exception that leaves main(), "died" a division by zero, "lost" a
\* decoder that has left its text, behind which anything may happen.
TypeOK ==
    /\ ClientTypeOK
    /\ main.at \in MainPlaces
    /\ main.tor.at \in {"none", "made"} /\ main.response.at \in {"none", "made"}
    /\ main.at \in {"request", "send", "run"} <=> main.tor.at = "made" /\ main.at \notin {"threw", "lost"}
    /\ \A peer \in ToSet(IF main.response.at = "made" THEN main.response.peers ELSE <<>>) :
          Len(peer.raw) = 4 /\ ToSet(peer.raw \o peer.port) \subseteq 0 .. 255

Init ==
    /\ HttpInit
    /\ \E w \in Worlds : file = w.file /\ reply = w.reply
    /\ main = [at |-> "read", out |-> <<>>, tor |-> [at |-> "none"], response |-> [at |-> "none"]]

\* A turn of read_file's loop: a whole buffer, or the rest of the file, which may
\* be nothing, and the end.
ReadFileDropRest ==    \* mutant: the loop ends without the rest
    /\ main.at = "read"
    /\ LET rest == From(file.text, Len(main.out) + 1)
       IN  main' = IF Len(rest) >= ReadSize
                   THEN [main EXCEPT !.out = @ \o SubSeq(rest, 1, ReadSize)]
                   ELSE [main EXCEPT !.at = "construct"]
    /\ UNCHANGED <<file, httpVars>>

ReadFile ==
    /\ main.at = "read"
    /\ LET rest == From(file.text, Len(main.out) + 1)
       IN  main' = IF Len(rest) >= ReadSize
                   THEN [main EXCEPT !.out = @ \o SubSeq(rest, 1, ReadSize)]
                   ELSE [main EXCEPT !.out = @ \o rest, !.at = "construct"]
    /\ UNCHANGED <<file, httpVars>>

Construct ==
    /\ main.at = "construct"
    /\ \E tor \in {SingleFileTorrent(main.out, beyond) : beyond \in Beyond} :
          main' = IF tor.at = "made" THEN [main EXCEPT !.tor = tor, !.at = "request"]
                  ELSE [main EXCEPT !.at = tor.at]
    /\ UNCHANGED <<file, httpVars>>

\* send_request: makes the request, and waits for the response.
MakeRequest ==
    /\ main.at = "request"
    /\ StartRequest(RequestUri(main.tor))
    /\ main' = [main EXCEPT !.at = "send"]
    /\ UNCHANGED <<file, reply, inbox, outbox, cut>>

Request ==
    /\ main.at = "send"
    /\ Send
    /\ UNCHANGED <<file, main>>

RequestFaults ==
    /\ main.at = "send"
    /\ HttpFaults
    /\ UNCHANGED <<file, main>>

RespondOrRetry ==    \* mutant: asks again, with what is left of the last exchange
    /\ main.at = "send" /\ client.at = "returned"
    /\ \E response \in {TrackerResponse(client.body, beyond) : beyond \in Beyond} :
          main' = IF response.at = "made"
                  THEN [main EXCEPT !.response = response, !.at = "run"]
                  ELSE [main EXCEPT !.at = IF response.at = "threw" THEN "request" ELSE response.at]
    /\ UNCHANGED <<file, httpVars>>

Respond ==
    /\ main.at = "send" /\ client.at = "returned"
    /\ \E response \in {TrackerResponse(client.body, beyond) : beyond \in Beyond} :
          main' = IF response.at = "made"
                  THEN [main EXCEPT !.response = response, !.at = "run"]
                  ELSE [main EXCEPT !.at = response.at]
    /\ UNCHANGED <<file, httpVars>>

RequestThrows ==
    /\ main.at = "send" /\ client.at = "threw"
    /\ main' = [main EXCEPT !.at = "threw"]
    /\ UNCHANGED <<file, httpVars>>

Ended == main.at \in {"run", "threw", "died", "lost"}
Idle == Ended /\ UNCHANGED vars

Next ==
    \/ ReadFile \/ Construct \/ MakeRequest \/ Request \/ RequestFaults
    \/ Respond \/ RequestThrows \/ Idle

Spec == Init /\ [][Next]_vars

\* send() runs on, and what the tracker sends arrives unless it is lost: weak
\* fairness of Request, with its enabledness written out (to evaluate ENABLED
\* takes TLC hours).
Blocked == client.at = "recv" /\ outbox = <<>> /\ ~cut /\ ~reply.closes
Ready == main.at = "send" /\ client.at \notin {"returned", "threw"} /\ ~Blocked
FairSpec == Spec /\ ([]<>~Ready \/ []<><<Request>>_vars)

----------------------------------------------------------------------------
(* What the file says, and what the program makes of it.                   *)

\* read_file returns the file, all of it and nothing else, whatever its length
\* is beside the size of the buffer.
FileReadWhole == main.at = "construct" => main.out = file.text

\* The constructor accepts no text that is not a torrent, cut off anywhere, without
\* a field or with a number beyond its type, and throws at no torrent.  The one text
\* that is neither accepted nor refused, and leads the decoder out of the text, has
\* a string with a length between the ends of ptrdiff_t and of size_t.
AcceptsTorrents ==
    /\ main.at = "request" => file.says.torrent
    /\ main.at = "threw" /\ main.tor.at = "none" => ~file.says.torrent
    /\ main.at = "died" => file.says.piece_length % Word = 0
    /\ main.at = "lost" /\ main.tor.at = "none" => file.says.overlong

\* The fields of the torrent are those of the file, and its hashes cover the
\* file's string of hashes in order, whatever stands behind that in memory.
MetadataAsWritten ==
    main.at = "request" =>
        /\ main.tor.piece_length = file.says.piece_length % Word
        /\ main.tor.file_length = file.says.length % Word
        /\ main.tor.filename = file.says.name
        /\ IsPrefix(file.says.pieces, FlattenSeq(main.tor.piece_hashes))
        /\ Len(main.tor.piece_hashes) * HASH_SIZE - Len(file.says.pieces) \in 0 .. HASH_SIZE - 1

\* The hash that names the torrent at the tracker and in every handshake is the
\* standard's hash of the info dictionary as it stands in the file, although the
\* constructor decodes that and encodes it again (of a file with keys in order
\* and numbers without leading zeros).
InfoHashOfFile ==
    main.at = "request" /\ file.says.canonical => main.tor.info_hash = StandardHash(file.says.info)

\* What the encoder makes of an info dictionary, the decoder reads as the same
\* dictionary, also when the file had it in another form.
ReencodedDecodes ==
    main.at = "request" =>
        \E info \in {DictOf(Decode(main.out))[Chars("info")]} : \E text \in {Encode(info)} :
            Decode(text) = [ok |-> TRUE, value |-> info, next |-> Len(text) + 1]

----------------------------------------------------------------------------
(* What the tracker hears.                                                 *)

\* The parts of a text between the characters c.
Split(text, c) ==
    LET cuts == <<0>> \o SelectSeq([k \in DOMAIN text |-> k], LAMBDA k : text[k] = c)
                      \o <<Len(text) + 1>>
    IN  [k \in 1 .. Len(cuts) - 1 |-> SubSeq(text, cuts[k] + 1, cuts[k + 1] - 1)]

\* The tracker decodes forms and base 64 as their standards say.
FormValue(text) ==
    LET escaped == {k \in DOMAIN text : text[k] = "%"}
        plain == SelectSeq([k \in DOMAIN text |-> k],
                           LAMBDA k : {k - 1, k - 2} \cap escaped = {})
    IN  [j \in DOMAIN plain |->
            LET k == plain[j]
            IN  IF k \in escaped THEN CharOf[Numeral(SubSeq(text, k + 1, k + 2), 16)]
                ELSE IF text[k] = "+" THEN " " ELSE text[k]]

Base64Value(text) ==
    LET digits == Before(text, "=")
        value(j) == (CHOOSE n \in 1 .. 64 : Base64[n] = digits[j]) - 1
        bit(b) == (value((b \div 6) + 1) \div 2^(5 - (b % 6))) % 2
    IN  [k \in 1 .. (6 * Len(digits)) \div 8 |->
            CharOf[FoldLeft(LAMBDA n, b : 2 * n + bit(b), 0, [i \in 1 .. 8 |-> 8 * (k - 1) + i - 1])]]

Heard ==
    LET lines == Split(inbox.text, "LF")
        words == Split(Before(lines[1], "CR"), " ")
        query == Split(Behind(words[2], "?"), "&")
        fields == {Before(lines[k], "CR") : k \in 2 .. Len(lines)}
    IN  [method |-> words[1], path |-> Before(words[2], "?"), version |-> words[3],
         params |-> {<<Before(query[k], "="), FormValue(Behind(query[k], "="))>> : k \in DOMAIN query},
         host |-> {From(f, 7) : f \in {f \in fields : StartsAt(f, 1, Chars("Host: "))}},
         login |-> {Base64Value(From(f, 22)) :
                       f \in {f \in fields : StartsAt(f, 1, Chars("Authorization: Basic "))}}]

\* The request is out, and nothing of the answer is read.
Asked == main.at = "send" /\ client.at = "recv" /\ ~client.parsingBody

\* The tracker of the torrent, at the address and with the login that the file
\* names, hears a request for the file's hash and length and our id and port,
\* whatever bytes the hash has and however send() hands it to the socket.  Host
\* names its machine; whether it also has to name the port is HostNamesTracker's.
RequestUnderstood ==
    Asked /\ file.says.plain =>
        /\ inbox.host = file.says.host /\ inbox.port = file.says.port
        /\ Heard.host \in {{file.says.host}, {file.says.authority}}
        /\ [Heard EXCEPT !.host = {}] =
                   [method |-> Chars("GET"), path |-> file.says.path, version |-> Chars("HTTP/1.1"),
                    params |-> {<<Chars("info_hash"), main.tor.info_hash>>,
                                <<Chars("peer_id"), peer_id>>, <<Chars("port"), Chars("6881")>>,
                                <<Chars("uploaded"), <<"0">> >>, <<Chars("downloaded"), <<"0">> >>,
                                <<Chars("compact"), <<"1">> >>,
                                <<Chars("left"), Decimal[file.says.length % Word]>>},
                    host |-> {},
                    login |-> IF file.says.login = <<>> THEN {} ELSE {file.says.login}]

\* "RFC 7230, 5.4. Host": the Host field is the authority of the address, without
\* the login and with the port if the address has one, by which a server that is
\* several trackers tells which of them is asked.
HostNamesTracker == Asked => Heard.host = {file.says.authority}

----------------------------------------------------------------------------
(* What the tracker says.                                                  *)

\* The swarm starts with the peers the tracker listed, their addresses and ports
\* as the tracker means them, all of them and in order: a response that was cut
\* off, by the network or by the code, is never taken for a shorter list.  (Bytes
\* of an incomplete address at its end become one more peer, and a length beyond
\* ptrdiff_t leads the decoder out of the response.)
PeersAsListed ==
    /\ main.at = "run" =>
        /\ reply.lists
        /\ LET peers == [k \in DOMAIN main.response.peers |->
                            <<ip(main.response.peers[k]), port_str(main.response.peers[k])>>]
           IN  /\ IsPrefix(reply.peers, peers)
               /\ Len(peers) = Len(reply.peers) + (IF reply.ragged THEN 1 ELSE 0)
    /\ main.at = "lost" /\ main.tor.at = "made" => reply.overlong

\* main() makes one request, and leaves the exchange to send(): what the start-up
\* does to it is what the client by itself does, and no response that cannot be
\* used starts it again.
AsksOnce == HttpSpec

\* The tracker has sent its answer, tells its end neither by a length nor by chunks,
\* and does not close the connection either.
Silent == Blocked /\ reply.framing \in {"close", "other"}

\* send() comes to an end, although it has no timeout, and waits for ever for
\* nobody but such a tracker: not for one that said how long its answer is.
Terminates == main.at = "send" ~> client.at \in {"returned", "threw"} \/ Silent
=============================================================================
