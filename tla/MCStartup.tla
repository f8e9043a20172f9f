----------------------------- MODULE MCStartup -----------------------------
(* Torrent files, among them every beginning of one, with a tracker that      *)
(* lists nobody; and one file with many replies of a tracker.                 *)
EXTENDS Startup

Str(text) == Decimal[Len(text)] \o <<":">> \o text
Entry(key, value) == Str(Chars(key)) \o value
Dict(entries) == <<"d">> \o FlattenSeq(entries) \o <<"e">>
Num(n) == IF n < 0 THEN Chars("i-") \o Decimal[-n] \o <<"e">> ELSE <<"i">> \o Decimal[n] \o <<"e">>

----------------------------------------------------------------------------
(* Files.                                                                  *)

\* A tracker's address behind the scheme, and the parts of it.
Tracker(login, host, portText, path) ==
    [login |-> Chars(login), host |-> Chars(host),
     port |-> IF portText = "" THEN Chars("80") ELSE Chars(portText),
     authority |-> Chars(host) \o Chars(IF portText = "" THEN "" ELSE ":" \o portText),
     path |-> IF path = "" THEN <<"/">> ELSE Chars(path),
     address |-> Chars(IF login = "" THEN "" ELSE login \o "@") \o Chars(host)
                 \o Chars(IF portText = "" THEN "" ELSE ":" \o portText) \o Chars(path)]

Hashes == [k \in 1 .. 40 |-> CharOf[(k * 7 + 240) % 256]]
Plain == [scheme |-> "http", tracker |-> Tracker("", "t.org", "", "/a"), length |-> 70, piece_length |-> 64,
          name |-> Chars("n"), pieces |-> Hashes, first |-> <<>>, last |-> <<>>, canonical |-> TRUE]

InfoText(t) ==
    Dict(<<t.first, Entry("length", Num(t.length)), Entry("name", Str(t.name)),
           Entry("piece length", Num(t.piece_length)), Entry("pieces", Str(t.pieces)), t.last>>)
FileText(t) ==
    Dict(<<Entry("announce", Str(Chars(t.scheme \o "://") \o t.tracker.address)),
           Entry("info", InfoText(t))>>)

File(t) ==
    [text |-> FileText(t),
     says |-> [torrent |-> TRUE, overlong |-> FALSE, canonical |-> t.canonical,
               plain |-> \/ t.scheme = "udp"
                         \/ t.scheme = "http" /\ Occurrences(t.tracker.address, Chars("udp")) = {},
               host |-> t.tracker.host, port |-> t.tracker.port, path |-> t.tracker.path,
               login |-> t.tracker.login, authority |-> t.tracker.authority,
               length |-> t.length, piece_length |-> t.piece_length, name |-> t.name,
               pieces |-> t.pieces, info |-> InfoText(t)]]
NoTorrent(text) == [text |-> text, says |-> [torrent |-> FALSE, overlong |-> FALSE]]
OverlongFile(text) == [text |-> text, says |-> [torrent |-> FALSE, overlong |-> TRUE]]

\* Info dictionaries that end on each side of a block of the hash, and files on
\* each side of a buffer; names with bytes of every kind.
Name(n) == [k \in 1 .. n |-> CharOf[(k * k * 5 + 248) % 256]]
Named(n) == [Plain EXCEPT !.name = Name(n)]
Lengths ==
    {n \in 10 .. 73 : \/ (Len(InfoText(Named(n))) % BLOCK_BYTES) \in {54, 55, 56, 57, 63, 0, 1}
                      \/ (Len(FileText(Named(n))) % ReadSize) \in {ReadSize - 1, 0, 1}}

\* Values of every kind in the info dictionary, in an encoder's spelling and others.
Canonical == {"i0e", "i-1e", "i10e", "i999e", "i1000e", "i5992e", "i-5992e", "i-5993e", "0:", "1:e", "3:1:x",
              "le", "de", "li1ei-2ee", "l0:le2:dee", "d0:i1ee", "d1:dde2:eedee", "d1:1i1e1:ale2:abi2ee",
              "ld1:dd1:el1:lleeeei0ee"}
Spelled == {"ie", "i-e", "i01e", "i-0e", "i-001e", "01:e", "d1:b0:1:a0:e", "d2:aa0:1:ai1ee", "ld1:ei0e1:d0:ee"}
Wrong == {"", "i5993e", "i-5994e", "i10000e", "i--1e", "i1", "5992:", "11986:", "20000:", "100000:", "5993", "2:", "-1:", "x", "l", "d",
          "d1:a0:1:a0:e", "d1:aleee1:alee", "di1e0:e", "dlei1ee", "d1:ae", "d0:e", "1x"}

\* Lengths beyond ptrdiff_t, of a value, in a list, of a key, and of a value whose
\* key is there already.
Overlong == {"5993:", "9999:", "10000:x", "11985:x", "l6000:e", "d7000:ai1ee", "d1:a0:1:a6000:e"}

With(key, value) == Entry(key, Chars(value))
Torrents ==
    {Named(n) : n \in Lengths}
    \cup {[Plain EXCEPT !.first = With("a", v)] : v \in Canonical}
    \cup {[Plain EXCEPT !.last = With("z", v)] : v \in {"d1:dd1:eleee", "i-5993e"}}
    \cup {[Plain EXCEPT !.first = With("a", v), !.canonical = FALSE] : v \in Spelled}
    \cup {[Plain EXCEPT !.last = With("a", "0:"), !.canonical = FALSE]}
    \cup {[Plain EXCEPT !.length = n] : n \in {0, 63, 255, 256, 5992}}
    \cup {[Plain EXCEPT !.piece_length = n] : n \in {0, 1, 256, 257}}
    \cup {[Plain EXCEPT !.pieces = SubSeq(Hashes, 1, n)] : n \in {0, 19, 20, 21}}
    \cup {[Plain EXCEPT !.scheme = s] : s \in {"udp", "https", "9p"}}
    \cup {[Plain EXCEPT !.scheme = "udp", !.tracker = Tracker("", "udp.org", "81", "/udp")]}
    \cup {[Plain EXCEPT !.tracker = t] :
             t \in {Tracker("", "t", "", ""), Tracker("", "udp.org", "", "/a"), Tracker("", "t", "6969", ""), Tracker("u:p", "t.org", "", "/a/b"),
                    Tracker("me:pw1", "t", "81", "/"), Tracker("u:", "t", "", "/x:y@z"), Tracker("u1:p", "t", "", "/")}}

\* A torrent with an entry left out, or with another value.
Changed(key, entry) ==
    LET Sound(k, value) == IF k = key THEN entry ELSE Entry(k, value)
    IN  Dict(<<Sound("announce", Str(Chars("http://t"))),
               Sound("info", Dict(<<Sound("length", Num(70)), Sound("name", Str(<<"n">>)),
                                    Sound("piece length", Num(64)), Sound("pieces", Str(Hashes))>>))>>)
Keys == {"announce", "info", "length", "name", "piece length", "pieces"}

Files ==
    {File(t) : t \in Torrents}
    \cup {NoTorrent(FileText([Plain EXCEPT !.first = With("a", v)])) : v \in Wrong}
    \cup {OverlongFile(FileText([Plain EXCEPT !.last = With("z", v)])) : v \in Overlong}
    \cup {OverlongFile(Chars(v)) : v \in {"6000:", "d6000:"}}
    \cup {NoTorrent(SubSeq(FileText(Plain), 1, n)) : n \in 0 .. Len(FileText(Plain)) - 1}
    \cup {NoTorrent(Changed(key, <<>>)) : key \in Keys}
    \cup {NoTorrent(Changed(key, With(key, "le"))) : key \in Keys}
    \cup {NoTorrent(Chars(v)) : v \in Canonical}

----------------------------------------------------------------------------
(* Replies.                                                                *)

Header(lines) == FlattenSeq([k \in DOMAIN lines |-> Chars(lines[k]) \o Crlf])
Status == "HTTP/1.1 200 OK"

\* A peer as five numbers, and a list of them; rest are bytes behind them.
PeerBytes(p) == [k \in 1 .. 6 |-> CharOf[CASE k < 5 -> p[k] [] k = 5 -> p[5] \div 256 [] k = 6 -> p[5] % 256]]
PeerText(p) ==
    <<Decimal[p[1]] \o <<".">> \o Decimal[p[2]] \o <<".">> \o Decimal[p[3]] \o <<".">> \o Decimal[p[4]],
      Decimal[p[5]]>>
ListOf(peers, rest) ==
    [text |-> Dict(<<Entry("interval", Num(9)),
                     Entry("peers", Str(FlattenSeq([k \in DOMAIN peers |-> PeerBytes(peers[k])]) \o rest))>>),
     lists |-> TRUE, overlong |-> FALSE, ragged |-> rest # <<>>, peers |-> [k \in DOMAIN peers |-> PeerText(peers[k])]]
NoList(text) == [text |-> Chars(text), lists |-> FALSE, overlong |-> FALSE, ragged |-> FALSE, peers |-> <<>>]
OverlongList(text) == [NoList(text) EXCEPT !.overlong = TRUE]

One == <<10, 0, 13, 10, 6881>>
Two == <<49, 13, 10, 101, 3338>>
Nobody == ListOf(<<>>, <<>>)
Lists == {Nobody, ListOf(<<One, Two>>, <<>>), ListOf(<<Two, One>>, <<"CR", "LF">>)}
Others == {NoList("d14:failure reason2:noe"), NoList("d8:intervali9e5:peerslee"), NoList("d5:peers0:e"),
           NoList("<html>"), NoList(""), NoList("d5:peers12000:e"), OverlongList("d5:peers11985:e")}

Reply(list, framing, lines, parts, closes) ==
    [header |-> Header(lines), framing |-> framing, parts |-> parts, closes |-> closes,
     lists |-> list.lists, overlong |-> list.overlong, ragged |-> list.ragged, peers |-> list.peers]

\* The three ways to tell the end of the body, each in more than one spelling.
Digits(n) == FoldLeft(LAMBDA s, c : s \o c, "", Decimal[n])
ByLength(list, closes) ==
    LET n == Digits(Len(list.text))
    IN  {Reply(list, "length", lines, <<list.text>>, closes) :
            lines \in {<<Status, "Content-Length: " \o n>>,
                       <<"HTTP/1.0 404 ", "cONTENT-lENGTH:" \o n \o "  ">>,
                       <<Status, "X: see", " Content-Length: 1", "Content-Length: " \o n>>}}
ByChunks(list, closes) ==
    LET cutAt == Len(list.text) \div 2
    IN  {Reply(list, "chunks", lines, <<SubSeq(list.text, 1, cutAt), From(list.text, cutAt + 1)>>, closes) :
            lines \in {<<Status, "Transfer-Encoding: chunked">>,
                       <<Status, "Content-Length: 3", "TRANSFER-ENCODING: ", "  chunked">>}}
ByClose(list, closes) == {Reply(list, "close", <<Status, "Server: x">>, <<list.text>>, closes)}

Framed3(list) ==
    {r \in ByLength(list, TRUE) \cup ByLength(list, FALSE) \cup ByChunks(list, TRUE)
             \cup ByChunks(list, FALSE) \cup ByClose(list, TRUE) \cup ByClose(list, FALSE) : Body(r) # <<>> \/ r.framing # "chunks"}

\* Headers, and chunks, that the client rejects.
BadLines == {<<Status>>, <<"HTP/1.1 200 OK", "X: 1">>, <<"HTTP/1.1 20 OK", "X: 1">>, <<"HTTP/1.1 2000 OK", "X: 1">>,
             <<"HTTP/1 200 OK", "X: 1">>, <<"HTTP/1.1 200", "X: 1">>, <<Status, "X">>, <<Status, ": x">>,
             <<Status, "X y: 1">>, <<Status, "Transfer-Encoding: gzip">>, <<Status, "Content-Length: 1x">>}
BadChunks == {<<"1", "CR", "LF", "x", "x", "x">>, <<"g", "CR", "LF">>, <<"F", "f", "CR", "LF", "x">>}
Rejected ==
    {Reply(Nobody, "other", lines, <<Nobody.text>>, TRUE) : lines \in BadLines}
    \cup {Reply(Nobody, "other", <<Status, "Transfer-Encoding: chunked">>, <<part>>, TRUE) : part \in BadChunks}

\* Among the rejected, those whose body is read all the same list what it says.
MCReplies == UNION {Framed3(list) : list \in Lists}
             \cup {Reply(list, "length", <<Status, "Content-Length: " \o Digits(Len(list.text))>>, <<list.text>>, TRUE) :
                      list \in Others}
             \cup Rejected
Simple == CHOOSE r \in ByClose(Nobody, TRUE) : TRUE

MCBeyond == {[k \in 1 .. 20 |-> c] : c \in {"e", "NUL"}}
MCWorlds == {[file |-> f, reply |-> Simple] : f \in Files} \cup {[file |-> File(Plain), reply |-> r] : r \in MCReplies}

\* Trackers with and without a login and a port.
HostWorlds ==
    {[file |-> File([Plain EXCEPT !.tracker = Tracker(login, "t.org", portText, "/a")]), reply |-> Simple] :
        login \in {"", "u:p"}, portText \in {"", "81", "6969"}}
HeaderWorlds == {[file |-> File(Plain), reply |-> Simple]}
=============================================================================
