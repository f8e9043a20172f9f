# A TLA+ verification of picotor

picotor is a small BitTorrent client. It reads a `.torrent` file, asks the
tracker for peers over HTTP, opens a connection to every peer, downloads the
pieces of one file in parallel and writes them to disk. The modules here model
the part in which things happen at the same time, the swarm, and what surrounds
it: start-up, from the bytes of the file to the list of peers, the connection as
bytes, and where the bytes go in the file. TLC checks them on small instances,
and TLAPS proves the most important facts for every size.

## The system

| component | state | operations | talks to |
|---|---|---|---|
| `Peer` (`peer.cpp`, `peer.hpp`) | `closed_`, `choked_`, `available_pieces_`, `piece_`, `blocks_`, one outstanding read, one timer per requested block, outstanding writes | the chain of completion handlers, the block timer, the write handler | remote peer; `work_queue`, `result_queue` |
| `Piece`, `Block` (`torrent.hpp`) | the blocks started so far, reserved and filled flags, data | `next_block`, `accept`, `is_complete`, `finalize` | called by `Peer` |
| `work_queue`, `result_queue` (`TorrentContext`) | two lock-free FIFO queues | push, pop | shared by all peers; `result_queue` also by the monitor thread |
| `MonitorVisitor`, `monitor_thread` (`peer.cpp`) | `missing_pieces_`, `peers_`, the file, `bytes_downloaded_` | one visit per result | `result_queue`; owns the vector of peers |
| `start_run_connections` (`main.cpp`) | the two threads | fills the queues, starts the monitor, `io.run()` | everything above |
| `Handshake`, `Message`, `Bitfield` (`message.*`, `common.hpp`) | the bits | parse, serialise, `copy_from`, `get` | called by `Peer` |
| `main`, `send_request` (`main.cpp`) | the torrent, the response | read, construct, request, respond | everything below; then `start_run_connections` |
| `SingleFileTorrent`, `TrackerResponse` (`torrent.*`) | metadata | parsing, geometry | bencode, SHA-1 |
| `cmn` helpers (`common.*`) | none | `read_file`, `urlencode`, `hex_to_bytes`, `Hash`, `Address` | called at start-up and by `Peer` |
| `http::Request` (`httprequest.hpp`, vendored) | what was received and not decoded, how the end of the body is told, the body | `parseUri`; `send`: connect, send, receive and decode | the tracker's socket; called by `send_request` |
| `bencode.hpp` (vendored) | the stack of open containers | `basic_decode`, `encode` | called with the torrent file and the tracker's response |
| `sha1.hpp` (vendored) | digest, buffer, count of transforms | `update`, `final` | called for pieces and the info dictionary |

Two threads run once the queues are filled. All handlers of all connections run
in `io.run()`, one at a time; the monitor thread spins on `result_queue`. They
share nothing but that queue and, at the end, the ownership of the peers.

What is hard here, and hardly reached by a test: handlers that go on running
after `close()`; timers and write handlers that outlive the piece they were
started for; answers that arrive late, twice or for another piece; three
different ways a piece can go back to the queue; who wakes a peer that found
nothing to do; what the two threads do to each other when the download or the
last connection ends. Before the swarm runs: a response that arrives in pieces of
any length, or not all of it; numbers at the end of their type; text that is
cut off; a hash that must survive decoding, encoding, hexadecimal and percent
signs before the tracker sees it; a last piece that is shorter than the others. `PROJECT.json` lists
each such place with its line and the properties that watch it.

## The modules

    Piece            blocks of one piece: pure operators
    Queues           the two queues, results          EXTENDS Piece
    Peer             one action per handler           EXTENDS Queues
    Monitor          one action per visit             EXTENDS Queues
    Swarm            both threads, life of the process EXTENDS Peer, Monitor
    WorkPool         what the swarm promises about pieces, abstractly
    SeededSwarm      the swarm among remotes that follow the protocol
    Torrent          geometry, from metadata to offsets in the file
    Text             characters and texts: pure operators
    Bencode          decoder and encoder: pure        EXTENDS Text
    Sha1             the digest, twice: pure          EXTENDS Text
    Metadata         what file and tracker say: pure  EXTENDS Bencode, Sha1
    HttpMessage      addresses, requests, headers     EXTENDS Text
    HttpClient       send()                           EXTENDS HttpMessage
    Startup          main() up to the swarm           EXTENDS Metadata, HttpClient
    Wire             one connection as bytes
    Conversation     what a connection promises to both ends, abstractly
    MC...            values for the constants of the runs

    QueueLemmas      pushes and pops                  EXTENDS Queues
    SwarmProofs      types, conservation              EXTENDS Swarm, QueueLemmas
    PeerProofs       one connection                   EXTENDS SwarmProofs
    ResultProofs     file, monitor, end, refinement   EXTENDS PeerProofs
    SeededProofs     both sides' books                EXTENDS SeededSwarm, PeerProofs
    TorrentProofs    geometry                         EXTENDS Torrent
    HttpProofs       the body of a response           EXTENDS HttpClient
    WireProofs       one connection as bytes          EXTENDS Wire

**Piece.** A piece is a function from block index to `"unstarted"`, `"idle"`,
`"reserved"`, `"good"` or `"bad"`. The first three are the reserved flag of an
unfilled block and whether the vector has grown to it; the last two a filled
block, with the bytes the torrent hashes or with others. `Accept` makes the tests
of `accept()` in its order. Block contents are no more than good or bad: the
hash of the piece matches exactly when all are good.

**Peer.** `peers[p]` is a record: the fields of the object and the operations it
has outstanding. A handler reads and writes the record of its own peer and the
two queues, so every function that handlers call (`release_block`,
`release_piece`, `close`, `handle_piece`, `async_download`, ...) is an operator
from such a "work record" to the next, and a handler is the composition of the
operators of the calls it makes, one atomic step. `chain` says which completion
handler runs next. `doomed` says that the read was started on a socket already
closed: it can only fail. A read that was outstanding when the socket was closed
may still succeed, because its handler may have been queued by then. `blocks_`
is split into `requested`, the keys whose block belongs to the current piece,
and `orphans`, keys whose block belongs to a piece given back. Timers are
counted per unfilled block of the current piece (`watch`) and per block of
earlier pieces (`stale`); the timer of a filled block does nothing and is not
kept. They may expire in any order, which includes the order of their start.
Whether a write will fail is decided when it is started (`failing`).
What a remote may say is the constant `Messages`, what may go wrong the
constant `Faults`.

**Monitor.** The visit of one result; the file is what it holds at each piece's
offset. The progress report is output only and left out.

**Swarm.** The two threads in any interleaving. `phase` leaves `"running"` when
the monitor thread returns, which destroys the peers under the feet of
`io.run()`, or when `io.run()` returns first, which ends the process. What follows
either is undefined or nothing, and the model stops there.

**WorkPool.** Pieces are queued, held by a peer or done; one step of one peer
disposes of its piece and may take another. `Swarm` implements it under the
mapping `queued` = pieces in `work_queue`, `held` = `piece_` of each peer,
`done` = reported or written.

**SeededSwarm.** The same actions with remotes that send a bitfield, then an
unchoke, then answer each request with the right bytes in any order and in time;
those in `Quitters` may leave. The remote's state (`greeting`, `asked`) is not
code of the repository and is marked external. Who may leave is chosen at the
start (`quitters`), so that one run has both the behaviours in which somebody
leaves and those in which the download must complete.

**Torrent.** The sizes are those of the code, in integers modulo `Word`; a byte
is its position in the torrent. One piece after the other is downloaded from a
remote that answers each request with the bytes asked for, copied block by
block by `finalize()` and written where the monitor seeks to. Who downloads
which piece when, and other answers, are `Swarm`'s.

**Wire.** `Peer` deals in messages; `Wire` shows what that rests on. Both ends of a
connection write bytes, the peer reads into `recv_buffer_` as many as its last
read asked for (`want`), and parses them with the code's conversions: `htonl`
turns the bytes of an integer in memory round, `push_bytes` writes the lowest
first, a bitfield starts at the highest bit. The remote encodes and decodes messages
by the protocol's definition, not by the code's (`Digits` and `Numeral` are numbers and
their digits in any base; a `Packet` is a length and a body of that length, which
a keepalive has not). Handshakes are the exception: the remote's is written with the
code's own `Serialise`, has our length, and differs in the id; what the remote makes
of ours is not checked. `contents` is the torrent, any bytes. `said` and `heard`, `requested` and
`asked` record what the messages mean; each pair implements `Conversation`. The
protocol string, ids and hash are byte strings of any length, integers have
`WordBytes` bytes of `BitsPerByte` bits, and `htonl` is a function on them (`Word`). Writes reach the wire whole, as short
writes to a socket with room do; the code starts several without waiting.

**Text.** A byte is a string that names it, a file or a message a sequence of
bytes; `Occurrences`, `Span`, `Before` and `Behind` are the searches that the
parsers are made of.

**Bencode.** `Turn` is one turn of `basic_decode`'s loop; the stack of pointers into
the half-built value is a stack of open containers, each filled into the one
below when it is closed. A duplicated key is noticed at the store, as in the
code, and both throw. `Fits` is the check of the last digit. Integers go up to
`MaxInt`, lengths of strings to `MaxSize`, whose last digits fit only in part, as those
of 2^63 - 1 and of 2^64 - 1. A length is compared as a signed number: beyond `MaxInt` it
is negative, `decode_str` makes a string of characters that are not there, and what
follows is undefined (`Lost`); up to `MaxInt`, one that is longer than the text throws. `Encode` writes
a dictionary in the order of its keys, as `std::map` keeps them.

**Sha1.** `update`, `final` and `transform` as `sha1.hpp` has them: a buffer that is
filled and emptied, 16 words that replace each other, five variables that change
roles in 80 rounds; a word is its four bytes. `StandardHash` is the definition
of FIPS 180-4, with its padding, its schedule of 80 words and its variables that
move, and the reference of the runs. `KnownAnswer` pins both to the standard's
example.

**Metadata.** The two constructors. They return what they made, or that they threw,
divided by zero or were lost in the decoder. A last hash or address that is not complete is read beyond
the string: `Beyond` holds the bytes that may be there, and every one of them is
tried.

**HttpMessage.** `parseUri`, `encodeHtml` and the parsers of the status line and of
header fields, with obsolete folding, trimming and names in any case. A parser
of the code that goes on while characters are of a class is a `Span`.

**HttpClient.** `client` holds the locals of `send()` and the place it executes. One
action per call that may fail or take a part (`Connect`, `SendRequest`, `Recv`)
and per turn of a decoding loop; `Recv` hands over the next bytes of the stream,
any number of them. `Faults` says what the network may do: not find the tracker,
not connect, fail in `send` or `recv`, lose the rest of the reply. The tracker
(`Body`, `Chunk`, `Framed`, `Stream`) is external. `HttpSpec` is one exchange by itself, for
any address (`Begin`); the theorems are about it, and `AsksOnce` says that what
`Startup` does to the client is nothing else. What the theorems need to know of a
tracker is written out in `Announces`: its header, which the first empty line
ends, says how the end of the body is told, and no chunk is empty or longer than
two digits say. `HonestAssumption` is that of every reply with a framing;
`SizeAssumption` is a closed fact about the 255 sizes. TLC evaluates both in full.

**Startup.** `main` is where `main()` is and the objects it made. The file is read a
buffer at a time, the torrent constructed, the request's address put together,
sent through `HttpClient`, and its body made a `TrackerResponse`. An exception
anywhere ends the program, and where the decoder is lost the model ends. What a file or a reply says stands beside its text
(`file.says`, `reply.peers`), so that the properties compare what the program
makes of it with the meaning and not with another parser. `Heard` is how a
tracker reads a request, by the standards of forms and of base 64.

## The runs

| run | instance | what it shows |
|---|---|---|
| `one_peer` | 1 peer, 2 pieces of 2 blocks, pipeline of 1, any message, all faults | `TypeOK`; `PieceConservation`; `RequestsAccounted`: `blocks_` is exactly the reserved blocks and within the pipeline limit; `NoSilentStall`: a peer that could download always has a timer behind it; `ClosedPeerReturnsPiece`: what a closed peer still pops is certain to come back; `MonitorView`; `FileHoldsVerifiedPieces`; `FreedWhenIdle`; `ClosedPeerDeliversNothing`; under fairness `ClosedPeerRetires`, and `HeldPieceMovesOn`: nothing but a choke, a missing piece or an ended read keeps a piece with a peer |
| `two_peers` | 2 peers, 2 pieces of 2 blocks, remotes with one or all pieces that choke, lose connections and are slow | `MonitorView` and `FreedWhenIdle` with two peers that compete, and `ImplementsWorkPool`, which includes that no piece is lost or downloaded twice |
| `seeders` | 2 complete seeders, 3 pieces of 3 blocks, pipeline of 2; one or none may leave | `BothBooksAgree`: both sides agree on what is outstanding and every answer is accepted; `DownloadCompletes` if nobody may leave |
| `torrent` | lengths 0 to 20, pieces of 3 to 8, blocks of 3, words of 16 | `BufferExactlyFilled`, `FileInPlace`, `WholePiecesWritten` |
| `startup` | 316 worlds of a file and a reply: info dictionaries that end on each side of a block of the hash, files that end on each side of a read, values of every kind in an encoder's spelling and in others, numbers and lengths on both sides of their limits, missing and wrong entries, one file cut off after every byte; replies framed by length, chunks and close in several spellings, rejected headers and chunks, bodies that are no list; every failure of the network | `FileReadWhole`; `AcceptsTorrents`: a text is accepted if and only if it is a torrent, and refused otherwise, with one exception, a length beyond `ptrdiff_t`; `MetadataAsWritten`; `InfoHashOfFile`: the hash asked for is the standard's hash of the dictionary as it stands in the file; `ReencodedDecodes`; `RequestUnderstood`: the tracker named in the file reads from the request what the client means; `BodyIsPrefix`, `ReturnedBodyIsWhole`: the body is the body, however `recv()` cuts it up; `PeersAsListed`; `AsksOnce`: one exchange, and no response starts another; `Terminates`: `send()` waits for ever for no tracker that closes or tells the length |
| `wire` | bytes of 5 bits, integers of 2 bytes, 7 pieces (two bytes of bitfield), pieces of 3 bytes in blocks of 2; up to 3 messages, a keepalive and the answers; cut off after any byte | `HearsTheRemote` and `IsUnderstood`: both directions implement `Conversation`; `EverythingHeard`; `AvailableAsSaid`; `BlocksHoldTorrent`; `KnowsRemote` |
| `dropped_peer` | violated | a dropped peer pops the next piece |
| `read_loop` | violated | an unknown message ends the reads of an open connection |
| `yield_once` | violated | a peer that yielded never tries again |
| `last_piece` | violated | a download completes without the last, shorter piece |
| `host_field` | violated | a Host field without the tracker's port |
| `http_header` | violated | a header in two parts makes an empty response |

Bounds. Two pieces are enough for a piece to be in the queue, in a hand and done
at once and for a returned piece to overtake another; two blocks for a piece to
be partly filled, and with a pipeline of one for a block to wait unstarted while
another is reserved. `MaxTimers` bounds the requests of one block that are
timed or whose write will fail (two: the first request and its repetition after
a wrong answer); `MaxResults` how far the monitor lags behind. Both are guards of
the peers' actions (`WithinBounds`). In `wire`,
`MaxSaid` bounds the remote's messages other than answers, `MaxRequests` the
peer's requests (two: one may be answered before the other is read). In `torrent` the lengths go beyond a word,
below a piece and through every remainder, and blocks divide some pieces and
not others. In `startup` integers end at 5992 (three digits always fit, a fourth
up to its last digit only in part) and lengths at 11985 (four and a fifth), words at 255, so that lengths and piece
lengths wrap, the file is read 50 bytes at a time, and `recv()` returns up to 80
bytes, which is beyond the end of every header and makes every split of what
follows; the addresses of peers contain line breaks, digits and `e`, which
are the ends of chunks and strings. A request is sent in parts of 70
bytes or at once: what `send()` takes is the socket's, and one part and a rest
are as good as many. Deadlock is checked in every run: the only
states without another step are those where `phase` has ended, the download is
complete, or `main()` reached the swarm or ended, and they stutter; only in `wire` it
is not, since both ends may have said all they may.

Fairness. `FairSpec` assumes that handlers that are ready run, that timers
expire, that closing a socket completes its outstanding operation, and that the
monitor's loop goes on: that is what `io.run()` and a thread of its own provide.
It assumes nothing of remotes. `SeededSpec` adds that a remote of `SeededSwarm`
that owes something sends it, `Wire`'s `FairSpec` that handlers that are ready run.
`Startup`'s
is weak fairness of `Request`: `send()` runs on, and what the tracker sent arrives
or is lost. Its enabling condition is written out (`Ready`), because TLC would
evaluate it over whole texts. A tracker that neither closes nor says how long
its body is keeps `send()` waiting for ever, since `send_request` gives it no
timeout: such trackers are among the replies, and `Terminates` says that they are the only
ones (`Silent`). A tracker that stops in the middle of its answer without closing is not
modelled, other than as a lost connection.

## What the checks found

* **A dropped peer takes another piece** (`dropped_peer`). After a failed hash
  check `handle_piece` closes the peer, but `async_handle_message` goes on to
  `async_download`, which pops the next piece for it and requests its blocks on
  the closed socket. The read that follows fails and gives the piece back, and
  `ClosedPeerReturnsPiece` and `ClosedPeerRetires` show that it always does.
* **The chain of reads ends silently** (`read_loop`). A message of a type that
  `try_from` does not know, such as Port (9), returns before the next read. The
  connection stays open, is counted as connected and is never read again; so it
  is after a failed read of a body.
* **A peer yields once and for all** (`yield_once`). `async_download` tries one
  piece per message received. If that piece is not available, or the queue is
  empty at that moment, the peer waits for the remote's next message, which need
  not come: a piece that another peer gives back later stays in the queue.
* **The last piece** (`last_piece`). `pieces()` rounds down: the bytes behind the
  last whole piece are neither queued nor missed, and the file ends in zeros.
  So do all bytes beyond what a length in 32 bits can say.
* **A header in two parts** (`http_header`). If the first `recv()` does not return
  the whole header, `send()` returns an empty response instead of receiving more.
* **The Host field** (`host_field`). It names the tracker's machine without its port,
  although RFC 7230, 5.4, which the code names there, makes the port part of it. A server
  that tells several trackers apart by the field may take the request for another's.
  `RequestUnderstood` holds with the port and without it, so that it is about the rest.

And what the properties had to say to be true: `ie` and `i-e` are accepted as
0, so a file with them hashes to something no tracker knows (`canonical`
in `InfoHashOfFile`); a string of hashes or of peers that is not a multiple of
its size makes one more, read beyond its end (`MetadataAsWritten`,
`PeersAsListed`); a piece length of 0, or a multiple of 2^32, is a division by
zero in the constructor (`AcceptsTorrents`); a string's length of 2^63 to 2^64 - 1,
in the torrent file or in the tracker's response, is not refused, and the decoder
leaves the text (`AcceptsTorrents`, `PeersAsListed`). And what "ensure it's HTTP" does to an
announce address: the first "udp" is replaced wherever it stands, and any other
scheme is left for `send()` to refuse (`plain` in `RequestUnderstood`).

## The proofs

TLC checks the instances above; the theorems hold for every value of the
constants that meets the named assumptions. Twenty-four of the properties that the
passing runs check are stated by a theorem.

**One connection** (`SwarmProofs`, `PeerProofs`). A handler is a function from a work
record to the next, so what holds of a connection is proved of one record, call
by call, and carried to the swarm once (`NextSound`). `AnyNext` is the swarm's next
step with any message of the type instead of those in `Messages`: what is proved
of it holds for every remote, those of `SeededSwarm` too.

* `TypeCorrect`: `Spec => []TypeOK`.
* `PeersSound`: `Spec => []AllSound`, the inductive invariant of a `Peer` object. Its
  parts: without a piece there is no block, request or timer (`EmptyHanded`); a
  reserved block has a timer (`Watched`); `blocks_` is the reserved blocks, all of
  them until the peer is dropped or its chain ends, and within the limit
  (`Booked`); a complete piece does not stay (`Unfinished`); before the handshake
  nothing has happened (`Unused`); and the parts that the next two properties are
  made of (`Returning`, `Guarded`). `NoSilentStall` is not inductive without the first
  four: whether a download leaves a timer behind depends on whether the limit
  was reached, and that on `blocks_` being what it should be.
* `RequestsAlwaysAccounted`, `NeverSilentlyStalled`, `ClosedPeersReturnPieces` follow.
* `ClosedPeersDeliverNothing`: the action property `ClosedPeerDeliversNothing`.

The order in which `next_block()` prefers blocks is shown to have a first
element by the well-foundedness of the subset order; the library's lemmas about
minima cannot be instantiated here.

**Pieces** (`SwarmProofs`, `QueueLemmas`, `ResultProofs`).

* `PiecesConserved`: `Spec => []PieceConservation`, inductive relative to `TypeOK`. A
  handler of `p` sees the pieces that no other peer holds and the monitor still
  misses, `Share(p)`, split among the queue, its hand and the results (`Conserves`).
  Each function that moves a piece keeps this set split (`Keeps`), and `Keeps` is
  transitive, so every handler composed of them does.
* `FileAlwaysVerified`: `FileHoldsVerifiedPieces`, with the invariant that a completed
  piece in the queue is intact (`AllIntact`), because `handle_piece` compared its hash.
* `FreedOnlyWhenIdle`: when the peers are destroyed nothing is missing; by
  conservation nothing is then queued, held or reported either.
* `MonitorSeesPeers`: `MonitorView`. `Belief` is what the monitor would believe of `p` after
  all waiting results; it equals `Up(p)` in every state, because a handler that changes
  `Up` appends the result that says so last (`Tells`). `close()` may report twice: the
  second report changes nothing.
* `SwarmImplementsPool`: `Spec => ImplementsWorkPool`. The initial state maps to the pool's,
  a peer's step to one in which this peer disposes of its piece and may take another,
  or to a stutter, and the monitor's to a stutter: what it writes was done when reported.

**Both sides** (`SeededProofs`).

* `SeededTypeCorrect`, and `BooksAlwaysAgree`: `SeededSpec => []BothBooksAgree`. The invariant
  `SeededInv` adds to the swarm's invariants that the remote was asked for exactly
  what is in `requested` (`Books`). Conservation is needed: the piece
  that a peer takes after it reported one must be another (`ReportedIsOther`).

**The file** (`TorrentProofs`), for any word, block size and torrents: `TypesKept`,
`BufferFits`, `EveryByteInPlace`, `WholePiecesArrive`. The invariant `Inv` adds to `TypeOK` and
`FileInPlace` the loop invariant of `finalize()` (`Buffer`: with `b` blocks copied the
pointer is where the request for block `b` begins, and the bytes before it are the
piece's) and that every piece not missing is in the file (`Written`). The arithmetic is
in lemmas about division: blocks cover the piece (`BlocksCover`), and offsets do not
wrap (`BlockOffsetExact`, `PieceOffsetExact`).

**The body of a response** (`HttpProofs`), for any replies, sizes of buffers and faults:
`TakenIsPrefix`: `HttpSpec => []BodyIsPrefix`, and `ReturnedIsWhole`: `HttpSpec =>
[]ReturnedBodyIsWhole`. The first half is about the tracker's stream: it has a layout
(`IsLayout`), places at which chunks begin and how much of the body precedes each
(`ChunksLaidOut`). The body and the chunks are `FlattenSeq`s, which recurse; that their
partial concatenations exist and extend each other is proved by the least number at
which they would not. The second half follows `send()`. In every state
(`Stage`) it is asking, reads, or has ended; reading, `responseData` and what has not
arrived make up the stream from some position on, and the body is the tracker's up to
the place that belongs to it: in the header, in a plain body, in front of the size of a
chunk, in its data, or behind it (`ReadsHeader`, `ReadsPlain`, `AtSize`, `InData`, `AtEnd`). A
line break in the data cannot be taken for the end of a size, since the search begins
behind the last chunk, and an empty line cannot be missed, since the header has one
only at its end.

**A connection as bytes** (`WireProofs`), for any size of bytes and integers, any
protocol string, ids and torrent, and any number of messages:

* the conversions. `WordRoundTrip`: what `htonl` and `push_bytes` put on the wire is read
  back as the same integer; `FieldRoundTrip`: `copy_from` and `get` find in the bytes of
  a bitfield the pieces it was made of and nothing in the spare bits. `Digits` and
  `Numeral` are recursive functions: that they exist is shown by the first place at
  which they would not, that one undoes the other digit by digit (`AllReached`).
  `IdParsed`, `MessageSaid`, `BlockHeard` and `AskUnderstood` carry this to handshakes and
  messages.
* `PeerHears` and `PeerUnderstood`: `Spec => HearsTheRemote` and `Spec => IsUnderstood`. Each step
  of the program is a step of the two conversations or a stutter (`Talk`).
* `RemoteKnown`, `AvailableTold`, `BlocksRight`, `TypeCorrect`: `KnowsRemote`, `AvailableAsSaid`,
  `BlocksHoldTorrent` and `TypeOK`.

None of these is inductive: what the next read makes of its bytes depends on all that
was written. The invariant `Inv` says that each end has written a handshake and packets,
whose ends are marks (`Laid`), which carry what was said or requested, with keepalives
between (`Carries`, `OutAt`); that the reader stands at a mark, or behind the length
of the packet that it reads, with as much heard as the marks before it carry (`Reads`);
and that what is on its way is the rest, or the beginning of the rest if the connection
was cut (`Outgoing`, `Incoming`). A new packet leaves the earlier marks where they
were, and a read moves to the next one. `Inv` speaks of the whole streams, which the
state does not keep: TLC checks its consequences, not `Inv` itself.

The assumptions are those of the modules, each evaluated by TLC in the runs:
`NoneAssumption`, `NumPiecesAssumption`, `BlockCountAssumption`, `PeerAssumption`,
`SeededAssumption`, `TorrentAssumption`, `WireAssumption` (sizes are positive; the number
of pieces, their length and the size of every message fit in an integer, and the
types of messages in a byte; the protocol string's length is not white space, since
`ParseHandshake` skips it, and both ids are equally long) and for HTTP `HttpAssumption`,
`HonestAssumption` and `SizeAssumption` (module HttpClient above).

Only model-checked:

* liveness under fairness (`ClosedPeerRetires`, `HeldPieceMovesOn`, `DownloadCompletes`,
  `Terminates`, `EverythingHeard`), which is out of the prover's reach, as is ENABLED;
* the other properties of `Startup`: the decoder, the encoder and the hash recurse over data
  or work on bits, and `Startup` reaches RECURSIVE operators, with which the prover has no
  arithmetic; so that `AsksOnce`, which ties `HttpSpec` to the program, is checked by TLC.

## Plan

1. Done: the swarm (`Piece`, `Queues`, `Peer`, `Monitor`, `Swarm`, `WorkPool`,
   `SeededSwarm`), a connection as bytes (`Wire`, `Conversation`), the geometry
   (`Torrent`), start-up (`Text`, `Bencode`, `Sha1`, `Metadata`, `HttpMessage`,
   `HttpClient`, `Startup`).
2. Done, proofs: every safety property of the swarm, of the geometry and of a
   connection as bytes, the refinements of `WorkPool` and `Conversation`, and the
   framing of the body.
3. Left: what `Startup` computes from texts (decoder, encoder, digest) for every text,
   which needs induction over data.

## Not modelled

* Output: logging, `as_hex`, `to_string`, and `report_progress` with its clock.
  (It shows the time of the last report as that of the download.)
* The implementation of the lock-free queues and of `io_context` (Boost), and of
  the sockets.
* Code of the vendored headers that the program does not reach: timeouts and
  bodies of requests, Winsock, `SHA1::from_file`, bencode's iterators and other
  variants.
* An announce address with a query or a fragment of its own, behind which the code
  appends "?" and its query all the same.
* What the decoder does in memory behind a length that turned negative.
* Lengths beyond `size_t` in the tracker's header or chunks, and memory that runs
  out; a file's hashes that are fewer than its pieces (`piece_hash` reads beyond
  the vector).
* Answers whose length is another than was requested, as lengths: they are bad blocks,
  which fail the hash; `Torrent` has none. Handshakes of another length than ours.
* Interleaving of bytes when several writes are outstanding on one socket, and
  the message that `async_write_message` frees while its write may need it:
  `Wire` assumes that a write of a few bytes goes out where it is started.
