-------------------------------- MODULE Wire --------------------------------
(***************************************************************************)
(* One connection as bytes (message.cpp, message.hpp, common.hpp, and the  *)
(* reads and writes of peer.cpp): handshakes, messages with their lengths, *)
(* bitfields, requests and blocks.  Module Peer takes it for granted that  *)
(* messages arrive as they were sent; here they are written out, cut into  *)
(* reads of a known length, and put together again.                        *)
(*                                                                         *)
(* A byte is a number below Base, and an integer of the code has WordBytes *)
(* of them.  The machine keeps the lowest byte of an integer first; on the *)
(* wire the highest comes first.  Which block is requested when is decided *)
(* in module Peer, here any block of a piece that the remote has.          *)
(***************************************************************************)
EXTENDS Naturals, Sequences, FiniteSets, SequencesExt

CONSTANTS BitsPerByte, WordBytes,
          protocol_str, extensions,          \* as in the code, of any length
          info_hash, peer_id, RemoteId,      \* HASH_SIZE bytes, and two ids
          NumPieces, piece_size, BLOCK_SIZE,
          contents,     \* the bytes of the torrent, numbered from 0
          Control,      \* what the remote may say besides bitfields and blocks
          Bitfields,    \* the sets of pieces it may say it has
          MaxSaid,      \* bound: messages it says, other than blocks
          MaxRequests,  \* bound: blocks the peer requests
          None

\* The digits of a number, the highest first, and the number that digits are.
Digits(n, base, size) ==
    LET above[k \in 0 .. size] == IF k = 0 THEN n ELSE above[k - 1] \div base
    IN  [k \in 1 .. size |-> above[size - k] % base]

Numeral(digits, base) ==
    LET upto[k \in 0 .. Len(digits)] == IF k = 0 THEN 0 ELSE base * upto[k - 1] + digits[k]
    IN  upto[Len(digits)]

Largest(base, size) == Numeral([k \in 1 .. size |-> base - 1], base)

Base == Largest(2, BitsPerByte) + 1    \* 2^BitsPerByte
Byte == 0 .. Base - 1
Word == 0 .. Largest(Base, WordBytes)
Pieces == 0 .. NumPieces - 1
BlockIdx == 0 .. (piece_size + BLOCK_SIZE - 1) \div BLOCK_SIZE - 1
FieldSize == (NumPieces + BitsPerByte - 1) \div BitsPerByte

\* Message::Type
Choke == 0
Unchoke == 1
Interested == 2
NotInterested == 3
Have == 4
Bitfield == 5
Request == 6
Piece == 7
Cancel == 8
Extension == 20

ASSUME WireAssumption ==
    /\ {BitsPerByte, WordBytes, BLOCK_SIZE} \subseteq Nat \ {0} /\ Base > Extension + 1
    /\ {NumPieces, piece_size} \subseteq Word
    /\ contents \in [0 .. NumPieces * piece_size - 1 -> Byte]
    /\ {protocol_str, extensions, info_hash, peer_id, RemoteId} \subseteq Seq(Byte)
    /\ Len(protocol_str) \in Byte \ ({32} \cup 9 .. 13) /\ Len(RemoteId) = Len(peer_id)
    /\ {3 * WordBytes, 2 * WordBytes + BLOCK_SIZE, FieldSize} \subseteq 0 .. Largest(Base, WordBytes) - 1
    /\ Control \subseteq (Byte \ {Bitfield, Piece}) \cup {None}
    /\ Bitfields \subseteq SUBSET Pieces

VARIABLES peer,       \* of Peer: at, the handler that runs next; want, the size
                      \* of recv_buffer_; choked; available; remote_id; blocks,
                      \* the data accepted for each block
          remote,     \* the remote: its handshake sent and ours read, cut
          inbound,    \* bytes on their way to the peer
          outbound,   \* bytes on their way to the remote
          said,       \* by the remote
          heard,      \* by the peer
          requested,  \* by the peer
          asked       \* understood by the remote

vars == <<peer, remote, inbound, outbound, said, heard, requested, asked>>

----------------------------------------------------------------------------
(* Integers and bytes.                                                     *)

BigEndian(n) == Digits(n, Base, WordBytes)

\* The bytes of an integer in memory, and the integer that bytes are.
Memory(n) == Reverse(BigEndian(n))
Load(bytes) == Numeral(Reverse(bytes), Base)

\* On integers of the machine, whose bytes they turn round.
htonl == [n \in Word |-> Load(BigEndian(n))]
ntohl == htonl

\* cmn::push_bytes: the lowest byte first.
push_bytes(n) == Memory(n)

From(s, k) == SubSeq(s, k, Len(s))

----------------------------------------------------------------------------
(* Handshakes.                                                             *)

IsSpace(b) == b \in {32} \cup 9 .. 13

\* Handshake::serialise
Serialise(id) == <<Len(protocol_str)>> \o protocol_str \o extensions \o info_hash \o id

HandshakeSizeButOne == Len(Serialise(peer_id)) - 1    \* mutant: without the length byte

HandshakeSize == Len(Serialise(peer_id))

\* Handshake(data): ">>" skips white space in front of the length; the peer id
\* is all that remains.
ParseHandshake(data) ==
    LET first == CHOOSE k \in DOMAIN data :
                     ~IsSpace(data[k]) /\ \A j \in 1 .. k - 1 : IsSpace(data[j])
        hash == first + 1 + data[first] + Len(extensions)
    IN  [info_hash |-> SubSeq(data, hash, hash + Len(info_hash) - 1),
         id |-> From(data, hash + Len(info_hash))]

----------------------------------------------------------------------------
(* Messages.                                                               *)

\* Message::serialize
Serialize(type, payload) ==
    Memory(htonl[Len(payload) + 1]) \o <<type>> \o payload

BlockLength(b) ==
    IF piece_size - b * BLOCK_SIZE < BLOCK_SIZE THEN piece_size - b * BLOCK_SIZE ELSE BLOCK_SIZE

RequestByIndex(i, b) ==    \* mutant: the block's index for its offset
    Serialize(Request, push_bytes(htonl[i]) \o push_bytes(htonl[b]) \o push_bytes(htonl[BlockLength(b)]))

\* Message::request
RequestBlock(i, b) ==
    Serialize(Request, push_bytes(htonl[i]) \o push_bytes(htonl[b * BLOCK_SIZE])
                       \o push_bytes(htonl[BlockLength(b)]))

\* Message::try_from
IsKnown(type) == type <= Cancel \/ type = Extension

\* The bits of a byte, the highest first.
Bit(byte, j) == Digits(byte, 2, BitsPerByte)[j] = 1

BitsReversed(bytes) ==    \* mutant: the lowest bit of a byte is its first
    [i \in 1 .. Len(bytes) * BitsPerByte |->
        Bit(bytes[(i - 1) \div BitsPerByte + 1], BitsPerByte - ((i - 1) % BitsPerByte))]

BitsButLast(bytes) ==    \* mutant: the loop ends before the lowest bit
    [i \in 1 .. Len(bytes) * (BitsPerByte - 1) |->
        Bit(bytes[(i - 1) \div (BitsPerByte - 1) + 1], ((i - 1) % (BitsPerByte - 1)) + 1)]

\* The loops of Bitfield::copy_from, over the bytes and over the bits of each.
Bits(bytes) ==
    [i \in 1 .. Len(bytes) * BitsPerByte |->
        Bit(bytes[(i - 1) \div BitsPerByte + 1], ((i - 1) % BitsPerByte) + 1)]

CopyBehind(data, bytes) == data \o Bits(bytes)    \* mutant: data_ is not cleared

\* Bitfield::copy_from: what data_ was is forgotten.
CopyFrom(data, bytes) == Bits(bytes)

\* Bitfield::get
Get(data, index) == index < Len(data) /\ data[index + 1]

\* The start of Piece::accept: what the payload of a Piece message says.
BlockIn(payload) ==
    [piece |-> ntohl[Load(SubSeq(payload, 1, WordBytes))],
     block |-> ntohl[Load(SubSeq(payload, WordBytes + 1, 2 * WordBytes))] \div BLOCK_SIZE,
     data |-> From(payload, 2 * WordBytes + 1)]

----------------------------------------------------------------------------
(* The remote: its messages by the protocol's definition and not by the    *)
(* code's, its handshake by the code's.                                    *)

FieldOf(set) ==
    [k \in 1 .. FieldSize |->
        Numeral([j \in 1 .. BitsPerByte |-> IF (k - 1) * BitsPerByte + j - 1 \in set THEN 1 ELSE 0], 2)]

DataOf(i, from, length) == [k \in 1 .. length |-> contents[i * piece_size + from + k - 1]]

Body(m) ==
    <<m.type>> \o
    CASE m.type = Bitfield -> FieldOf(m.pieces)
      [] m.type = Piece -> BigEndian(m.piece) \o BigEndian(m.offset) \o m.data
      [] OTHER -> <<>>

Packet(body) == BigEndian(Len(body)) \o body

\* The message that a body is.
Understood(body) ==
    IF body[1] = Request
    THEN [type |-> Request,
          piece |-> Numeral(SubSeq(body, 2, WordBytes + 1), Base),
          offset |-> Numeral(SubSeq(body, WordBytes + 2, 2 * WordBytes + 1), Base),
          length |-> Numeral(SubSeq(body, 2 * WordBytes + 2, 3 * WordBytes + 1), Base)]
    ELSE [type |-> body[1]]

RemoteUnchanged == UNCHANGED <<remote, said, asked>>
PeerUnchanged == UNCHANGED <<peer, heard, requested>>

\* The connection is lost, the remote gone.
Open == ~remote.cut

RemoteGreets ==
    /\ Open /\ ~remote.greeted
    /\ remote' = [remote EXCEPT !.greeted = TRUE]
    /\ inbound' = inbound \o Serialise(RemoteId)
    /\ PeerUnchanged /\ UNCHANGED <<outbound, said, asked>>

Says(m) ==
    /\ Open /\ remote.greeted
    /\ said' = Append(said, m)
    /\ inbound' = inbound \o Packet(Body(m))
    /\ PeerUnchanged /\ UNCHANGED <<remote, outbound, asked>>

Blocks == {k \in DOMAIN said : said[k].type = Piece}

RemoteTalks ==
    /\ Len(said) - Cardinality(Blocks) < MaxSaid
    /\ \E type \in Control \ {None} : Says([type |-> type])

RemoteHas ==
    /\ Len(said) - Cardinality(Blocks) < MaxSaid
    /\ \E set \in Bitfields : Says([type |-> Bitfield, pieces |-> set])

\* A message of length zero; None in Control stands for it.
RemoteKeepsAlive ==
    /\ None \in Control
    /\ Open /\ remote.greeted /\ remote.keepalives < 1
    /\ remote' = [remote EXCEPT !.keepalives = @ + 1]
    /\ inbound' = inbound \o Packet(<<>>)
    /\ PeerUnchanged /\ UNCHANGED <<outbound, said, asked>>

\* The remote reads the peer's handshake, then its messages.
RemoteHears ==
    /\ Open
    /\ IF ~remote.met
       THEN /\ Len(outbound) >= HandshakeSize
            /\ remote' = [remote EXCEPT !.met = TRUE]
            /\ outbound' = From(outbound, HandshakeSize + 1)
            /\ UNCHANGED asked
       ELSE LET size == WordBytes + Numeral(SubSeq(outbound, 1, WordBytes), Base)
            IN  /\ Len(outbound) >= WordBytes /\ Len(outbound) >= size
                /\ asked' = Append(asked, Understood(SubSeq(outbound, WordBytes + 1, size)))
                /\ outbound' = From(outbound, size + 1)
                /\ UNCHANGED remote
    /\ PeerUnchanged /\ UNCHANGED <<inbound, said>>

\* It answers a request that it has not answered yet.
RemoteAnswers ==
    \E k \in DOMAIN asked :
        LET r == asked[k]
        IN  /\ r.type = Request
            /\ \A j \in Blocks : <<said[j].piece, said[j].offset>> # <<r.piece, r.offset>>
            /\ Says([type |-> Piece, piece |-> r.piece, offset |-> r.offset,
                     data |-> DataOf(r.piece, r.offset, r.length)])

\* The connection is lost; some of what was on its way still arrives.
Cut ==
    /\ Open
    /\ remote' = [remote EXCEPT !.cut = TRUE]
    /\ \E n \in 0 .. Len(inbound) : inbound' = SubSeq(inbound, 1, n)
    /\ PeerUnchanged /\ UNCHANGED <<outbound, said, asked>>

----------------------------------------------------------------------------
(* The peer.  async_read completes when recv_buffer_ is full.              *)

Init ==
    /\ peer = [at |-> "next", want |-> HandshakeSize, choked |-> TRUE, available |-> <<>>,
               remote_id |-> None, blocks |-> [r \in Pieces \X BlockIdx |-> None]]
    /\ remote = [greeted |-> FALSE, met |-> FALSE, cut |-> FALSE, keepalives |-> 0]
    /\ inbound = <<>>
    /\ outbound = Serialise(peer_id)
    /\ said = <<>> /\ heard = <<>> /\ requested = <<>> /\ asked = <<>>

Full(handler) == peer.at = handler /\ Len(inbound) >= peer.want
Buffer == SubSeq(inbound, 1, peer.want)
Consumed == inbound' = From(inbound, peer.want + 1)

\* async_next: the handshake was read; the peer says it is interested.
AsyncNext ==
    /\ Full("next") /\ Consumed
    /\ peer' = [peer EXCEPT !.remote_id = ParseHandshake(Buffer).id,
                            !.at = "read_len", !.want = WordBytes]
    /\ outbound' = outbound \o Serialize(Interested, <<>>)
    /\ requested' = Append(requested, [type |-> Interested])
    /\ RemoteUnchanged /\ UNCHANGED heard

AsyncReadLenHostOrder ==    \* mutant: ntohl is missing
    LET len == Load(Buffer)
    IN  /\ Full("read_len") /\ Consumed
        /\ peer' = IF len = 0 THEN peer
                   ELSE [peer EXCEPT !.at = "handle_message", !.want = len]
        /\ RemoteUnchanged /\ UNCHANGED <<outbound, heard, requested>>

\* async_read_len: zero means keepalive.
AsyncReadLen ==
    LET len == ntohl[Load(Buffer)]
    IN  /\ Full("read_len") /\ Consumed
        /\ peer' = IF len = 0 THEN peer
                   ELSE [peer EXCEPT !.at = "handle_message", !.want = len]
        /\ RemoteUnchanged /\ UNCHANGED <<outbound, heard, requested>>

\* A read fails when the connection is lost before the buffer is full.
ReadFails ==
    /\ peer.at # "stopped" /\ remote.cut /\ Len(inbound) < peer.want
    /\ peer' = [peer EXCEPT !.at = "stopped"]
    /\ RemoteUnchanged /\ UNCHANGED <<inbound, outbound, heard, requested>>

\* What a message says, for the record.
Meaning(type, payload) ==
    CASE type = Bitfield -> [type |-> Bitfield,
                             pieces |-> {i \in Pieces : Get(Bits(payload), i)}]
      [] type = Piece -> [type |-> Piece, piece |-> BlockIn(payload).piece,
                          offset |-> BlockIn(payload).block * BLOCK_SIZE,
                          data |-> BlockIn(payload).data]
      [] OTHER -> [type |-> type]

\* accept(), of the piece in work: any that was requested.
Accept(blocks, m) ==
    LET r == <<m.piece, m.block>>
    IN  IF /\ r \in DOMAIN blocks /\ blocks[r] = None /\ Len(m.data) <= BLOCK_SIZE
           /\ \E k \in DOMAIN requested : requested[k].type = Request /\ requested[k].piece = m.piece
        THEN [blocks EXCEPT ![r] = m.data] ELSE blocks

\* What a request asks for, for the record.
Asking(r) == [type |-> Request, piece |-> r[1], offset |-> r[2] * BLOCK_SIZE,
              length |-> BlockLength(r[2])]

\* The blocks that async_download may request next.
Requested == {<<requested[k].piece, requested[k].offset>> :
                 k \in {k \in DOMAIN requested : requested[k].type = Request}}
Requests(w) ==
    {r \in Pieces \X BlockIdx :
        /\ ~w.choked /\ Get(w.available, r[1])
        /\ <<r[1], r[2] * BLOCK_SIZE>> \notin Requested
        /\ Cardinality(Requested) < MaxRequests}

\* What async_handle_message makes of the peer before it calls async_download.
Handled(type, payload) ==
    [peer EXCEPT
        !.at = "read_len", !.want = WordBytes,
        !.choked = IF type = Choke THEN TRUE ELSE IF type = Unchoke THEN FALSE ELSE @,
        !.available = IF type = Bitfield THEN CopyFrom(@, payload) ELSE @,
        !.blocks = IF type = Piece THEN Accept(@, BlockIn(payload)) ELSE @]

\* async_handle_message: a message of unknown type ends the reads.
AsyncHandleMessage ==
    /\ Full("handle_message") /\ Consumed
    /\ LET type == Buffer[1]
           payload == From(Buffer, 2)
       IN  IF ~IsKnown(type)
           THEN peer' = [peer EXCEPT !.at = "stopped"] /\ UNCHANGED <<outbound, heard, requested>>
           ELSE /\ heard' = Append(heard, Meaning(type, payload))
                /\ peer' = Handled(type, payload)
                /\ \/ UNCHANGED <<requested, outbound>>
                   \/ \E r \in Requests(peer') :
                         /\ requested' = Append(requested, Asking(r))
                         /\ outbound' = outbound \o RequestBlock(r[1], r[2])
    /\ RemoteUnchanged

Runs == AsyncNext \/ AsyncReadLen \/ AsyncHandleMessage \/ ReadFails

RemoteRuns ==
    \/ RemoteGreets \/ RemoteTalks \/ RemoteHas \/ RemoteKeepsAlive
    \/ RemoteHears \/ RemoteAnswers \/ Cut

Next == Runs \/ RemoteRuns

Spec == Init /\ [][Next]_vars

\* io.run() runs every handler that is ready.
FairSpec == Spec /\ WF_vars(Runs)

----------------------------------------------------------------------------
(* Properties.                                                             *)

TypeOK ==
    /\ peer.at \in {"next", "read_len", "handle_message", "stopped"}
    /\ peer.want \in Nat /\ peer.choked \in BOOLEAN
    /\ peer.available \in Seq(BOOLEAN) /\ Len(peer.available) % BitsPerByte = 0
    /\ \A r \in Pieces \X BlockIdx : peer.blocks[r] = None \/ peer.blocks[r] \in Seq(Byte)
    /\ inbound \in Seq(Byte) /\ outbound \in Seq(Byte)

\* The peer hears what the remote says and the remote what the peer requests,
\* in order and unchanged, although both write bytes and read buffers of a size
\* that the bytes before announced (handshakes, keepalives, messages).
Remote == INSTANCE Conversation
HearsTheRemote == Remote!Spec

Own == INSTANCE Conversation WITH said <- requested, heard <- asked
IsUnderstood == Own!Spec

\* The peer knows who it talks to: the id is found behind fields of other
\* lengths, and its own bytes, white space or not, are all kept.
KnowsRemote == peer.remote_id \in {None, RemoteId}

\* A piece is available (Bitfield::get) when the last bitfield that was said and
\* heard has it; a bitfield replaces the one before it, and nothing is available
\* beyond the last piece, where the bits are spare.
AvailableAsSaid ==
    LET fields == {k \in DOMAIN said : k <= Len(heard) /\ said[k].type = Bitfield}
        last == CHOOSE k \in fields : \A j \in fields : j <= k
        has == IF fields = {} THEN {} ELSE said[last].pieces
    IN  \A i \in 0 .. Len(peer.available) : Get(peer.available, i) <=> i \in has

\* The data accepted for a block is the torrent's at the block's place: all of
\* the block and nothing behind it, also of the last one of a piece.
BlocksHoldTorrent ==
    \A i \in Pieces, b \in BlockIdx :
        peer.blocks[<<i, b>>] \in {None, DataOf(i, b * BLOCK_SIZE, BlockLength(b))}

\* All that the remote says is heard, as long as the connection lasts and
\* nothing of unknown type ended the reads: no read waits for bytes that do not
\* come, because the length before it announced too many.
EverythingHeard == []<>(Len(heard) = Len(said) \/ peer.at = "stopped")
=============================================================================
