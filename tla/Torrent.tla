------------------------------ MODULE Torrent ------------------------------
(***************************************************************************)
(* Where the bytes go: the geometry of the torrent, from the length in its *)
(* metadata to the offsets in the file (torrent.hpp, torrent.cpp, and the  *)
(* requests of message.hpp).  Integers of the code are 32 bits wide, here  *)
(* modulo Word.  A byte of the torrent is its position, so that the file   *)
(* is right where file[k] = k.                                             *)
(*                                                                         *)
(* A piece is downloaded by a remote that answers every request with the   *)
(* bytes asked for, in any order; module Swarm says who downloads it when, *)
(* and what becomes of other answers.                                      *)
(***************************************************************************)
EXTENDS Naturals, FiniteSets

CONSTANTS Word,        \* 2^32
          BLOCK_SIZE,
          Torrents,    \* the "length" and "piece length" of metadata
          None         \* a byte not written yet; no piece

ASSUME TorrentAssumption ==
    /\ Word \in Nat \ {0} /\ BLOCK_SIZE \in Nat \ {0}
    /\ Torrents \subseteq [length: Nat, piece_length: 1 .. Word - 1]
    /\ None \notin Nat

VARIABLES tor,        \* the torrent
          missing,    \* pieces not written to the file
          current,    \* the piece in work, or None
          filled,     \* its blocks that were answered
          copied,     \* the blocks finalize() copied
          ptr, data,  \* its pointer into the buffer, and the buffer
          file        \* the bytes written to the file

vars == <<tor, missing, current, filled, copied, ptr, data, file>>

\* file_length_ is the metadata's integer in 32 bits.
file_length(t) == t.length % Word
piece_size(t) == t.piece_length

pieces(t) == file_length(t) \div piece_size(t)
PieceIdx(t) == 0 .. pieces(t) - 1

block_count(t) ==
    IF piece_size(t) % BLOCK_SIZE = 0 THEN piece_size(t) \div BLOCK_SIZE
    ELSE piece_size(t) \div BLOCK_SIZE + 1
BlockIdx(t) == 0 .. block_count(t) - 1

\* next_block: the offset of a block; Message::request: how much is asked for.
BlockOffset(b) == (b * BLOCK_SIZE) % Word

FullBlock(t, b) == BLOCK_SIZE    \* mutant: the last block is not cut to size
RequestLength(t, b) ==
    LET rest == piece_size(t) - BlockOffset(b)
    IN  IF rest < BLOCK_SIZE THEN rest ELSE BLOCK_SIZE

\* CompletePiece::offset, where the monitor seeks to.
OffsetFromOne(t, p) == ((p + 1) * piece_size(t)) % Word    \* mutant
PieceOffset(t, p) == (p * piece_size(t)) % Word

\* The byte that the remote sends as the j-th of block b.
ByteOf(t, p, b, j) == p * piece_size(t) + BlockOffset(b) + j

\* The places that the copied blocks can reach, beyond the buffer or not.
Reach(t) == 0 .. (block_count(t) + 1) * BLOCK_SIZE
NewBuffer(t) == [k \in Reach(t) |-> None]

Init ==
    /\ tor \in Torrents
    /\ missing = PieceIdx(tor)
    /\ current = None
    /\ filled = {} /\ copied = 0 /\ ptr = 0
    /\ data = NewBuffer(tor)
    /\ file = [k \in 0 .. Word - 1 |-> None]

\* A peer takes a piece from the queue, which was filled with all of them.
TakePiece ==
    /\ current = None
    /\ current' \in missing
    /\ filled' = {} /\ copied' = 0 /\ ptr' = 0
    /\ data' = NewBuffer(tor)
    /\ UNCHANGED <<tor, missing, file>>

\* accept(): the answer to the request for a block.
AcceptBlock ==
    /\ current # None
    /\ \E b \in BlockIdx(tor) \ filled : filled' = filled \cup {b}
    /\ UNCHANGED <<tor, missing, current, copied, ptr, data, file>>

\* One turn of the loop in finalize(), which runs once all blocks are filled.
CopyBlock ==
    LET len == RequestLength(tor, copied)
    IN  /\ current # None /\ filled = BlockIdx(tor) /\ copied < block_count(tor)
        /\ data' = [k \in Reach(tor) |->
                       IF ptr <= k /\ k < ptr + len
                       THEN ByteOf(tor, current, copied, k - ptr) ELSE data[k]]
        /\ ptr' = ptr + len
        /\ copied' = copied + 1
        /\ UNCHANGED <<tor, missing, current, filled, file>>

WritePieceAndKeep ==    \* mutant: the piece stays in work
    LET offset == PieceOffset(tor, current)
    IN  /\ current # None /\ copied = block_count(tor)
        /\ file' = [k \in 0 .. Word - 1 |->
                       IF offset <= k /\ k < offset + piece_size(tor)
                       THEN data[k - offset] ELSE file[k]]
        /\ missing' = missing \ {current}
        /\ UNCHANGED <<tor, current, filled, copied, ptr, data>>

\* The monitor writes the buffer at the piece's offset.
WritePiece ==
    LET offset == PieceOffset(tor, current)
    IN  /\ current # None /\ copied = block_count(tor)
        /\ file' = [k \in 0 .. Word - 1 |->
                       IF offset <= k /\ k < offset + piece_size(tor)
                       THEN data[k - offset] ELSE file[k]]
        /\ missing' = missing \ {current}
        /\ current' = None
        /\ UNCHANGED <<tor, filled, copied, ptr, data>>

Complete == missing = {} /\ UNCHANGED vars

Next == TakePiece \/ AcceptBlock \/ CopyBlock \/ WritePiece \/ Complete

Spec == Init /\ [][Next]_vars

----------------------------------------------------------------------------
(* Properties.                                                             *)

TypeOK ==
    /\ tor \in Torrents
    /\ missing \subseteq PieceIdx(tor)
    /\ current \in missing \cup {None}
    /\ filled \subseteq BlockIdx(tor)
    /\ copied \in 0 .. block_count(tor)
    /\ ptr \in Nat
    /\ data \in [Reach(tor) -> Nat \cup {None}]
    /\ file \in [0 .. Word - 1 -> Nat \cup {None}]

\* finalize() stays inside its buffer of piece_size_ bytes while it copies, and
\* has filled all of it at the end: the requests for the blocks cover the piece
\* without gap or overlap, the last one too when BLOCK_SIZE does not divide it.
BufferExactlyFilled ==
    /\ ptr <= piece_size(tor)
    /\ copied = block_count(tor) => ptr = piece_size(tor)

\* Every byte in the file is the torrent's byte of that position: neither the
\* offsets of blocks and pieces nor their 32 bit products put it elsewhere.
FileInPlace == \A k \in 0 .. Word - 1 : file[k] \in {None, k}

\* When no piece is missing, the bytes of all whole pieces have been written.
WholePiecesWritten ==
    missing = {} => \A k \in 0 .. pieces(tor) * piece_size(tor) - 1 : file[k] = k

\* "work_queue initially contains every piece": when no piece is missing, the
\* file is complete.
FileIsComplete ==
    missing = {} => \A k \in 0 .. tor.length - 1 : k < Word /\ file[k] = k
=============================================================================
