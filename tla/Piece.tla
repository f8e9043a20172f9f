------------------------------- MODULE Piece -------------------------------
(***************************************************************************)
(* One piece while a peer downloads it (Piece and Block, torrent.hpp).     *)
(* The code keeps a vector of blocks that grows by one each time a block   *)
(* is started; here a piece is a function from every block index to the    *)
(* state of that block:                                                    *)
(*                                                                         *)
(*   "unstarted"     not in the vector yet                                 *)
(*   "idle"          in the vector, neither filled nor reserved            *)
(*   "reserved"      in the vector, reserved, not filled                   *)
(*   "good", "bad"   filled, with the bytes the torrent hashes or others   *)
(*                                                                         *)
(* A filled block is never requested again, so its reserved flag is not    *)
(* kept.  The operators are pure: module Peer says when they are applied.  *)
(***************************************************************************)
EXTENDS Naturals, FiniteSets

CONSTANTS BlockCount,   \* block_count(): blocks in a piece
          NumPieces     \* pieces(): pieces of the torrent

ASSUME BlockCountAssumption == BlockCount \in Nat \ {0}
ASSUME NumPiecesAssumption == NumPieces \in Nat

Pieces == 0 .. NumPieces - 1
BlockIdx == 0 .. BlockCount - 1

FilledState == {"good", "bad"}
BlockState == {"unstarted", "idle", "reserved"} \cup FilledState

\* A Piece that was just constructed: no block has been started.
Fresh == [b \in BlockIdx |-> "unstarted"]

\* is_complete(): every block is in the vector and filled.
IsComplete(block) == \A b \in BlockIdx : block[b] \in FilledState

\* final_piece.hash() equals the hash in the torrent.
Intact(block) == \A b \in BlockIdx : block[b] = "good"

\* The blocks next_block() may return, and the order in which it returns
\* them: blocks not started first, and each kind by rising index.
Candidates(block) == {b \in BlockIdx : block[b] \in {"unstarted", "idle"}}

Precedes(block, b, c) ==
    \/ block[b] = block[c] /\ b < c
    \/ block[b] = "unstarted" /\ block[c] = "idle"

\* A Piece message.  "block" is the index computed from its offset, which is
\* BlockCount when it lies beyond the piece; "size" is "long" when data_len
\* exceeds BLOCK_SIZE, as it also does when the payload is shorter than its
\* own eight byte prefix and the unsigned subtraction wraps.
PieceMessage == [type: {"Piece"}, piece: Pieces, block: 0 .. BlockCount,
                 data: FilledState, size: {"fits", "long"}]

\* accept() and fill(): the status that the code returns, tests in its order.
Accept(piece, block, m) ==
    IF m.size = "long" THEN "TooMuchData"
    ELSE IF m.piece # piece THEN "WrongPiece"
    ELSE IF m.block \notin BlockIdx \/ block[m.block] = "unstarted" THEN "WrongOffset"
    ELSE IF block[m.block] \in FilledState THEN "AlreadyFilled"
    ELSE "Ok"
=============================================================================
