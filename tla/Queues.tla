------------------------------- MODULE Queues -------------------------------
(***************************************************************************)
(* What the two threads share: the queues of TorrentContext.  Both are     *)
(* boost::lockfree::queue objects that grow on demand, so a push always    *)
(* succeeds and a pop fails only on an empty queue; each is one atomic     *)
(* step of a first-in first-out sequence.                                  *)
(*                                                                         *)
(*   work_queue     indices of the pieces nobody is downloading            *)
(*   result_queue   what the peers report to the monitor thread            *)
(***************************************************************************)
EXTENDS Piece, Sequences, SequencesExt

CONSTANTS Peers,        \* the addresses in the tracker's response
          None          \* an empty optional, or a Bitfield of size zero

ASSUME NoneAssumption == None \notin Pieces

VARIABLES work_queue, result_queue

ResultPieceComplete(i, intact) == [type |-> "PieceComplete", piece |-> i, intact |-> intact]
ResultPeerConnected(p) == [type |-> "PeerConnected", addr |-> p]
ResultPeerDropped(p) == [type |-> "PeerDropped", addr |-> p]

Result == [type: {"PieceComplete"}, piece: Pieces, intact: BOOLEAN]
          \cup [type: {"PeerConnected", "PeerDropped"}, addr: Peers]

InitialWorkFromOne == [k \in 1 .. NumPieces |-> k]    \* mutant: counts from one

\* start_run_connections: work_queue initially contains every piece.
InitialWork == [k \in 1 .. NumPieces |-> k - 1]

QueuesInit ==
    /\ work_queue = InitialWork
    /\ result_queue = <<>>

QueuesTypeOK ==
    /\ work_queue \in Seq(Pieces)
    /\ result_queue \in Seq(Result)

\* The positions of a queue of results that report a piece, and the pieces.
Completions(results) == {k \in DOMAIN results : results[k].type = "PieceComplete"}
Reported(results) == {results[k].piece : k \in Completions(results)}
ReportedOnce(results) ==
    \A j, k \in Completions(results) : results[j].piece = results[k].piece => j = k
=============================================================================
