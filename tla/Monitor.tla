------------------------------- MODULE Monitor -------------------------------
(***************************************************************************)
(* The monitor thread (monitor_thread and MonitorVisitor): it takes one    *)
(* result at a time from result_queue, writes finished pieces to the file  *)
(* and keeps count of pieces, bytes and connected peers.  It runs beside   *)
(* the thread of the handlers; its pop and the visit that follows touch    *)
(* nothing else that is shared, so they are one step.                      *)
(***************************************************************************)
EXTENDS Queues

VARIABLES missing_pieces,    \* missing_pieces_
          watched,           \* peers_, the peers it believes connected
          file,              \* what the file holds at each piece's offset
          bytes_downloaded   \* bytes_downloaded_, in units of a piece

monitorVars == <<missing_pieces, watched, file, bytes_downloaded>>

FileState == {"zeroes", "intact", "corrupt"}

\* The constructor fills the file with zeroes.
MonitorInit ==
    /\ missing_pieces = Pieces
    /\ watched = {}
    /\ file = [i \in Pieces |-> "zeroes"]
    /\ bytes_downloaded = 0

MonitorTypeOK ==
    /\ missing_pieces \subseteq Pieces
    /\ watched \subseteq Peers
    /\ file \in [Pieces -> FileState]
    /\ bytes_downloaded \in Nat

completeWhenQueueEmpty == work_queue = <<>>    \* mutant: looks at the wrong queue

complete == missing_pieces = {}

\* operator()(ResultPieceComplete)
VisitPieceComplete(result) ==
    /\ result.type = "PieceComplete"
    /\ file' = [file EXCEPT ![result.piece] = IF result.intact THEN "intact" ELSE "corrupt"]
    /\ missing_pieces' = missing_pieces \ {result.piece}
    /\ bytes_downloaded' = bytes_downloaded + 1
    /\ UNCHANGED watched

\* operator()(ResultPeerConnected), operator()(ResultPeerDropped)
VisitPeerConnected(result) ==
    /\ result.type = "PeerConnected"
    /\ watched' = watched \cup {result.addr}
    /\ UNCHANGED <<missing_pieces, file, bytes_downloaded>>

VisitPeerDroppedTooLate(result) ==    \* mutant: forgets a peer only when done
    /\ result.type = "PeerDropped"
    /\ watched' = IF complete THEN watched \ {result.addr} ELSE watched
    /\ UNCHANGED <<missing_pieces, file, bytes_downloaded>>

VisitPeerDropped(result) ==
    /\ result.type = "PeerDropped"
    /\ watched' = watched \ {result.addr}
    /\ UNCHANGED <<missing_pieces, file, bytes_downloaded>>

\* One round of the loop of monitor_thread.
MonitorVisit ==
    /\ ~complete
    /\ result_queue # <<>>
    /\ result_queue' = Tail(result_queue)
    /\ UNCHANGED work_queue
    /\ \/ VisitPieceComplete(Head(result_queue))
       \/ VisitPeerConnected(Head(result_queue))
       \/ VisitPeerDropped(Head(result_queue))
=============================================================================
