-------------------------------- MODULE Swarm --------------------------------
(***************************************************************************)
(* start_run_connections: the connections and the monitor thread around    *)
(* the two queues, from the moment io.run() is called until the process    *)
(* leaves the part of its life that the code defines.                      *)
(*                                                                         *)
(*   "freed"       the monitor thread has returned, and with it went the   *)
(*                 vector of peers that its closure owned; a handler that  *)
(*                 runs after that uses a destroyed Peer                   *)
(*   "terminated"  io.run() has returned first, and the destructor of the  *)
(*                 monitor's std::thread, never joined, ends the process   *)
(***************************************************************************)
EXTENDS Peer, Monitor

VARIABLE phase

vars == <<peers, work_queue, result_queue, missing_pieces, watched, file,
          bytes_downloaded, phase>>

Init ==
    /\ QueuesInit
    /\ PeerInit
    /\ MonitorInit
    /\ phase = "running"

PeersRun ==
    /\ phase = "running"
    /\ \E p \in Peers : PeerStep(p)
    /\ UNCHANGED <<monitorVars, phase>>

MonitorRuns ==
    /\ phase = "running"
    /\ MonitorVisit
    /\ UNCHANGED <<peers, phase>>

\* The loop of monitor_thread ends; the thread's closure is destroyed.
MonitorReturns ==
    /\ phase = "running"
    /\ complete
    /\ phase' = "freed"
    /\ UNCHANGED <<peers, work_queue, result_queue, monitorVars>>

\* io.run() returns when no operation and no timer is left.
Quiet(self) ==
    /\ self.chain = "stopped"
    /\ self.watch = NoTimers
    /\ self.stale = NoTimers
    /\ self.failing = NoTimers

IoRunReturns ==
    /\ phase = "running"
    /\ \A p \in Peers : Quiet(peers[p])
    /\ phase' = "terminated"
    /\ UNCHANGED <<peers, work_queue, result_queue, monitorVars>>

\* The model goes no further.
Ended == phase # "running" /\ UNCHANGED vars

Next == PeersRun \/ MonitorRuns \/ MonitorReturns \/ IoRunReturns \/ Ended

Spec == Init /\ [][Next]_vars

(***************************************************************************)
(* Fairness.  Closing a socket completes the operation it has outstanding, *)
(* timers expire, io.run() runs every handler that is ready, and the loop  *)
(* of the monitor never rests: those steps are taken eventually.  Nothing  *)
(* is assumed of the remotes or of the network.                            *)
(***************************************************************************)
Handler(action) == phase = "running" /\ action /\ UNCHANGED <<monitorVars, phase>>

ClosedPeerRuns(p) ==
    Handler(peers[p].closed /\ (OperationFailed(p) \/ BodyFailed(p)))

TimerExpires(p, b) == Handler(BlockTimeout(p, b))

FairSpec ==
    /\ Spec
    /\ WF_vars(MonitorRuns)
    /\ \A p \in Peers : WF_vars(ClosedPeerRuns(p))
    /\ \A p \in Peers, b \in BlockIdx : WF_vars(TimerExpires(p, b))

----------------------------------------------------------------------------
(* Safety.                                                                 *)

\* Every variable keeps its type.
TypeOK ==
    /\ QueuesTypeOK
    /\ MonitorTypeOK
    /\ peers \in [Peers -> PeerState]
    /\ phase \in {"running", "freed", "terminated"}

Queued == ToSet(work_queue)
Held(p) == {peers[p].piece} \ {None}
InHands == UNION {Held(p) : p \in Peers}
Done == Reported(result_queue) \cup (Pieces \ missing_pieces)

\* Whatever peers, timers, failures and the monitor do, a piece is never lost
\* and never downloaded by two peers: it is in work_queue once, or in the
\* hands of one peer, or reported once and done (async_download,
\* release_piece, handle_piece, the monitor's visit).
PieceConservation ==
    /\ Pieces = Queued \cup InHands \cup Done
    /\ IsInjective(work_queue)
    /\ \A p \in Peers : Held(p) \cap (Queued \cup Done) = {}
    /\ \A p, q \in Peers : p # q => Held(p) \cap Held(q) = {}
    /\ Queued \cap Done = {}
    /\ Reported(result_queue) \subseteq missing_pieces
    /\ ReportedOnce(result_queue)

\* While a peer is being read, blocks_ holds exactly the blocks of its piece
\* that are reserved, never more than PIPELINE_LIMIT of them: no answer,
\* write failure or timer leaves a block reserved that nobody asked for.
RequestsAccounted ==
    \A p \in Peers :
        LET self == peers[p]
        IN  /\ Cardinality(self.requested \cup self.orphans) <= PIPELINE_LIMIT
            /\ ~self.closed /\ self.chain \in Reading =>
                 /\ self.requested = {b \in BlockIdx : self.block[b] = "reserved"}
                 /\ self.orphans = {}

\* A connection that could download is never stuck in silence: if it has a
\* piece, is not choked and knows what the remote has, a block timer is
\* running that will drop it should nothing more arrive (async_download).
NoSilentStall ==
    \A p \in Peers :
        LET self == peers[p]
        IN  /\ ~self.closed /\ self.chain = "read_len"
            /\ ~self.choked /\ self.available # None /\ self.piece # None
            => \E b \in BlockIdx : self.watch[b] > 0

\* A piece that a dropped peer has in its hands is on its way back: the only
\* operation left to that peer is a read that is bound to fail, and its
\* handler releases the piece (async_download after close, async_read_len).
ClosedPeerReturnsPiece ==
    \A p \in Peers :
        peers[p].closed /\ peers[p].piece # None
            => peers[p].chain = "read_len" /\ peers[p].doomed

\* The last result about p that the monitor has not visited decides what it
\* will believe, and if there is none what it believes now.
Believed(p) ==
    LET news == {k \in DOMAIN result_queue :
                    result_queue[k].type # "PieceComplete" /\ result_queue[k].addr = p}
    IN  IF news = {} THEN p \in watched
        ELSE result_queue[Max(news)].type = "PeerConnected"

\* When it has caught up, the monitor counts the peers whose handshake was
\* read and whose socket is open, however often a peer is closed.
MonitorView ==
    \A p \in Peers :
        Believed(p) <=> ~peers[p].closed /\ peers[p].chain \in Reading \cup {"stopped"}

\* Every piece the monitor no longer misses is in the file once, with the
\* bytes that the torrent hashes, and was counted once.
FileHoldsVerifiedPieces ==
    /\ \A i \in Pieces : file[i] = IF i \in missing_pieces THEN "zeroes" ELSE "intact"
    /\ bytes_downloaded = Cardinality(Pieces \ missing_pieces)

\* When the monitor thread frees the peers nothing is left to download, and
\* no peer is still working on a piece.
FreedWhenIdle ==
    phase = "freed" =>
        /\ \A i \in Pieces : file[i] = "intact"
        /\ work_queue = <<>>
        /\ \A p \in Peers : peers[p].piece = None

\* A peer that was dropped reports no piece any more, though its handlers go
\* on running for a while.
ClosedPeerDeliversNothing ==
    [][\A p \in Peers : peers[p].closed /\ peers'[p] # peers[p]
            => Reported(result_queue') \subseteq Reported(result_queue)]_vars

----------------------------------------------------------------------------
(* Liveness, under FairSpec.                                               *)

\* A dropped peer comes to rest with nothing in its hands: its chain of
\* handlers ends and the piece it may have taken meanwhile is given back.
ClosedPeerRetires ==
    \A p \in Peers :
        peers[p].closed ~> \/ peers[p].chain = "stopped" /\ peers[p].piece = None
                           \/ phase = "freed"

\* The remote keeps the peer from downloading piece i: it chokes the peer, does
\* not have the piece, or ended the reads with a message of unknown type or in
\* the middle of one.
Starved(p, i) ==
    \/ peers[p].choked
    \/ peers[p].available = None \/ i \notin peers[p].available
    \/ peers[p].chain = "stopped" /\ ~peers[p].closed

\* A piece does not stay with a peer for ever, unless the remote starves the
\* peer for good or again and again: the piece is completed, or a timer drops
\* the peer, whatever answers, late, wrong or repeated, the remote sends.
HeldPieceMovesOn ==
    \A p \in Peers, i \in Pieces :
        peers[p].piece = i ~> peers[p].piece # i \/ Starved(p, i)

----------------------------------------------------------------------------
(* The pool of pieces.                                                     *)

Pool == INSTANCE WorkPool WITH
            queued <- Queued,
            held <- [p \in Peers |-> peers[p].piece],
            done <- Done

\* The two queues and the peers implement the pool of pieces.
ImplementsWorkPool == Pool!Spec

----------------------------------------------------------------------------
(* What comments and log messages say and the code does not do.            *)

\* "dropping peer" (peer.cpp), "give up on this peer" (peer.cpp): a peer that
\* was dropped has no piece of the download in its hands.
DroppedPeerHoldsNothing ==
    \A p \in Peers : peers[p].closed => peers[p].piece = None

\* "-> read_message -> read_len -> handle_message -> read_message -> ..."
\* (peer.hpp): a connection that is open goes on reading messages.
OpenPeerKeepsReading ==
    \A p \in Peers : peers[p].chain = "stopped" => peers[p].closed
=============================================================================
