-------------------------------- MODULE Peer --------------------------------
(***************************************************************************)
(* The connections (class Peer).  All handlers of all connections run on   *)
(* the thread that called io.run(), one at a time, so a handler with every *)
(* call it makes is one step; between two steps anything may happen: the   *)
(* remote sends another message, a block timer expires, a write fails, the *)
(* monitor thread takes a result.                                          *)
(*                                                                         *)
(* A handler is written as an operator on a "work record" w, the part of   *)
(* the state a handler of one connection can reach:                        *)
(*     w.self     the Peer object                                          *)
(*     w.work     work_queue                                               *)
(*     w.results  result_queue                                             *)
(* and its calls are applications of the operators of those functions.     *)
(***************************************************************************)
EXTENDS Queues

CONSTANTS PIPELINE_LIMIT,  \* requests a peer keeps in flight
          Messages,        \* messages a remote may send, see Message
          Faults,          \* what may go wrong, a subset of Fault
          MaxTimers,       \* bound: timers or failing writes pending per block
          MaxResults       \* bound: results the monitor has not taken yet

Fault == {"connect", "read", "body", "write", "timeout"}

\* Have stands for every known type that async_handle_message ignores.
Message == [type: {"Choke", "Unchoke", "Have", "Unknown"}]
           \cup [type: {"Bitfield"}, bits: (SUBSET Pieces) \cup {None}]
           \cup PieceMessage

ASSUME PeerAssumption ==
    /\ PIPELINE_LIMIT \in Nat \ {0}
    /\ Messages \subseteq Message
    /\ Faults \subseteq Fault
    /\ MaxTimers \in Nat
    /\ MaxResults \in Nat

VARIABLE peers

peerVars == <<peers, work_queue, result_queue>>

(***************************************************************************)
(* The state of a Peer object and of the operations it has outstanding:    *)
(*   chain      the operation whose completion handler runs next; the      *)
(*              chain of handlers has stopped when there is none           *)
(*   doomed     that operation was started on a closed socket              *)
(*   closed, choked, available, piece                                      *)
(*              closed_, choked_, available_pieces_ and piece_             *)
(*   block      the blocks of piece, Fresh while there is none             *)
(*   requested  keys of blocks_ whose Block belongs to piece               *)
(*   orphans    keys of blocks_ whose Block belongs to an earlier piece    *)
(*   watch      per unfilled block of piece, the timers that hold it       *)
(*   stale      the same for the blocks of pieces that were given back     *)
(*   failing    per block index, the requests whose write will fail        *)
(* A timer of a filled block does nothing and is dropped from the state.   *)
(***************************************************************************)
Chain == {"connect", "handshake_write", "handshake_read",
          "read_len", "read_body", "stopped"}
Reading == {"read_len", "read_body"}

PeerState ==
    [chain: Chain, doomed: BOOLEAN, closed: BOOLEAN, choked: BOOLEAN,
     available: (SUBSET Pieces) \cup {None}, piece: Pieces \cup {None},
     block: [BlockIdx -> BlockState], requested: SUBSET BlockIdx,
     orphans: SUBSET BlockIdx, watch: [BlockIdx -> Nat], stale: [BlockIdx -> Nat],
     failing: [BlockIdx -> Nat]]

NoTimers == [b \in BlockIdx |-> 0]

\* The constructor: the connection attempt is the first operation.
NewPeer ==
    [chain |-> "connect", doomed |-> FALSE, closed |-> FALSE, choked |-> TRUE,
     available |-> None, piece |-> None, block |-> Fresh, requested |-> {},
     orphans |-> {}, watch |-> NoTimers, stale |-> NoTimers, failing |-> NoTimers]

World == [self: PeerState, work: Seq(Pieces), results: Seq(Result)]

Enter(p) == [self |-> peers[p], work |-> work_queue, results |-> result_queue]

\* The bounds of the model, tested after each handler.  "stale" needs none: a
\* peer gives a piece with pending timers back at most three times.
WithinBounds(w) ==
    /\ \A b \in BlockIdx : w.self.watch[b] <= MaxTimers /\ w.self.failing[b] <= MaxTimers
    /\ Len(w.results) <= MaxResults

Leave(p, w) ==
    /\ WithinBounds(w)
    /\ peers' = [peers EXCEPT ![p] = w.self]
    /\ work_queue' = w.work
    /\ result_queue' = w.results

----------------------------------------------------------------------------
(* The functions that the handlers call.                                   *)

ForgetBlock(w, b) ==    \* mutant: erases the key and leaves the block reserved
    [w EXCEPT !.self.requested = @ \ {b}, !.self.orphans = @ \ {b}]

ReleaseUnfilled(w, b) ==    \* mutant: a key stays once its block is filled
    [w EXCEPT !.self.block = [c \in BlockIdx |->
                  IF c = b /\ c \in w.self.requested /\ @[c] = "reserved" THEN "idle" ELSE @[c]],
              !.self.requested = {c \in @ : c # b \/ w.self.block[c] \in FilledState},
              !.self.orphans = @ \ {b}]

\* release_block(): only a block found in blocks_ is given back.  A key left
\* over from an earlier piece releases that piece's block, which is gone.
ReleaseBlock(w, b) ==
    [w EXCEPT !.self.block = [c \in BlockIdx |->
                  IF c = b /\ c \in w.self.requested /\ @[c] = "reserved" THEN "idle" ELSE @[c]],
              !.self.requested = @ \ {b},
              !.self.orphans = @ \ {b}]

ReleasePieceNoReset(w) ==    \* mutant: pushes the piece and keeps it
    IF w.self.piece = None THEN w ELSE [w EXCEPT !.work = Append(@, w.self.piece)]

\* release_piece(): the piece goes to the tail of work_queue and piece_ is
\* reset; blocks_ and the timers keep the blocks they refer to.
ReleasePiece(w) ==
    IF w.self.piece = None THEN w
    ELSE [w EXCEPT !.work = Append(@, w.self.piece),
                   !.self.piece = None,
                   !.self.block = Fresh,
                   !.self.requested = {},
                   !.self.orphans = @ \cup w.self.requested,
                   !.self.watch = NoTimers,
                   !.self.stale = [b \in BlockIdx |-> @[b] + w.self.watch[b]]]

CloseUnreported(p, w) ==    \* mutant: the monitor is not told
    ReleasePiece([w EXCEPT !.self.closed = TRUE])

CloseKeepingPiece(p, w) ==    \* mutant: the piece is not released
    [w EXCEPT !.self.closed = TRUE, !.results = Append(@, ResultPeerDropped(p))]

\* close(): the peer is dropped, once for every call.
Close(p, w) ==
    LET released == ReleasePiece([w EXCEPT !.self.closed = TRUE])
    IN  [released EXCEPT !.results = Append(@, ResultPeerDropped(p))]

\* async_read_message(): the next read; on a closed socket it cannot succeed.
AsyncReadMessage(w) ==
    [w EXCEPT !.self.chain = "read_len", !.self.doomed = w.self.closed]

\* handle_piece(): the block is given back whatever accept() answers; a piece
\* that is complete is delivered if its hash matches, else the peer is closed.
Fill(w, m) ==
    IF Accept(w.self.piece, w.self.block, m) = "Ok"
    THEN [w EXCEPT !.self.block[m.block] = m.data, !.self.watch[m.block] = 0]
    ELSE w

DeliverKeepingPiece(w) ==    \* mutant: piece_ is not reset
    [w EXCEPT !.results = Append(@, ResultPieceComplete(w.self.piece, Intact(w.self.block)))]

Deliver(w) ==
    [w EXCEPT !.results = Append(@, ResultPieceComplete(w.self.piece, Intact(w.self.block))),
              !.self.piece = None,
              !.self.block = Fresh]

HandlePieceUnchecked(p, w, m) ==    \* mutant: the hash is not compared
    LET accepted == Accept(w.self.piece, w.self.block, m) = "Ok"
        filled == ReleaseBlock(Fill(w, m), m.block)
    IN  IF w.self.piece = None THEN w
        ELSE IF accepted /\ IsComplete(filled.self.block)
        THEN Deliver([filled EXCEPT !.self.requested = {}, !.self.orphans = {}])
        ELSE filled

HandlePiece(p, w, m) ==
    LET accepted == Accept(w.self.piece, w.self.block, m) = "Ok"
        filled == ReleaseBlock(Fill(w, m), m.block)
        cleared == [filled EXCEPT !.self.requested = {}, !.self.orphans = {}]
    IN  IF w.self.piece = None THEN w
        ELSE IF ~(accepted /\ IsComplete(filled.self.block)) THEN filled
        ELSE IF Intact(filled.self.block) THEN Deliver(cleared)
        ELSE Close(p, cleared)

AcquireOrDiscard(w) ==    \* mutant: an unavailable piece is not put back
    IF w.self.piece # None \/ w.work = <<>> THEN w
    ELSE IF Head(w.work) \in w.self.available
    THEN [w EXCEPT !.self.piece = Head(w.work), !.work = Tail(@)]
    ELSE [w EXCEPT !.work = Tail(@)]

\* The head of async_download()'s loop: with no piece in hand the peer pops
\* one, and puts it back at the tail if the remote does not have it.
Acquire(w) ==
    IF w.self.piece # None \/ w.work = <<>> THEN w
    ELSE IF Head(w.work) \in w.self.available
    THEN [w EXCEPT !.self.piece = Head(w.work), !.work = Tail(@)]
    ELSE [w EXCEPT !.work = Append(Tail(@), Head(@))]

\* The blocks that the loop requests before blocks_ is full or next_block()
\* has no more; a key already in blocks_ does not make it grow.
NextRequests(self) ==
    LET candidates == Candidates(self.block)
        before(b) == {c \in candidates : Precedes(self.block, c, b)}
    IN  {b \in candidates :
            Cardinality(self.requested \cup self.orphans \cup before(b)) < PIPELINE_LIMIT}

\* Reserve the blocks, start a timer for each and write its request; "lost"
\* are the requests whose write will fail, all of them on a closed socket.
Request(w, blocks, lost) ==
    LET fails == IF w.self.closed THEN blocks ELSE blocks \cap lost
        tick(f, S) == [b \in BlockIdx |-> IF b \in S THEN f[b] + 1 ELSE f[b]]
    IN  [w EXCEPT
           !.self.block = [b \in BlockIdx |-> IF b \in blocks THEN "reserved" ELSE @[b]],
           !.self.requested = @ \cup (blocks \ w.self.orphans),
           !.self.watch = tick(@, blocks),
           !.self.failing = tick(@, fails)]

\* async_download()
AsyncDownload(w, lost) ==
    LET acquired == Acquire(w)
        ready == /\ Cardinality(w.self.requested \cup w.self.orphans) < PIPELINE_LIMIT
                 /\ ~w.self.choked
                 /\ w.self.available # None
    IN  IF ~ready THEN w
        ELSE IF acquired.self.piece = None THEN acquired
        ELSE Request(acquired, NextRequests(acquired.self), lost)

----------------------------------------------------------------------------
(* The handlers.                                                           *)

\* async_handshake_write(), async_handshake_read(): one operation leads to
\* the next.
AsyncHandshakeWrite(p) ==
    /\ peers[p].chain = "connect"
    /\ peers' = [peers EXCEPT ![p].chain = "handshake_write"]
    /\ UNCHANGED <<work_queue, result_queue>>

AsyncHandshakeRead(p) ==
    /\ peers[p].chain = "handshake_write"
    /\ peers' = [peers EXCEPT ![p].chain = "handshake_read"]
    /\ UNCHANGED <<work_queue, result_queue>>

\* async_next(): the handshake was read; the peer is reported as connected.
AsyncNext(p) ==
    LET w == Enter(p)
    IN  /\ w.self.chain = "handshake_read"
        /\ Leave(p, AsyncReadMessage([w EXCEPT !.results = Append(@, ResultPeerConnected(p))]))

OperationFailedSilently(p) ==    \* mutant: returns at once if already closed
    LET w == Enter(p)
    IN  /\ w.self.chain \in Chain \ {"read_body", "stopped"}
        /\ w.self.closed
        /\ Leave(p, [w EXCEPT !.self.chain = "stopped", !.self.doomed = FALSE])

\* The error branch that those three handlers and async_read_len share.
OperationFailed(p) ==
    LET w == Enter(p)
    IN  /\ w.self.chain \in Chain \ {"read_body", "stopped"}
        /\ w.self.closed \/ (IF w.self.chain = "connect" THEN "connect" ELSE "read") \in Faults
        /\ Leave(p, Close(p, [w EXCEPT !.self.chain = "stopped", !.self.doomed = FALSE]))

\* async_read_len(): a length of zero is a keepalive, any other starts a body.
Keepalive(p) ==
    LET w == Enter(p)
    IN  /\ w.self.chain = "read_len" /\ ~w.self.doomed
        /\ Leave(p, AsyncReadMessage(w))

AsyncReadLen(p) ==
    LET w == Enter(p)
    IN  /\ w.self.chain = "read_len" /\ ~w.self.doomed
        /\ Leave(p, [w EXCEPT !.self.chain = "read_body", !.self.doomed = w.self.closed])

\* The error branch of the body's handler gives the piece back and no more.
BodyFailed(p) ==
    LET w == Enter(p)
    IN  /\ w.self.chain = "read_body"
        /\ w.self.closed \/ "body" \in Faults
        /\ Leave(p, ReleasePiece([w EXCEPT !.self.chain = "stopped", !.self.doomed = FALSE]))

\* async_handle_message(): an unknown type returns before the next read.
IgnoreUnknown(p) ==
    LET w == Enter(p)
    IN  /\ w.self.chain = "read_body" /\ ~w.self.doomed
        /\ \E m \in Messages : m.type = "Unknown"
        /\ Leave(p, [w EXCEPT !.self.chain = "stopped"])

Dispatch(p, w, m) ==
    CASE m.type = "Choke" -> [w EXCEPT !.self.choked = TRUE]
      [] m.type = "Unchoke" -> [w EXCEPT !.self.choked = FALSE]
      [] m.type = "Bitfield" -> [w EXCEPT !.self.available = m.bits]
      [] m.type = "Piece" -> HandlePiece(p, w, m)
      [] OTHER -> w

AsyncHandleMessage(p, m, lost) ==
    LET w == Enter(p)
    IN  /\ w.self.chain = "read_body" /\ ~w.self.doomed
        /\ m.type # "Unknown"
        \* \E x \in {e} names the value of e
        /\ \E handled \in {Dispatch(p, w, m)} :
              \E next \in {AsyncReadMessage(AsyncDownload(handled, lost))} : Leave(p, next)

\* The handler of a block's timer, for a block of the current piece and for a
\* block whose piece was given back: not filled, so the peer is dropped.  A
\* remote that is still read from may be too slow only if Faults says so.
MayTimeOut(self) ==
    self.closed \/ self.chain = "stopped" \/ "timeout" \in Faults

BlockTimeoutLogged(p, b) ==    \* mutant: the peer is not closed
    LET w == Enter(p)
    IN  /\ w.self.watch[b] > 0 /\ MayTimeOut(w.self)
        /\ Leave(p, [w EXCEPT !.self.watch[b] = @ - 1])

BlockTimeout(p, b) ==
    LET w == Enter(p)
    IN  /\ w.self.watch[b] > 0 /\ MayTimeOut(w.self)
        /\ Leave(p, Close(p, [w EXCEPT !.self.watch[b] = @ - 1]))

StaleTimeout(p, b) ==
    LET w == Enter(p)
    IN  /\ w.self.stale[b] > 0 /\ MayTimeOut(w.self)
        /\ Leave(p, Close(p, [w EXCEPT !.self.stale[b] = @ - 1]))

\* The handler of a request's write, when the write failed: whatever is in
\* blocks_ under that block's index now is given back.
WriteFailed(p, b) ==
    LET w == Enter(p)
    IN  /\ w.self.failing[b] > 0
        /\ Leave(p, ReleaseBlock([w EXCEPT !.self.failing[b] = @ - 1], b))

LostWrites == IF "write" \in Faults THEN SUBSET BlockIdx ELSE {{}}

PeerInit == peers = [p \in Peers |-> NewPeer]

PeerStep(p) ==
    \/ AsyncHandshakeWrite(p)
    \/ AsyncHandshakeRead(p)
    \/ AsyncNext(p)
    \/ OperationFailed(p)
    \/ Keepalive(p)
    \/ AsyncReadLen(p)
    \/ BodyFailed(p)
    \/ IgnoreUnknown(p)
    \/ \E m \in Messages, lost \in LostWrites : AsyncHandleMessage(p, m, lost)
    \/ \E b \in BlockIdx : BlockTimeout(p, b) \/ StaleTimeout(p, b) \/ WriteFailed(p, b)
=============================================================================
