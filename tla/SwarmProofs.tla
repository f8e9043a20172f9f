---------------------------- MODULE SwarmProofs ----------------------------
(***************************************************************************)
(* Theorems about Swarm for any number of peers, pieces and blocks, any    *)
(* messages and any faults.  A handler is a composition of functions on    *)
(* the work record, so each function gets a lemma and a handler's step     *)
(* follows from those of the functions it calls.                           *)
(***************************************************************************)
EXTENDS Swarm, QueueLemmas

----------------------------------------------------------------------------
(* Types.                                                                  *)

\* The fields of the work record, and how to put one together again.
LEMMA WorldFields ==
    ASSUME NEW w \in World
    PROVE  /\ w = [self |-> w.self, work |-> w.work, results |-> w.results]
           /\ w.self \in PeerState /\ w.work \in Seq(Pieces) /\ w.results \in Seq(Result)
           /\ w.self.piece \in Pieces \cup {None}
           /\ w.self.block \in [BlockIdx -> BlockState]
           /\ w.self.watch \in [BlockIdx -> Nat]
           /\ w.self.stale \in [BlockIdx -> Nat]
           /\ w.self.failing \in [BlockIdx -> Nat]
BY DEF World, PeerState

\* Giving a block back keeps the types (release_block).
LEMMA ReleaseBlockType ==
    ASSUME NEW w \in World, NEW b
    PROVE  ReleaseBlock(w, b) \in World
BY DEF ReleaseBlock, World, PeerState, BlockState

\* Giving the piece back keeps the types (release_piece).
LEMMA ReleasePieceType ==
    ASSUME NEW w \in World
    PROVE  ReleasePiece(w) \in World
<1>1. CASE w.self.piece = None
  BY <1>1 DEF ReleasePiece
<1>2. CASE w.self.piece # None
  <2>1. Append(w.work, w.self.piece) \in Seq(Pieces)
    BY <1>2, WorldFields, PushWork
  <2>2. Fresh \in [BlockIdx -> BlockState] /\ NoTimers \in [BlockIdx -> Nat]
    BY DEF Fresh, BlockState, NoTimers
  <2>3. [b \in BlockIdx |-> w.self.stale[b] + w.self.watch[b]] \in [BlockIdx -> Nat]
    BY WorldFields
  <2> DEFINE stale == [b \in BlockIdx |-> w.self.stale[b] + w.self.watch[b]]
             self == [w.self EXCEPT !.piece = None, !.block = Fresh, !.requested = {},
                        !.orphans = @ \cup w.self.requested, !.watch = NoTimers,
                        !.stale = stale]
  <2>4. ReleasePiece(w) = [w EXCEPT !.self = self, !.work = Append(@, w.self.piece)]
    BY <1>2, Zenon DEF ReleasePiece, World, PeerState
  <2>5. self \in PeerState
    <3> HIDE DEF stale
    <3> QED BY <2>2, <2>3, Zenon DEF PeerState, World, stale
  <2> HIDE DEF self
  <2> QED BY <2>1, <2>4, <2>5 DEF World
<1> QED BY <1>1, <1>2

\* Closing keeps the types (close).
LEMMA CloseType ==
    ASSUME NEW p \in Peers, NEW w \in World
    PROVE  Close(p, w) \in World
<1> DEFINE v == [w EXCEPT !.self.closed = TRUE]
<1>1. v \in World
  BY DEF World, PeerState
<1>2. ReleasePiece(v) \in World
  BY <1>1, ReleasePieceType
<1>3. ResultPeerDropped(p) \in Result
  BY DEF ResultPeerDropped, Result
<1>4. Append(ReleasePiece(v).results, ResultPeerDropped(p)) \in Seq(Result)
  BY <1>2, <1>3, WorldFields, PushResult
<1> HIDE DEF v
<1>5. [ReleasePiece(v) EXCEPT !.results = Append(@, ResultPeerDropped(p))] \in World
  BY <1>2, <1>4 DEF World
<1> QED BY <1>5 DEF Close, v

\* Filling a block keeps the types (accept, fill).
LEMMA FillType ==
    ASSUME NEW w \in World, NEW m \in PieceMessage
    PROVE  Fill(w, m) \in World
<1>1. m.data \in BlockState
  BY DEF PieceMessage, BlockState
<1> QED BY <1>1 DEF Fill, World, PeerState

\* Delivering a piece keeps the types (handle_piece).
LEMMA DeliverType ==
    ASSUME NEW w \in World, w.self.piece # None
    PROVE  Deliver(w) \in World
<1> DEFINE r == ResultPieceComplete(w.self.piece, Intact(w.self.block))
<1>1. r \in Result
  BY WorldFields DEF ResultPieceComplete, Result, Intact
<1>2. Append(w.results, r) \in Seq(Result)
  BY <1>1, WorldFields, PushResult
<1>3. Fresh \in [BlockIdx -> BlockState]
  BY DEF Fresh, BlockState
<1> QED BY <1>2, <1>3 DEF Deliver, World, PeerState

\* Handling a Piece message keeps the types.
LEMMA HandlePieceType ==
    ASSUME NEW p \in Peers, NEW w \in World, NEW m \in PieceMessage
    PROVE  HandlePiece(p, w, m) \in World
<1> DEFINE filled == ReleaseBlock(Fill(w, m), m.block)
           cleared == [filled EXCEPT !.self.requested = {}, !.self.orphans = {}]
<1>1. filled \in World
  BY FillType, ReleaseBlockType
<1>2. cleared \in World /\ cleared.self.piece = filled.self.piece
  <2> HIDE DEF filled
  <2> QED BY <1>1 DEF World, PeerState
<1>3. filled.self.piece = w.self.piece
  BY ZenonT(60) DEF ReleaseBlock, Fill, World, PeerState
<1> HIDE DEF filled, cleared
<1>4. Close(p, cleared) \in World
  BY <1>2, CloseType
<1>5. w.self.piece # None => Deliver(cleared) \in World
  BY <1>2, <1>3, DeliverType
<1> QED BY <1>1, <1>4, <1>5 DEF HandlePiece, filled, cleared

\* Popping a piece keeps the types.
LEMMA AcquireType ==
    ASSUME NEW w \in World
    PROVE  Acquire(w) \in World
<1>1. CASE w.self.piece # None \/ w.work = <<>>
  BY <1>1 DEF Acquire
<1>2. CASE ~(w.self.piece # None \/ w.work = <<>>)
  <2>1. w.work \in Seq(Pieces) /\ w.work # <<>>
    BY <1>2, WorldFields
  <2>2. Head(w.work) \in Pieces /\ Tail(w.work) \in Seq(Pieces)
    BY <2>1
  <2>3. Append(Tail(w.work), Head(w.work)) \in Seq(Pieces)
    BY <2>2, PushWork
  <2> QED BY <1>2, <2>2, <2>3 DEF Acquire, World, PeerState
<1> QED BY <1>1, <1>2

\* Requesting blocks keeps the types.
LEMMA RequestType ==
    ASSUME NEW w \in World, NEW blocks \in SUBSET BlockIdx, NEW lost
    PROVE  Request(w, blocks, lost) \in World
<1> DEFINE fails == IF w.self.closed THEN blocks ELSE blocks \cap lost
           block == [b \in BlockIdx |-> IF b \in blocks THEN "reserved" ELSE w.self.block[b]]
           watch == [b \in BlockIdx |-> IF b \in blocks THEN w.self.watch[b] + 1 ELSE w.self.watch[b]]
           failing == [b \in BlockIdx |-> IF b \in fails THEN w.self.failing[b] + 1 ELSE w.self.failing[b]]
<1>1. block \in [BlockIdx -> BlockState]
  BY WorldFields DEF BlockState
<1>2. watch \in [BlockIdx -> Nat] /\ failing \in [BlockIdx -> Nat]
  BY WorldFields
<1> DEFINE requested == w.self.requested \cup (blocks \ w.self.orphans)
<1>3. requested \in SUBSET BlockIdx /\ w.self \in PeerState
  BY DEF World, PeerState
<1> DEFINE self == [w.self EXCEPT !.block = block, !.requested = requested,
                                  !.watch = watch, !.failing = failing]
<1>4. Request(w, blocks, lost) = [w EXCEPT !.self = self]
  BY Zenon DEF Request, World, PeerState
<1>5. self \in PeerState
  <2> HIDE DEF block, watch, failing, requested
  <2> QED BY <1>1, <1>2, <1>3, Zenon DEF PeerState
<1> HIDE DEF self
<1> QED BY <1>4, <1>5 DEF World

\* async_download keeps the types.
LEMMA AsyncDownloadType ==
    ASSUME NEW w \in World, NEW lost
    PROVE  AsyncDownload(w, lost) \in World
<1>1. Acquire(w) \in World
  BY AcquireType
<1>2. NextRequests(Acquire(w).self) \in SUBSET BlockIdx
  BY DEF NextRequests, Candidates
<1>3. Request(Acquire(w), NextRequests(Acquire(w).self), lost) \in World
  BY <1>1, <1>2, RequestType
<1> QED BY <1>1, <1>3 DEF AsyncDownload

\* Every message handler keeps the types (async_handle_message).
LEMMA DispatchType ==
    ASSUME NEW p \in Peers, NEW w \in World, NEW m \in Message
    PROVE  Dispatch(p, w, m) \in World
<1>1. CASE m.type = "Choke" \/ m.type = "Unchoke"
  BY <1>1 DEF Dispatch, World, PeerState
<1>2. CASE m.type = "Bitfield"
  <2>1. m.bits \in (SUBSET Pieces) \cup {None}
    BY <1>2 DEF Message, PieceMessage
  <2> QED BY <1>2, <2>1 DEF Dispatch, World, PeerState
<1>3. CASE m.type = "Piece"
  <2>1. m \in PieceMessage
    BY <1>3 DEF Message
  <2>2. HandlePiece(p, w, m) \in World
    BY <2>1, HandlePieceType
  <2> QED BY <1>3, <2>2 DEF Dispatch
<1>4. CASE m.type \notin {"Choke", "Unchoke", "Bitfield", "Piece"}
  BY <1>4 DEF Dispatch
<1> QED BY <1>1, <1>2, <1>3, <1>4

\* Starting the next read keeps the types (async_read_message).
LEMMA AsyncReadMessageType ==
    ASSUME NEW w \in World
    PROVE  AsyncReadMessage(w) \in World
BY DEF AsyncReadMessage, World, PeerState, Chain

----------------------------------------------------------------------------
(* Conservation, seen from one handler: S is what no other peer holds and  *)
(* the monitor still misses.  It is split among the queued pieces, the one *)
(* in hand and the reported ones, each piece in one place.                 *)

Own(w) == {w.self.piece} \ {None}

Conserves(w, S) ==
    /\ IsInjective(w.work)
    /\ ReportedOnce(w.results)
    /\ S = ToSet(w.work) \cup Own(w) \cup Reported(w.results)
    /\ ToSet(w.work) \cap Own(w) = {}
    /\ ToSet(w.work) \cap Reported(w.results) = {}
    /\ Own(w) \cap Reported(w.results) = {}

\* What a function on the work record has to do: keep S split this way.
Keeps(w, v) == \A S : Conserves(w, S) => Conserves(v, S)

\* A function that touches neither piece_ nor the queues does.
LEMMA SameBooks ==
    ASSUME NEW w, NEW v, v.self.piece = w.self.piece, v.work = w.work, v.results = w.results
    PROVE  Keeps(w, v)
BY DEF Keeps, Conserves, Own

\* So do two such functions, one after the other.
LEMMA KeepsTransitive ==
    ASSUME NEW u, NEW v, NEW w, Keeps(u, v), Keeps(v, w)
    PROVE  Keeps(u, w)
BY DEF Keeps

\* release_piece moves the piece from the hand to the queue.
LEMMA ReleasePieceKeeps ==
    ASSUME NEW w \in World
    PROVE  Keeps(w, ReleasePiece(w))
<1> DEFINE v == ReleasePiece(w)
<1>1. CASE w.self.piece = None
  BY <1>1 DEF ReleasePiece, Keeps
<1>2. CASE w.self.piece # None
  <2>1. /\ v.work = Append(w.work, w.self.piece) /\ v.results = w.results
        /\ v.self.piece = None
    BY <1>2 DEF ReleasePiece, World, PeerState
  <2>2. w.self.piece \in Pieces /\ w.work \in Seq(Pieces)
    BY <1>2, WorldFields
  <2>3. Own(v) = {} /\ Own(w) = {w.self.piece}
    BY <1>2, <2>1 DEF Own
  <2> HIDE DEF v
  <2> SUFFICES ASSUME NEW S, Conserves(w, S) PROVE Conserves(v, S)
    BY DEF Keeps, v
  <2>4. IsInjective(w.work) /\ w.self.piece \notin ToSet(w.work)
    BY <2>3 DEF Conserves
  <2>5. IsInjective(v.work) /\ ToSet(v.work) = ToSet(w.work) \cup {w.self.piece}
    BY <2>1, <2>2, <2>4, PushWork
  <2> QED BY <2>1, <2>3, <2>5 DEF Conserves
<1> QED BY <1>1, <1>2

\* close does what release_piece does, and reports no piece.
LEMMA CloseKeeps ==
    ASSUME NEW p \in Peers, NEW w \in World
    PROVE  Keeps(w, Close(p, w))
<1> DEFINE u == [w EXCEPT !.self.closed = TRUE]
           v == ReleasePiece(u)
<1>1. u \in World /\ u.self.piece = w.self.piece /\ u.work = w.work /\ u.results = w.results
  BY DEF World, PeerState
<1> HIDE DEF u
<1>2. v \in World /\ Keeps(u, v) /\ Keeps(w, u)
  BY <1>1, SameBooks, ReleasePieceKeeps, ReleasePieceType
<1>3. Keeps(w, v)
  BY <1>2, KeepsTransitive
<1>4. Close(p, w) = [v EXCEPT !.results = Append(@, ResultPeerDropped(p))]
  BY DEF Close, u
<1> HIDE DEF v
<1>5. /\ Close(p, w).self = v.self /\ Close(p, w).work = v.work
      /\ Close(p, w).results = Append(v.results, ResultPeerDropped(p))
  BY <1>2, <1>4 DEF World
<1>6. ResultPeerDropped(p) \in Result /\ ResultPeerDropped(p).type # "PieceComplete"
  BY DEF ResultPeerDropped, Result
<1>7. v.results \in Seq(Result)
  BY <1>2, WorldFields
<1>8. /\ Reported(Close(p, w).results) = Reported(v.results)
      /\ ReportedOnce(v.results) => ReportedOnce(Close(p, w).results)
  BY <1>5, <1>6, <1>7, PushResult
<1>9. Keeps(v, Close(p, w))
  BY <1>5, <1>8 DEF Keeps, Conserves, Own
<1> QED BY <1>3, <1>9, KeepsTransitive

\* Delivering moves the piece from the hand to the results.
LEMMA DeliverKeeps ==
    ASSUME NEW w \in World, w.self.piece # None
    PROVE  Keeps(w, Deliver(w))
<1> DEFINE v == Deliver(w)
           r == ResultPieceComplete(w.self.piece, Intact(w.self.block))
<1>1. /\ v.work = w.work /\ v.results = Append(w.results, r) /\ v.self.piece = None
  BY DEF Deliver, World, PeerState
<1>2. r \in Result /\ r.type = "PieceComplete" /\ r.piece = w.self.piece
  BY WorldFields DEF ResultPieceComplete, Result, Intact
<1>3. w.results \in Seq(Result) /\ Own(v) = {} /\ Own(w) = {w.self.piece}
  BY <1>1, WorldFields DEF Own
<1> HIDE DEF v, r
<1> SUFFICES ASSUME NEW S, Conserves(w, S) PROVE Conserves(v, S)
  BY DEF Keeps, v
<1>4. ReportedOnce(w.results) /\ w.self.piece \notin Reported(w.results)
  BY <1>3 DEF Conserves
<1>5. /\ ReportedOnce(v.results)
      /\ Reported(v.results) = Reported(w.results) \cup {w.self.piece}
  BY <1>1, <1>2, <1>3, <1>4, PushResult
<1> QED BY <1>1, <1>3, <1>5 DEF Conserves

\* Popping moves the head of the queue to the hand or to the tail.
LEMMA AcquireKeeps ==
    ASSUME NEW w \in World
    PROVE  Keeps(w, Acquire(w))
<1> DEFINE v == Acquire(w)
           i == Head(w.work)
<1>1. CASE w.self.piece # None \/ w.work = <<>>
  BY <1>1 DEF Acquire, Keeps
<1>2. CASE w.self.piece = None /\ w.work # <<>>
  <2> SUFFICES ASSUME NEW S, Conserves(w, S) PROVE Conserves(v, S)
    BY DEF Keeps
  <2>1. /\ w.work \in Seq(Pieces) /\ IsInjective(w.work) /\ Own(w) = {}
    BY <1>2, WorldFields DEF Conserves, Own
  <2>2. /\ i \in Pieces /\ i \in ToSet(w.work) /\ IsInjective(Tail(w.work))
        /\ Tail(w.work) \in Seq(Pieces) /\ ToSet(Tail(w.work)) = ToSet(w.work) \ {i}
    BY <1>2, <2>1, PopWork
  <2>3. CASE i \in w.self.available
    <3>1. /\ v.self.piece = i /\ v.work = Tail(w.work) /\ v.results = w.results
      BY <1>2, <2>3 DEF Acquire, World, PeerState
    <3>2. Own(v) = {i}
      BY <2>2, <3>1, NoneAssumption DEF Own
    <3> QED BY <2>1, <2>2, <3>1, <3>2 DEF Conserves
  <2>4. CASE i \notin w.self.available
    <3>1. /\ v.self = w.self /\ v.work = Append(Tail(w.work), i) /\ v.results = w.results
      BY <1>2, <2>4 DEF Acquire, World
    <3> HIDE DEF v, i
    <3>2. IsInjective(v.work) /\ ToSet(v.work) = ToSet(Tail(w.work)) \cup {i}
      <4>1. i \notin ToSet(Tail(w.work))
        BY <2>2
      <4> QED BY <2>2, <3>1, <4>1, PushWork
    <3> QED BY <2>2, <3>1, <3>2 DEF Conserves, Own
  <2> QED BY <2>3, <2>4
<1> QED BY <1>1, <1>2

\* Handling a Piece message keeps S split: the piece is delivered once its
\* hash is right, or given back, or stays in hand.
LEMMA HandlePieceKeeps ==
    ASSUME NEW p \in Peers, NEW w \in World, NEW m \in PieceMessage
    PROVE  Keeps(w, HandlePiece(p, w, m))
<1> DEFINE filled == ReleaseBlock(Fill(w, m), m.block)
           cleared == [filled EXCEPT !.self.requested = {}, !.self.orphans = {}]
<1>1. filled \in World
  BY FillType, ReleaseBlockType
<1>2. /\ filled.self.piece = w.self.piece /\ filled.work = w.work
      /\ filled.results = w.results
  BY ZenonT(60) DEF ReleaseBlock, Fill, World, PeerState
<1>3. /\ cleared \in World /\ cleared.self.piece = filled.self.piece
      /\ cleared.work = filled.work /\ cleared.results = filled.results
  <2> HIDE DEF filled
  <2> QED BY <1>1 DEF World, PeerState
<1> HIDE DEF filled, cleared
<1>4. Keeps(w, w) /\ Keeps(w, filled) /\ Keeps(w, cleared)
  BY <1>2, <1>3, SameBooks
<1>5. Keeps(w, Close(p, cleared))
  BY <1>3, <1>4, CloseKeeps, KeepsTransitive
<1>6. w.self.piece # None => Keeps(w, Deliver(cleared))
  BY <1>2, <1>3, <1>4, DeliverKeeps, KeepsTransitive
<1> QED BY <1>4, <1>5, <1>6 DEF HandlePiece, filled, cleared

\* Requesting blocks touches neither the piece nor the queues, so that
\* async_download does to S what popping a piece does.
LEMMA AsyncDownloadKeeps ==
    ASSUME NEW w \in World, NEW lost
    PROVE  Keeps(w, AsyncDownload(w, lost))
<1> DEFINE a == Acquire(w)
           v == Request(a, NextRequests(a.self), lost)
<1>1. a \in World /\ Keeps(w, a) /\ Keeps(w, w)
  BY AcquireType, AcquireKeeps, SameBooks
<1>2. v.self.piece = a.self.piece /\ v.work = a.work /\ v.results = a.results
  <2> HIDE DEF a
  <2> QED BY <1>1 DEF Request, World, PeerState
<1>3. Keeps(w, v)
  BY <1>1, <1>2, SameBooks, KeepsTransitive
<1> QED BY <1>1, <1>3 DEF AsyncDownload

\* Only a Piece message may move a piece.
LEMMA DispatchKeeps ==
    ASSUME NEW p \in Peers, NEW w \in World, NEW m \in Message
    PROVE  Keeps(w, Dispatch(p, w, m))
<1>1. CASE m.type = "Piece"
  <2>1. m \in PieceMessage
    BY <1>1 DEF Message
  <2> QED BY <1>1, <2>1, HandlePieceKeeps DEF Dispatch
<1>2. CASE m.type # "Piece"
  <2>1. /\ Dispatch(p, w, m).self.piece = w.self.piece
        /\ Dispatch(p, w, m).work = w.work
        /\ Dispatch(p, w, m).results = w.results
    BY <1>2 DEF Dispatch, World, PeerState
  <2> QED BY <2>1, SameBooks
<1> QED BY <1>1, <1>2

----------------------------------------------------------------------------
(* The steps of a peer.                                                    *)

\* A step of p leaves a well-formed work record v, and S split as before.
Stepped(p, v) ==
    /\ v \in World
    /\ Keeps(Enter(p), v)
    /\ peers' = [peers EXCEPT ![p] = v.self]
    /\ work_queue' = v.work
    /\ result_queue' = v.results

\* What a handler starts from is well formed.
LEMMA EnterType ==
    ASSUME TypeOK, NEW p \in Peers
    PROVE  Enter(p) \in World
BY DEF TypeOK, QueuesTypeOK, Enter, World

\* A handler that ends with Leave(p, v) has taken such a step.
LEMMA LeaveSteps ==
    ASSUME NEW p \in Peers, NEW v \in World, Keeps(Enter(p), v), Leave(p, v)
    PROVE  Stepped(p, v)
BY DEF Stepped, Leave

\* Whatever message is handled.
LEMMA MessageKeeps ==
    ASSUME TypeOK, NEW p \in Peers, NEW m \in Message, NEW lost,
           AsyncHandleMessage(p, m, lost)
    PROVE  \E v : Stepped(p, v)
<1> DEFINE w == Enter(p)
           handled == Dispatch(p, w, m)
           loaded == AsyncDownload(handled, lost)
           next == AsyncReadMessage(loaded)
<1>1. w \in World
  BY EnterType
<1>2. handled \in World /\ Keeps(w, handled)
  BY <1>1, DispatchType, DispatchKeeps
<1> HIDE DEF handled
<1>3. loaded \in World /\ Keeps(handled, loaded)
  BY <1>2, AsyncDownloadType, AsyncDownloadKeeps
<1> HIDE DEF loaded
<1>4. next \in World /\ Keeps(loaded, next)
  <2>1. next.self.piece = loaded.self.piece /\ next.work = loaded.work
        /\ next.results = loaded.results
    BY <1>3 DEF AsyncReadMessage, World, PeerState
  <2> QED BY <1>3, <2>1, AsyncReadMessageType, SameBooks
<1>5. Keeps(w, next)
  BY <1>2, <1>3, <1>4, KeepsTransitive
<1>6. Leave(p, next)
  BY DEF AsyncHandleMessage, w, handled, loaded
<1> HIDE DEF next
<1> QED BY <1>4, <1>5, <1>6, LeaveSteps DEF w

\* Every handler of every connection takes such a step.
LEMMA PeerStepKeeps ==
    ASSUME TypeOK, NEW p \in Peers, PeerStep(p)
    PROVE  \E v : Stepped(p, v)
<1> DEFINE w == Enter(p)
<1>0. w \in World /\ peers \in [Peers -> PeerState]
  BY EnterType DEF TypeOK
<1>1. ASSUME NEW c \in Chain, peers' = [peers EXCEPT ![p].chain = c],
             UNCHANGED <<work_queue, result_queue>>
      PROVE  \E v : Stepped(p, v)
  <2> DEFINE v == [w EXCEPT !.self.chain = c]
  <2>1. v \in World /\ v.self.piece = w.self.piece /\ v.work = w.work /\ v.results = w.results
    BY <1>0 DEF World, PeerState
  <2>2. v.self = [peers[p] EXCEPT !.chain = c] /\ v.work = work_queue /\ v.results = result_queue
    BY DEF Enter
  <2> QED BY <1>0, <1>1, <2>1, <2>2, SameBooks DEF Stepped
<1>2. CASE AsyncHandshakeWrite(p)
  BY <1>1, <1>2 DEF AsyncHandshakeWrite, Chain
<1>3. CASE AsyncHandshakeRead(p)
  BY <1>1, <1>3 DEF AsyncHandshakeRead, Chain
<1> HIDE DEF w
<1>4. CASE AsyncNext(p)
  <2> DEFINE r == ResultPeerConnected(p)
             u == [w EXCEPT !.results = Append(@, r)]
  <2>1. r \in Result /\ r.type # "PieceComplete"
    BY DEF ResultPeerConnected, Result
  <2>2. /\ Append(w.results, r) \in Seq(Result)
        /\ Reported(Append(w.results, r)) = Reported(w.results)
        /\ ReportedOnce(w.results) => ReportedOnce(Append(w.results, r))
    BY <1>0, <2>1, WorldFields, PushResult
  <2>3. /\ u \in World /\ u.self = w.self /\ u.work = w.work
        /\ u.results = Append(w.results, r)
    BY <1>0, <2>2 DEF World
  <2>4. Keeps(w, u)
    BY <2>2, <2>3 DEF Keeps, Conserves, Own
  <2> HIDE DEF u
  <2>5. AsyncReadMessage(u) \in World /\ Keeps(u, AsyncReadMessage(u))
    <3>1. /\ AsyncReadMessage(u).self.piece = u.self.piece
          /\ AsyncReadMessage(u).work = u.work /\ AsyncReadMessage(u).results = u.results
      BY <2>3 DEF AsyncReadMessage, World, PeerState
    <3> QED BY <2>3, <3>1, AsyncReadMessageType, SameBooks
  <2>6. Keeps(w, AsyncReadMessage(u))
    BY <2>4, <2>5, KeepsTransitive
  <2>7. Leave(p, AsyncReadMessage(u))
    BY <1>4 DEF AsyncNext, w, u
  <2> QED BY <2>5, <2>6, <2>7, LeaveSteps DEF w
<1>5. CASE OperationFailed(p)
  <2> DEFINE u == [w EXCEPT !.self.chain = "stopped", !.self.doomed = FALSE]
  <2>1. u \in World /\ u.self.piece = w.self.piece /\ u.work = w.work /\ u.results = w.results
    BY <1>0 DEF World, PeerState, Chain
  <2> HIDE DEF u
  <2>2. Close(p, u) \in World /\ Keeps(w, Close(p, u))
    BY <2>1, SameBooks, CloseKeeps, CloseType, KeepsTransitive
  <2>3. Leave(p, Close(p, u))
    BY <1>5 DEF OperationFailed, w, u
  <2> QED BY <2>2, <2>3, LeaveSteps DEF w
<1>6. CASE Keepalive(p)
  <2>1. AsyncReadMessage(w) \in World /\ Keeps(w, AsyncReadMessage(w))
    <3>1. /\ AsyncReadMessage(w).self.piece = w.self.piece
          /\ AsyncReadMessage(w).work = w.work /\ AsyncReadMessage(w).results = w.results
      BY <1>0 DEF AsyncReadMessage, World, PeerState
    <3> QED BY <1>0, <3>1, AsyncReadMessageType, SameBooks
  <2>2. Leave(p, AsyncReadMessage(w))
    BY <1>6 DEF Keepalive, w
  <2> QED BY <2>1, <2>2, LeaveSteps DEF w
<1>7. CASE AsyncReadLen(p)
  <2> DEFINE u == [w EXCEPT !.self.chain = "read_body", !.self.doomed = w.self.closed]
  <2>1. u \in World /\ u.self.piece = w.self.piece /\ u.work = w.work /\ u.results = w.results
    BY <1>0 DEF World, PeerState, Chain
  <2>2. Leave(p, u)
    BY <1>7 DEF AsyncReadLen, w
  <2> QED BY <2>1, <2>2, SameBooks, LeaveSteps DEF w
<1>8. CASE BodyFailed(p)
  <2> DEFINE u == [w EXCEPT !.self.chain = "stopped", !.self.doomed = FALSE]
  <2>1. u \in World /\ u.self.piece = w.self.piece /\ u.work = w.work /\ u.results = w.results
    BY <1>0 DEF World, PeerState, Chain
  <2> HIDE DEF u
  <2>2. ReleasePiece(u) \in World /\ Keeps(w, ReleasePiece(u))
    BY <2>1, SameBooks, ReleasePieceKeeps, ReleasePieceType, KeepsTransitive
  <2>3. Leave(p, ReleasePiece(u))
    BY <1>8 DEF BodyFailed, w, u
  <2> QED BY <2>2, <2>3, LeaveSteps DEF w
<1>9. CASE IgnoreUnknown(p)
  <2> DEFINE u == [w EXCEPT !.self.chain = "stopped"]
  <2>1. u \in World /\ u.self.piece = w.self.piece /\ u.work = w.work /\ u.results = w.results
    BY <1>0 DEF World, PeerState, Chain
  <2>2. Leave(p, u)
    BY <1>9 DEF IgnoreUnknown, w
  <2> QED BY <2>1, <2>2, SameBooks, LeaveSteps DEF w
<1>10. ASSUME NEW m \in Messages, NEW lost \in LostWrites, AsyncHandleMessage(p, m, lost)
       PROVE  \E v : Stepped(p, v)
  BY <1>10, PeerAssumption, MessageKeeps
<1>11. ASSUME NEW b \in BlockIdx, BlockTimeout(p, b) PROVE \E v : Stepped(p, v)
  <2> DEFINE u == [w EXCEPT !.self.watch[b] = @ - 1]
  <2>1. w.self.watch[b] - 1 \in Nat
    BY <1>0, <1>11, WorldFields DEF BlockTimeout, w
  <2>2. u \in World /\ u.self.piece = w.self.piece /\ u.work = w.work /\ u.results = w.results
    BY <1>0, <2>1 DEF World, PeerState
  <2> HIDE DEF u
  <2>3. Close(p, u) \in World /\ Keeps(w, Close(p, u))
    BY <2>2, SameBooks, CloseKeeps, CloseType, KeepsTransitive
  <2>4. Leave(p, Close(p, u))
    BY <1>11 DEF BlockTimeout, w, u
  <2> QED BY <2>3, <2>4, LeaveSteps DEF w
<1>12. ASSUME NEW b \in BlockIdx, StaleTimeout(p, b) PROVE \E v : Stepped(p, v)
  <2> DEFINE u == [w EXCEPT !.self.stale[b] = @ - 1]
  <2>1. w.self.stale[b] - 1 \in Nat
    BY <1>0, <1>12, WorldFields DEF StaleTimeout, w
  <2>2. u \in World /\ u.self.piece = w.self.piece /\ u.work = w.work /\ u.results = w.results
    BY <1>0, <2>1 DEF World, PeerState
  <2> HIDE DEF u
  <2>3. Close(p, u) \in World /\ Keeps(w, Close(p, u))
    BY <2>2, SameBooks, CloseKeeps, CloseType, KeepsTransitive
  <2>4. Leave(p, Close(p, u))
    BY <1>12 DEF StaleTimeout, w, u
  <2> QED BY <2>3, <2>4, LeaveSteps DEF w
<1>13. ASSUME NEW b \in BlockIdx, WriteFailed(p, b) PROVE \E v : Stepped(p, v)
  <2> DEFINE u == [w EXCEPT !.self.failing[b] = @ - 1]
  <2>1. w.self.failing[b] - 1 \in Nat
    BY <1>0, <1>13, WorldFields DEF WriteFailed, w
  <2>2. u \in World /\ u.self.piece = w.self.piece /\ u.work = w.work /\ u.results = w.results
    BY <1>0, <2>1 DEF World, PeerState
  <2> HIDE DEF u
  <2>3. /\ ReleaseBlock(u, b) \in World
        /\ ReleaseBlock(u, b).self.piece = w.self.piece
        /\ ReleaseBlock(u, b).work = w.work /\ ReleaseBlock(u, b).results = w.results
    <3>1. ReleaseBlock(u, b) \in World
      BY <2>2, ReleaseBlockType
    <3> QED BY <2>2, <3>1 DEF ReleaseBlock, World, PeerState
  <2>4. Leave(p, ReleaseBlock(u, b))
    BY <1>13 DEF WriteFailed, w, u
  <2> QED BY <2>3, <2>4, SameBooks, LeaveSteps DEF w
<1> QED
  BY <1>2, <1>3, <1>4, <1>5, <1>6, <1>7, <1>8, <1>9, <1>10, <1>11, <1>12, <1>13
  DEF PeerStep

----------------------------------------------------------------------------
(* Any remote.  The lemmas about a step of the swarm speak of AnyNext,     *)
(* where a remote sends any message of its type.  They then hold of Next,  *)
(* whose remotes send the members of Messages, and of the remotes of       *)
(* module SeededSwarm as well.                                             *)

AnyStep(p) ==
    PeerStep(p) \/ \E m \in Message, lost \in SUBSET BlockIdx : AsyncHandleMessage(p, m, lost)

AnyPeersRun ==
    /\ phase = "running"
    /\ \E p \in Peers : AnyStep(p)
    /\ UNCHANGED <<monitorVars, phase>>

AnyNext == AnyPeersRun \/ MonitorRuns \/ MonitorReturns \/ IoRunReturns \/ Ended

LEMMA NextIsAny == [Next]_vars => [AnyNext]_vars
BY DEF Next, AnyNext, PeersRun, AnyPeersRun, AnyStep

LEMMA AnyStepKeeps ==
    ASSUME TypeOK, NEW p \in Peers, AnyStep(p)
    PROVE  \E v : Stepped(p, v)
BY PeerStepKeeps, MessageKeeps DEF AnyStep

----------------------------------------------------------------------------
(* The theorems.                                                           *)

\* The monitor thread keeps the types (MonitorVisitor).
LEMMA MonitorType ==
    ASSUME TypeOK, MonitorRuns
    PROVE  TypeOK'
<1> DEFINE r == Head(result_queue)
<1>1. result_queue \in Seq(Result) /\ result_queue # <<>>
  BY DEF TypeOK, QueuesTypeOK, MonitorRuns, MonitorVisit
<1>2. r \in Result /\ Tail(result_queue) \in Seq(Result)
  BY <1>1
<1>3. QueuesTypeOK'
  BY <1>2 DEF TypeOK, QueuesTypeOK, MonitorRuns, MonitorVisit
<1>4. MonitorTypeOK'
  <2> HIDE DEF r
  <2>1. CASE VisitPieceComplete(r)
    <3>1. r.piece \in Pieces
      BY <1>2, <2>1 DEF VisitPieceComplete, Result
    <3> QED BY <2>1, <3>1 DEF TypeOK, MonitorTypeOK, VisitPieceComplete, FileState
  <2>2. CASE VisitPeerConnected(r)
    BY <1>2, <2>2 DEF TypeOK, MonitorTypeOK, VisitPeerConnected, Result
  <2>3. CASE VisitPeerDropped(r)
    BY <1>2, <2>3 DEF TypeOK, MonitorTypeOK, VisitPeerDropped, Result
  <2> QED BY <2>1, <2>2, <2>3 DEF MonitorRuns, MonitorVisit, r
<1> QED BY <1>3, <1>4 DEF TypeOK, MonitorRuns

LEMMA InitType == Init => TypeOK
<1> SUFFICES ASSUME Init PROVE TypeOK
  OBVIOUS
<1>1. InitialWork \in Seq(Pieces)
  BY NumPiecesAssumption DEF InitialWork, Pieces
<1>2. NewPeer \in PeerState
  BY DEF NewPeer, PeerState, Chain, Fresh, BlockState, NoTimers
<1> QED
  BY <1>1, <1>2
  DEF Init, QueuesInit, PeerInit, MonitorInit, TypeOK, QueuesTypeOK, MonitorTypeOK, FileState

LEMMA NextType == TypeOK /\ [AnyNext]_vars => TypeOK'
<1> SUFFICES ASSUME TypeOK, [AnyNext]_vars PROVE TypeOK'
  OBVIOUS
<1>1. CASE AnyPeersRun
  <2>1. PICK p \in Peers : AnyStep(p)
    BY <1>1 DEF AnyPeersRun
  <2>2. PICK v : Stepped(p, v)
    BY <2>1, AnyStepKeeps
  <2>3. v.self \in PeerState /\ v.work \in Seq(Pieces) /\ v.results \in Seq(Result)
    BY <2>2, WorldFields DEF Stepped
  <2> QED
    BY <1>1, <2>2, <2>3
    DEF Stepped, AnyPeersRun, monitorVars, TypeOK, QueuesTypeOK, MonitorTypeOK
<1>2. CASE MonitorRuns
  BY <1>2, MonitorType
<1>3. CASE MonitorReturns \/ IoRunReturns
  BY <1>3 DEF MonitorReturns, IoRunReturns, monitorVars, TypeOK, QueuesTypeOK, MonitorTypeOK
<1>4. CASE Ended \/ UNCHANGED vars
  BY <1>4 DEF Ended, vars, TypeOK, QueuesTypeOK, MonitorTypeOK
<1> QED BY <1>1, <1>2, <1>3, <1>4 DEF AnyNext

\* Every variable keeps its type in every behaviour of the program.
THEOREM TypeCorrect == Spec => []TypeOK
BY InitType, NextType, NextIsAny, PTL DEF Spec

----------------------------------------------------------------------------
(* Conservation of the pieces, seen from the whole swarm.                  *)

HeldByOthers(p) == UNION {Held(q) : q \in Peers \ {p}}
Share(p) == missing_pieces \ HeldByOthers(p)

\* In a state that conserves the pieces every handler finds its share split.
LEMMA EnterConserves ==
    ASSUME TypeOK, PieceConservation, NEW p \in Peers
    PROVE  Conserves(Enter(p), Share(p))
<1>1. /\ Enter(p).work = work_queue /\ Enter(p).results = result_queue
      /\ Own(Enter(p)) = Held(p)
  BY DEF Enter, Own, Held
<1>2. Queued \subseteq Pieces /\ missing_pieces \subseteq Pieces
  BY DEF TypeOK, QueuesTypeOK, MonitorTypeOK, Queued, ToSet
<1>3. \A q \in Peers : Held(q) \subseteq Pieces
  BY DEF TypeOK, PeerState, Held
<1>4. missing_pieces = Queued \cup InHands \cup Reported(result_queue)
  BY <1>2, <1>3 DEF PieceConservation, Done, InHands
<1>5. InHands = Held(p) \cup HeldByOthers(p)
  BY DEF InHands, HeldByOthers
<1>6. /\ Queued \cap HeldByOthers(p) = {}
      /\ Held(p) \cap HeldByOthers(p) = {}
      /\ Reported(result_queue) \cap HeldByOthers(p) = {}
  BY DEF PieceConservation, HeldByOthers, Done
<1>7. Share(p) = Queued \cup Held(p) \cup Reported(result_queue)
  BY <1>4, <1>5, <1>6 DEF Share
<1> QED BY <1>1, <1>7 DEF Conserves, PieceConservation, Queued, Done

\* A handler that keeps its share split conserves the pieces.
LEMMA SteppedConserves ==
    ASSUME TypeOK, PieceConservation, NEW p \in Peers, NEW v, Stepped(p, v),
           UNCHANGED missing_pieces
    PROVE  PieceConservation'
<1>1. Conserves(v, Share(p))
  BY EnterConserves DEF Stepped, Keeps
<1>2. /\ Queued' = ToSet(v.work) /\ work_queue' = v.work
      /\ result_queue' = v.results /\ Reported(result_queue)' = Reported(v.results)
  BY DEF Stepped, Queued
<1>3. /\ Held(p)' = Own(v)
      /\ \A q \in Peers \ {p} : Held(q)' = Held(q)
  BY DEF Stepped, TypeOK, Held, Own
<1>4. /\ missing_pieces \subseteq Pieces
      /\ \A q \in Peers : Held(q) \subseteq Pieces /\ Held(q) \cap Done = {}
  <2>1. \A q \in Peers : Held(q) \subseteq Pieces
    BY DEF TypeOK, PeerState, Held
  <2>2. \A q \in Peers : Held(q) \cap Done = {}
    BY DEF PieceConservation
  <2> QED BY <2>1, <2>2 DEF TypeOK, MonitorTypeOK
<1>5. HeldByOthers(p) \subseteq missing_pieces
  BY <1>4 DEF HeldByOthers, Done
<1>6. missing_pieces = ToSet(v.work) \cup Own(v) \cup Reported(v.results) \cup HeldByOthers(p)
  BY <1>1, <1>5 DEF Conserves, Share
<1>7. InHands' = Own(v) \cup HeldByOthers(p)
  BY <1>3 DEF InHands, HeldByOthers
<1>8. Done' = Reported(v.results) \cup (Pieces \ missing_pieces)
  BY <1>2 DEF Done
<1>9. /\ ToSet(v.work) \cap HeldByOthers(p) = {}
      /\ Own(v) \cap HeldByOthers(p) = {}
      /\ Reported(v.results) \cap HeldByOthers(p) = {}
      /\ ToSet(v.work) \cup Own(v) \cup Reported(v.results) \subseteq missing_pieces
  BY <1>1 DEF Conserves, Share
<1>10. (Pieces = Queued \cup InHands \cup Done)'
  BY <1>2, <1>4, <1>6, <1>7, <1>8
<1>11. \A q \in Peers : Held(q)' \cap (Queued' \cup Done') = {}
  <2> SUFFICES ASSUME NEW q \in Peers PROVE Held(q)' \cap (Queued' \cup Done') = {}
    OBVIOUS
  <2>1. CASE q = p
    BY <1>1, <1>2, <1>3, <1>8, <1>9, <2>1 DEF Conserves
  <2>2. CASE q # p
    <3>1. Held(q) \subseteq HeldByOthers(p)
      BY <2>2 DEF HeldByOthers
    <3> QED BY <1>2, <1>3, <1>5, <1>8, <1>9, <2>2, <3>1
  <2> QED BY <2>1, <2>2
<1>12. \A q, r \in Peers : q # r => Held(q)' \cap Held(r)' = {}
  <2>1. \A q \in Peers \ {p} : Held(q) \subseteq HeldByOthers(p)
    BY DEF HeldByOthers
  <2> QED BY <1>3, <1>9, <2>1 DEF PieceConservation
<1>13. /\ IsInjective(work_queue)' /\ ReportedOnce(result_queue)'
       /\ Queued' \cap Done' = {} /\ Reported(result_queue)' \subseteq missing_pieces'
  BY <1>1, <1>2, <1>8, <1>9 DEF Conserves
<1> QED BY <1>10, <1>11, <1>12, <1>13 DEF PieceConservation

\* A visit of the monitor moves at most one piece from reported to written.
LEMMA MonitorConserves ==
    ASSUME TypeOK, PieceConservation, MonitorRuns
    PROVE  PieceConservation'
<1> DEFINE r == Head(result_queue)
<1>1. result_queue \in Seq(Result) /\ result_queue # <<>> /\ result_queue' = Tail(result_queue)
      /\ UNCHANGED <<work_queue, peers>>
  BY DEF TypeOK, QueuesTypeOK, MonitorRuns, MonitorVisit
<1>2. /\ r \in Result /\ ReportedOnce(result_queue')
      /\ r.type # "PieceComplete" => Reported(result_queue') = Reported(result_queue)
      /\ r.type = "PieceComplete" =>
            /\ r.piece \in Reported(result_queue)
            /\ Reported(result_queue') = Reported(result_queue) \ {r.piece}
  BY <1>1, PopResult DEF PieceConservation
<1>3. missing_pieces' = IF r.type = "PieceComplete" THEN missing_pieces \ {r.piece}
                                                     ELSE missing_pieces
  BY DEF MonitorRuns, MonitorVisit, VisitPieceComplete, VisitPeerConnected, VisitPeerDropped
<1> HIDE DEF r
<1>4. Reported(result_queue) \subseteq missing_pieces /\ missing_pieces \subseteq Pieces
  BY DEF PieceConservation, TypeOK, MonitorTypeOK
<1>5. Done' = Done /\ Reported(result_queue') \subseteq missing_pieces'
  BY <1>2, <1>3, <1>4 DEF Done
<1>6. Queued' = Queued /\ \A q \in Peers : Held(q)' = Held(q)
  BY <1>1 DEF Queued, Held
<1> QED BY <1>1, <1>2, <1>5, <1>6 DEF PieceConservation, InHands

LEMMA InitConserves == Init => PieceConservation
<1> SUFFICES ASSUME Init PROVE PieceConservation
  OBVIOUS
<1>1. /\ DOMAIN InitialWork = 1 .. NumPieces
      /\ \A k \in 1 .. NumPieces : InitialWork[k] = k - 1
  BY DEF InitialWork
<1>2. ToSet(InitialWork) = Pieces
  <2>1. \A i \in Pieces : i + 1 \in 1 .. NumPieces /\ InitialWork[i + 1] = i
    BY <1>1, NumPiecesAssumption DEF Pieces
  <2>2. \A k \in 1 .. NumPieces : InitialWork[k] \in Pieces
    BY <1>1, NumPiecesAssumption DEF Pieces
  <2> QED BY <1>1, <2>1, <2>2 DEF ToSet
<1>3. IsInjective(InitialWork)
  <2> SUFFICES ASSUME NEW a \in DOMAIN InitialWork, NEW b \in DOMAIN InitialWork,
                      InitialWork[a] = InitialWork[b]
               PROVE  a = b
    BY DEF IsInjective
  <2> QED BY <1>1, NumPiecesAssumption
<1>4. Completions(<<>>) = {}
  BY DEF Completions
<1>5. Reported(<<>>) = {} /\ ReportedOnce(<<>>)
  BY <1>4 DEF Reported, ReportedOnce
<1>6. \A p \in Peers : Held(p) = {}
  BY DEF Init, PeerInit, NewPeer, Held
<1> QED
  BY <1>2, <1>3, <1>5, <1>6
  DEF Init, QueuesInit, MonitorInit, PieceConservation, Queued, Done, InHands

LEMMA NextConserves == TypeOK /\ PieceConservation /\ [AnyNext]_vars => PieceConservation'
<1> SUFFICES ASSUME TypeOK, PieceConservation, [AnyNext]_vars PROVE PieceConservation'
  OBVIOUS
<1>1. CASE AnyPeersRun
  <2>1. PICK p \in Peers : AnyStep(p)
    BY <1>1 DEF AnyPeersRun
  <2>2. PICK v : Stepped(p, v)
    BY <2>1, AnyStepKeeps
  <2> QED BY <1>1, <2>2, SteppedConserves DEF AnyPeersRun, monitorVars
<1>2. CASE MonitorRuns
  BY <1>2, MonitorConserves
<1>3. CASE UNCHANGED <<peers, work_queue, result_queue, missing_pieces>>
  BY <1>3 DEF PieceConservation, Queued, Held, InHands, Done
<1> QED
  BY <1>1, <1>2, <1>3
  DEF AnyNext, MonitorReturns, IoRunReturns, Ended, monitorVars, vars

\* No piece is ever lost and none is downloaded by two peers, for any number
\* of peers and pieces and whatever goes wrong.
THEOREM PiecesConserved == Spec => []PieceConservation
<1>1. Spec => []TypeOK
  BY TypeCorrect
<1> QED BY <1>1, InitConserves, NextConserves, NextIsAny, PTL DEF Spec
=============================================================================
