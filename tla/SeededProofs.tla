---------------------------- MODULE SeededProofs ----------------------------
(***************************************************************************)
(* The swarm among remotes that follow the protocol, for any number of     *)
(* them, whatever pieces they have and whoever leaves: a peer and its      *)
(* remote agree on which blocks are outstanding.                           *)
(***************************************************************************)
EXTENDS SeededSwarm, PeerProofs

----------------------------------------------------------------------------
(* What the handling of a message does to the requests.                    *)

\* async_download() keeps the piece, asks for more and forgets nothing.
Grew(x, y) ==
    /\ x.piece # None => y.piece = x.piece
    /\ x.requested \subseteq y.requested
    /\ \A b \in BlockIdx : x.block[b] \in FilledState => y.block[b] \in FilledState
    /\ y.closed = x.closed

LEMMA AcquireGrows ==
    ASSUME NEW w \in World
    PROVE  /\ Grew(w.self, Acquire(w).self)
           /\ Acquire(w).self.requested = w.self.requested
<1> DEFINE v == Acquire(w)
<1>1. CASE v.self = w.self
  BY <1>1 DEF Grew
<1>2. CASE v.self # w.self
  <2>1. w.self.piece = None /\ w.work # <<>> /\ Head(w.work) \in w.self.available
    BY <1>2 DEF Acquire, World
  <2>2. /\ v.self.closed = w.self.closed /\ v.self.block = w.self.block
        /\ v.self.requested = w.self.requested
    BY <2>1 DEF Acquire, World, PeerState
  <2> QED BY <2>1, <2>2 DEF Grew
<1> QED BY <1>1, <1>2

LEMMA RequestGrows ==
    ASSUME NEW w \in World, NEW lost
    PROVE  Grew(w.self, Request(w, NextRequests(w.self), lost).self)
<1> DEFINE blocks == NextRequests(w.self)
           v == Request(w, blocks, lost)
<1>1. /\ blocks \in SUBSET BlockIdx
      /\ \A b \in blocks : w.self.block[b] \notin FilledState
  BY DEF NextRequests, Candidates, FilledState
<1> HIDE DEF blocks
<1>2. Requested(w, blocks, v)
  BY <1>1, RequestFields
<1> HIDE DEF v
<1>3. Grew(w.self, v.self)
  BY <1>1, <1>2 DEF Requested, Grew
<1> QED BY <1>3 DEF v, blocks

LEMMA DownloadGrows ==
    ASSUME NEW w \in World, NEW lost
    PROVE  Grew(w.self, AsyncDownload(w, lost).self)
<1> DEFINE a == Acquire(w)
           r == Request(a, NextRequests(a.self), lost)
           v == AsyncDownload(w, lost)
<1>1. a \in World /\ Grew(w.self, a.self)
  BY AcquireType, AcquireGrows
<1>2. v = w \/ v = a \/ v = r
  BY DEF AsyncDownload
<1> HIDE DEF a, v
<1>3. Grew(a.self, r.self)
  BY <1>1, RequestGrows
<1> HIDE DEF r
<1>4. Grew(w.self, w.self)
  BY DEF Grew
<1>5. Grew(w.self, r.self)
  BY <1>1, <1>3 DEF Grew
<1> QED BY <1>1, <1>2, <1>4, <1>5 DEF v

\* A message is handled, and then the requests grow.
LEMMA MessageGrows ==
    ASSUME TypeOK, NEW p \in Peers, Sound(peers[p]), NEW m \in Message, NEW lost,
           AsyncHandleMessage(p, m, lost), NEW v, Stepped(p, v)
    PROVE  LET handled == Dispatch(p, Enter(p), m)
           IN  /\ Handled(p, Enter(p), handled)
               /\ Grew(handled.self, v.self)
               /\ v.results = handled.results /\ v.self.chain = "read_len"
<1> DEFINE w == Enter(p)
           handled == Dispatch(p, w, m)
           loaded == AsyncDownload(handled, lost)
           next == AsyncReadMessage(loaded)
<1>1. /\ w \in World /\ Orderly(w.self) /\ w.self.chain = "read_body"
      /\ w.self.closed => w.self.piece = None
  BY EnterType DEF AsyncHandleMessage, Sound, Returning, Enter
<1>2. Leave(p, next)
  BY DEF AsyncHandleMessage
<1> HIDE DEF w
<1>3. Handled(p, w, handled)
  BY <1>1, DispatchOrderly
<1>4. handled \in World /\ Orderly(handled.self) /\ handled.self.chain = "read_body"
  BY <1>1, <1>3 DEF Handled
<1> HIDE DEF handled
<1>5. /\ loaded \in World /\ loaded.results = handled.results
      /\ Grew(handled.self, loaded.self)
  BY <1>4, AsyncDownloadOrderly, DownloadGrows
<1> HIDE DEF loaded
<1>6. /\ next \in World /\ next.results = loaded.results /\ next.self.chain = "read_len"
      /\ next.self.piece = loaded.self.piece /\ next.self.closed = loaded.self.closed
      /\ next.self.block = loaded.self.block /\ next.self.requested = loaded.self.requested
  BY <1>5, AsyncReadMessageType DEF AsyncReadMessage, World, PeerState
<1> HIDE DEF next
<1>7. v = next
  BY <1>2, <1>6, LeaveDetermines
<1> QED BY <1>3, <1>5, <1>6, <1>7 DEF Grew, handled, w

----------------------------------------------------------------------------
(* Types.                                                                  *)

\* Until its handshake was read a remote was asked for nothing; while both
\* sides are there it was asked for what the peer waits for.
Books(self, owed) ==
    /\ self.chain \in Handshaking => owed = {}
    /\ ~self.closed /\ self.chain \in Reading => owed = {self.piece} \X self.requested

SeededInv ==
    /\ SeededTypeOK
    /\ PieceConservation
    /\ AllSound
    /\ \A p \in Peers : Books(peers[p], asked[p])

\* What a remote may say is a message.
LEMMA OwedMessages ==
    ASSUME SeededTypeOK, NEW p \in Peers
    PROVE  /\ Greeting(p) \subseteq Message
           /\ \A m \in Greeting(p) : m.type \in {"Bitfield", "Unchoke"}
           /\ \A r \in asked[p] : Answer(r) \in PieceMessage /\ Answer(r) \in Message
<1>1. Has[p] \subseteq Pieces
  BY SeededAssumption
<1>2. \A m \in Greeting(p) : m \in Message /\ m.type \in {"Bitfield", "Unchoke"}
  BY <1>1 DEF Greeting, Message
<1>3. \A r \in asked[p] : Answer(r) \in PieceMessage
  <2> SUFFICES ASSUME NEW r \in asked[p] PROVE Answer(r) \in PieceMessage
    OBVIOUS
  <2>1. r \in Pieces \X BlockIdx
    BY DEF SeededTypeOK
  <2>2. r[1] \in Pieces /\ r[2] \in 0 .. BlockCount
    BY <2>1, BlockCountAssumption DEF BlockIdx
  <2> QED BY <2>2 DEF Answer, PieceMessage, FilledState
<1> QED BY <1>2, <1>3 DEF Message

\* The remotes do nothing that Swarm's lemmas do not allow a remote.
LEMMA SeededIsAny == SeededTypeOK /\ [SeededNext]_seededVars => [AnyNext]_vars
<1> SUFFICES ASSUME SeededTypeOK, [SeededNext]_seededVars PROVE AnyNext \/ UNCHANGED vars
  OBVIOUS
<1>1. CASE UNCHANGED seededVars
  BY <1>1 DEF seededVars
<1>2. CASE MonitorRuns \/ MonitorReturns \/ IoRunReturns \/ Ended
  BY <1>2 DEF AnyNext
<1>3. ASSUME NEW p \in Peers,
             \/ Connects(p) \/ KeepsAlive(p) \/ MessageStarts(p)
             \/ Leaves(p) \/ Expires(p)
      PROVE  AnyNext
  BY <1>3
  DEF Connects, KeepsAlive, MessageStarts, Leaves, Expires, Handler, AnyPeersRun, AnyNext,
      AnyStep, PeerStep
<1>4. ASSUME NEW p \in Peers, NEW m \in Message, Handler(AsyncHandleMessage(p, m, {}))
      PROVE  AnyNext
  BY <1>4 DEF Handler, AnyPeersRun, AnyNext, AnyStep
<1>5. ASSUME NEW p \in Peers, Greets(p) PROVE AnyNext
  BY <1>4, <1>5, OwedMessages DEF Greets
<1>6. ASSUME NEW p \in Peers, Answers(p) PROVE AnyNext
  BY <1>4, <1>6, OwedMessages DEF Answers
<1> QED BY <1>1, <1>2, <1>3, <1>5, <1>6 DEF SeededNext

\* What is requested in a step are blocks of a piece.
LEMMA NewRequestsType ==
    ASSUME TypeOK, NEW p \in Peers, NEW v, Stepped(p, v), Sound(v.self)
    PROVE  NewRequests(p) \in SUBSET (Pieces \X BlockIdx)
<1>1. peers'[p] = v.self
  BY DEF Stepped, TypeOK
<1>2. /\ v.self.piece \in Pieces \cup {None} /\ v.self.requested \in SUBSET BlockIdx
      /\ v.self.piece = None => v.self.requested = {}
  BY WorldFields DEF Stepped, PeerState, Sound, Orderly, EmptyHanded
<1> QED BY <1>1, <1>2 DEF NewRequests

\* close() closes.
LEMMA CloseCloses ==
    ASSUME NEW p \in Peers, NEW w \in World
    PROVE  /\ Close(p, w).self.closed
           /\ Close(p, w).self.chain = w.self.chain
<1> DEFINE u == [w EXCEPT !.self.closed = TRUE]
           r == ReleasePiece(u)
<1>1. u \in World /\ u.self.closed /\ u.self.chain = w.self.chain
  BY DEF World, PeerState
<1>2. Close(p, w) = [r EXCEPT !.results = Append(@, ResultPeerDropped(p))]
  BY DEF Close
<1> HIDE DEF u
<1>3. r \in World /\ r.self.closed /\ r.self.chain = u.self.chain
  <2>1. r \in World
    BY <1>1, ReleasePieceType
  <2>2. CASE u.self.piece = None
    BY <1>1, <2>2 DEF ReleasePiece
  <2>3. CASE u.self.piece # None
    <3>1. r.self.closed = u.self.closed /\ r.self.chain = u.self.chain
      BY <1>1, <2>3 DEF ReleasePiece, World, PeerState
    <3> QED BY <1>1, <2>1, <3>1
  <2> QED BY <2>1, <2>2, <2>3
<1> HIDE DEF r
<1>4. Close(p, w).self = r.self
  BY <1>2, <1>3 DEF World
<1> QED BY <1>1, <1>3, <1>4

\* A peer does not take the piece it has just reported: that piece is neither
\* in the queue nor in anybody's hands.
LEMMA ReportedIsOther ==
    ASSUME TypeOK, PieceConservation, NEW p \in Peers, peers[p].piece # None,
           NEW v, Stepped(p, v),
           v.results = Append(result_queue, ResultPieceComplete(peers[p].piece, TRUE))
    PROVE  v.self.piece # peers[p].piece
<1> DEFINE r == ResultPieceComplete(peers[p].piece, TRUE)
<1>1. peers[p].piece \in Pieces /\ result_queue \in Seq(Result)
  BY DEF TypeOK, PeerState, QueuesTypeOK
<1>2. r \in Result /\ r.type = "PieceComplete" /\ r.piece = peers[p].piece
  BY <1>1 DEF ResultPieceComplete, Result
<1>3. v.results = Append(result_queue, r)
  OBVIOUS
<1> HIDE DEF r
<1>4. peers[p].piece \in Reported(v.results)
  BY <1>1, <1>2, <1>3, PushResult, ZenonT(60)
<1>5. Conserves(v, Share(p))
  BY EnterConserves DEF Stepped, Keeps
<1>6. Own(v) \cap Reported(v.results) = {}
  BY <1>5 DEF Conserves
<1> QED BY <1>4, <1>6 DEF Own

----------------------------------------------------------------------------
(* The two books, handler by handler.                                      *)

\* A greeting moves choked_ or available_pieces_; what is requested after it
\* arrives at the remote.
LEMMA GreetingBooks ==
    ASSUME SeededInv, NEW p \in Peers, NEW m \in Greeting(p),
           AsyncHandleMessage(p, m, {}), NEW v, Stepped(p, v)
    PROVE  Books(peers'[p], asked[p] \cup NewRequests(p))
<1> DEFINE w == Enter(p)
           handled == Dispatch(p, w, m)
           x == v.self
           self == w.self
<1>1. TypeOK /\ Sound(peers[p]) /\ m \in Message /\ m.type \in {"Bitfield", "Unchoke"}
  BY OwedMessages DEF SeededInv, SeededTypeOK, AllSound
<1>2. Grew(handled.self, x) /\ Sound(x) /\ x.chain = "read_len"
  BY <1>1, MessageGrows, MessageStep
<1>3. w \in World /\ self = peers[p] /\ peers'[p] = x
  BY <1>1, EnterType DEF Enter, Stepped, TypeOK
<1>4. /\ handled.self.piece = self.piece /\ handled.self.requested = self.requested
      /\ handled.self.closed = self.closed
  <2> HIDE DEF w
  <2> QED BY <1>1, <1>3 DEF Dispatch, World, PeerState
<1>5. self.chain = "read_body"
  BY DEF AsyncHandleMessage
<1> HIDE DEF handled, w, self, x
<1>6. CASE x.closed
  BY <1>2, <1>3, <1>6 DEF Books, Handshaking, Reading
<1>7. CASE ~x.closed
  <2>1. ~self.closed
    BY <1>2, <1>4, <1>7 DEF Grew
  <2>2. asked[p] = {self.piece} \X self.requested
    BY <1>3, <1>5, <2>1 DEF SeededInv, Books, Reading
  <2>3. self.requested \subseteq x.requested
    BY <1>2, <1>4 DEF Grew
  <2>4. self.piece # None => x.piece = self.piece
    BY <1>2, <1>4 DEF Grew
  <2>5. self.piece = None => self.requested = {}
    BY <1>1, <1>3 DEF Sound, Orderly, EmptyHanded
  <2>6. NewRequests(p) = {x.piece} \X (x.requested \ self.requested)
    BY <1>3, <2>4, <2>5 DEF NewRequests
  <2>7. asked[p] \cup NewRequests(p) = {x.piece} \X x.requested
    BY <2>2, <2>3, <2>4, <2>5, <2>6
  <2> QED BY <1>2, <1>3, <2>7 DEF Books, Handshaking, Reading
<1> QED BY <1>6, <1>7

\* A block that was waited for is taken: the piece stays in the peer's hands,
\* is reported, or is given back by a peer that closes (handle_piece).
Stays(w, b, h) ==
    /\ h.self.piece = w.self.piece /\ h.self.requested = w.self.requested \ {b}
    /\ h.self.block[b] \in FilledState

Reports(w, b, h) ==
    /\ h.results = Append(w.results, ResultPieceComplete(w.self.piece, TRUE))
    /\ \A c \in BlockIdx \ {b} : w.self.block[c] \in FilledState

LEMMA AnswerTaken ==
    ASSUME NEW p \in Peers, NEW w \in World, NEW m \in PieceMessage, w.self.piece # None,
           Accept(w.self.piece, w.self.block, m) = "Ok"
    PROVE  LET h == HandlePiece(p, w, m)
           IN  h.self.closed \/ Stays(w, m.block, h) \/ Reports(w, m.block, h)
<1> DEFINE b == m.block
           filled == ReleaseBlock(Fill(w, m), b)
           cleared == [filled EXCEPT !.self.requested = {}, !.self.orphans = {}]
           h == HandlePiece(p, w, m)
<1>1. /\ filled \in World /\ filled.results = w.results
      /\ b \in BlockIdx /\ m.data \in FilledState
      /\ filled.self.piece = w.self.piece
      /\ filled.self.requested = w.self.requested \ {b}
      /\ filled.self.block = [w.self.block EXCEPT ![b] = m.data]
  BY AcceptedFields
<1>2. h = IF ~IsComplete(filled.self.block) THEN filled
          ELSE IF Intact(filled.self.block) THEN Deliver(cleared) ELSE Close(p, cleared)
  BY DEF HandlePiece
<1>3. w.self.block \in [BlockIdx -> BlockState]
  BY WorldFields
<1> HIDE DEF filled
<1>4. /\ cleared \in World /\ cleared.results = w.results /\ cleared.self.piece = w.self.piece
      /\ cleared.self.block = filled.self.block
  BY <1>1 DEF World, PeerState
<1> HIDE DEF cleared, h, b
<1>5. CASE ~IsComplete(filled.self.block)
  <2>1. h = filled
    BY <1>2, <1>5
  <2> QED BY <1>1, <1>3, <2>1 DEF Stays, h, b
<1>6. CASE IsComplete(filled.self.block) /\ Intact(filled.self.block)
  <2>1. h = Deliver(cleared) /\ Intact(cleared.self.block) = TRUE
    BY <1>2, <1>4, <1>6 DEF Intact
  <2>2. h.results = Append(w.results, ResultPieceComplete(w.self.piece, TRUE))
    BY <1>4, <2>1 DEF Deliver, World
  <2>3. \A c \in BlockIdx \ {b} : w.self.block[c] \in FilledState
    BY <1>1, <1>3, <1>6 DEF IsComplete
  <2> QED BY <2>2, <2>3 DEF Reports, h, b
<1>7. CASE IsComplete(filled.self.block) /\ ~Intact(filled.self.block)
  <2>1. h = Close(p, cleared)
    BY <1>2, <1>7
  <2> QED BY <1>4, <2>1, CloseCloses DEF h
<1> QED BY <1>5, <1>6, <1>7

\* An answer is taken, so its block is waited for no more; what is requested
\* next, of the same piece or of another one, arrives at the remote.
LEMMA AnswerBooks ==
    ASSUME SeededInv, NEW p \in Peers, NEW r \in asked[p],
           AsyncHandleMessage(p, Answer(r), {}), NEW v, Stepped(p, v)
    PROVE  Books(peers'[p], (asked[p] \ {r}) \cup NewRequests(p))
<1> DEFINE w == Enter(p)
           m == Answer(r)
           handled == Dispatch(p, w, m)
           x == v.self
           self == w.self
<1>1. TypeOK /\ Sound(peers[p]) /\ m \in Message /\ m \in PieceMessage
  BY OwedMessages DEF SeededInv, SeededTypeOK, AllSound
<1>2. /\ Grew(handled.self, x) /\ Sound(x) /\ v.results = handled.results
      /\ x.chain = "read_len"
      /\ Handled(p, w, handled)
  BY <1>1, MessageGrows, MessageStep
<1>3. w \in World /\ self = peers[p] /\ w.results = result_queue /\ peers'[p] = x
  BY <1>1, EnterType DEF Enter, Stepped, TypeOK
<1>4. self.chain = "read_body"
  BY DEF AsyncHandleMessage
<1>5. handled = HandlePiece(p, w, m)
  BY DEF Dispatch, Answer
<1> HIDE DEF handled, w, self, x
<1>6. CASE x.closed
  BY <1>2, <1>3, <1>6 DEF Books, Handshaking, Reading
<1>7. CASE ~x.closed
  <2>1. ~handled.self.closed
    BY <1>2, <1>7 DEF Grew
  <2>2. ~self.closed
    <3>1. self.closed => self.piece = None
      BY <1>1, <1>3, <1>4 DEF Sound, Returning
    <3>2. self.piece = None => handled = w
      BY <1>5 DEF HandlePiece, self
    <3> QED BY <2>1, <3>1, <3>2 DEF self
  <2>3. asked[p] = {self.piece} \X self.requested
    BY <1>3, <1>4, <2>2 DEF SeededInv, Books, Reading
  <2>4. PICK b \in self.requested : r = <<self.piece, b>>
    BY <2>3
  <2>5. self.piece # None /\ self.requested = Reserved(self.block)
    BY <1>1, <1>3, <1>4, <2>2, <2>4 DEF Sound, Orderly, EmptyHanded, Booked
  <2>6. m.block = b /\ m.data = "good" /\ m.piece = self.piece /\ m.size = "fits"
    BY <2>4 DEF Answer
  <2>7. b \in BlockIdx /\ self.block[b] = "reserved"
    BY <2>5 DEF Reserved
  <2>8. Accept(self.piece, self.block, m) = "Ok"
    BY <2>6, <2>7 DEF Accept, FilledState
  <2>9. Stays(w, b, handled) \/ Reports(w, b, handled)
    BY <1>1, <1>3, <1>5, <2>1, <2>5, <2>6, <2>8, AnswerTaken DEF self
  <2>10. CASE Stays(w, b, handled)
    <3>1. /\ handled.self.piece = self.piece
          /\ handled.self.requested = self.requested \ {b}
          /\ handled.self.block[b] \in FilledState
      BY <2>10 DEF Stays, self
    <3>2. x.piece = self.piece /\ self.requested \ {b} \subseteq x.requested
      BY <1>2, <2>5, <3>1 DEF Grew
    <3>3. b \notin x.requested
      <4>1. x.block[b] \in FilledState
        BY <1>2, <2>7, <3>1 DEF Grew
      <4>2. x.requested \subseteq Reserved(x.block)
        BY <1>2 DEF Sound, Orderly, Booked
      <4> QED BY <4>1, <4>2 DEF Reserved, FilledState
    <3>4. NewRequests(p) = {x.piece} \X (x.requested \ self.requested)
      BY <1>3, <3>2 DEF NewRequests
    <3>5. (asked[p] \ {r}) \cup NewRequests(p) = {x.piece} \X x.requested
      BY <2>3, <2>4, <3>2, <3>3, <3>4
    <3> QED BY <1>2, <1>3, <3>5 DEF Books, Handshaking, Reading
  <2>11. CASE Reports(w, b, handled)
    <3>1. self.requested = {b}
      BY <2>4, <2>5, <2>11 DEF Reports, Reserved, FilledState, self
    <3>2. x.piece # self.piece
      <4>1. /\ v.results = Append(result_queue, ResultPieceComplete(peers[p].piece, TRUE))
            /\ peers[p].piece # None
        BY <1>2, <1>3, <2>5, <2>11 DEF Reports, self
      <4>2. v.self.piece # peers[p].piece
        BY <1>1, <4>1, ReportedIsOther DEF SeededInv
      <4> QED BY <1>3, <4>2 DEF x
    <3>3. NewRequests(p) = {x.piece} \X x.requested
      BY <1>3, <3>2 DEF NewRequests
    <3>4. (asked[p] \ {r}) \cup NewRequests(p) = {x.piece} \X x.requested
      BY <2>3, <2>4, <3>1, <3>3
    <3> QED BY <1>2, <1>3, <3>4 DEF Books, Handshaking, Reading
  <2> QED BY <2>9, <2>10, <2>11
<1> QED BY <1>6, <1>7

\* A peer whose remote left, or whose timer expired, is closed, or its chain
\* of handlers has ended.
LEMMA LeavingEnds ==
    ASSUME TypeOK, NEW p \in Peers,
           \/ OperationFailed(p) \/ BodyFailed(p)
           \/ \E b \in BlockIdx : BlockTimeout(p, b) \/ StaleTimeout(p, b)
    PROVE  \/ peers'[p].closed /\ peers'[p].chain = peers[p].chain
           \/ peers'[p].chain = "stopped"
<1> DEFINE w == Enter(p)
           u == [w EXCEPT !.self.chain = "stopped", !.self.doomed = FALSE]
<1>1. w \in World
  BY EnterType
<1>2. \A y : Leave(p, y) => peers'[p] = y.self
  BY DEF Leave, TypeOK
<1>3. u \in World /\ u.self.chain = "stopped"
  BY <1>1 DEF World, PeerState, Chain
<1>4. CASE OperationFailed(p)
  <2>1. Leave(p, Close(p, u))
    BY <1>4 DEF OperationFailed
  <2> HIDE DEF u
  <2> QED BY <1>2, <1>3, <2>1, CloseCloses
<1>5. CASE BodyFailed(p)
  <2>1. Leave(p, ReleasePiece(u))
    BY <1>5 DEF BodyFailed
  <2> HIDE DEF u
  <2>2. ReleasePiece(u).self.chain = u.self.chain
    BY <1>3 DEF ReleasePiece, World, PeerState
  <2> QED BY <1>2, <1>3, <2>1, <2>2
<1>6. ASSUME NEW b \in BlockIdx, BlockTimeout(p, b)
      PROVE  peers'[p].closed /\ peers'[p].chain = peers[p].chain
  <2> DEFINE x == [w EXCEPT !.self.watch[b] = @ - 1]
  <2>1. Leave(p, Close(p, x)) /\ w.self.watch[b] > 0
    BY <1>6 DEF BlockTimeout
  <2>2. w.self.watch[b] - 1 \in Nat
    BY <1>1, <2>1, WorldFields
  <2>3. x \in World /\ x.self.chain = w.self.chain
    BY <1>1, <2>2 DEF World, PeerState
  <2> HIDE DEF x
  <2> QED BY <1>2, <2>1, <2>3, CloseCloses DEF Enter
<1>7. ASSUME NEW b \in BlockIdx, StaleTimeout(p, b)
      PROVE  peers'[p].closed /\ peers'[p].chain = peers[p].chain
  <2> DEFINE x == [w EXCEPT !.self.stale[b] = @ - 1]
  <2>1. Leave(p, Close(p, x)) /\ w.self.stale[b] > 0
    BY <1>7 DEF StaleTimeout
  <2>2. w.self.stale[b] - 1 \in Nat
    BY <1>1, <2>1, WorldFields
  <2>3. x \in World /\ x.self.chain = w.self.chain
    BY <1>1, <2>2 DEF World, PeerState
  <2> HIDE DEF x
  <2> QED BY <1>2, <2>1, <2>3, CloseCloses DEF Enter
<1> QED BY <1>4, <1>5, <1>6, <1>7

\* The steps that neither take nor send a request: the books stay as they are.
LEMMA QuietBooks ==
    ASSUME SeededInv, NEW p \in Peers,
           \/ AsyncHandshakeWrite(p) \/ AsyncHandshakeRead(p) \/ AsyncNext(p)
           \/ AsyncReadLen(p) \/ Keepalive(p)
    PROVE  Books(peers'[p], asked[p])
<1> DEFINE self == peers[p]
           x == peers'[p]
<1>1. self \in PeerState /\ Sound(self) /\ Books(self, asked[p])
  BY DEF SeededInv, SeededTypeOK, TypeOK, AllSound
<1>2. CASE AsyncHandshakeWrite(p) \/ AsyncHandshakeRead(p)
  <2>1. self.chain \in Handshaking /\ x.chain \in Handshaking
    BY <1>2
    DEF SeededInv, SeededTypeOK, TypeOK, PeerState, AsyncHandshakeWrite, AsyncHandshakeRead,
        Handshaking, Chain, Reading
  <2> QED BY <1>1, <2>1 DEF Books, Handshaking
<1>3. CASE AsyncNext(p) \/ AsyncReadLen(p) \/ Keepalive(p)
  <2>1. /\ x.chain \in Reading /\ x.closed = self.closed
        /\ x.piece = self.piece /\ x.requested = self.requested
    <3> DEFINE w == Enter(p)
               u == [w EXCEPT !.results = Append(@, ResultPeerConnected(p))]
               l == [w EXCEPT !.self.chain = "read_body", !.self.doomed = w.self.closed]
    <3>1. w \in World /\ w.self = self /\ \A y : Leave(p, y) => x = y.self
      BY EnterType DEF SeededInv, SeededTypeOK, TypeOK, Enter, Leave
    <3>2. ASSUME NEW y, y.self = self, Leave(p, AsyncReadMessage(y))
          PROVE  /\ x.chain = "read_len" /\ x.closed = self.closed
                 /\ x.piece = self.piece /\ x.requested = self.requested
      <4>1. x = AsyncReadMessage(y).self
        BY <3>1, <3>2
      <4>2. AsyncReadMessage(y).self = [self EXCEPT !.chain = "read_len", !.doomed = self.closed]
        BY <3>2 DEF AsyncReadMessage
      <4> QED BY <1>1, <4>1, <4>2 DEF PeerState
    <3>3. CASE AsyncNext(p)
      <4>1. Leave(p, AsyncReadMessage(u)) /\ u.self = self
        BY <3>1, <3>3 DEF AsyncNext, World
      <4> QED BY <3>2, <4>1 DEF Reading
    <3>4. CASE AsyncReadLen(p)
      <4>1. x = l.self
        BY <3>1, <3>4 DEF AsyncReadLen
      <4> QED BY <3>1, <4>1, ZenonT(60) DEF World, PeerState, Reading
    <3>5. CASE Keepalive(p)
      <4>1. Leave(p, AsyncReadMessage(w))
        BY <3>5 DEF Keepalive
      <4> QED BY <3>1, <3>2, <4>1 DEF Reading
    <3> QED BY <1>3, <3>3, <3>4, <3>5
  <2>2. CASE AsyncNext(p)
    <3>1. self.chain \in Handshaking
      BY <2>2 DEF AsyncNext, Enter, Handshaking, Chain, Reading
    <3>2. self.requested = {}
      BY <1>1, <3>1 DEF Sound, Orderly, Unused, NewPeer
    <3> QED BY <1>1, <2>1, <3>1, <3>2 DEF Books, Handshaking
  <2>3. CASE AsyncReadLen(p) \/ Keepalive(p)
    <3>1. self.chain \in Reading
      BY <2>3 DEF AsyncReadLen, Keepalive, Enter, Reading
    <3> QED BY <1>1, <2>1, <3>1 DEF Books, Handshaking
  <2> QED BY <1>3, <2>2, <2>3
<1> QED BY <1>2, <1>3

\* A step of the remote or of the peer p keeps the two books of p, and leaves
\* those of the other peers alone.
OneKept(p) ==
    /\ asked' \in [Peers -> SUBSET (Pieces \X BlockIdx)]
    /\ Books(peers'[p], asked'[p])
    /\ \A q \in Peers \ {p} : peers'[q] = peers[q] /\ asked'[q] = asked[q]

LEMMA PeerKeeps ==
    ASSUME SeededInv, NEW p \in Peers,
           \/ Connects(p) \/ KeepsAlive(p) \/ MessageStarts(p)
           \/ Greets(p) \/ Answers(p) \/ Leaves(p) \/ Expires(p)
    PROVE  OneKept(p)
<1>1. SeededTypeOK /\ TypeOK /\ asked \in [Peers -> SUBSET (Pieces \X BlockIdx)]
  BY DEF SeededInv, SeededTypeOK
<1>2. ASSUME NEW m \in Message, AsyncHandleMessage(p, m, {})
      PROVE  /\ \E v : Stepped(p, v) /\ Sound(v.self)
             /\ \A q \in Peers \ {p} : peers'[q] = peers[q]
  BY <1>1, <1>2, MessageKeeps, MessageStep DEF SeededInv, AllSound, Stepped, TypeOK
<1>3. ASSUME PeerStep(p), UNCHANGED asked, Books(peers'[p], asked[p])
      PROVE  OneKept(p)
  <2>1. PICK v : Stepped(p, v)
    BY <1>1, <1>3, PeerStepKeeps
  <2> QED BY <1>1, <1>3, <2>1 DEF Stepped, TypeOK, OneKept
<1>4. CASE Connects(p) \/ KeepsAlive(p) \/ MessageStarts(p)
  <2>1. UNCHANGED asked /\ PeerStep(p)
    BY <1>4 DEF Connects, KeepsAlive, MessageStarts, Handler, PeerStep
  <2>2. Books(peers'[p], asked[p])
    BY <1>4, QuietBooks DEF Connects, KeepsAlive, MessageStarts, Handler
  <2> QED BY <1>3, <2>1, <2>2
<1>5. CASE Leaves(p) \/ Expires(p)
  <2>1. UNCHANGED asked /\ PeerStep(p)
    BY <1>5 DEF Leaves, Expires, Handler, PeerStep
  <2>2. \/ peers'[p].closed /\ peers'[p].chain = peers[p].chain
        \/ peers'[p].chain = "stopped"
    BY <1>1, <1>5, LeavingEnds DEF Leaves, Expires, Handler
  <2>3. Books(peers'[p], asked[p])
    BY <2>2 DEF SeededInv, Books, Reading, Handshaking
  <2> QED BY <1>3, <2>1, <2>3
<1>6. CASE Greets(p)
  <2>1. PICK m \in Greeting(p) : AsyncHandleMessage(p, m, {})
    BY <1>6 DEF Greets, Handler
  <2>2. m \in Message
    BY <1>1, OwedMessages
  <2>3. PICK v : Stepped(p, v) /\ Sound(v.self)
    BY <1>2, <2>1, <2>2
  <2>4. asked' = [asked EXCEPT ![p] = @ \cup NewRequests(p)]
    BY <1>6 DEF Greets
  <2>5. Books(peers'[p], asked[p] \cup NewRequests(p))
    BY <2>1, <2>3, GreetingBooks
  <2>6. NewRequests(p) \in SUBSET (Pieces \X BlockIdx)
    BY <1>1, <2>3, NewRequestsType
  <2>7. \A q \in Peers \ {p} : peers'[q] = peers[q]
    BY <1>2, <2>1, <2>2
  <2> QED BY <1>1, <2>4, <2>5, <2>6, <2>7 DEF OneKept
<1>7. CASE Answers(p)
  <2>1. PICK r \in asked[p] :
            /\ AsyncHandleMessage(p, Answer(r), {})
            /\ asked' = [asked EXCEPT ![p] = (@ \ {r}) \cup NewRequests(p)]
    BY <1>7 DEF Answers, Handler
  <2>2. Answer(r) \in Message
    BY <1>1, OwedMessages
  <2>3. PICK v : Stepped(p, v) /\ Sound(v.self)
    BY <1>2, <2>1, <2>2
  <2>4. Books(peers'[p], (asked[p] \ {r}) \cup NewRequests(p))
    BY <2>1, <2>3, AnswerBooks
  <2>5. NewRequests(p) \in SUBSET (Pieces \X BlockIdx)
    BY <1>1, <2>3, NewRequestsType
  <2>6. \A q \in Peers \ {p} : peers'[q] = peers[q]
    BY <1>2, <2>1, <2>2
  <2> QED BY <1>1, <2>1, <2>4, <2>5, <2>6 DEF OneKept
<1> QED BY <1>4, <1>5, <1>6, <1>7

\* They agree at the beginning and after every step.
LEMMA InitSeeded == SeededInit => SeededInv
<1> SUFFICES ASSUME SeededInit PROVE SeededInv
  OBVIOUS
<1>1. TypeOK /\ PieceConservation /\ AllSound
  BY InitType, InitConserves, InitSound DEF SeededInit
<1>2. SeededTypeOK
  BY <1>1 DEF SeededInit, SeededTypeOK
<1>3. ASSUME NEW p \in Peers PROVE Books(peers[p], asked[p])
  BY DEF SeededInit, Init, PeerInit, NewPeer, Books, Reading
<1> QED BY <1>1, <1>2, <1>3 DEF SeededInv

LEMMA NextSeeded == SeededInv /\ [SeededNext]_seededVars => SeededInv'
<1> SUFFICES ASSUME SeededInv, [SeededNext]_seededVars PROVE SeededInv'
  OBVIOUS
<1>1. TypeOK' /\ PieceConservation' /\ AllSound'
  BY SeededIsAny, NextType, NextConserves, NextSound DEF SeededInv, SeededTypeOK
<1>2. ASSUME NEW p \in Peers,
             \/ Connects(p) \/ KeepsAlive(p) \/ MessageStarts(p)
             \/ Greets(p) \/ Answers(p) \/ Leaves(p) \/ Expires(p)
      PROVE  SeededInv'
  <2>1. OneKept(p)
    BY <1>2, PeerKeeps
  <2>2. (\A q \in Peers : Books(peers[q], asked[q]))'
    BY <2>1 DEF OneKept, SeededInv
  <2>3. /\ greeting' \in [Peers -> {"bitfield", "unchoke", "done"}]
        /\ quitters' \subseteq Quitters
    BY <1>2
    DEF SeededInv, SeededTypeOK, Connects, KeepsAlive, MessageStarts, Greets, Answers,
        Leaves, Expires
  <2> QED BY <1>1, <2>1, <2>2, <2>3 DEF SeededInv, SeededTypeOK, OneKept
<1>3. CASE UNCHANGED <<peers, greeting, asked, quitters>>
  BY <1>1, <1>3 DEF SeededInv, SeededTypeOK
<1> QED
  BY <1>2, <1>3
  DEF SeededNext, seededVars, vars, MonitorRuns, MonitorReturns, IoRunReturns, Ended

----------------------------------------------------------------------------
(* The theorems.                                                           *)

\* What is not fairness in the specification.
LEMMA SeededSafety == SeededSpec => SeededInit /\ [][SeededNext]_seededVars
BY PTL DEF SeededSpec

LEMMA SeededAlways == SeededSpec => []SeededInv
BY SeededSafety, InitSeeded, NextSeeded, PTL

\* Every variable keeps its type, those of the remotes too.
THEOREM SeededTypeCorrect == SeededSpec => []SeededTypeOK
<1>1. SeededInv => SeededTypeOK
  BY DEF SeededInv
<1> QED BY <1>1, SeededAlways, PTL

\* While both sides are there a peer waits for exactly the blocks its remote
\* was asked for, and takes every answer, for any number of remotes, pieces
\* and blocks, any order of answers and whoever leaves (async_download,
\* handle_piece, release_block).
THEOREM BooksAlwaysAgree == SeededSpec => []BothBooksAgree
<1>1. SeededInv => BothBooksAgree
  <2> SUFFICES ASSUME SeededInv, NEW p \in Peers,
                      ~peers[p].closed, peers[p].chain \in Reading
               PROVE  /\ asked[p] = {<<peers[p].piece, b>> : b \in peers[p].requested}
                      /\ \A r \in asked[p] :
                            Accept(peers[p].piece, peers[p].block, Answer(r)) = "Ok"
    BY DEF BothBooksAgree
  <2>1. asked[p] = {peers[p].piece} \X peers[p].requested
    BY DEF SeededInv, Books
  <2>2. peers[p].requested \subseteq Reserved(peers[p].block)
    BY DEF SeededInv, AllSound, Sound, Orderly, Booked
  <2>3. ASSUME NEW r \in asked[p]
        PROVE  Accept(peers[p].piece, peers[p].block, Answer(r)) = "Ok"
    <3>1. PICK b \in peers[p].requested : r = <<peers[p].piece, b>>
      BY <2>1
    <3>2. b \in BlockIdx /\ peers[p].block[b] = "reserved"
      BY <2>2 DEF Reserved
    <3> QED BY <3>1, <3>2 DEF Accept, Answer, FilledState
  <2> QED BY <2>1, <2>3
<1> QED BY <1>1, SeededAlways, PTL
=============================================================================
