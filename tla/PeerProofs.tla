----------------------------- MODULE PeerProofs -----------------------------
(***************************************************************************)
(* What holds of every single connection, whatever its remote sends and    *)
(* whatever fails: its books are in order, it never waits in silence, and  *)
(* after close() it only gives back.  The inductive invariant, Sound,      *)
(* speaks of one Peer object, so that a step has to be followed through    *)
(* one work record only.                                                   *)
(***************************************************************************)
EXTENDS SwarmProofs, FiniteSetTheorems, WellFoundedInduction

Handshaking == Chain \ (Reading \cup {"stopped"})
Reserved(block) == {b \in BlockIdx : block[b] = "reserved"}

\* The keys of blocks_.
Keys(self) == self.requested \cup self.orphans

\* Without a piece there is no block, no request and no timer of one.
EmptyHanded(self) ==
    self.piece = None => self.block = Fresh /\ self.requested = {} /\ self.watch = NoTimers

\* A reserved block has a timer, and a filled one has none that counts.
Watched(self) ==
    \A b \in BlockIdx :
        /\ self.block[b] = "reserved" => self.watch[b] > 0
        /\ self.block[b] \in FilledState => self.watch[b] = 0

\* blocks_ holds reserved blocks of the piece, all of them until the peer is
\* dropped or its chain of handlers has ended.
Booked(self) ==
    /\ self.requested \subseteq Reserved(self.block)
    /\ ~self.closed /\ self.chain # "stopped"
            => self.orphans = {} /\ self.requested = Reserved(self.block)
    /\ Cardinality(Keys(self)) <= PIPELINE_LIMIT

\* A complete piece leaves the peer's hands in the handler that completed it.
Unfinished(self) == self.piece # None => ~IsComplete(self.block)

\* Until the handshake was read nothing but the chain has moved.
Unused(self) == self.chain \in Handshaking => self = [NewPeer EXCEPT !.chain = self.chain]

Orderly(self) ==
    /\ EmptyHanded(self)
    /\ Watched(self)
    /\ Booked(self)
    /\ Unfinished(self)
    /\ Unused(self)

\* The parts of the two properties that are about one peer.
Returning(self) ==
    self.closed /\ self.piece # None => self.chain = "read_len" /\ self.doomed

Guarded(self) ==
    /\ ~self.closed /\ self.chain = "read_len"
    /\ ~self.choked /\ self.available # None /\ self.piece # None
    => \E b \in BlockIdx : self.watch[b] > 0

Sound(self) == Orderly(self) /\ Returning(self) /\ Guarded(self)

----------------------------------------------------------------------------
(* The order of next_block().                                              *)

LEMMA BlocksFinite ==
    /\ IsFiniteSet(BlockIdx)
    /\ \A A \in SUBSET BlockIdx : IsFiniteSet(A) /\ Cardinality(A) \in Nat
<1>1. 0 \in Int /\ BlockCount - 1 \in Int
  BY BlockCountAssumption
<1>2. IsFiniteSet(BlockIdx)
  BY <1>1, FS_Interval DEF BlockIdx
<1> QED BY <1>2, FS_Subset, FS_CardinalityType

\* Among subsets of a finite set one has no other below it.
LEMMA SmallestSet ==
    ASSUME NEW D, IsFiniteSet(D), NEW F, F \subseteq SUBSET D, F # {}
    PROVE  \E X \in F : \A Y \in F : Y \subseteq X => Y = X
<1>1. IsWellFoundedOn(StrictSubsetOrdering(D), SUBSET D)
  <2>1. FiniteSubsetsOf(D) = SUBSET D
    BY FS_FiniteSubsetsOfFinite
  <2> QED BY <2>1, FS_StrictSubsetOrderingWellFounded
<1>2. PICK X \in F : \A Y \in F : <<Y, X>> \notin StrictSubsetOrdering(D)
  BY <1>1, WFMin
<1> QED BY <1>2 DEF StrictSubsetOrdering

\* Precedes is a strict order.
LEMMA PrecedesOrders ==
    ASSUME NEW block \in [BlockIdx -> BlockState]
    PROVE  /\ \A b \in BlockIdx : ~Precedes(block, b, b)
           /\ \A b, c, d \in BlockIdx :
                 Precedes(block, b, c) /\ Precedes(block, c, d) => Precedes(block, b, d)
           /\ \A b, c \in Candidates(block) :
                 b # c => Precedes(block, b, c) \/ Precedes(block, c, b)
<1>1. \A b \in BlockIdx : b \in Int
  BY BlockCountAssumption DEF BlockIdx
<1>2. \A b \in BlockIdx : ~Precedes(block, b, b)
  BY <1>1 DEF Precedes
<1>3. \A b, c, d \in BlockIdx :
          Precedes(block, b, c) /\ Precedes(block, c, d) => Precedes(block, b, d)
  BY <1>1 DEF Precedes
<1>4. \A b, c \in Candidates(block) :
          b # c => Precedes(block, b, c) \/ Precedes(block, c, b)
  BY <1>1 DEF Precedes, Candidates
<1> QED BY <1>2, <1>3, <1>4

\* Of some candidates one comes first and one comes last.
LEMMA FirstBlock ==
    ASSUME NEW block \in [BlockIdx -> BlockState], NEW A \in SUBSET Candidates(block), A # {}
    PROVE  \E c \in A : \A b \in A : ~Precedes(block, b, c)
<1> DEFINE Upto(c) == {b \in A : b = c \/ Precedes(block, b, c)}
<1>1. A \subseteq BlockIdx
  BY DEF Candidates
<1> DEFINE F == {Upto(c) : c \in A}
<1>2. F \subseteq SUBSET BlockIdx /\ F # {}
  BY <1>1
<1> HIDE DEF F
<1>3. PICK X \in F : \A Y \in F : Y \subseteq X => Y = X
  BY <1>2, BlocksFinite, SmallestSet
<1>4. PICK c \in A : X = Upto(c)
  BY <1>3 DEF F
<1>5. \A b \in A : Upto(b) \in F
  BY DEF F
<1>6. ASSUME NEW b \in A, Precedes(block, b, c) PROVE FALSE
  <2>1. Upto(b) \subseteq Upto(c)
    BY <1>1, <1>6, PrecedesOrders
  <2>2. c \in Upto(c) /\ c \notin Upto(b)
    BY <1>1, <1>6, PrecedesOrders
  <2> QED BY <1>3, <1>4, <1>5, <2>1, <2>2
<1> QED BY <1>6

LEMMA LastBlock ==
    ASSUME NEW block \in [BlockIdx -> BlockState], NEW A \in SUBSET Candidates(block), A # {}
    PROVE  \E c \in A : \A b \in A : ~Precedes(block, c, b)
<1> DEFINE From(c) == {b \in A : b = c \/ Precedes(block, c, b)}
<1>1. A \subseteq BlockIdx
  BY DEF Candidates
<1> DEFINE F == {From(c) : c \in A}
<1>2. F \subseteq SUBSET BlockIdx /\ F # {}
  BY <1>1
<1> HIDE DEF F
<1>3. PICK X \in F : \A Y \in F : Y \subseteq X => Y = X
  BY <1>2, BlocksFinite, SmallestSet
<1>4. PICK c \in A : X = From(c)
  BY <1>3 DEF F
<1>5. \A b \in A : From(b) \in F
  BY DEF F
<1>6. ASSUME NEW b \in A, Precedes(block, c, b) PROVE FALSE
  <2>1. From(b) \subseteq From(c)
    BY <1>1, <1>6, PrecedesOrders
  <2>2. c \in From(c) /\ c \notin From(b)
    BY <1>1, <1>6, PrecedesOrders
  <2> QED BY <1>3, <1>4, <1>5, <2>1, <2>2
<1> QED BY <1>6

----------------------------------------------------------------------------
(* How many blocks async_download requests.                                *)

\* blocks_ never outgrows PIPELINE_LIMIT.
LEMMA PipelineKept ==
    ASSUME NEW self \in PeerState, Cardinality(Keys(self)) <= PIPELINE_LIMIT
    PROVE  Cardinality(Keys(self) \cup NextRequests(self)) <= PIPELINE_LIMIT
<1> DEFINE blocks == NextRequests(self)
           before(b) == {c \in Candidates(self.block) : Precedes(self.block, c, b)}
<1>1. /\ self.block \in [BlockIdx -> BlockState] /\ Keys(self) \subseteq BlockIdx
      /\ Candidates(self.block) \subseteq BlockIdx /\ blocks \subseteq Candidates(self.block)
      /\ PIPELINE_LIMIT \in Nat
  BY PeerAssumption DEF PeerState, Keys, NextRequests, Candidates
<1>2. \A b \in blocks : Cardinality(Keys(self) \cup before(b)) < PIPELINE_LIMIT
  BY DEF NextRequests, Keys
<1> HIDE DEF blocks
<1>3. CASE blocks = {}
  BY <1>3 DEF blocks
<1>4. CASE blocks # {}
  <2>1. PICK last \in blocks : \A b \in blocks : ~Precedes(self.block, last, b)
    BY <1>1, <1>4, LastBlock
  <2>2. blocks \subseteq before(last) \cup {last}
    BY <1>1, <2>1, PrecedesOrders
  <2> DEFINE most == Keys(self) \cup before(last)
  <2>3. most \subseteq BlockIdx /\ last \in BlockIdx
    BY <1>1, <2>1
  <2>4. IsFiniteSet(most) /\ IsFiniteSet(most \cup {last}) /\ Cardinality(most) \in Nat
    BY <2>3, BlocksFinite
  <2>5. Cardinality(most) < PIPELINE_LIMIT
    BY <1>2, <2>1
  <2>6. Keys(self) \cup blocks \subseteq most \cup {last}
    BY <2>2
  <2> HIDE DEF most
  <2>7. Cardinality(most \cup {last}) <= Cardinality(most) + 1
    BY <2>4, FS_AddElement
  <2>8. /\ Cardinality(Keys(self) \cup blocks) <= Cardinality(most \cup {last})
        /\ Cardinality(Keys(self) \cup blocks) \in Nat /\ Cardinality(most \cup {last}) \in Nat
    BY <2>4, <2>6, FS_Subset, FS_CardinalityType
  <2> QED BY <1>1, <2>4, <2>5, <2>7, <2>8 DEF blocks
<1> QED BY <1>3, <1>4

\* While blocks_ has room the first candidate is requested.
LEMMA FirstRequested ==
    ASSUME NEW self \in PeerState, Cardinality(Keys(self)) < PIPELINE_LIMIT,
           Candidates(self.block) # {}
    PROVE  NextRequests(self) # {}
<1> DEFINE before(b) == {c \in Candidates(self.block) : Precedes(self.block, c, b)}
<1>1. self.block \in [BlockIdx -> BlockState]
  BY DEF PeerState
<1>2. PICK first \in Candidates(self.block) :
          \A b \in Candidates(self.block) : ~Precedes(self.block, b, first)
  BY <1>1, FirstBlock
<1>3. before(first) = {}
  BY <1>2
<1>4. Cardinality(Keys(self) \cup before(first)) < PIPELINE_LIMIT
  <2> HIDE DEF before
  <2>1. Keys(self) \cup before(first) = Keys(self)
    BY <1>3
  <2> QED BY <2>1
<1> QED BY <1>4 DEF NextRequests, Keys

----------------------------------------------------------------------------
(* What the functions do to one Peer object.                               *)

\* A peer without a piece whose reads have begun is sound once it is closed
\* or its chain has ended.
LEMMA RestSound ==
    ASSUME NEW self \in PeerState, self.piece = None, EmptyHanded(self),
           Cardinality(Keys(self)) <= PIPELINE_LIMIT,
           self.chain \notin Handshaking, self.closed \/ self.chain = "stopped"
    PROVE  Sound(self)
<1>1. self.block = Fresh /\ self.requested = {} /\ self.watch = NoTimers
  BY DEF EmptyHanded
<1>2. Watched(self)
  BY <1>1 DEF Watched, Fresh, NoTimers, FilledState
<1>3. Booked(self)
  BY <1>1 DEF Booked
<1>4. Unfinished(self) /\ Unused(self) /\ Returning(self) /\ Guarded(self)
  BY DEF Unfinished, Unused, Returning, Guarded
<1> QED BY <1>2, <1>3, <1>4 DEF Sound, Orderly

\* release_piece() empties the hands, forgets no key and does nothing else.
LEMMA ReleasePieceFields ==
    ASSUME NEW w \in World, EmptyHanded(w.self)
    PROVE  LET v == ReleasePiece(w)
           IN  /\ v \in World /\ v.results = w.results
               /\ v.self.piece = None /\ EmptyHanded(v.self)
               /\ Keys(v.self) = Keys(w.self)
               /\ v.self.chain = w.self.chain /\ v.self.closed = w.self.closed
<1>0. ReleasePiece(w) \in World
  BY ReleasePieceType
<1>1. CASE w.self.piece = None
  BY <1>0, <1>1 DEF ReleasePiece
<1>2. CASE w.self.piece # None
  <2> DEFINE v == ReleasePiece(w)
  <2>1. /\ v.results = w.results /\ v.self.piece = None
        /\ v.self.block = Fresh /\ v.self.requested = {} /\ v.self.watch = NoTimers
        /\ v.self.orphans = w.self.orphans \cup w.self.requested
        /\ v.self.chain = w.self.chain /\ v.self.closed = w.self.closed
    BY <1>2, ZenonT(60) DEF ReleasePiece, World, PeerState
  <2> HIDE DEF v
  <2> QED BY <1>0, <2>1 DEF EmptyHanded, Keys, v
<1> QED BY <1>1, <1>2

LEMMA ReleasePieceSound ==
    ASSUME NEW w \in World, EmptyHanded(w.self),
           Cardinality(Keys(w.self)) <= PIPELINE_LIMIT,
           w.self.chain \notin Handshaking, w.self.closed \/ w.self.chain = "stopped"
    PROVE  Sound(ReleasePiece(w).self)
<1> DEFINE v == ReleasePiece(w)
<1>1. /\ v.self \in PeerState /\ v.self.piece = None /\ EmptyHanded(v.self)
      /\ Keys(v.self) = Keys(w.self)
      /\ v.self.chain = w.self.chain /\ v.self.closed = w.self.closed
  BY ReleasePieceFields, WorldFields
<1> HIDE DEF v
<1> QED BY <1>1, RestSound DEF v

\* close() empties the hands of a closed peer and reports it dropped.
LEMMA CloseFields ==
    ASSUME NEW p \in Peers, NEW w \in World, EmptyHanded(w.self)
    PROVE  LET v == Close(p, w)
           IN  /\ v \in World /\ v.results = Append(w.results, ResultPeerDropped(p))
               /\ v.self.piece = None /\ EmptyHanded(v.self)
               /\ Keys(v.self) = Keys(w.self)
               /\ v.self.chain = w.self.chain /\ v.self.closed
<1> DEFINE u == [w EXCEPT !.self.closed = TRUE]
           r == ReleasePiece(u)
<1>1. /\ u \in World /\ u.results = w.results /\ u.self.chain = w.self.chain /\ u.self.closed
      /\ Keys(u.self) = Keys(w.self) /\ EmptyHanded(u.self)
  BY DEF World, PeerState, Keys, EmptyHanded
<1> HIDE DEF u
<1>2. /\ r \in World /\ r.results = w.results
      /\ r.self.piece = None /\ EmptyHanded(r.self) /\ Keys(r.self) = Keys(w.self)
      /\ r.self.chain = w.self.chain /\ r.self.closed
  BY <1>1, ReleasePieceFields
<1>3. Close(p, w) = [r EXCEPT !.results = Append(@, ResultPeerDropped(p))]
  BY DEF Close, u
<1> HIDE DEF r
<1>4. Close(p, w).self = r.self /\ Close(p, w).results = Append(r.results, ResultPeerDropped(p))
  BY <1>2, <1>3 DEF World
<1> QED BY <1>2, <1>4, CloseType

LEMMA CloseSound ==
    ASSUME NEW p \in Peers, NEW w \in World, EmptyHanded(w.self),
           Cardinality(Keys(w.self)) <= PIPELINE_LIMIT, w.self.chain \notin Handshaking
    PROVE  Sound(Close(p, w).self)
<1> DEFINE v == Close(p, w)
<1>1. /\ v.self \in PeerState /\ v.self.piece = None /\ EmptyHanded(v.self)
      /\ Keys(v.self) = Keys(w.self) /\ v.self.chain = w.self.chain /\ v.self.closed
  BY CloseFields, WorldFields
<1> HIDE DEF v
<1> QED BY <1>1, RestSound DEF v

\* release_block() gives back a block that was requested and forgets its key.
LEMMA ReleaseBlockFields ==
    ASSUME NEW w \in World, NEW b
    PROVE  LET v == ReleaseBlock(w, b)
           IN  /\ v \in World /\ v.results = w.results /\ v.work = w.work
               /\ v.self.piece = w.self.piece /\ v.self.watch = w.self.watch
               /\ v.self.chain = w.self.chain /\ v.self.closed = w.self.closed
               /\ v.self.doomed = w.self.doomed /\ v.self.choked = w.self.choked
               /\ v.self.available = w.self.available
               /\ v.self.requested = w.self.requested \ {b}
               /\ v.self.orphans = w.self.orphans \ {b}
               /\ \A c \in BlockIdx :
                     v.self.block[c] =
                        IF c = b /\ c \in w.self.requested /\ w.self.block[c] = "reserved"
                        THEN "idle" ELSE w.self.block[c]
<1>1. ReleaseBlock(w, b) \in World
  BY ReleaseBlockType
<1> QED BY <1>1 DEF ReleaseBlock, World, PeerState

\* It leaves the books in order.
LEMMA ReleaseBlockOrderly ==
    ASSUME NEW w \in World, NEW b, Orderly(w.self), w.self.chain \notin Handshaking
    PROVE  Orderly(ReleaseBlock(w, b).self)
<1> DEFINE v == ReleaseBlock(w, b)
           x == v.self
           self == w.self
<1>0. self \in PeerState
  BY WorldFields
<1>1. /\ x.piece = self.piece /\ x.watch = self.watch
      /\ x.chain = self.chain /\ x.closed = self.closed
      /\ x.requested = self.requested \ {b} /\ x.orphans = self.orphans \ {b}
      /\ \A c \in BlockIdx :
            x.block[c] = IF c = b /\ c \in self.requested /\ self.block[c] = "reserved"
                         THEN "idle" ELSE self.block[c]
      /\ x.block \in [BlockIdx -> BlockState]
  BY ReleaseBlockFields, WorldFields
<1> HIDE DEF v, x, self
<1>2. Orderly(self) /\ self.chain \notin Handshaking
  BY DEF self
<1>3. self.block \in [BlockIdx -> BlockState] /\ self.requested \subseteq BlockIdx
      /\ self.orphans \subseteq BlockIdx
  BY <1>0 DEF PeerState
<1>4. \A c \in BlockIdx : c # b \/ c \notin self.requested => x.block[c] = self.block[c]
  BY <1>1
<1>5. \A c \in BlockIdx : c = b /\ c \in self.requested => x.block[c] = "idle"
  BY <1>1, <1>2 DEF Orderly, Booked, Reserved
<1>6. EmptyHanded(x)
  <2> SUFFICES ASSUME self.piece = None
               PROVE  x.block = Fresh /\ x.requested = {} /\ x.watch = NoTimers
    BY <1>1 DEF EmptyHanded
  <2>1. self.block = Fresh /\ self.requested = {} /\ self.watch = NoTimers
    BY <1>2 DEF Orderly, EmptyHanded
  <2> QED BY <1>1, <2>1 DEF Fresh
<1>7. Watched(x)
  BY <1>1, <1>2, <1>4, <1>5 DEF Watched, Orderly, FilledState
<1>8. Booked(x)
  <2>1. Reserved(x.block) = Reserved(self.block) \ ({b} \cap self.requested)
    BY <1>4, <1>5 DEF Reserved
  <2>2. x.requested \subseteq Reserved(x.block)
    BY <1>1, <1>2, <2>1 DEF Orderly, Booked
  <2>3. ~x.closed /\ x.chain # "stopped" => x.orphans = {} /\ x.requested = Reserved(x.block)
    BY <1>1, <1>2, <2>1 DEF Orderly, Booked
  <2>4. Keys(x) \subseteq Keys(self) /\ Keys(self) \subseteq BlockIdx
    BY <1>1, <1>3 DEF Keys
  <2>5. Cardinality(Keys(x)) <= Cardinality(Keys(self))
        /\ Cardinality(Keys(x)) \in Nat /\ Cardinality(Keys(self)) \in Nat
    BY <2>4, BlocksFinite, FS_Subset
  <2> QED BY <1>2, <2>2, <2>3, <2>5, PeerAssumption DEF Orderly, Booked
<1>9. Unfinished(x) /\ Unused(x)
  <2>1. self.piece # None => \E c \in BlockIdx : self.block[c] \notin FilledState
    BY <1>2 DEF Orderly, Unfinished, IsComplete
  <2>2. \A c \in BlockIdx : self.block[c] \notin FilledState => x.block[c] \notin FilledState
    BY <1>4, <1>5 DEF FilledState
  <2> QED BY <1>1, <1>2, <2>1, <2>2 DEF Unfinished, Unused, IsComplete
<1> QED BY <1>6, <1>7, <1>8, <1>9 DEF Orderly, x, v

\* The monitor counts a peer as connected while it is up.
Up(self) == ~self.closed /\ self.chain \notin Handshaking

\* What a step of p from w to v may report to the monitor: nothing, a piece
\* with the right hash, or that p came up or was dropped.
Tells(p, w, v) ==
    \/ v.results = w.results /\ (Up(v.self) <=> Up(w.self))
    \/ /\ w.self.piece # None /\ Up(w.self) /\ Up(v.self)
       /\ v.results = Append(w.results, ResultPieceComplete(w.self.piece, TRUE))
    \/ v.results = Append(w.results, ResultPeerDropped(p)) /\ v.self.closed
    \/ v.results = Append(w.results, ResultPeerConnected(p)) /\ Up(v.self)

\* accept() and fill() touch the one block that was waited for.
LEMMA FillFields ==
    ASSUME NEW w \in World, NEW m \in PieceMessage,
           Accept(w.self.piece, w.self.block, m) = "Ok"
    PROVE  LET v == Fill(w, m)
           IN  /\ v \in World /\ v.results = w.results /\ v.work = w.work
               /\ m.block \in BlockIdx /\ m.piece = w.self.piece /\ m.data \in FilledState
               /\ w.self.block[m.block] \notin FilledState \cup {"unstarted"}
               /\ v.self.piece = w.self.piece
               /\ v.self.chain = w.self.chain /\ v.self.closed = w.self.closed
               /\ v.self.requested = w.self.requested /\ v.self.orphans = w.self.orphans
               /\ v.self.block = [w.self.block EXCEPT ![m.block] = m.data]
               /\ v.self.watch = [w.self.watch EXCEPT ![m.block] = 0]
<1>1. Fill(w, m) \in World
  BY FillType
<1>2. /\ m.block \in BlockIdx /\ m.piece = w.self.piece
      /\ w.self.block[m.block] \notin FilledState \cup {"unstarted"}
  BY DEF Accept, FilledState
<1>3. m.data \in FilledState
  BY DEF PieceMessage
<1>4. Fill(w, m) = [w EXCEPT !.self.block[m.block] = m.data, !.self.watch[m.block] = 0]
  BY DEF Fill
<1> DEFINE block == [w.self.block EXCEPT ![m.block] = m.data]
           watch == [w.self.watch EXCEPT ![m.block] = 0]
           self == [w.self EXCEPT !.block = block, !.watch = watch]
           v == Fill(w, m)
<1>5. v = [w EXCEPT !.self = self]
  BY <1>4, Zenon DEF World, PeerState
<1>6. /\ self.piece = w.self.piece
      /\ self.chain = w.self.chain /\ self.closed = w.self.closed
      /\ self.requested = w.self.requested /\ self.orphans = w.self.orphans
      /\ self.block = block /\ self.watch = watch
  <2> HIDE DEF block, watch
  <2> QED BY DEF World, PeerState
<1> HIDE DEF self
<1>7. v.results = w.results /\ v.work = w.work /\ v.self = self
  BY <1>5 DEF World
<1> HIDE DEF v
<1> QED BY <1>1, <1>2, <1>3, <1>6, <1>7 DEF v

\* The block that an answer filled is watched and booked no more.
LEMMA AcceptedFields ==
    ASSUME NEW w \in World, NEW m \in PieceMessage,
           Accept(w.self.piece, w.self.block, m) = "Ok"
    PROVE  LET v == ReleaseBlock(Fill(w, m), m.block)
           IN  /\ v \in World /\ v.results = w.results
               /\ m.block \in BlockIdx /\ m.data \in FilledState
               /\ v.self.piece = w.self.piece
               /\ v.self.chain = w.self.chain /\ v.self.closed = w.self.closed
               /\ v.self.requested = w.self.requested \ {m.block}
               /\ v.self.orphans = w.self.orphans \ {m.block}
               /\ v.self.block = [w.self.block EXCEPT ![m.block] = m.data]
               /\ v.self.watch = [w.self.watch EXCEPT ![m.block] = 0]
<1> DEFINE u == Fill(w, m)
           b == m.block
           v == ReleaseBlock(u, b)
<1>1. /\ u \in World /\ u.results = w.results
      /\ b \in BlockIdx /\ m.data \in FilledState
      /\ u.self.piece = w.self.piece
      /\ u.self.chain = w.self.chain /\ u.self.closed = w.self.closed
      /\ u.self.requested = w.self.requested /\ u.self.orphans = w.self.orphans
      /\ u.self.block = [w.self.block EXCEPT ![b] = m.data]
      /\ u.self.watch = [w.self.watch EXCEPT ![b] = 0]
  BY FillFields
<1> HIDE DEF u, b
<1>2. u \in World
  BY <1>1
<1>3. /\ v \in World /\ v.results = u.results
      /\ v.self.piece = u.self.piece /\ v.self.watch = u.self.watch
      /\ v.self.chain = u.self.chain /\ v.self.closed = u.self.closed
      /\ v.self.requested = u.self.requested \ {b}
      /\ v.self.orphans = u.self.orphans \ {b}
      /\ \A c \in BlockIdx :
            v.self.block[c] = IF c = b /\ c \in u.self.requested /\ u.self.block[c] = "reserved"
                              THEN "idle" ELSE u.self.block[c]
  BY <1>2, ReleaseBlockFields
<1> HIDE DEF v
<1>4. /\ w.self.block \in [BlockIdx -> BlockState] /\ u.self.block \in [BlockIdx -> BlockState]
      /\ v.self.block \in [BlockIdx -> BlockState]
  BY <1>1, <1>3, WorldFields
<1>5. u.self.block[b] # "reserved"
  BY <1>1, <1>4 DEF FilledState
<1>6. v.self.block = u.self.block
  BY <1>3, <1>4, <1>5
<1> QED BY <1>1, <1>3, <1>6 DEF u, v, b

\* Its piece stays in order, complete or not.
LEMMA AcceptedOrderly ==
    ASSUME NEW w \in World, NEW m \in PieceMessage, Orderly(w.self),
           Accept(w.self.piece, w.self.block, m) = "Ok", w.self.piece # None,
           w.self.chain \notin Handshaking
    PROVE  LET x == ReleaseBlock(Fill(w, m), m.block).self
           IN  EmptyHanded(x) /\ Watched(x) /\ Booked(x) /\ Unused(x)
<1> DEFINE v == ReleaseBlock(Fill(w, m), m.block)
           x == v.self
           self == w.self
           b == m.block
<1>1. /\ b \in BlockIdx /\ m.data \in FilledState
      /\ x.piece = self.piece
      /\ x.chain = self.chain /\ x.closed = self.closed
      /\ x.requested = self.requested \ {b} /\ x.orphans = self.orphans \ {b}
      /\ x.block = [self.block EXCEPT ![b] = m.data]
      /\ x.watch = [self.watch EXCEPT ![b] = 0]
  BY AcceptedFields
<1>2. /\ self.block \in [BlockIdx -> BlockState] /\ self.watch \in [BlockIdx -> Nat]
      /\ self.requested \subseteq BlockIdx /\ self.orphans \subseteq BlockIdx
  BY WorldFields DEF PeerState
<1> HIDE DEF v, x, self, b
<1>3. Orderly(self) /\ self.chain \notin Handshaking /\ self.piece # None
  BY DEF self
<1>4. \A c \in BlockIdx : c # b => x.block[c] = self.block[c] /\ x.watch[c] = self.watch[c]
  BY <1>1, <1>2
<1>5. x.block[b] \in FilledState /\ x.watch[b] = 0
  BY <1>1, <1>2
<1>6. Watched(x)
  BY <1>3, <1>4, <1>5 DEF Watched, Orderly, FilledState
<1>7. Booked(x)
  <2>1. Reserved(x.block) = Reserved(self.block) \ {b}
    BY <1>4, <1>5 DEF Reserved, FilledState
  <2>2. x.requested \subseteq Reserved(x.block)
    BY <1>1, <1>3, <2>1 DEF Orderly, Booked
  <2>3. ~x.closed /\ x.chain # "stopped" => x.orphans = {} /\ x.requested = Reserved(x.block)
    BY <1>1, <1>3, <2>1 DEF Orderly, Booked
  <2>4. Keys(x) \subseteq Keys(self) /\ Keys(self) \subseteq BlockIdx
    BY <1>1, <1>2 DEF Keys
  <2>5. Cardinality(Keys(x)) <= Cardinality(Keys(self))
        /\ Cardinality(Keys(x)) \in Nat /\ Cardinality(Keys(self)) \in Nat
    BY <2>4, BlocksFinite, FS_Subset
  <2> QED BY <1>3, <2>2, <2>3, <2>5, PeerAssumption DEF Orderly, Booked
<1> QED BY <1>1, <1>3, <1>6, <1>7 DEF EmptyHanded, Unused, x, v

\* A handler that is not yet done keeps the peer orderly, its chain where it
\* is, and a closed peer without a piece.
Handled(p, w, v) ==
    /\ v \in World /\ Orderly(v.self) /\ Tells(p, w, v)
    /\ v.self.chain = w.self.chain
    /\ v.self.closed => v.self.piece = None

\* A piece whose last block came in is complete, watched no more, and leaves.
LEMMA DeliverFields ==
    ASSUME NEW w \in World, w.self.piece # None, w.self.requested = {}, w.self.orphans = {},
           Watched(w.self), IsComplete(w.self.block), Intact(w.self.block),
           w.self.chain \notin Handshaking
    PROVE  LET v == Deliver(w)
           IN  /\ v \in World /\ Orderly(v.self) /\ v.self.piece = None
               /\ v.self.chain = w.self.chain /\ v.self.closed = w.self.closed
               /\ v.results = Append(w.results, ResultPieceComplete(w.self.piece, TRUE))
<1> DEFINE v == Deliver(w)
           x == v.self
<1>1. v \in World
  BY DeliverType
<1>2. /\ x.piece = None /\ x.block = Fresh /\ x.watch = w.self.watch
      /\ x.requested = {} /\ x.orphans = {}
      /\ x.chain = w.self.chain /\ x.closed = w.self.closed
      /\ v.results = Append(w.results, ResultPieceComplete(w.self.piece, Intact(w.self.block)))
  BY DEF Deliver, World, PeerState
<1>3. Intact(w.self.block) = TRUE
  BY DEF Intact
<1> HIDE DEF v, x
<1>4. x.watch = NoTimers
  <2>1. \A b \in BlockIdx : w.self.watch[b] = 0
    BY DEF Watched, IsComplete
  <2> QED BY <1>2, <2>1, WorldFields DEF NoTimers
<1>5. EmptyHanded(x) /\ Watched(x)
  BY <1>2, <1>4 DEF EmptyHanded, Watched, Fresh, NoTimers, FilledState
<1>6. Booked(x)
  <2>1. Reserved(x.block) = {} /\ Keys(x) = {}
    BY <1>2 DEF Reserved, Fresh, Keys
  <2> QED BY <1>2, <2>1, FS_EmptySet, PeerAssumption DEF Booked
<1>7. Unfinished(x) /\ Unused(x)
  BY <1>2 DEF Unfinished, Unused
<1> QED BY <1>1, <1>2, <1>3, <1>5, <1>6, <1>7 DEF Orderly, v, x

\* handle_piece(): the block is given back whatever accept() answers; the
\* piece stays, is delivered if its hash is right, or is given back.
LEMMA HandlePieceOrderly ==
    ASSUME NEW p \in Peers, NEW w \in World, NEW m \in PieceMessage, Orderly(w.self),
           w.self.chain = "read_body", w.self.closed => w.self.piece = None
    PROVE  Handled(p, w, HandlePiece(p, w, m))
<1> DEFINE ok == Accept(w.self.piece, w.self.block, m) = "Ok"
           filled == ReleaseBlock(Fill(w, m), m.block)
           cleared == [filled EXCEPT !.self.requested = {}, !.self.orphans = {}]
<1>0. w.self.chain \notin Handshaking
  BY DEF Handshaking, Reading
<1>1. CASE w.self.piece = None
  BY <1>1 DEF HandlePiece, Handled, Tells
<1>2. CASE w.self.piece # None /\ ~ok
  <2>1. filled = ReleaseBlock(w, m.block) /\ HandlePiece(p, w, m) = filled
    BY <1>2 DEF HandlePiece, Fill
  <2>2. filled \in World /\ Orderly(filled.self)
    BY <1>0, <2>1, ReleaseBlockType, ReleaseBlockOrderly
  <2> DEFINE b == m.block
             v == ReleaseBlock(w, b)
  <2>3. /\ v.results = w.results /\ v.self.piece = w.self.piece
        /\ v.self.chain = w.self.chain /\ v.self.closed = w.self.closed
    <3> HIDE DEF b
    <3> QED BY ReleaseBlockFields
  <2>4. filled = v
    BY <2>1
  <2> HIDE DEF filled, v
  <2> QED BY <2>1, <2>2, <2>3, <2>4 DEF Handled, Tells, Up
<1>3. CASE w.self.piece # None /\ ok
  <2>1. /\ filled \in World /\ filled.results = w.results /\ filled.self.piece = w.self.piece
        /\ filled.self.chain = w.self.chain /\ filled.self.closed = w.self.closed
    BY <1>3, AcceptedFields
  <2>2. /\ EmptyHanded(filled.self) /\ Watched(filled.self) /\ Booked(filled.self)
        /\ Unused(filled.self)
    BY <1>0, <1>3, AcceptedOrderly
  <2>3. /\ HandlePiece(p, w, m) =
              IF ~IsComplete(filled.self.block) THEN filled
              ELSE IF Intact(filled.self.block) THEN Deliver(cleared) ELSE Close(p, cleared)
    BY <1>3 DEF HandlePiece
  <2>4. ~w.self.closed
    BY <1>3
  <2> HIDE DEF filled, ok
  <2>5. /\ cleared \in World /\ cleared.results = w.results /\ cleared.self.piece = w.self.piece
        /\ cleared.self.chain = w.self.chain /\ cleared.self.closed = w.self.closed
        /\ cleared.self.requested = {} /\ cleared.self.orphans = {}
        /\ cleared.self.block = filled.self.block /\ cleared.self.watch = filled.self.watch
    BY <2>1 DEF World, PeerState
  <2> HIDE DEF cleared
  <2>6. CASE ~IsComplete(filled.self.block)
    <3>1. Orderly(filled.self)
      BY <2>2, <2>6 DEF Orderly, Unfinished
    <3> QED BY <2>1, <2>3, <2>4, <2>6, <3>1 DEF Handled, Tells, Up
  <2>7. CASE IsComplete(filled.self.block) /\ Intact(filled.self.block)
    <3>1. Watched(cleared.self)
      BY <2>2, <2>5 DEF Watched
    <3> DEFINE v == Deliver(cleared)
    <3>2. /\ v \in World /\ Orderly(v.self) /\ v.self.piece = None
          /\ v.self.chain = cleared.self.chain /\ v.self.closed = cleared.self.closed
          /\ v.results = Append(cleared.results, ResultPieceComplete(cleared.self.piece, TRUE))
      BY <1>0, <1>3, <2>5, <2>7, <3>1, DeliverFields
    <3>3. HandlePiece(p, w, m) = v
      BY <2>3, <2>7
    <3> HIDE DEF v
    <3> QED BY <1>0, <1>3, <2>4, <2>5, <3>2, <3>3 DEF Handled, Tells, Up
  <2>8. CASE IsComplete(filled.self.block) /\ ~Intact(filled.self.block)
    <3>1. EmptyHanded(cleared.self)
      BY <1>3, <2>5 DEF EmptyHanded
    <3>2. Cardinality(Keys(cleared.self)) <= PIPELINE_LIMIT
      <4>1. Keys(cleared.self) = {}
        BY <2>5 DEF Keys
      <4> QED BY <4>1, FS_EmptySet, PeerAssumption
    <3> DEFINE v == Close(p, cleared)
    <3>3. /\ v \in World /\ v.results = Append(cleared.results, ResultPeerDropped(p))
          /\ v.self.piece = None /\ v.self.chain = cleared.self.chain /\ v.self.closed
      BY <2>5, <3>1, CloseFields
    <3>4. Sound(v.self)
      BY <1>0, <2>5, <3>1, <3>2, CloseSound
    <3>5. HandlePiece(p, w, m) = v
      BY <2>3, <2>8
    <3> HIDE DEF v
    <3> QED BY <2>5, <3>3, <3>4, <3>5 DEF Handled, Tells, Sound
  <2> QED BY <2>6, <2>7, <2>8
<1> QED BY <1>1, <1>2, <1>3

\* The other messages move choked_ and available_pieces_ only.
LEMMA DispatchOrderly ==
    ASSUME NEW p \in Peers, NEW w \in World, NEW m \in Message, Orderly(w.self),
           w.self.chain = "read_body", w.self.closed => w.self.piece = None
    PROVE  Handled(p, w, Dispatch(p, w, m))
<1> DEFINE v == Dispatch(p, w, m)
<1>1. CASE m.type = "Piece"
  <2>1. m \in PieceMessage
    BY <1>1 DEF Message
  <2> QED BY <1>1, <2>1, HandlePieceOrderly DEF Dispatch
<1>2. CASE m.type # "Piece"
  <2>1. v \in World
    BY DispatchType
  <2>2. /\ v.results = w.results /\ v.self.piece = w.self.piece
        /\ v.self.chain = w.self.chain /\ v.self.closed = w.self.closed
        /\ v.self.block = w.self.block /\ v.self.watch = w.self.watch
        /\ v.self.requested = w.self.requested /\ v.self.orphans = w.self.orphans
    BY <1>2 DEF Dispatch, World, PeerState
  <2> HIDE DEF v
  <2>3. v.self.chain \notin Handshaking
    BY <2>2 DEF Handshaking, Reading
  <2>4. Orderly(v.self)
    BY <2>2, <2>3
    DEF Orderly, EmptyHanded, Watched, Booked, Keys, Unfinished, Unused
  <2> QED BY <2>1, <2>2, <2>4 DEF Handled, Tells, Up, v
<1> QED BY <1>1, <1>2

\* A piece that was just popped is fresh.
LEMMA AcquireFields ==
    ASSUME NEW w \in World, Orderly(w.self), w.self.chain \notin Handshaking
    PROVE  LET v == Acquire(w)
           IN  /\ v \in World /\ v.results = w.results /\ Orderly(v.self)
               /\ v.self.chain = w.self.chain /\ v.self.closed = w.self.closed
               /\ v.self.choked = w.self.choked /\ v.self.available = w.self.available
               /\ Keys(v.self) = Keys(w.self)
<1> DEFINE v == Acquire(w)
<1>1. v \in World
  BY AcquireType
<1>2. CASE v.self = w.self /\ v.results = w.results
  BY <1>1, <1>2
<1>3. CASE ~(v.self = w.self /\ v.results = w.results)
  <2>1. w.self.piece = None /\ w.work # <<>> /\ Head(w.work) \in w.self.available
    BY <1>3 DEF Acquire, World
  <2>2. /\ v.results = w.results /\ v.self.piece = Head(w.work)
        /\ v.self.chain = w.self.chain /\ v.self.closed = w.self.closed
        /\ v.self.choked = w.self.choked /\ v.self.available = w.self.available
        /\ v.self.block = w.self.block /\ v.self.watch = w.self.watch
        /\ v.self.requested = w.self.requested /\ v.self.orphans = w.self.orphans
    BY <2>1 DEF Acquire, World, PeerState
  <2> HIDE DEF v
  <2>3. v.self.piece # None
    <3>1. Head(w.work) \in Pieces
      BY <2>1, WorldFields
    <3> QED BY <2>2, <3>1, NoneAssumption
  <2>4. ~IsComplete(v.self.block)
    <3>1. v.self.block = Fresh /\ 0 \in BlockIdx
      BY <2>1, <2>2, BlockCountAssumption DEF Orderly, EmptyHanded, BlockIdx
    <3> QED BY <3>1 DEF Fresh, IsComplete, FilledState
  <2>5. Orderly(v.self)
    BY <2>2, <2>3, <2>4
    DEF Orderly, EmptyHanded, Watched, Booked, Keys, Unfinished, Unused
  <2> QED BY <1>1, <2>2, <2>5 DEF Keys, v
<1> QED BY <1>2, <1>3

\* Every block that is requested is reserved, booked and watched.
Requested(w, blocks, v) ==
    /\ v \in World /\ v.results = w.results
    /\ v.self.piece = w.self.piece
    /\ v.self.chain = w.self.chain /\ v.self.closed = w.self.closed
    /\ v.self.choked = w.self.choked /\ v.self.available = w.self.available
    /\ v.self.requested = w.self.requested \cup (blocks \ w.self.orphans)
    /\ v.self.orphans = w.self.orphans
    /\ \A b \in BlockIdx :
          /\ v.self.block[b] = IF b \in blocks THEN "reserved" ELSE w.self.block[b]
          /\ v.self.watch[b] = IF b \in blocks THEN w.self.watch[b] + 1 ELSE w.self.watch[b]

LEMMA RequestFields ==
    ASSUME NEW w \in World, NEW blocks \in SUBSET BlockIdx, NEW lost
    PROVE  Requested(w, blocks, Request(w, blocks, lost))
<1> DEFINE fails == IF w.self.closed THEN blocks ELSE blocks \cap lost
           block == [b \in BlockIdx |-> IF b \in blocks THEN "reserved" ELSE w.self.block[b]]
           watch == [b \in BlockIdx |-> IF b \in blocks THEN w.self.watch[b] + 1 ELSE w.self.watch[b]]
           failing == [b \in BlockIdx |-> IF b \in fails THEN w.self.failing[b] + 1 ELSE w.self.failing[b]]
           requested == w.self.requested \cup (blocks \ w.self.orphans)
           self == [w.self EXCEPT !.block = block, !.requested = requested,
                                  !.watch = watch, !.failing = failing]
           v == Request(w, blocks, lost)
<1>1. v \in World
  BY RequestType
<1>2. v = [w EXCEPT !.self = self]
  BY Zenon DEF Request, World, PeerState
<1>3. /\ self.piece = w.self.piece
      /\ self.chain = w.self.chain /\ self.closed = w.self.closed
      /\ self.choked = w.self.choked /\ self.available = w.self.available
      /\ self.requested = requested /\ self.orphans = w.self.orphans
      /\ self.block = block /\ self.watch = watch
  <2> HIDE DEF block, watch, failing, requested
  <2> QED BY DEF World, PeerState
<1> HIDE DEF self
<1>4. v.results = w.results /\ v.self = self
  BY <1>2 DEF World
<1>5. \A b \in BlockIdx :
          /\ block[b] = IF b \in blocks THEN "reserved" ELSE w.self.block[b]
          /\ watch[b] = IF b \in blocks THEN w.self.watch[b] + 1 ELSE w.self.watch[b]
  OBVIOUS
<1> HIDE DEF v, block, watch
<1> QED BY <1>1, <1>3, <1>4, <1>5 DEF v, Requested

LEMMA RequestOrderly ==
    ASSUME NEW w \in World, NEW lost, Orderly(w.self), w.self.piece # None,
           w.self.chain \notin Handshaking
    PROVE  Orderly(Request(w, NextRequests(w.self), lost).self)
<1> DEFINE blocks == NextRequests(w.self)
           v == Request(w, blocks, lost)
           x == v.self
           self == w.self
<1>0. blocks \in SUBSET BlockIdx
  BY DEF NextRequests, Candidates
<1>1. blocks \subseteq Candidates(self.block) /\ blocks \subseteq BlockIdx
  BY DEF NextRequests, Candidates
<1>2. Cardinality(Keys(self) \cup blocks) <= PIPELINE_LIMIT
  BY PipelineKept, WorldFields DEF Orderly, Booked
<1> HIDE DEF blocks
<1>3. Requested(w, blocks, v)
  BY <1>0, RequestFields
<1>4. /\ x.piece = self.piece /\ x.chain = self.chain /\ x.closed = self.closed
      /\ x.requested = self.requested \cup (blocks \ self.orphans)
      /\ x.orphans = self.orphans
      /\ \A b \in BlockIdx :
            /\ x.block[b] = IF b \in blocks THEN "reserved" ELSE self.block[b]
            /\ x.watch[b] = IF b \in blocks THEN self.watch[b] + 1 ELSE self.watch[b]
  BY <1>3 DEF Requested
<1>5. self.block \in [BlockIdx -> BlockState] /\ self.watch \in [BlockIdx -> Nat]
  BY WorldFields
<1> HIDE DEF v, x, self
<1>6. Orderly(self) /\ self.chain \notin Handshaking /\ self.piece # None
  BY DEF self
<1>7. \A b \in blocks : x.block[b] = "reserved" /\ x.watch[b] > 0
                        /\ self.block[b] \notin FilledState
  BY <1>1, <1>4, <1>5 DEF Candidates, FilledState
<1>8. \A b \in BlockIdx \ blocks : x.block[b] = self.block[b] /\ x.watch[b] = self.watch[b]
  BY <1>4
<1>9. Watched(x)
  BY <1>6, <1>7, <1>8 DEF Watched, Orderly, FilledState
<1>10. Booked(x)
  <2>1. Reserved(x.block) = Reserved(self.block) \cup blocks
    BY <1>1, <1>7, <1>8 DEF Reserved
  <2>2. Keys(x) = Keys(self) \cup blocks
    BY <1>4 DEF Keys
  <2> QED BY <1>2, <1>4, <1>6, <2>1, <2>2 DEF Orderly, Booked
<1>11. Unfinished(x)
  <2>1. PICK b \in BlockIdx : self.block[b] \notin FilledState
    BY <1>6 DEF Orderly, Unfinished, IsComplete
  <2>2. x.block[b] \notin FilledState
    BY <1>7, <1>8, <2>1 DEF FilledState
  <2> QED BY <2>2 DEF Unfinished, IsComplete
<1> QED BY <1>4, <1>6, <1>9, <1>10, <1>11 DEF Orderly, EmptyHanded, Unused, x, v, blocks

\* An open peer that has a piece and may download has a block on the way
\* after async_download(): the pipeline was full, or a block was reserved
\* already, or the first candidate was requested.
Waits(self) ==
    ~self.closed /\ ~self.choked /\ self.available # None /\ self.piece # None
        => \E b \in BlockIdx : self.watch[b] > 0

LEMMA ReservedWaits ==
    ASSUME NEW self \in PeerState, Orderly(self), self.chain # "stopped", Keys(self) # {}
    PROVE  Waits(self)
<1> SUFFICES ASSUME ~self.closed PROVE \E b \in BlockIdx : self.watch[b] > 0
  BY DEF Waits
<1>1. Keys(self) = Reserved(self.block)
  BY DEF Orderly, Booked, Keys
<1>2. PICK b \in BlockIdx : self.block[b] = "reserved"
  BY <1>1 DEF Reserved
<1> QED BY <1>2 DEF Orderly, Watched

LEMMA RequestWaits ==
    ASSUME NEW w \in World, NEW lost, Orderly(w.self), w.self.piece # None,
           Cardinality(Keys(w.self)) < PIPELINE_LIMIT, w.self.chain = "read_body"
    PROVE  LET v == Request(w, NextRequests(w.self), lost)
           IN  /\ v \in World /\ Orderly(v.self) /\ Waits(v.self)
               /\ v.results = w.results
               /\ v.self.chain = w.self.chain /\ v.self.closed = w.self.closed
<1> DEFINE blocks == NextRequests(w.self)
           v == Request(w, blocks, lost)
<1>0. w.self.chain \notin Handshaking /\ w.self.chain # "stopped"
  BY DEF Handshaking, Reading
<1>1. blocks \in SUBSET BlockIdx
  BY DEF NextRequests, Candidates
<1>2. Orderly(v.self)
  BY <1>0, RequestOrderly
<1>3. Keys(w.self) = {} /\ Reserved(w.self.block) = {} => blocks # {}
  <2> SUFFICES ASSUME Reserved(w.self.block) = {} PROVE blocks # {}
    OBVIOUS
  <2>1. PICK b \in BlockIdx : w.self.block[b] \notin FilledState
    BY DEF Orderly, Unfinished, IsComplete
  <2>2. b \in Candidates(w.self.block)
    BY <2>1, WorldFields DEF Candidates, Reserved, BlockState
  <2> QED BY <2>2, FirstRequested, WorldFields
<1> HIDE DEF blocks
<1>4. Requested(w, blocks, v)
  BY <1>1, RequestFields
<1> HIDE DEF v
<1>5. /\ v \in World /\ v.results = w.results
      /\ v.self.chain = w.self.chain /\ v.self.closed = w.self.closed
      /\ v.self.requested = w.self.requested \cup (blocks \ w.self.orphans)
      /\ v.self.orphans = w.self.orphans
  BY <1>4 DEF Requested
<1>6. Keys(v.self) = Keys(w.self) \cup blocks
  BY <1>5 DEF Keys
<1>7. w.self.closed \/ Keys(w.self) = Reserved(w.self.block)
  BY <1>0 DEF Orderly, Booked, Keys
<1>8. v.self.closed \/ Keys(v.self) # {}
  BY <1>3, <1>5, <1>6, <1>7
<1>9. Waits(v.self)
  BY <1>0, <1>2, <1>5, <1>8, ReservedWaits, WorldFields DEF Waits
<1> QED BY <1>2, <1>5, <1>9 DEF v, blocks

LEMMA AsyncDownloadOrderly ==
    ASSUME NEW w \in World, NEW lost, Orderly(w.self), w.self.chain = "read_body"
    PROVE  LET v == AsyncDownload(w, lost)
           IN  /\ v \in World /\ Orderly(v.self) /\ Waits(v.self)
               /\ v.results = w.results
               /\ v.self.chain = w.self.chain /\ v.self.closed = w.self.closed
<1> DEFINE room == Cardinality(w.self.requested \cup w.self.orphans) < PIPELINE_LIMIT
           a == Acquire(w)
           blocks == NextRequests(a.self)
           r == Request(a, blocks, lost)
           v == AsyncDownload(w, lost)
<1>0. w.self.chain \notin Handshaking /\ w.self.chain # "stopped"
  BY DEF Handshaking, Reading
<1>1. /\ a \in World /\ a.results = w.results /\ Orderly(a.self)
      /\ a.self.chain = w.self.chain /\ a.self.closed = w.self.closed
      /\ a.self.choked = w.self.choked /\ a.self.available = w.self.available
      /\ Keys(a.self) = Keys(w.self)
  BY <1>0, AcquireFields
<1>2. v = IF ~(room /\ ~w.self.choked /\ w.self.available # None) THEN w
          ELSE IF a.self.piece = None THEN a ELSE r
  BY DEF AsyncDownload
<1>3. room <=> Cardinality(Keys(w.self)) < PIPELINE_LIMIT
  BY DEF Keys
<1> HIDE DEF v, room
<1>4. CASE ~(room /\ ~w.self.choked /\ w.self.available # None)
  <2>1. ASSUME ~room PROVE Waits(w.self)
    <3>1. Keys(w.self) # {}
      BY <1>3, <2>1, FS_EmptySet, PeerAssumption
    <3> QED BY <1>0, <3>1, ReservedWaits, WorldFields
  <2>2. Waits(w.self)
    BY <1>4, <2>1 DEF Waits
  <2> QED BY <1>2, <1>4, <2>2 DEF v
<1>5. CASE room /\ ~w.self.choked /\ w.self.available # None /\ a.self.piece = None
  <2>1. v = a
    BY <1>2, <1>5
  <2>2. Waits(a.self)
    BY <1>5 DEF Waits
  <2> QED BY <1>1, <2>1, <2>2 DEF v
<1>6. CASE room /\ ~w.self.choked /\ w.self.available # None /\ a.self.piece # None
  <2>1. v = r
    BY <1>2, <1>6
  <2>2. a.self.chain = "read_body" /\ Cardinality(Keys(a.self)) < PIPELINE_LIMIT
    BY <1>1, <1>3, <1>6
  <2> HIDE DEF a
  <2>3. /\ r \in World /\ Orderly(r.self) /\ Waits(r.self) /\ r.results = a.results
        /\ r.self.chain = a.self.chain /\ r.self.closed = a.self.closed
    BY <1>1, <1>6, <2>2, RequestWaits
  <2> HIDE DEF r
  <2> QED BY <1>1, <2>1, <2>3 DEF v
<1> QED BY <1>4, <1>5, <1>6

\* The next read on a closed socket is doomed.
LEMMA AsyncReadMessageSound ==
    ASSUME NEW w \in World, Orderly(w.self), Waits(w.self), w.self.chain # "stopped"
    PROVE  LET v == AsyncReadMessage(w)
           IN  /\ v \in World /\ Sound(v.self) /\ v.results = w.results
               /\ v.self.chain = "read_len" /\ v.self.closed = w.self.closed
<1> DEFINE v == AsyncReadMessage(w)
<1>1. v \in World
  BY AsyncReadMessageType
<1>2. /\ v.results = w.results /\ v.self.piece = w.self.piece
      /\ v.self.chain = "read_len" /\ v.self.doomed = w.self.closed
      /\ v.self.closed = w.self.closed
      /\ v.self.choked = w.self.choked /\ v.self.available = w.self.available
      /\ v.self.block = w.self.block /\ v.self.watch = w.self.watch
      /\ v.self.requested = w.self.requested /\ v.self.orphans = w.self.orphans
  BY DEF AsyncReadMessage, World, PeerState
<1> HIDE DEF v
<1>3. Orderly(v.self)
  BY <1>2 DEF Orderly, EmptyHanded, Watched, Booked, Keys, Unfinished, Unused, Handshaking, Reading
<1>4. Returning(v.self) /\ Guarded(v.self)
  BY <1>2 DEF Returning, Guarded, Waits
<1> QED BY <1>1, <1>2, <1>3, <1>4 DEF Sound, v

----------------------------------------------------------------------------
(* The handlers.                                                           *)

\* The books are in order again when only the chain has moved on.
LEMMA SameOrderly ==
    ASSUME NEW x, NEW y, Orderly(x),
           y.piece = x.piece, y.block = x.block, y.watch = x.watch,
           y.requested = x.requested, y.orphans = x.orphans, y.closed = x.closed,
           y.chain \notin Handshaking, x.chain = "stopped" => y.chain = "stopped"
    PROVE  Orderly(y)
BY DEF Orderly, EmptyHanded, Watched, Booked, Keys, Unfinished, Unused

\* A Peer that was just constructed is sound, and so it stays until the
\* handshake was read.
LEMMA UnusedSound ==
    ASSUME NEW c \in Handshaking
    PROVE  Sound([NewPeer EXCEPT !.chain = c])
<1> DEFINE x == [NewPeer EXCEPT !.chain = c]
<1>1. /\ x.chain = c /\ ~x.closed /\ x.piece = None /\ x.block = Fresh
      /\ x.requested = {} /\ x.orphans = {} /\ x.watch = NoTimers
  BY DEF NewPeer
<1>2. c # "read_len" /\ c # "stopped"
  BY DEF Handshaking, Reading
<1>3. Unused(x)
  BY <1>1 DEF Unused
<1> HIDE DEF x
<1>4. EmptyHanded(x) /\ Watched(x)
  BY <1>1 DEF EmptyHanded, Watched, Fresh, NoTimers, FilledState
<1>5. Booked(x)
  <2>1. Reserved(x.block) = {} /\ Keys(x) = {}
    BY <1>1 DEF Reserved, Fresh, Keys
  <2> QED BY <1>1, <2>1, FS_EmptySet, PeerAssumption DEF Booked
<1>6. Unfinished(x) /\ Returning(x) /\ Guarded(x)
  BY <1>1 DEF Unfinished, Returning, Guarded
<1> QED BY <1>3, <1>4, <1>5, <1>6 DEF Sound, Orderly, x

\* What a step leaves is determined by it.
LEMMA LeaveDetermines ==
    ASSUME TypeOK, NEW p \in Peers, NEW u \in World, Leave(p, u), NEW v, Stepped(p, v)
    PROVE  v = u
<1>1. v.self = u.self /\ v.work = u.work /\ v.results = u.results
  BY DEF Leave, Stepped, TypeOK
<1> QED BY <1>1, WorldFields DEF Stepped

\* The steps that end in close(): the peer is sound, and was reported dropped.
LEMMA ClosingStep ==
    ASSUME TypeOK, NEW p \in Peers, NEW u \in World, EmptyHanded(u.self),
           Cardinality(Keys(u.self)) <= PIPELINE_LIMIT, u.self.chain \notin Handshaking,
           u.results = result_queue, Leave(p, Close(p, u)), NEW v, Stepped(p, v)
    PROVE  Sound(v.self) /\ Tells(p, Enter(p), v)
<1>1. v = Close(p, u)
  BY CloseType, LeaveDetermines
<1>2. v.results = Append(u.results, ResultPeerDropped(p)) /\ v.self.closed
  BY <1>1, CloseFields
<1> QED BY <1>1, <1>2, CloseSound DEF Tells, Enter

\* A message is handled, the pipeline is filled and the next read started.
LEMMA MessageStep ==
    ASSUME TypeOK, NEW p \in Peers, Sound(peers[p]), NEW m \in Message, NEW lost,
           AsyncHandleMessage(p, m, lost), NEW v, Stepped(p, v)
    PROVE  Sound(v.self) /\ Tells(p, Enter(p), v)
<1> DEFINE w == Enter(p)
           handled == Dispatch(p, w, m)
           loaded == AsyncDownload(handled, lost)
           next == AsyncReadMessage(loaded)
<1>1. /\ w \in World /\ Orderly(w.self) /\ w.self.chain = "read_body"
      /\ w.self.closed => w.self.piece = None
  BY EnterType DEF AsyncHandleMessage, Sound, Returning, Enter
<1>2. Leave(p, next)
  BY DEF AsyncHandleMessage
<1> HIDE DEF w
<1>3. Handled(p, w, handled)
  BY <1>1, DispatchOrderly
<1>4. /\ handled \in World /\ Orderly(handled.self) /\ handled.self.chain = "read_body"
      /\ Tells(p, w, handled)
  BY <1>1, <1>3 DEF Handled
<1> HIDE DEF handled
<1>5. /\ loaded \in World /\ Orderly(loaded.self) /\ Waits(loaded.self)
      /\ loaded.results = handled.results
      /\ loaded.self.chain = "read_body" /\ loaded.self.closed = handled.self.closed
  BY <1>4, AsyncDownloadOrderly
<1> HIDE DEF loaded
<1>6. /\ next \in World /\ Sound(next.self) /\ next.results = loaded.results
      /\ next.self.chain = "read_len" /\ next.self.closed = loaded.self.closed
  BY <1>5, AsyncReadMessageSound
<1> HIDE DEF next
<1>7. v = next
  BY <1>2, <1>6, LeaveDetermines
<1>8. Up(next.self) <=> Up(handled.self)
  BY <1>4, <1>5, <1>6 DEF Up, Handshaking, Reading
<1> QED BY <1>4, <1>5, <1>6, <1>7, <1>8 DEF Tells, w

\* The steps of the handshake.
LEMMA HandshakeStep ==
    ASSUME TypeOK, NEW p \in Peers, Sound(peers[p]), NEW v, Stepped(p, v),
           AsyncHandshakeWrite(p) \/ AsyncHandshakeRead(p) \/ AsyncNext(p)
    PROVE  Sound(v.self) /\ Tells(p, Enter(p), v)
<1> DEFINE self == peers[p]
<1>1. self \in PeerState /\ self.chain \in Handshaking
  BY DEF TypeOK, PeerState, AsyncHandshakeWrite, AsyncHandshakeRead, AsyncNext, Enter,
         Handshaking, Reading
<1>2. self = [NewPeer EXCEPT !.chain = self.chain]
  BY <1>1 DEF Sound, Orderly, Unused
<1>3. ASSUME NEW c \in Handshaking, peers' = [peers EXCEPT ![p].chain = c],
             UNCHANGED <<work_queue, result_queue>>
      PROVE  Sound(v.self) /\ Tells(p, Enter(p), v)
  <2>1. v.self = [self EXCEPT !.chain = c] /\ v.results = result_queue
    BY <1>3 DEF Stepped, TypeOK
  <2>2. v.self = [NewPeer EXCEPT !.chain = c]
    BY <1>2, <2>1 DEF NewPeer
  <2>3. v.self.chain \in Handshaking
    BY <2>2 DEF NewPeer
  <2> QED BY <1>1, <2>1, <2>2, <2>3, UnusedSound DEF Tells, Up, Enter
<1>4. CASE AsyncHandshakeWrite(p)
  BY <1>3, <1>4 DEF AsyncHandshakeWrite, Handshaking, Chain, Reading
<1>5. CASE AsyncHandshakeRead(p)
  BY <1>3, <1>5 DEF AsyncHandshakeRead, Handshaking, Chain, Reading
<1>6. CASE AsyncNext(p)
  <2> DEFINE w == Enter(p)
             u == [w EXCEPT !.results = Append(@, ResultPeerConnected(p))]
             next == AsyncReadMessage(u)
  <2>1. w \in World /\ w.self = self /\ w.results = result_queue
    BY EnterType DEF Enter
  <2>2. Leave(p, next)
    BY <1>6 DEF AsyncNext
  <2>3. ResultPeerConnected(p) \in Result
    BY DEF ResultPeerConnected, Result
  <2>4. Append(w.results, ResultPeerConnected(p)) \in Seq(Result)
    BY <2>1, <2>3, WorldFields, PushResult
  <2> HIDE DEF w
  <2>5. /\ u \in World /\ u.self = self
        /\ u.results = Append(w.results, ResultPeerConnected(p))
    BY <2>1, <2>4 DEF World
  <2> HIDE DEF u
  <2>6. self.piece = None /\ ~self.closed
    BY <1>2 DEF NewPeer
  <2>7. Orderly(u.self) /\ Waits(u.self) /\ u.self.chain # "stopped"
    BY <1>1, <2>5, <2>6 DEF Sound, Waits, Handshaking
  <2>8. /\ next \in World /\ Sound(next.self) /\ next.results = u.results
        /\ next.self.chain = "read_len" /\ ~next.self.closed
    BY <2>5, <2>6, <2>7, AsyncReadMessageSound
  <2> HIDE DEF next
  <2>9. v = next
    BY <2>2, <2>8, LeaveDetermines
  <2> QED BY <2>5, <2>8, <2>9 DEF Tells, Up, Handshaking, Reading, w
<1> QED BY <1>4, <1>5, <1>6

\* The steps of a read that is not the handling of a message.
LEMMA ReadStep ==
    ASSUME TypeOK, NEW p \in Peers, Sound(peers[p]), NEW v, Stepped(p, v),
           OperationFailed(p) \/ Keepalive(p) \/ AsyncReadLen(p) \/ BodyFailed(p)
              \/ IgnoreUnknown(p)
    PROVE  Sound(v.self) /\ Tells(p, Enter(p), v)
<1> DEFINE w == Enter(p)
           self == w.self
<1>1. w \in World /\ Sound(self) /\ w.results = result_queue /\ self = peers[p]
  BY EnterType DEF Enter
<1> HIDE DEF w
<1>2. /\ Orderly(self) /\ EmptyHanded(self)
      /\ Cardinality(Keys(self)) <= PIPELINE_LIMIT
  BY <1>1 DEF Sound, Orderly, Booked
\* A handler that moves the chain and changes the doomed flag.
<1>3. ASSUME NEW c \in {"read_body", "stopped"}, NEW d \in BOOLEAN
      PROVE  LET u == [w EXCEPT !.self.chain = c, !.self.doomed = d]
             IN  /\ u \in World /\ u.results = w.results
                 /\ u.self.chain = c /\ u.self.closed = self.closed
                 /\ u.self.piece = self.piece /\ u.self.block = self.block
                 /\ u.self.watch = self.watch /\ u.self.requested = self.requested
                 /\ u.self.orphans = self.orphans
                 /\ EmptyHanded(u.self) /\ Keys(u.self) = Keys(self)
                 /\ u.self.chain \notin Handshaking
  <2> DEFINE u == [w EXCEPT !.self.chain = c, !.self.doomed = d]
  <2>1. /\ u \in World /\ u.results = w.results
        /\ u.self.chain = c /\ u.self.closed = self.closed
        /\ u.self.piece = self.piece /\ u.self.block = self.block
        /\ u.self.watch = self.watch /\ u.self.requested = self.requested
        /\ u.self.orphans = self.orphans
    BY <1>1 DEF World, PeerState, Chain
  <2> HIDE DEF u
  <2>2. EmptyHanded(u.self) /\ Keys(u.self) = Keys(self) /\ c \notin Handshaking
    BY <1>2, <2>1 DEF EmptyHanded, Keys, Handshaking, Reading
  <2> QED BY <2>1, <2>2 DEF u
<1>4. CASE OperationFailed(p)
  <2> DEFINE u == [w EXCEPT !.self.chain = "stopped", !.self.doomed = FALSE]
  <2>1. /\ u \in World /\ u.results = result_queue /\ EmptyHanded(u.self)
        /\ Keys(u.self) = Keys(self) /\ u.self.chain \notin Handshaking
    BY <1>1, <1>3
  <2>2. Leave(p, Close(p, u))
    BY <1>4 DEF OperationFailed, w
  <2> HIDE DEF u
  <2> QED BY <1>2, <2>1, <2>2, ClosingStep
<1>5. CASE Keepalive(p)
  <2> DEFINE next == AsyncReadMessage(w)
  <2>1. self.chain = "read_len" /\ Leave(p, next)
    BY <1>5 DEF Keepalive, w
  <2>2. Waits(self)
    BY <1>1, <2>1 DEF Sound, Guarded, Waits
  <2>3. /\ next \in World /\ Sound(next.self) /\ next.results = w.results
        /\ next.self.chain = "read_len" /\ next.self.closed = self.closed
    BY <1>1, <1>2, <2>1, <2>2, AsyncReadMessageSound
  <2> HIDE DEF next
  <2>4. v = next
    BY <2>1, <2>3, LeaveDetermines
  <2> QED BY <2>1, <2>3, <2>4 DEF Tells, Up, w
<1>6. CASE AsyncReadLen(p)
  <2> DEFINE d == self.closed
             u == [w EXCEPT !.self.chain = "read_body", !.self.doomed = d]
  <2>1. self.chain = "read_len" /\ ~self.doomed /\ Leave(p, u)
    BY <1>6 DEF AsyncReadLen, w
  <2>2. d \in BOOLEAN
    BY <1>1 DEF World, PeerState
  <2> HIDE DEF d
  <2>3. /\ u \in World /\ u.results = w.results
        /\ u.self.chain = "read_body" /\ u.self.closed = self.closed
        /\ u.self.piece = self.piece /\ u.self.block = self.block
        /\ u.self.watch = self.watch /\ u.self.requested = self.requested
        /\ u.self.orphans = self.orphans /\ u.self.chain \notin Handshaking
    BY <1>3, <2>2
  <2> HIDE DEF u
  <2>4. v = u
    BY <2>1, <2>3, LeaveDetermines
  <2>5. Orderly(u.self)
    BY <1>2, <2>1, <2>3, SameOrderly
  <2>6. Returning(u.self) /\ Guarded(u.self)
    BY <1>1, <2>1, <2>3 DEF Sound, Returning, Guarded
  <2>7. Up(u.self) <=> Up(self)
    BY <2>1, <2>3 DEF Up, Handshaking, Reading
  <2> QED BY <2>3, <2>4, <2>5, <2>6, <2>7 DEF Sound, Tells, w
<1>7. CASE BodyFailed(p)
  <2> DEFINE u == [w EXCEPT !.self.chain = "stopped", !.self.doomed = FALSE]
             r == ReleasePiece(u)
  <2>1. /\ u \in World /\ u.results = w.results /\ EmptyHanded(u.self)
        /\ Keys(u.self) = Keys(self) /\ u.self.chain = "stopped"
        /\ u.self.closed = self.closed /\ u.self.chain \notin Handshaking
    BY <1>1, <1>3
  <2>2. Leave(p, r) /\ self.chain = "read_body"
    BY <1>7 DEF BodyFailed, w
  <2> HIDE DEF u
  <2>3. Sound(r.self)
    BY <1>2, <2>1, ReleasePieceSound
  <2>4. /\ r \in World /\ r.results = w.results
        /\ r.self.chain = "stopped" /\ r.self.closed = self.closed
    BY <2>1, ReleasePieceFields
  <2> HIDE DEF r
  <2>5. v = r
    BY <2>2, <2>4, LeaveDetermines
  <2>6. Up(r.self) <=> Up(self)
    BY <2>2, <2>4 DEF Up, Handshaking, Reading
  <2> QED BY <2>3, <2>4, <2>5, <2>6 DEF Tells, w
<1>8. CASE IgnoreUnknown(p)
  <2> DEFINE u == [w EXCEPT !.self.chain = "stopped"]
  <2>1. self.chain = "read_body" /\ Leave(p, u)
    BY <1>8 DEF IgnoreUnknown, w
  <2>2. /\ u \in World /\ u.results = w.results
        /\ u.self.chain = "stopped" /\ u.self.closed = self.closed
        /\ u.self.piece = self.piece /\ u.self.block = self.block
        /\ u.self.watch = self.watch /\ u.self.requested = self.requested
        /\ u.self.orphans = self.orphans
    BY <1>1 DEF World, PeerState, Chain
  <2> HIDE DEF u
  <2>3. v = u
    BY <2>1, <2>2, LeaveDetermines
  <2>4. u.self.chain \notin Handshaking
    BY <2>2 DEF Handshaking
  <2>5. Orderly(u.self)
    BY <1>2, <2>2, <2>4, SameOrderly
  <2>6. Returning(u.self) /\ Guarded(u.self)
    BY <1>1, <2>1, <2>2 DEF Sound, Returning, Guarded
  <2>7. Up(u.self) <=> Up(self)
    BY <2>1, <2>2 DEF Up, Handshaking, Reading
  <2> QED BY <2>2, <2>3, <2>5, <2>6, <2>7 DEF Sound, Tells, w
<1> QED BY <1>4, <1>5, <1>6, <1>7, <1>8

\* The expiry of a timer and the failure of a write: neither can happen
\* before the handshake was read, as nothing was requested yet.
LEMMA TimerStep ==
    ASSUME TypeOK, NEW p \in Peers, Sound(peers[p]), NEW b \in BlockIdx, NEW v, Stepped(p, v),
           BlockTimeout(p, b) \/ StaleTimeout(p, b) \/ WriteFailed(p, b)
    PROVE  Sound(v.self) /\ Tells(p, Enter(p), v)
<1> DEFINE w == Enter(p)
           self == w.self
<1>1. w \in World /\ Sound(self) /\ w.results = result_queue /\ self = peers[p]
  BY EnterType DEF Enter
<1> HIDE DEF w
<1>2. /\ Orderly(self) /\ EmptyHanded(self)
      /\ Cardinality(Keys(self)) <= PIPELINE_LIMIT
  BY <1>1 DEF Sound, Orderly, Booked
<1>3. self.watch[b] > 0 \/ self.stale[b] > 0 \/ self.failing[b] > 0
  BY DEF BlockTimeout, StaleTimeout, WriteFailed, w
<1>4. self.chain \notin Handshaking
  <2> SUFFICES ASSUME self = [NewPeer EXCEPT !.chain = self.chain] PROVE FALSE
    BY <1>2 DEF Orderly, Unused
  <2> QED BY <1>3 DEF NewPeer, NoTimers
<1>5. CASE BlockTimeout(p, b)
  <2> DEFINE u == [w EXCEPT !.self.watch[b] = @ - 1]
  <2>1. Leave(p, Close(p, u)) /\ self.watch[b] > 0
    BY <1>5 DEF BlockTimeout, w
  <2>2. self.watch[b] - 1 \in Nat
    BY <1>1, <2>1, WorldFields
  <2>3. /\ u \in World /\ u.results = result_queue /\ u.self.piece = self.piece
        /\ u.self.chain = self.chain /\ u.self.requested = self.requested
        /\ u.self.orphans = self.orphans
    BY <1>1, <2>2 DEF World, PeerState
  <2> HIDE DEF u
  <2>4. self.piece # None
    BY <1>2, <2>1 DEF EmptyHanded, NoTimers
  <2>5. EmptyHanded(u.self) /\ Keys(u.self) = Keys(self)
    BY <2>3, <2>4 DEF EmptyHanded, Keys
  <2> QED BY <1>2, <1>4, <2>1, <2>3, <2>5, ClosingStep
<1>6. CASE StaleTimeout(p, b)
  <2> DEFINE u == [w EXCEPT !.self.stale[b] = @ - 1]
  <2>1. Leave(p, Close(p, u)) /\ self.stale[b] > 0
    BY <1>6 DEF StaleTimeout, w
  <2>2. self.stale[b] - 1 \in Nat
    BY <1>1, <2>1, WorldFields
  <2>3. /\ u \in World /\ u.results = result_queue /\ u.self.piece = self.piece
        /\ u.self.chain = self.chain /\ u.self.requested = self.requested
        /\ u.self.orphans = self.orphans /\ u.self.block = self.block
        /\ u.self.watch = self.watch
    BY <1>1, <2>2 DEF World, PeerState
  <2> HIDE DEF u
  <2>4. EmptyHanded(u.self) /\ Keys(u.self) = Keys(self)
    BY <1>2, <2>3 DEF EmptyHanded, Keys
  <2> QED BY <1>2, <1>4, <2>1, <2>3, <2>4, ClosingStep
<1>7. CASE WriteFailed(p, b)
  <2> DEFINE u == [w EXCEPT !.self.failing[b] = @ - 1]
             r == ReleaseBlock(u, b)
  <2>1. Leave(p, r) /\ self.failing[b] > 0
    BY <1>7 DEF WriteFailed, w
  <2>2. self.failing[b] - 1 \in Nat
    BY <1>1, <2>1, WorldFields
  <2>3. /\ u \in World /\ u.results = w.results /\ u.self.piece = self.piece
        /\ u.self.chain = self.chain /\ u.self.requested = self.requested
        /\ u.self.orphans = self.orphans /\ u.self.block = self.block
        /\ u.self.watch = self.watch /\ u.self.closed = self.closed
        /\ u.self.doomed = self.doomed /\ u.self.choked = self.choked
        /\ u.self.available = self.available
    BY <1>1, <2>2 DEF World, PeerState
  <2> HIDE DEF u
  <2>4. Orderly(u.self)
    BY <1>2, <1>4, <2>3, SameOrderly
  <2>5. Orderly(r.self)
    BY <1>4, <2>3, <2>4, ReleaseBlockOrderly
  <2>6. u \in World
    BY <2>3
  <2>7. /\ r \in World /\ r.results = u.results
        /\ r.self.piece = u.self.piece /\ r.self.watch = u.self.watch
        /\ r.self.chain = u.self.chain /\ r.self.closed = u.self.closed
        /\ r.self.doomed = u.self.doomed /\ r.self.choked = u.self.choked
        /\ r.self.available = u.self.available
    BY <2>6, ReleaseBlockFields
  <2> HIDE DEF r
  <2>8. v = r
    BY <2>1, <2>7, LeaveDetermines
  <2>9. Returning(r.self) /\ Guarded(r.self)
    BY <1>1, <2>3, <2>7 DEF Sound, Returning, Guarded
  <2>10. Up(r.self) <=> Up(self)
    BY <2>3, <2>7 DEF Up
  <2> QED BY <2>3, <2>5, <2>7, <2>8, <2>9, <2>10 DEF Sound, Tells, w
<1> QED BY <1>5, <1>6, <1>7

\* Every step of a peer keeps it sound, and tells the monitor what it must.
LEMMA PeerStepSound ==
    ASSUME TypeOK, NEW p \in Peers, Sound(peers[p]), PeerStep(p), NEW v, Stepped(p, v)
    PROVE  Sound(v.self) /\ Tells(p, Enter(p), v)
<1>1. ASSUME NEW m \in Messages, NEW lost \in LostWrites, AsyncHandleMessage(p, m, lost)
      PROVE  Sound(v.self) /\ Tells(p, Enter(p), v)
  BY <1>1, PeerAssumption, MessageStep
<1>2. ASSUME NEW b \in BlockIdx,
             BlockTimeout(p, b) \/ StaleTimeout(p, b) \/ WriteFailed(p, b)
      PROVE  Sound(v.self) /\ Tells(p, Enter(p), v)
  BY <1>2, TimerStep
<1> QED BY <1>1, <1>2, HandshakeStep, ReadStep DEF PeerStep

LEMMA AnyStepSound ==
    ASSUME TypeOK, NEW p \in Peers, Sound(peers[p]), AnyStep(p), NEW v, Stepped(p, v)
    PROVE  Sound(v.self) /\ Tells(p, Enter(p), v)
BY PeerStepSound, MessageStep DEF AnyStep

----------------------------------------------------------------------------
(* The theorems.                                                           *)

AllSound == \A p \in Peers : Sound(peers[p])

LEMMA InitSound == Init => AllSound
<1> SUFFICES ASSUME Init, NEW p \in Peers PROVE Sound(peers[p])
  BY DEF AllSound
<1>1. peers[p] = NewPeer
  BY DEF Init, PeerInit
<1>2. NewPeer = [NewPeer EXCEPT !.chain = "connect"]
  <2>1. NewPeer \in PeerState
    BY DEF NewPeer, PeerState, Chain, Fresh, BlockState, NoTimers
  <2>2. NewPeer.chain = "connect"
    BY DEF NewPeer
  <2> QED BY <2>1, <2>2 DEF PeerState
<1>3. "connect" \in Handshaking
  BY DEF Handshaking, Chain, Reading
<1> QED BY <1>1, <1>2, <1>3, UnusedSound

LEMMA NextSound == TypeOK /\ AllSound /\ [AnyNext]_vars => AllSound'
<1> SUFFICES ASSUME TypeOK, AllSound, [AnyNext]_vars, NEW q \in Peers PROVE Sound(peers'[q])
  BY DEF AllSound
<1>1. CASE AnyPeersRun
  <2>1. PICK p \in Peers : AnyStep(p)
    BY <1>1 DEF AnyPeersRun
  <2>2. PICK v : Stepped(p, v)
    BY <2>1, AnyStepKeeps
  <2>3. Sound(v.self)
    BY <2>1, <2>2, AnyStepSound DEF AllSound
  <2>4. peers'[q] = IF q = p THEN v.self ELSE peers[q]
    BY <2>2 DEF Stepped, TypeOK
  <2> QED BY <2>3, <2>4 DEF AllSound
<1>2. CASE UNCHANGED peers
  BY <1>2 DEF AllSound
<1> QED
  BY <1>1, <1>2
  DEF AnyNext, MonitorRuns, MonitorReturns, IoRunReturns, Ended, vars

\* Every connection is sound in every behaviour of the program.
THEOREM PeersSound == Spec => []AllSound
<1>1. Spec => []TypeOK
  BY TypeCorrect
<1> QED BY <1>1, InitSound, NextSound, NextIsAny, PTL DEF Spec

\* blocks_ holds exactly the reserved blocks of a peer that is being read, and
\* never more than PIPELINE_LIMIT keys, for any number of blocks and any
\* remote (release_block, async_download).
THEOREM RequestsAlwaysAccounted == Spec => []RequestsAccounted
<1>1. AllSound => RequestsAccounted
  BY DEF AllSound, Sound, Orderly, Booked, Keys, Reserved, RequestsAccounted, Reading
<1> QED BY <1>1, PeersSound, PTL

\* A peer that could download always has a timer running (async_download).
THEOREM NeverSilentlyStalled == Spec => []NoSilentStall
<1>1. AllSound => NoSilentStall
  BY DEF AllSound, Sound, Guarded, NoSilentStall
<1> QED BY <1>1, PeersSound, PTL

\* A dropped peer that holds a piece is about to give it back.
THEOREM ClosedPeersReturnPieces == Spec => []ClosedPeerReturnsPiece
<1>1. AllSound => ClosedPeerReturnsPiece
  BY DEF AllSound, Sound, Returning, ClosedPeerReturnsPiece
<1> QED BY <1>1, PeersSound, PTL

\* What a step of a peer can report: a piece only while the peer is up.
LEMMA TellsReported ==
    ASSUME NEW p \in Peers, NEW w \in World, NEW v, Tells(p, w, v)
    PROVE  /\ Reported(v.results) \subseteq Reported(w.results) \cup Own(w)
           /\ Reported(w.results) \subseteq Reported(v.results)
           /\ ~Up(w.self) => Reported(v.results) = Reported(w.results)
<1>1. w.results \in Seq(Result) /\ w.self.piece \in Pieces \cup {None}
  BY WorldFields
<1>2. ASSUME NEW r \in Result, r.type # "PieceComplete", v.results = Append(w.results, r)
      PROVE  Reported(v.results) = Reported(w.results)
  BY <1>1, <1>2, PushResult
<1>3. CASE v.results = w.results
  BY <1>3
<1>4. CASE /\ w.self.piece # None /\ Up(w.self)
           /\ v.results = Append(w.results, ResultPieceComplete(w.self.piece, TRUE))
  <2> DEFINE r == ResultPieceComplete(w.self.piece, TRUE)
  <2>1. r \in Result /\ r.type = "PieceComplete" /\ r.piece = w.self.piece
    BY <1>1, <1>4 DEF ResultPieceComplete, Result
  <2>2. v.results = Append(w.results, r)
    BY <1>4
  <2> HIDE DEF r
  <2>3. Reported(v.results) = Reported(w.results) \cup {w.self.piece}
    BY <1>1, <2>1, <2>2, PushResult
  <2> QED BY <1>4, <2>3 DEF Own
<1>5. CASE v.results = Append(w.results, ResultPeerDropped(p))
  <2>1. ResultPeerDropped(p) \in Result /\ ResultPeerDropped(p).type # "PieceComplete"
    BY DEF ResultPeerDropped, Result
  <2> QED BY <1>2, <1>5, <2>1
<1>6. CASE v.results = Append(w.results, ResultPeerConnected(p))
  <2>1. ResultPeerConnected(p) \in Result /\ ResultPeerConnected(p).type # "PieceComplete"
    BY DEF ResultPeerConnected, Result
  <2> QED BY <1>2, <1>6, <2>1
<1> QED BY <1>3, <1>4, <1>5, <1>6 DEF Tells

\* No handler of a dropped peer reports a piece (handle_piece after close).
THEOREM ClosedPeersDeliverNothing == Spec => ClosedPeerDeliversNothing
<1> DEFINE Silent ==
              \A p \in Peers : peers[p].closed /\ peers'[p] # peers[p]
                  => Reported(result_queue') \subseteq Reported(result_queue)
<1>1. TypeOK /\ AllSound /\ [AnyNext]_vars => [Silent]_vars
  <2> SUFFICES ASSUME TypeOK, AllSound, AnyNext, NEW q \in Peers,
                      peers[q].closed, peers'[q] # peers[q]
               PROVE  Reported(result_queue') \subseteq Reported(result_queue)
    OBVIOUS
  <2>1. AnyPeersRun
    BY DEF AnyNext, MonitorRuns, MonitorReturns, IoRunReturns, Ended, vars
  <2>2. PICK p \in Peers : AnyStep(p)
    BY <2>1 DEF AnyPeersRun
  <2>3. PICK v : Stepped(p, v)
    BY <2>2, AnyStepKeeps
  <2>4. q = p /\ result_queue' = v.results
    BY <2>3 DEF Stepped, TypeOK
  <2>5. Tells(p, Enter(p), v) /\ Enter(p) \in World
    BY <2>2, <2>3, AnyStepSound, EnterType DEF AllSound
  <2>6. Enter(p).results = result_queue /\ ~Up(Enter(p).self)
    BY <2>4 DEF Enter, Up
  <2> QED BY <2>4, <2>5, <2>6, TellsReported
<1>2. Spec => [][Silent]_vars
  BY <1>1, TypeCorrect, PeersSound, NextIsAny, PTL DEF Spec
<1> QED BY <1>2 DEF ClosedPeerDeliversNothing
=============================================================================
