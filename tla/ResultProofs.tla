---------------------------- MODULE ResultProofs ----------------------------
(***************************************************************************)
(* What crosses result_queue and what the monitor thread makes of it, for  *)
(* any number of peers and pieces: the file holds the verified pieces, the *)
(* monitor ends with nothing left to do, its view of the peers is right    *)
(* once it has caught up, and the whole implements the pool of pieces.     *)
(***************************************************************************)
EXTENDS PeerProofs

----------------------------------------------------------------------------
(* Every result that reports a piece reports one whose hash was right.     *)

AllIntact(results) == \A k \in Completions(results) : results[k].intact

LEMMA PushIntact ==
    ASSUME NEW s \in Seq(Result), NEW r \in Result, AllIntact(s),
           r.type = "PieceComplete" => r.intact
    PROVE  AllIntact(Append(s, r))
<1> DEFINE t == Append(s, r)
<1>1. /\ DOMAIN t = 1 .. Len(s) + 1 /\ DOMAIN s = 1 .. Len(s) /\ Len(s) \in Nat
      /\ t[Len(s) + 1] = r /\ \A k \in DOMAIN s : t[k] = s[k]
  OBVIOUS
<1> HIDE DEF t
<1> SUFFICES ASSUME NEW k \in DOMAIN t, t[k].type = "PieceComplete" PROVE t[k].intact
  BY DEF AllIntact, Completions, t
<1>2. CASE k = Len(s) + 1
  BY <1>1, <1>2
<1>3. CASE k # Len(s) + 1
  <2>1. k \in DOMAIN s
    BY <1>1, <1>3
  <2> QED BY <1>1, <2>1 DEF AllIntact, Completions
<1> QED BY <1>2, <1>3

LEMMA PopIntact ==
    ASSUME NEW s \in Seq(Result), s # <<>>, AllIntact(s)
    PROVE  AllIntact(Tail(s)) /\ (Head(s).type = "PieceComplete" => Head(s).intact)
<1> DEFINE t == Tail(s)
<1>1. /\ DOMAIN t = 1 .. Len(s) - 1 /\ DOMAIN s = 1 .. Len(s) /\ Len(s) \in Nat \ {0}
      /\ Head(s) = s[1]
  OBVIOUS
<1>2. \A k \in DOMAIN t : k + 1 \in DOMAIN s /\ t[k] = s[k + 1]
  OBVIOUS
<1> HIDE DEF t
<1>3. AllIntact(t)
  BY <1>2 DEF AllIntact, Completions
<1>4. Head(s).type = "PieceComplete" => Head(s).intact
  BY <1>1 DEF AllIntact, Completions
<1> QED BY <1>3, <1>4 DEF t

\* What a peer tells is intact, as handle_piece() compared the hash.
LEMMA TellsIntact ==
    ASSUME NEW p \in Peers, NEW w \in World, NEW v, Tells(p, w, v), AllIntact(w.results)
    PROVE  AllIntact(v.results)
<1>1. w.results \in Seq(Result) /\ w.self.piece \in Pieces \cup {None}
  BY WorldFields
<1>2. ASSUME NEW r \in Result, r.type = "PieceComplete" => r.intact,
             v.results = Append(w.results, r)
      PROVE  AllIntact(v.results)
  BY <1>1, <1>2, PushIntact
<1>3. CASE v.results = w.results
  BY <1>3
<1>4. CASE w.self.piece # None
           /\ v.results = Append(w.results, ResultPieceComplete(w.self.piece, TRUE))
  <2>1. /\ ResultPieceComplete(w.self.piece, TRUE) \in Result
        /\ ResultPieceComplete(w.self.piece, TRUE).intact
    BY <1>1, <1>4 DEF ResultPieceComplete, Result
  <2> QED BY <1>2, <1>4, <2>1
<1>5. CASE v.results = Append(w.results, ResultPeerDropped(p))
  <2>1. ResultPeerDropped(p) \in Result /\ ResultPeerDropped(p).type # "PieceComplete"
    BY DEF ResultPeerDropped, Result
  <2> QED BY <1>2, <1>5, <2>1
<1>6. CASE v.results = Append(w.results, ResultPeerConnected(p))
  <2>1. ResultPeerConnected(p) \in Result /\ ResultPeerConnected(p).type # "PieceComplete"
    BY DEF ResultPeerConnected, Result
  <2> QED BY <1>2, <1>6, <2>1
<1> QED BY <1>3, <1>4, <1>5, <1>6 DEF Tells

----------------------------------------------------------------------------
(* The file.                                                               *)

\* With the results on their way the file is as it should be.
FileInv == AllIntact(result_queue) /\ FileHoldsVerifiedPieces

LEMMA PiecesFinite ==
    ASSUME NEW A \in SUBSET Pieces
    PROVE  IsFiniteSet(A) /\ Cardinality(A) \in Nat
<1>1. 0 \in Int /\ NumPieces - 1 \in Int
  BY NumPiecesAssumption
<1>2. IsFiniteSet(Pieces)
  BY <1>1, FS_Interval DEF Pieces
<1> QED BY <1>2, FS_Subset, FS_CardinalityType

\* A visit writes the reported piece, which was missing, and counts it.
LEMMA MonitorWrites ==
    ASSUME TypeOK, PieceConservation, FileInv, MonitorRuns
    PROVE  FileInv'
<1> DEFINE r == Head(result_queue)
<1>1. result_queue \in Seq(Result) /\ result_queue # <<>> /\ result_queue' = Tail(result_queue)
  BY DEF TypeOK, QueuesTypeOK, MonitorRuns, MonitorVisit
<1>2. AllIntact(result_queue') /\ (r.type = "PieceComplete" => r.intact)
  BY <1>1, PopIntact DEF FileInv
<1>3. r.type = "PieceComplete" => r.piece \in missing_pieces
  BY <1>1, PopResult DEF PieceConservation
<1>4. VisitPieceComplete(r) \/ VisitPeerConnected(r) \/ VisitPeerDropped(r)
  BY DEF MonitorRuns, MonitorVisit
<1> HIDE DEF r
<1>5. /\ missing_pieces \subseteq Pieces /\ file \in [Pieces -> FileState]
      /\ \A i \in Pieces : file[i] = IF i \in missing_pieces THEN "zeroes" ELSE "intact"
      /\ bytes_downloaded = Cardinality(Pieces \ missing_pieces)
  BY DEF TypeOK, MonitorTypeOK, FileInv, FileHoldsVerifiedPieces
<1>6. CASE VisitPieceComplete(r)
  <2>1. /\ r.piece \in missing_pieces /\ missing_pieces' = missing_pieces \ {r.piece}
        /\ file' = [file EXCEPT ![r.piece] = "intact"]
        /\ bytes_downloaded' = bytes_downloaded + 1
    BY <1>2, <1>3, <1>6 DEF VisitPieceComplete
  <2>2. \A i \in Pieces : file'[i] = IF i \in missing_pieces' THEN "zeroes" ELSE "intact"
    BY <1>5, <2>1
  <2>3. /\ Pieces \ missing_pieces' = (Pieces \ missing_pieces) \cup {r.piece}
        /\ r.piece \notin Pieces \ missing_pieces
    BY <1>5, <2>1
  <2>4. Cardinality(Pieces \ missing_pieces') = Cardinality(Pieces \ missing_pieces) + 1
    <3>1. IsFiniteSet(Pieces \ missing_pieces)
      BY PiecesFinite
    <3> QED BY <2>3, <3>1, FS_AddElement
  <2> QED BY <1>2, <1>5, <2>1, <2>2, <2>4 DEF FileInv, FileHoldsVerifiedPieces
<1>7. CASE VisitPeerConnected(r) \/ VisitPeerDropped(r)
  <2>1. UNCHANGED <<missing_pieces, file, bytes_downloaded>>
    BY <1>7 DEF VisitPeerConnected, VisitPeerDropped
  <2> QED BY <1>2, <2>1 DEF FileInv, FileHoldsVerifiedPieces
<1> QED BY <1>4, <1>6, <1>7

LEMMA InitFile == Init => FileInv
<1> SUFFICES ASSUME Init PROVE FileInv
  OBVIOUS
<1>1. AllIntact(<<>>)
  BY DEF AllIntact, Completions
<1>2. Cardinality(Pieces \ Pieces) = 0
  <2>1. Pieces \ Pieces = {}
    OBVIOUS
  <2> QED BY <2>1, FS_EmptySet
<1> QED
  BY <1>1, <1>2 DEF Init, QueuesInit, MonitorInit, FileInv, FileHoldsVerifiedPieces

LEMMA NextFile ==
    TypeOK /\ PieceConservation /\ AllSound /\ FileInv /\ [AnyNext]_vars => FileInv'
<1> SUFFICES ASSUME TypeOK, PieceConservation, AllSound, FileInv, [AnyNext]_vars PROVE FileInv'
  OBVIOUS
<1>1. CASE AnyPeersRun
  <2>1. PICK p \in Peers : AnyStep(p)
    BY <1>1 DEF AnyPeersRun
  <2>2. PICK v : Stepped(p, v)
    BY <2>1, AnyStepKeeps
  <2>3. Tells(p, Enter(p), v) /\ Enter(p) \in World /\ Enter(p).results = result_queue
    BY <2>1, <2>2, AnyStepSound, EnterType DEF AllSound, Enter
  <2>4. AllIntact(v.results)
    BY <2>3, TellsIntact DEF FileInv
  <2> QED
    BY <1>1, <2>2, <2>4
    DEF AnyPeersRun, monitorVars, Stepped, FileInv, FileHoldsVerifiedPieces
<1>2. CASE MonitorRuns
  BY <1>2, MonitorWrites
<1>3. CASE UNCHANGED <<result_queue, monitorVars>>
  BY <1>3 DEF monitorVars, FileInv, FileHoldsVerifiedPieces
<1> QED
  BY <1>1, <1>2, <1>3
  DEF AnyNext, MonitorReturns, IoRunReturns, Ended, vars, monitorVars

LEMMA FileAlways == Spec => []FileInv
BY TypeCorrect, PiecesConserved, PeersSound, InitFile, NextFile, NextIsAny, PTL DEF Spec

\* Every piece the monitor does not miss is in the file, once and with the
\* right bytes, for any number of peers, pieces and wrong answers
\* (handle_piece, MonitorVisitor).
THEOREM FileAlwaysVerified == Spec => []FileHoldsVerifiedPieces
<1>1. FileInv => FileHoldsVerifiedPieces
  BY DEF FileInv
<1> QED BY <1>1, FileAlways, PTL

----------------------------------------------------------------------------
(* The end of the monitor thread.                                          *)

EndInv == phase = "freed" => missing_pieces = {}

LEMMA EndAlways == Spec => []EndInv
<1>1. Init => EndInv
  BY DEF Init, EndInv
<1>2. EndInv /\ [AnyNext]_vars => EndInv'
  <2> SUFFICES ASSUME EndInv, [AnyNext]_vars PROVE EndInv'
    OBVIOUS
  <2>1. CASE MonitorReturns
    BY <2>1 DEF MonitorReturns, complete, monitorVars, EndInv
  <2>2. CASE Ended \/ UNCHANGED vars
    BY <2>2 DEF Ended, vars, EndInv
  <2>3. CASE AnyPeersRun \/ MonitorRuns \/ IoRunReturns
    BY <2>3 DEF AnyPeersRun, MonitorRuns, IoRunReturns, EndInv
  <2> QED BY <2>1, <2>2, <2>3 DEF AnyNext
<1> QED BY <1>1, <1>2, NextIsAny, PTL DEF Spec

\* When the monitor thread frees the peers, the file is whole and nobody works
\* on a piece any more, for any number of them (monitor_thread).
THEOREM FreedOnlyWhenIdle == Spec => []FreedWhenIdle
<1>1. TypeOK /\ PieceConservation /\ FileInv /\ EndInv => FreedWhenIdle
  <2> SUFFICES ASSUME TypeOK, PieceConservation, FileInv, EndInv, phase = "freed"
               PROVE  /\ \A i \in Pieces : file[i] = "intact"
                      /\ work_queue = <<>>
                      /\ \A p \in Peers : peers[p].piece = None
    BY DEF FreedWhenIdle
  <2>1. missing_pieces = {} /\ Done = Pieces
    BY DEF EndInv, Done, PieceConservation
  <2>2. \A i \in Pieces : file[i] = "intact"
    BY <2>1 DEF FileInv, FileHoldsVerifiedPieces
  <2>3. work_queue = <<>>
    <3>1. work_queue \in Seq(Pieces)
      BY DEF TypeOK, QueuesTypeOK
    <3>2. Queued = {}
      BY <2>1, <3>1 DEF PieceConservation, Queued, ToSet
    <3>3. DOMAIN work_queue = {}
      BY <3>2 DEF Queued, ToSet
    <3> QED BY <3>1, <3>3
  <2>4. \A p \in Peers : peers[p].piece = None
    <3> SUFFICES ASSUME NEW p \in Peers PROVE peers[p].piece = None
      OBVIOUS
    <3>1. Held(p) = {}
      BY <2>1 DEF PieceConservation, TypeOK, PeerState, Held
    <3> QED BY <3>1 DEF Held
  <2> QED BY <2>2, <2>3, <2>4
<1> QED BY <1>1, TypeCorrect, PiecesConserved, FileAlways, EndAlways, PTL

----------------------------------------------------------------------------
(* What the monitor believes of the peers.                                 *)

\* A finite set of numbers has a largest one.
LEMMA MaxIsLargest ==
    ASSUME NEW n \in Nat, NEW S \in SUBSET (1 .. n), S # {}
    PROVE  Max(S) \in S /\ \A k \in S : k <= Max(S)
<1> DEFINE From(k) == {j \in S : k <= j}
           F == {From(k) : k \in S}
           D == 1 .. n
<1>1. IsFiniteSet(D)
  BY FS_Interval
<1>2. S \subseteq D /\ \A k \in S : k \in Nat
  OBVIOUS
<1> HIDE DEF D
<1>3. F \in SUBSET (SUBSET D) /\ F # {} /\ \A k \in S : From(k) \in F
  BY <1>2
<1> HIDE DEF F
<1>4. PICK X \in F : \A Y \in F : Y \subseteq X => Y = X
  BY <1>1, <1>3, SmallestSet
<1>5. PICK m \in S : X = From(m)
  BY <1>4 DEF F
<1>6. ASSUME NEW k \in S, m < k PROVE FALSE
  <2>1. From(k) \subseteq From(m)
    <3> SUFFICES ASSUME NEW j \in S, k <= j PROVE m <= j
      OBVIOUS
    <3> QED BY <1>2, <1>6
  <2>2. m \in From(m) /\ m \notin From(k)
    BY <1>2, <1>6
  <2> QED BY <1>3, <1>4, <1>5, <2>1, <2>2
<1>7. \E x \in S : \A y \in S : x >= y
  BY <1>2, <1>6
<1>8. Max(S) \in S /\ \A k \in S : Max(S) >= k
  BY <1>7 DEF Max
<1> QED BY <1>8

\* Believed, of any queue of results and any set of watched peers.
About(results, p) ==
    {k \in DOMAIN results : results[k].type # "PieceComplete" /\ results[k].addr = p}

Belief(results, known, p) ==
    IF About(results, p) = {} THEN p \in known
    ELSE results[Max(About(results, p))].type = "PeerConnected"

\* The last result about p is the one that counts.
LEMMA BeliefOfLast ==
    ASSUME NEW s \in Seq(Result), NEW known, NEW p, NEW m \in About(s, p),
           \A k \in About(s, p) : k <= m
    PROVE  Belief(s, known, p) <=> s[m].type = "PeerConnected"
<1>1. About(s, p) \in SUBSET (1 .. Len(s)) /\ Len(s) \in Nat
  BY DEF About
<1>2. /\ Max(About(s, p)) \in About(s, p)
      /\ \A k \in About(s, p) : k <= Max(About(s, p))
  BY <1>1, MaxIsLargest
<1>3. Max(About(s, p)) = m
  BY <1>1, <1>2
<1> QED BY <1>3 DEF Belief

\* It exists if there is any.
LEMMA LastAbout ==
    ASSUME NEW s \in Seq(Result), NEW p, About(s, p) # {}
    PROVE  \E m \in About(s, p) : \A k \in About(s, p) : k <= m
<1>1. About(s, p) \in SUBSET (1 .. Len(s)) /\ Len(s) \in Nat
  BY DEF About
<1> QED BY <1>1, MaxIsLargest

\* A result that is pushed decides if it is about p.
LEMMA PushBelief ==
    ASSUME NEW s \in Seq(Result), NEW r \in Result, NEW known, NEW p
    PROVE  /\ r.type # "PieceComplete" /\ r.addr = p =>
                 (Belief(Append(s, r), known, p) <=> r.type = "PeerConnected")
           /\ r.type = "PieceComplete" \/ r.addr # p =>
                 (Belief(Append(s, r), known, p) <=> Belief(s, known, p))
<1> DEFINE t == Append(s, r)
           n == Len(s) + 1
<1>1. /\ t \in Seq(Result) /\ DOMAIN t = 1 .. n /\ DOMAIN s = 1 .. Len(s)
      /\ Len(s) \in Nat /\ t[n] = r
  OBVIOUS
<1>2. \A k \in DOMAIN s : k \in DOMAIN t /\ k # n /\ k <= n /\ t[k] = s[k]
  OBVIOUS
<1>3. \A k \in DOMAIN t : k = n \/ k \in DOMAIN s
  BY <1>1
<1>4. n \in DOMAIN t /\ \A k \in DOMAIN t : k <= n
  BY <1>1
<1> HIDE DEF t, n
<1>5. ASSUME r.type # "PieceComplete", r.addr = p
      PROVE  Belief(t, known, p) <=> r.type = "PeerConnected"
  <2>1. n \in About(t, p) /\ \A k \in About(t, p) : k <= n
    BY <1>1, <1>4, <1>5 DEF About
  <2> QED BY <1>1, <2>1, BeliefOfLast
<1>6. ASSUME r.type = "PieceComplete" \/ r.addr # p
      PROVE  Belief(t, known, p) <=> Belief(s, known, p)
  <2>1. About(t, p) = About(s, p)
    BY <1>1, <1>2, <1>3, <1>6 DEF About
  <2>2. CASE About(s, p) = {}
    BY <2>1, <2>2 DEF Belief
  <2>3. CASE About(s, p) # {}
    <3>1. PICK m \in About(s, p) : \A k \in About(s, p) : k <= m
      BY <2>3, LastAbout
    <3>2. t[m] = s[m]
      BY <1>2 DEF About
    <3> QED BY <1>1, <2>1, <3>1, <3>2, BeliefOfLast
  <2> QED BY <2>2, <2>3
<1> QED BY <1>5, <1>6 DEF t

\* A result that the monitor visits changes what it knows, not what it will
\* believe in the end (MonitorVisitor).
LEMMA VisitBelief ==
    ASSUME NEW s \in Seq(Result), s # <<>>, NEW known, NEW known2, NEW p,
           Head(s).type = "PieceComplete" => known2 = known,
           Head(s).type = "PeerConnected" => known2 = known \cup {Head(s).addr},
           Head(s).type = "PeerDropped" => known2 = known \ {Head(s).addr}
    PROVE  Belief(Tail(s), known2, p) <=> Belief(s, known, p)
<1> DEFINE t == Tail(s)
           r == Head(s)
<1>1. /\ t \in Seq(Result) /\ DOMAIN t = 1 .. Len(s) - 1 /\ DOMAIN s = 1 .. Len(s)
      /\ Len(s) \in Nat \ {0} /\ r = s[1] /\ r \in Result
  OBVIOUS
<1>2. \A k \in DOMAIN t : t[k] = s[k + 1] /\ k + 1 \in DOMAIN s
  OBVIOUS
<1>3. \A k \in DOMAIN s : k # 1 => k - 1 \in DOMAIN t /\ t[k - 1] = s[k]
  BY <1>1, <1>2
<1>4. r.type \in {"PieceComplete", "PeerConnected", "PeerDropped"}
  BY <1>1 DEF Result
<1> HIDE DEF t, r
<1>5. \A k \in About(t, p) : k \in Nat /\ k + 1 \in About(s, p) /\ t[k] = s[k + 1]
  BY <1>1, <1>2 DEF About
<1>6. \A k \in About(s, p) : k \in Nat /\ (k # 1 => k - 1 \in About(t, p))
  BY <1>1, <1>3 DEF About
<1>7. CASE About(t, p) # {}
  <2>1. PICK m \in About(t, p) : \A k \in About(t, p) : k <= m
    BY <1>1, <1>7, LastAbout
  <2>2. m + 1 \in About(s, p) /\ t[m] = s[m + 1]
    BY <1>5
  <2>3. ASSUME NEW k \in About(s, p) PROVE k <= m + 1
    <3>1. m \in Nat /\ k \in Nat /\ (k # 1 => k - 1 <= m)
      BY <1>5, <1>6, <2>1
    <3> QED BY <3>1
  <2> QED BY <1>1, <2>1, <2>2, <2>3, BeliefOfLast DEF t
<1>8. CASE About(t, p) = {}
  <2>1. Belief(t, known2, p) <=> p \in known2
    BY <1>8 DEF Belief
  <2>2. \A k \in About(s, p) : k = 1
    BY <1>6, <1>8
  <2>3. CASE r.type # "PieceComplete" /\ r.addr = p
    <3>1. 1 \in About(s, p)
      BY <1>1, <2>3 DEF About
    <3>2. Belief(s, known, p) <=> r.type = "PeerConnected"
      BY <1>1, <2>2, <3>1, BeliefOfLast
    <3>3. p \in known2 <=> r.type = "PeerConnected"
      BY <1>4, <2>3 DEF r
    <3> QED BY <2>1, <3>2, <3>3 DEF t
  <2>4. CASE r.type = "PieceComplete" \/ r.addr # p
    <3>1. About(s, p) = {}
      BY <1>1, <2>2, <2>4 DEF About
    <3>2. p \in known2 <=> p \in known
      BY <1>4, <2>4 DEF r
    <3> QED BY <2>1, <3>1, <3>2 DEF Belief, t
  <2> QED BY <2>3, <2>4
<1> QED BY <1>7, <1>8

LEMMA BelievedIsBelief ==
    ASSUME NEW p
    PROVE  /\ Believed(p) = Belief(result_queue, watched, p)
           /\ Believed(p)' = Belief(result_queue', watched', p)
BY DEF Believed, Belief, About

\* What a step of p tells makes the monitor believe what is true of p, and
\* nothing new of another peer.
LEMMA TellsBelief ==
    ASSUME NEW p \in Peers, NEW w \in World, NEW v, Tells(p, w, v), NEW known
    PROVE  /\ (Belief(w.results, known, p) <=> Up(w.self))
                 => (Belief(v.results, known, p) <=> Up(v.self))
           /\ \A q \in Peers \ {p} : Belief(v.results, known, q) <=> Belief(w.results, known, q)
<1>1. w.results \in Seq(Result) /\ w.self.piece \in Pieces \cup {None}
  BY WorldFields
<1>2. CASE v.results = w.results /\ (Up(v.self) <=> Up(w.self))
  BY <1>2
<1>3. CASE /\ w.self.piece # None /\ Up(w.self) /\ Up(v.self)
           /\ v.results = Append(w.results, ResultPieceComplete(w.self.piece, TRUE))
  <2> DEFINE r == ResultPieceComplete(w.self.piece, TRUE)
  <2>1. r \in Result /\ r.type = "PieceComplete" /\ v.results = Append(w.results, r)
    BY <1>1, <1>3 DEF ResultPieceComplete, Result
  <2> HIDE DEF r
  <2>2. \A q \in Peers : Belief(v.results, known, q) <=> Belief(w.results, known, q)
    BY <1>1, <2>1, PushBelief
  <2> QED BY <1>3, <2>2
<1>4. CASE v.results = Append(w.results, ResultPeerDropped(p)) /\ v.self.closed
  <2> DEFINE r == ResultPeerDropped(p)
  <2>1. r \in Result /\ r.type = "PeerDropped" /\ r.addr = p /\ v.results = Append(w.results, r)
    BY <1>4 DEF ResultPeerDropped, Result
  <2> HIDE DEF r
  <2>2. ~Belief(v.results, known, p)
    BY <1>1, <2>1, PushBelief
  <2>3. \A q \in Peers \ {p} : Belief(v.results, known, q) <=> Belief(w.results, known, q)
    BY <1>1, <2>1, PushBelief
  <2> QED BY <1>4, <2>2, <2>3 DEF Up
<1>5. CASE v.results = Append(w.results, ResultPeerConnected(p)) /\ Up(v.self)
  <2> DEFINE r == ResultPeerConnected(p)
  <2>1. r \in Result /\ r.type = "PeerConnected" /\ r.addr = p /\ v.results = Append(w.results, r)
    BY <1>5 DEF ResultPeerConnected, Result
  <2> HIDE DEF r
  <2>2. Belief(v.results, known, p)
    BY <1>1, <2>1, PushBelief
  <2>3. \A q \in Peers \ {p} : Belief(v.results, known, q) <=> Belief(w.results, known, q)
    BY <1>1, <2>1, PushBelief
  <2> QED BY <1>5, <2>2, <2>3
<1> QED BY <1>2, <1>3, <1>4, <1>5 DEF Tells

ViewInv == \A p \in Peers : Belief(result_queue, watched, p) <=> Up(peers[p])

LEMMA InitView == Init => ViewInv
<1> SUFFICES ASSUME Init, NEW p \in Peers
             PROVE  Belief(result_queue, watched, p) <=> Up(peers[p])
  BY DEF ViewInv
<1>1. About(<<>>, p) = {}
  BY DEF About
<1>2. peers[p].chain \in Handshaking
  BY DEF Init, PeerInit, NewPeer, Handshaking, Chain, Reading
<1> QED BY <1>1, <1>2 DEF Init, QueuesInit, MonitorInit, Belief, Up

LEMMA NextView == TypeOK /\ AllSound /\ ViewInv /\ [AnyNext]_vars => ViewInv'
<1> SUFFICES ASSUME TypeOK, AllSound, ViewInv, [AnyNext]_vars, NEW q \in Peers
             PROVE  Belief(result_queue', watched', q) <=> Up(peers'[q])
  BY DEF ViewInv
<1>1. CASE AnyPeersRun
  <2>1. PICK p \in Peers : AnyStep(p)
    BY <1>1 DEF AnyPeersRun
  <2>2. PICK v : Stepped(p, v)
    BY <2>1, AnyStepKeeps
  <2>3. Tells(p, Enter(p), v) /\ Enter(p) \in World /\ Enter(p).results = result_queue
        /\ Enter(p).self = peers[p]
    BY <2>1, <2>2, AnyStepSound, EnterType DEF AllSound, Enter
  <2>4. result_queue' = v.results /\ watched' = watched
        /\ peers'[q] = IF q = p THEN v.self ELSE peers[q]
    BY <1>1, <2>2 DEF AnyPeersRun, monitorVars, Stepped, TypeOK
  <2> QED BY <2>3, <2>4, TellsBelief DEF ViewInv
<1>2. CASE MonitorRuns
  <2>1. /\ result_queue \in Seq(Result) /\ result_queue # <<>>
        /\ result_queue' = Tail(result_queue) /\ peers' = peers
    BY <1>2 DEF TypeOK, QueuesTypeOK, MonitorRuns, MonitorVisit
  <2>2. /\ Head(result_queue).type = "PieceComplete" => watched' = watched
        /\ Head(result_queue).type = "PeerConnected"
              => watched' = watched \cup {Head(result_queue).addr}
        /\ Head(result_queue).type = "PeerDropped"
              => watched' = watched \ {Head(result_queue).addr}
    BY <1>2
    DEF MonitorRuns, MonitorVisit, VisitPieceComplete, VisitPeerConnected, VisitPeerDropped
  <2> QED BY <2>1, <2>2, VisitBelief DEF ViewInv
<1>3. CASE UNCHANGED <<peers, result_queue, watched>>
  BY <1>3 DEF ViewInv
<1> QED
  BY <1>1, <1>2, <1>3
  DEF AnyNext, MonitorReturns, IoRunReturns, Ended, vars, monitorVars

\* Once it has caught up, the monitor counts exactly the peers whose handshake
\* was read and whose socket is open, however often and in whatever state a
\* peer is closed (async_next, close, MonitorVisitor).
THEOREM MonitorSeesPeers == Spec => []MonitorView
<1>1. TypeOK /\ ViewInv => MonitorView
  <2> SUFFICES ASSUME TypeOK, ViewInv, NEW p \in Peers
               PROVE  Believed(p) <=> ~peers[p].closed
                                      /\ peers[p].chain \in Reading \cup {"stopped"}
    BY DEF MonitorView
  <2>1. peers[p].chain \in Chain
    BY DEF TypeOK, PeerState
  <2>2. Believed(p) <=> Up(peers[p])
    BY BelievedIsBelief DEF ViewInv
  <2> QED BY <2>1, <2>2 DEF Up, Handshaking, Chain, Reading
<1> QED BY <1>1, TypeCorrect, PeersSound, InitView, NextView, NextIsAny, PTL DEF Spec

----------------------------------------------------------------------------
(* The pool of pieces.                                                     *)

HeldNow == [p \in Peers |-> peers[p].piece]

\* What a peer does in one step is a step of the pool: it disposes of its
\* piece by reporting or queueing it, and may take another one.
LEMMA StepOfPool ==
    ASSUME TypeOK, PieceConservation, NEW p \in Peers, NEW v, Stepped(p, v),
           Tells(p, Enter(p), v), UNCHANGED missing_pieces
    PROVE  Pool!Step(p)
<1> DEFINE w == Enter(p)
           S == Share(p)
           finished == Reported(v.results) \ Reported(w.results)
           next == v.self.piece
           pool == Queued \cup (Own(w) \ finished)
<1>1. /\ w \in World /\ w.work = work_queue /\ w.results = result_queue /\ w.self = peers[p]
  BY EnterType DEF Enter
<1>2. Conserves(w, S) /\ Conserves(v, S)
  BY EnterConserves DEF Stepped, Keeps
<1>3. /\ Reported(v.results) \subseteq Reported(w.results) \cup Own(w)
      /\ Reported(w.results) \subseteq Reported(v.results)
  BY <1>1, TellsReported
<1>4. ToSet(w.work) = Queued
  BY <1>1 DEF Queued
<1> HIDE DEF w, S
<1>5. finished \subseteq Own(w)
  BY <1>3
<1>6. pool = S \ Reported(v.results)
  BY <1>2, <1>3, <1>4 DEF Conserves
<1>7. ToSet(v.work) = pool \ {next} /\ next \in pool \cup {None}
  <2>1. /\ S = ToSet(v.work) \cup Own(v) \cup Reported(v.results)
        /\ ToSet(v.work) \cap Own(v) = {} /\ ToSet(v.work) \cap Reported(v.results) = {}
        /\ Own(v) \cap Reported(v.results) = {}
    BY <1>2 DEF Conserves
  <2>2. None \notin ToSet(v.work)
    <3>1. ToSet(v.work) \subseteq Pieces
      <4>1. v.work \in Seq(Pieces)
        BY WorldFields DEF Stepped
      <4> QED BY <4>1 DEF ToSet
    <3> QED BY <3>1, NoneAssumption
  <2> HIDE DEF pool
  <2> QED BY <1>6, <2>1, <2>2 DEF Own
<1>8. Queued' = pool \ {next}
  BY <1>7 DEF Stepped, Queued
<1>9. HeldNow' = [HeldNow EXCEPT ![p] = next]
  BY DEF Stepped, HeldNow, TypeOK
<1>10. Done' = Done \cup finished
  <2>1. result_queue' = v.results
    BY DEF Stepped
  <2> QED BY <1>1, <1>3, <2>1 DEF Done
<1>11. Own(w) = Pool!InHand(p)
  BY <1>1 DEF Own, Pool!InHand
<1> HIDE DEF finished, next
<1> QED BY <1>5, <1>7, <1>8, <1>9, <1>10, <1>11 DEF Pool!Step, HeldNow

LEMMA InitPool == Init => Pool!Init
<1> SUFFICES ASSUME Init PROVE Pool!Init
  OBVIOUS
<1>1. PieceConservation
  BY InitConserves
<1>2. \A p \in Peers : peers[p].piece = None
  BY DEF Init, PeerInit, NewPeer
<1>3. Done = {}
  BY DEF Init, QueuesInit, MonitorInit, Done, Reported, Completions
<1>4. Queued = Pieces
  BY <1>1, <1>2, <1>3 DEF PieceConservation, InHands, Held
<1> QED BY <1>2, <1>3, <1>4 DEF Pool!Init

\* The monitor moves a reported piece to the written ones, both of them done.
LEMMA NextPool ==
    TypeOK /\ PieceConservation /\ AllSound /\ [AnyNext]_vars => [Pool!Next]_(Pool!vars)
<1> SUFFICES ASSUME TypeOK, PieceConservation, AllSound, [AnyNext]_vars
             PROVE  Pool!Next \/ UNCHANGED <<Queued, HeldNow, Done>>
  BY DEF Pool!vars, HeldNow
<1>1. CASE AnyPeersRun
  <2>1. PICK p \in Peers : AnyStep(p)
    BY <1>1 DEF AnyPeersRun
  <2>2. PICK v : Stepped(p, v)
    BY <2>1, AnyStepKeeps
  <2>3. Tells(p, Enter(p), v)
    BY <2>1, <2>2, AnyStepSound DEF AllSound
  <2>4. Pool!Step(p)
    BY <1>1, <2>2, <2>3, StepOfPool DEF AnyPeersRun, monitorVars
  <2> QED BY <2>4 DEF Pool!Next
<1>2. CASE MonitorRuns
  <2> DEFINE r == Head(result_queue)
  <2>1. result_queue \in Seq(Result) /\ result_queue # <<>> /\ result_queue' = Tail(result_queue)
        /\ UNCHANGED <<work_queue, peers>>
    BY <1>2 DEF TypeOK, QueuesTypeOK, MonitorRuns, MonitorVisit
  <2>2. /\ r.type # "PieceComplete" => Reported(result_queue') = Reported(result_queue)
        /\ r.type = "PieceComplete" =>
              /\ r.piece \in Reported(result_queue)
              /\ Reported(result_queue') = Reported(result_queue) \ {r.piece}
    BY <2>1, PopResult DEF PieceConservation
  <2>3. missing_pieces' = IF r.type = "PieceComplete" THEN missing_pieces \ {r.piece}
                                                      ELSE missing_pieces
    BY <1>2
    DEF MonitorRuns, MonitorVisit, VisitPieceComplete, VisitPeerConnected, VisitPeerDropped
  <2> HIDE DEF r
  <2>4. Reported(result_queue) \subseteq missing_pieces /\ missing_pieces \subseteq Pieces
    BY DEF PieceConservation, TypeOK, MonitorTypeOK
  <2>5. Done' = Done
    BY <2>2, <2>3, <2>4 DEF Done
  <2> QED BY <2>1, <2>5 DEF Queued, HeldNow
<1>3. CASE UNCHANGED <<peers, work_queue, result_queue, missing_pieces>>
  BY <1>3 DEF Queued, HeldNow, Done
<1> QED
  BY <1>1, <1>2, <1>3
  DEF AnyNext, MonitorReturns, IoRunReturns, Ended, monitorVars, vars

\* The connections, the two queues and the monitor implement the pool: in one
\* step a piece is taken, put back, or done for good, and nobody touches the
\* piece of another, for any number of peers and pieces (async_download,
\* release_piece, handle_piece, the monitor's visit).
THEOREM SwarmImplementsPool == Spec => ImplementsWorkPool
BY TypeCorrect, PiecesConserved, PeersSound, InitPool, NextPool, NextIsAny, PTL
DEF Spec, ImplementsWorkPool, Pool!Spec
=============================================================================
