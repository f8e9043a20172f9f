---------------------------- MODULE QueueLemmas ----------------------------
(***************************************************************************)
(* Facts about the two queues: what a push and a pop do to the pieces in   *)
(* work_queue and to the pieces reported in result_queue.                  *)
(***************************************************************************)
EXTENDS Queues, TLAPS

\* A push adds the piece to the queued ones, and a queue without repetitions
\* stays so when the piece was not in it (work_queue->push).
LEMMA PushWork ==
    ASSUME NEW s \in Seq(Pieces), NEW i \in Pieces
    PROVE  /\ Append(s, i) \in Seq(Pieces)
           /\ ToSet(Append(s, i)) = ToSet(s) \cup {i}
           /\ IsInjective(s) /\ i \notin ToSet(s) => IsInjective(Append(s, i))
<1> DEFINE t == Append(s, i)
<1>1. /\ t \in Seq(Pieces) /\ DOMAIN t = 1 .. Len(s) + 1 /\ DOMAIN s = 1 .. Len(s)
      /\ Len(s) \in Nat
  OBVIOUS
<1>2. \A k \in DOMAIN t : t[k] = IF k = Len(s) + 1 THEN i ELSE s[k]
  OBVIOUS
<1>3. ToSet(t) \subseteq ToSet(s) \cup {i}
  BY <1>1, <1>2 DEF ToSet
<1>4. ToSet(s) \subseteq ToSet(t)
  BY <1>1, <1>2 DEF ToSet
<1>5. i \in ToSet(t)
  BY <1>1, <1>2 DEF ToSet
<1>6. ASSUME IsInjective(s), i \notin ToSet(s) PROVE IsInjective(t)
  <2> SUFFICES ASSUME NEW a \in DOMAIN t, NEW b \in DOMAIN t, t[a] = t[b] PROVE a = b
    BY DEF IsInjective
  <2>1. \A k \in DOMAIN s : s[k] # i
    BY <1>6 DEF ToSet
  <2>2. \A j, k \in DOMAIN s : s[j] = s[k] => j = k
    BY <1>6 DEF IsInjective
  <2> QED BY <1>1, <1>2, <2>1, <2>2
<1> QED BY <1>1, <1>3, <1>4, <1>5, <1>6

\* A pop removes exactly the head (work_queue->pop).
LEMMA PopWork ==
    ASSUME NEW s \in Seq(Pieces), s # <<>>, IsInjective(s)
    PROVE  /\ Head(s) \in Pieces /\ Head(s) \in ToSet(s)
           /\ Tail(s) \in Seq(Pieces)
           /\ IsInjective(Tail(s))
           /\ ToSet(Tail(s)) = ToSet(s) \ {Head(s)}
<1> DEFINE t == Tail(s)
<1>1. /\ t \in Seq(Pieces) /\ DOMAIN t = 1 .. Len(s) - 1 /\ DOMAIN s = 1 .. Len(s)
      /\ Len(s) \in Nat \ {0} /\ Head(s) = s[1] /\ Head(s) \in Pieces
  OBVIOUS
<1>2. \A k \in DOMAIN t : t[k] = s[k + 1] /\ k + 1 \in DOMAIN s /\ k + 1 # 1
  OBVIOUS
<1>3. \A j, k \in DOMAIN s : s[j] = s[k] => j = k
  BY DEF IsInjective
<1>4. IsInjective(t)
  <2> SUFFICES ASSUME NEW a \in DOMAIN t, NEW b \in DOMAIN t, t[a] = t[b] PROVE a = b
    BY DEF IsInjective
  <2>1. a + 1 = b + 1
    BY <1>2, <1>3
  <2> QED BY <1>1, <2>1
<1>5. ToSet(t) \subseteq ToSet(s) \ {Head(s)}
  <2> SUFFICES ASSUME NEW k \in DOMAIN t PROVE t[k] \in ToSet(s) /\ t[k] # Head(s)
    BY DEF ToSet
  <2>1. t[k] = s[k + 1] /\ k + 1 \in DOMAIN s /\ k + 1 # 1 /\ 1 \in DOMAIN s
    BY <1>1, <1>2
  <2>2. s[k + 1] # s[1]
    BY <2>1, <1>3
  <2> QED BY <2>1, <2>2, <1>1 DEF ToSet
<1>6. ToSet(s) \ {Head(s)} \subseteq ToSet(t)
  <2> SUFFICES ASSUME NEW k \in DOMAIN s, s[k] # s[1] PROVE s[k] \in ToSet(t)
    BY <1>1 DEF ToSet
  <2>1. k - 1 \in DOMAIN t /\ (k - 1) + 1 = k
    BY <1>1
  <2>2. t[k - 1] = s[k]
    BY <1>2, <2>1
  <2> QED BY <2>1, <2>2 DEF ToSet
<1>7. Head(s) \in ToSet(s)
  BY <1>1 DEF ToSet
<1> QED BY <1>1, <1>4, <1>5, <1>6, <1>7

\* Reporting a peer leaves the reported pieces alone; reporting a piece adds
\* it, once if it was not reported yet (result_queue->push).
LEMMA PushResult ==
    ASSUME NEW s \in Seq(Result), NEW r \in Result
    PROVE  /\ Append(s, r) \in Seq(Result)
           /\ r.type # "PieceComplete" =>
                 /\ Reported(Append(s, r)) = Reported(s)
                 /\ ReportedOnce(s) => ReportedOnce(Append(s, r))
           /\ r.type = "PieceComplete" =>
                 /\ Reported(Append(s, r)) = Reported(s) \cup {r.piece}
                 /\ ReportedOnce(s) /\ r.piece \notin Reported(s)
                       => ReportedOnce(Append(s, r))
<1> DEFINE t == Append(s, r)
           n == Len(s) + 1
<1>1. /\ t \in Seq(Result) /\ DOMAIN t = 1 .. n /\ DOMAIN s = 1 .. Len(s)
      /\ Len(s) \in Nat /\ t[n] = r
  OBVIOUS
<1>2. \A k \in DOMAIN s : k \in DOMAIN t /\ k # n /\ t[k] = s[k]
  OBVIOUS
<1>3. \A k \in DOMAIN t : k = n \/ k \in DOMAIN s
  BY <1>1
<1> HIDE DEF t, n
<1>4. CASE r.type # "PieceComplete"
  <2>1. Completions(t) = Completions(s)
    BY <1>1, <1>2, <1>3, <1>4 DEF Completions
  <2>2. \A k \in Completions(s) : t[k] = s[k]
    BY <1>2 DEF Completions
  <2>3. Reported(t) = Reported(s)
    BY <2>1, <2>2 DEF Reported
  <2>4. ReportedOnce(s) => ReportedOnce(t)
    BY <2>1, <2>2 DEF ReportedOnce
  <2> QED BY <1>1, <1>4, <2>3, <2>4 DEF t
<1>5. CASE r.type = "PieceComplete"
  <2>0. n \in DOMAIN t /\ n \notin DOMAIN s
    BY <1>1 DEF n
  <2>1. Completions(t) = Completions(s) \cup {n} /\ n \notin Completions(s)
    BY <1>1, <1>2, <1>3, <1>5, <2>0 DEF Completions
  <2>2. \A k \in Completions(s) : t[k] = s[k]
    BY <1>2 DEF Completions
  <2>3. Reported(t) = Reported(s) \cup {r.piece}
    BY <1>1, <2>1, <2>2 DEF Reported
  <2>4. ASSUME ReportedOnce(s), r.piece \notin Reported(s) PROVE ReportedOnce(t)
    <3>1. \A k \in Completions(s) : s[k].piece # r.piece
      BY <2>4 DEF Reported
    <3> QED BY <1>1, <2>1, <2>2, <2>4, <3>1 DEF ReportedOnce
  <2> QED BY <1>1, <1>5, <2>3, <2>4 DEF t
<1> QED BY <1>4, <1>5

\* The monitor's pop takes the head's piece, if it has one, out of the
\* reported ones (result_queue->pop).
LEMMA PopResult ==
    ASSUME NEW s \in Seq(Result), s # <<>>, ReportedOnce(s)
    PROVE  /\ Head(s) \in Result
           /\ Tail(s) \in Seq(Result)
           /\ ReportedOnce(Tail(s))
           /\ Head(s).type # "PieceComplete" => Reported(Tail(s)) = Reported(s)
           /\ Head(s).type = "PieceComplete" =>
                 /\ Head(s).piece \in Reported(s)
                 /\ Reported(Tail(s)) = Reported(s) \ {Head(s).piece}
<1> DEFINE t == Tail(s)
<1>1. /\ t \in Seq(Result) /\ DOMAIN t = 1 .. Len(s) - 1 /\ DOMAIN s = 1 .. Len(s)
      /\ Len(s) \in Nat \ {0} /\ Head(s) = s[1] /\ Head(s) \in Result /\ 1 \in DOMAIN s
  OBVIOUS
<1>2. \A k \in DOMAIN t : t[k] = s[k + 1] /\ k + 1 \in DOMAIN s /\ k + 1 # 1
  OBVIOUS
<1>3. \A k \in DOMAIN s : k # 1 => k - 1 \in DOMAIN t /\ t[k - 1] = s[k]
  BY <1>1, <1>2
<1>4. \A j, k \in Completions(s) : s[j].piece = s[k].piece => j = k
  BY DEF ReportedOnce
<1> HIDE DEF t
<1>5. \A k \in Completions(t) : k \in Nat /\ k + 1 \in Completions(s) \ {1} /\ t[k] = s[k + 1]
  BY <1>1, <1>2 DEF Completions
<1>6. \A k \in Completions(s) \ {1} : k - 1 \in Completions(t) /\ t[k - 1] = s[k]
  BY <1>3 DEF Completions
<1>7. ReportedOnce(t)
  <2> SUFFICES ASSUME NEW j \in Completions(t), NEW k \in Completions(t),
                      t[j].piece = t[k].piece
               PROVE  j = k
    BY DEF ReportedOnce
  <2>1. j + 1 = k + 1
    BY <1>4, <1>5
  <2> QED BY <1>5, <2>1
<1>8. Reported(t) = {s[k].piece : k \in Completions(s) \ {1}}
  <2>1. ASSUME NEW x \in Reported(t) PROVE x \in {s[k].piece : k \in Completions(s) \ {1}}
    BY <1>5 DEF Reported
  <2>2. ASSUME NEW k \in Completions(s) \ {1} PROVE s[k].piece \in Reported(t)
    BY <1>6 DEF Reported
  <2> QED BY <2>1, <2>2
<1>9. CASE s[1].type # "PieceComplete"
  <2>1. 1 \notin Completions(s)
    BY <1>9 DEF Completions
  <2> QED BY <1>1, <1>7, <1>8, <1>9, <2>1 DEF Reported, t
<1>10. CASE s[1].type = "PieceComplete"
  <2>1. 1 \in Completions(s)
    BY <1>1, <1>10 DEF Completions
  <2>2. \A k \in Completions(s) \ {1} : s[k].piece # s[1].piece
    BY <1>4, <2>1
  <2>3. Reported(t) = Reported(s) \ {s[1].piece}
    BY <1>8, <2>1, <2>2 DEF Reported
  <2>4. s[1].piece \in Reported(s)
    BY <2>1 DEF Reported
  <2> QED BY <1>1, <1>7, <1>10, <2>3, <2>4 DEF t
<1> QED BY <1>9, <1>10
=============================================================================
