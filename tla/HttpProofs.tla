----------------------------- MODULE HttpProofs -----------------------------
(***************************************************************************)
(* Theorems about HttpClient: the body that send() returns, for any reply  *)
(* whose header announces its framing, and however the stream is cut up.   *)
(***************************************************************************)
EXTENDS HttpClient, SequenceTheorems, WellFoundedInduction, TLAPS

----------------------------------------------------------------------------
(* Sequences.                                                              *)

\* A set of natural numbers that is not empty has a least one.
LEMMA Least ==
    ASSUME NEW T, T \subseteq Nat, T # {}
    PROVE  \E m \in T : \A n \in T : m <= n
<1>1. PICK m \in T : \A n \in T : <<n, m>> \notin OpToRel(<, Nat)
  BY NatLessThanWellFounded, WFMin
<1>2. \A n \in T : ~(n < m)
  BY <1>1 DEF OpToRel
<1> QED BY <1>2

\* The places of a concatenation.
LEMMA Concatenated ==
    ASSUME NEW S, NEW s \in Seq(S), NEW t \in Seq(S), NEW u, u = s \o t
    PROVE  /\ u \in Seq(S) /\ Len(s) \in Nat /\ Len(t) \in Nat
           /\ Len(u) = Len(s) + Len(t)
           /\ \A i \in 1 .. Len(s) : u[i] = s[i]
           /\ \A i \in 1 .. Len(t) : u[Len(s) + i] = t[i]
<1>1. Len(s) \in Nat /\ Len(t) \in Nat
  OBVIOUS
<1>2. /\ u \in Seq(S) /\ Len(u) = Len(s) + Len(t)
      /\ \A i \in 1 .. Len(s) + Len(t) : u[i] = IF i <= Len(s) THEN s[i] ELSE t[i - Len(s)]
  BY ConcatProperties
<1>3. ASSUME NEW i \in 1 .. Len(t) PROVE u[Len(s) + i] = t[i]
  <2>1. Len(s) + i \in 1 .. Len(s) + Len(t) /\ ~(Len(s) + i <= Len(s)) /\ Len(s) + i - Len(s) = i
    BY <1>1
  <2> QED BY <1>2, <2>1
<1>4. ASSUME NEW i \in 1 .. Len(s) PROVE u[i] = s[i]
  BY <1>1, <1>2
<1> QED BY <1>1, <1>2, <1>3, <1>4

\* The same, with a name.
Halves(u, s, t) ==
    /\ Len(s) \in Nat /\ Len(t) \in Nat /\ Len(u) = Len(s) + Len(t)
    /\ \A i \in 1 .. Len(s) : u[i] = s[i]
    /\ \A i \in 1 .. Len(t) : u[Len(s) + i] = t[i]

\* Concatenated, in the form the steps below cite.
LEMMA HalvesOf ==
    ASSUME NEW S, NEW s \in Seq(S), NEW t \in Seq(S)
    PROVE  s \o t \in Seq(S) /\ Halves(s \o t, s, t)
<1> DEFINE u == s \o t
<1>1. u = s \o t
  OBVIOUS
<1> HIDE DEF u
<1>2. u \in Seq(S) /\ Len(s) \in Nat /\ Len(t) \in Nat /\ Len(u) = Len(s) + Len(t)
  BY <1>1, Concatenated
<1>3. \A i \in 1 .. Len(s) : u[i] = s[i]
  BY <1>1, Concatenated
<1>4. \A i \in 1 .. Len(t) : u[Len(s) + i] = t[i]
  BY <1>1, Concatenated
<1>5. Halves(u, s, t)
  BY <1>2, <1>3, <1>4 DEF Halves
<1> QED BY <1>2, <1>5 DEF u

\* What the first few of many sequences are together.
Joins(f, seqs) ==
    /\ f[0] = <<>>
    /\ \A i \in 1 .. Len(seqs) : f[i] = f[i - 1] \o seqs[i]

\* There is such a function, and FlattenSeq, which is defined by recursion, is
\* its last value.
LEMMA Joined ==
    ASSUME NEW S, NEW seqs \in Seq(Seq(S))
    PROVE  \E f \in [0 .. Len(seqs) -> Seq(S)] : Joins(f, seqs) /\ f[Len(seqs)] = FlattenSeq(seqs)
<1> DEFINE N == Len(seqs)
           Some(n) == \E f \in [0 .. n -> Seq(S)] :
                         f[0] = <<>> /\ \A i \in 1 .. n : f[i] = f[i - 1] \o seqs[i]
           without == {n \in 0 .. N : ~Some(n)}
<1>1. N \in Nat /\ \A i \in 1 .. N : seqs[i] \in Seq(S)
  OBVIOUS
<1> HIDE DEF N, Some
<1>2. without = {}
  <2> SUFFICES ASSUME without # {} PROVE FALSE
    OBVIOUS
  <2>1. PICK m \in without : \A n \in without : m <= n
    <3>1. without \subseteq Nat
      BY <1>1
    <3> QED BY <3>1, Least
  <2>2. m \in 0 .. N /\ ~Some(m)
    BY <2>1
  <2>3. CASE m = 0
    <3>1. [i \in 0 .. 0 |-> <<>>] \in [0 .. 0 -> Seq(S)]
      OBVIOUS
    <3>2. Some(0)
      <4> DEFINE none == [i \in 0 .. 0 |-> <<>>]
      <4>1. none[0] = <<>> /\ 1 .. 0 = {}
        OBVIOUS
      <4> HIDE DEF none
      <4> QED BY <3>1, <4>1 DEF none, Some
    <3> QED BY <2>2, <2>3, <3>2
  <2>4. CASE m # 0
    <3>1. m - 1 \in 0 .. N /\ m \in 1 .. N
      BY <1>1, <2>2, <2>4
    <3>2. Some(m - 1)
      <4>1. m - 1 \notin without
        BY <1>1, <2>1, <2>2, <2>4, <3>1
      <4> QED BY <3>1, <4>1
    <3>3. PICK f \in [0 .. m - 1 -> Seq(S)] :
              f[0] = <<>> /\ \A i \in 1 .. m - 1 : f[i] = f[i - 1] \o seqs[i]
      BY <3>2 DEF Some
    <3> DEFINE g == [i \in 0 .. m |-> IF i = m THEN f[m - 1] \o seqs[m] ELSE f[i]]
    <3>4. f[m - 1] \o seqs[m] \in Seq(S)
      <4>1. f[m - 1] \in Seq(S) /\ seqs[m] \in Seq(S)
        BY <1>1, <3>1
      <4> QED BY <4>1, ConcatProperties
    <3>5. g \in [0 .. m -> Seq(S)]
      <4>1. \A i \in 0 .. m : i # m => i \in 0 .. m - 1
        BY <3>1, <1>1
      <4> QED BY <3>4, <4>1
    <3>6. g[0] = <<>> /\ \A i \in 1 .. m : g[i] = g[i - 1] \o seqs[i]
      <4>1. g[0] = <<>>
        BY <1>1, <3>1, <3>3
      <4>2. ASSUME NEW i \in 1 .. m PROVE g[i] = g[i - 1] \o seqs[i]
        <5>1. i - 1 \in 0 .. m /\ i - 1 # m /\ i \in 0 .. m
          BY <1>1, <3>1
        <5>2. g[i - 1] = f[i - 1]
          BY <5>1
        <5>3. g[i] = f[i - 1] \o seqs[i]
          <6>1. CASE i = m
            BY <5>1, <6>1
          <6>2. CASE i # m
            <7>1. i \in 1 .. m - 1
              BY <1>1, <3>1, <6>2
            <7> QED BY <3>3, <5>1, <6>2, <7>1
          <6> QED BY <6>1, <6>2
        <5> HIDE DEF g
        <5> QED BY <5>2, <5>3
      <4> QED BY <4>1, <4>2
    <3>7. Some(m)
      <4> HIDE DEF g
      <4> QED BY <3>5, <3>6 DEF Some
    <3> QED BY <2>2, <3>7
  <2> QED BY <2>3, <2>4
<1>3. Some(N)
  <2>1. N \in 0 .. N /\ N \notin without
    BY <1>1, <1>2
  <2> QED BY <2>1
<1>4. PICK f \in [0 .. N -> Seq(S)] : f[0] = <<>> /\ \A i \in 1 .. N : f[i] = f[i - 1] \o seqs[i]
  BY <1>3 DEF Some
<1>5. CASE N = 0
  <2>1. seqs = <<>>
    BY <1>5, EmptySeq DEF N
  <2> QED BY <1>4, <1>5, <2>1 DEF Joins, FlattenSeq, N
<1>6. CASE N # 0
  <2> DEFINE Flat(g) == g = [i \in 1 .. N |-> IF i = 1 THEN seqs[i] ELSE g[i - 1] \o seqs[i]]
             h == [i \in 1 .. N |-> f[i]]
             flat == CHOOSE g : Flat(g)
  <2>1. \A i \in 1 .. N : h[i] = IF i = 1 THEN seqs[i] ELSE h[i - 1] \o seqs[i]
    <3> SUFFICES ASSUME NEW i \in 1 .. N PROVE h[i] = IF i = 1 THEN seqs[i] ELSE h[i - 1] \o seqs[i]
      OBVIOUS
    <3>1. h[i] = f[i - 1] \o seqs[i]
      BY <1>4
    <3>2. CASE i = 1
      <4>1. f[i - 1] = <<>>
        BY <1>4, <3>2
      <4>2. <<>> \o seqs[i] = seqs[i]
        BY <1>1, ConcatEmptySeq
      <4> QED BY <3>1, <3>2, <4>1, <4>2
    <3>3. CASE i # 1
      <4>1. i - 1 \in 1 .. N
        BY <1>1, <3>3
      <4> QED BY <3>1, <3>3, <4>1
    <3> QED BY <3>2, <3>3
  <2>2. Flat(h)
    BY <2>1
  <2>3. Flat(flat)
    <3> HIDE DEF Flat
    <3> QED BY <2>2
  <2>4. \A i \in 1 .. N : flat[i] = IF i = 1 THEN seqs[i] ELSE flat[i - 1] \o seqs[i]
    <3> HIDE DEF flat
    <3> QED BY <2>3
  <2> DEFINE other == {i \in 1 .. N : flat[i] # h[i]}
  <2> HIDE DEF flat, h
  <2>5. other = {}
    <3> SUFFICES ASSUME other # {} PROVE FALSE
      OBVIOUS
    <3>1. PICK m \in other : \A n \in other : m <= n
      <4>1. other \subseteq Nat
        BY <1>1
      <4> QED BY <4>1, Least
    <3>2. m = 1 \/ (m - 1 \in 1 .. N /\ m - 1 \notin other)
      BY <1>1, <3>1
    <3>3. flat[m] = h[m]
      BY <2>1, <2>4, <3>1, <3>2
    <3> QED BY <3>1, <3>3
  <2>6. flat[N] = f[N]
    <3>1. flat[N] = h[N]
      <4>1. N \in 1 .. N
        BY <1>1, <1>6
      <4> QED BY <4>1, <2>5
    <3> QED BY <1>1, <1>6, <3>1 DEF h
  <2>7. FlattenSeq(seqs) = flat[N]
    BY <1>6 DEF FlattenSeq, flat, N
  <2> QED BY <1>4, <2>6, <2>7 DEF Joins, N
<1> QED BY <1>5, <1>6

\* What was joined stays where it is when more is joined.
LEMMA JoinedStay ==
    ASSUME NEW S, NEW seqs \in Seq(Seq(S)), NEW f \in [0 .. Len(seqs) -> Seq(S)], Joins(f, seqs),
           NEW k \in 0 .. Len(seqs)
    PROVE  /\ Len(f[k]) <= Len(f[Len(seqs)])
           /\ \A i \in 1 .. Len(f[k]) : f[Len(seqs)][i] = f[k][i]
<1> DEFINE N == Len(seqs)
           Stays(j) == /\ Len(f[k]) <= Len(f[j])
                       /\ \A i \in 1 .. Len(f[k]) : f[j][i] = f[k][i]
           moved == {j \in k .. N : ~Stays(j)}
<1>1. /\ N \in Nat /\ k \in Nat /\ k <= N
      /\ \A i \in 1 .. N : seqs[i] \in Seq(S)
      /\ \A i \in 0 .. N : f[i] \in Seq(S) /\ Len(f[i]) \in Nat
  OBVIOUS
<1>2. \A i \in 1 .. N : f[i] = f[i - 1] \o seqs[i]
  BY DEF Joins
<1> HIDE DEF N
<1>3. Stays(k)
  BY <1>1
<1>4. ASSUME NEW j \in k .. N, j # k, Stays(j - 1) PROVE Stays(j)
  <2>1. j \in 1 .. N /\ j - 1 \in 0 .. N
    BY <1>1, <1>4
  <2>2. f[j - 1] \in Seq(S) /\ seqs[j] \in Seq(S) /\ f[j] = f[j - 1] \o seqs[j]
    BY <1>1, <1>2, <2>1
  <2>3. /\ Len(f[j]) = Len(f[j - 1]) + Len(seqs[j]) /\ Len(seqs[j]) \in Nat
        /\ \A i \in 1 .. Len(f[j - 1]) : f[j][i] = f[j - 1][i]
    <3> DEFINE s == f[j - 1]
               t == seqs[j]
               u == f[j]
    <3>1. s \in Seq(S) /\ t \in Seq(S) /\ u = s \o t
      BY <2>2
    <3> HIDE DEF s, t, u
    <3>2. /\ Len(u) = Len(s) + Len(t) /\ Len(t) \in Nat
          /\ \A i \in 1 .. Len(s) : u[i] = s[i]
      BY <3>1, Concatenated
    <3> QED BY <3>2 DEF s, t, u
  <2>4. Len(f[k]) \in Nat /\ Len(f[j - 1]) \in Nat
    BY <1>1, <2>1
  <2>5. Len(f[k]) <= Len(f[j - 1]) /\ \A i \in 1 .. Len(f[k]) : f[j - 1][i] = f[k][i]
    BY <1>4
  <2>6. Len(f[k]) <= Len(f[j])
    <3>1. \A a, b, c \in Nat : a <= b => a <= b + c
      OBVIOUS
    <3> QED BY <2>3, <2>4, <2>5, <3>1
  <2>7. ASSUME NEW i \in 1 .. Len(f[k]) PROVE f[j][i] = f[k][i]
    <3>1. i \in 1 .. Len(f[j - 1])
      BY <2>4, <2>5
    <3> QED BY <2>3, <2>5, <3>1
  <2> QED BY <2>6, <2>7
<1> HIDE DEF Stays
<1>5. moved = {}
  <2> SUFFICES ASSUME moved # {} PROVE FALSE
    OBVIOUS
  <2>1. PICK m \in moved : \A n \in moved : m <= n
    <3>1. moved \subseteq Nat
      BY <1>1
    <3> QED BY <3>1, Least
  <2>2. m # k /\ m \in k .. N
    BY <1>3, <2>1
  <2>3. m - 1 \in k .. N /\ m - 1 \notin moved
    BY <1>1, <2>1, <2>2
  <2> QED BY <1>4, <2>1, <2>2, <2>3
<1>6. N \in k .. N
  BY <1>1
<1>7. Stays(N)
  BY <1>5, <1>6
<1> QED BY <1>7 DEF Stays, N

\* Each sequence stands in the whole behind those before it.
Placed(u, s, a, b) ==
    /\ a \in Nat /\ b = a + Len(s) /\ b <= Len(u)
    /\ \A i \in 1 .. Len(s) : u[a + i] = s[i]

\* The k-th of many sequences is where the lengths of those before it say.
LEMMA JoinedPlace ==
    ASSUME NEW S, NEW seqs \in Seq(Seq(S)), NEW f \in [0 .. Len(seqs) -> Seq(S)], Joins(f, seqs),
           NEW k \in 1 .. Len(seqs)
    PROVE  Placed(f[Len(seqs)], seqs[k], Len(f[k - 1]), Len(f[k]))
<1>1. /\ seqs[k] \in Seq(S) /\ f[k - 1] \in Seq(S) /\ f[k] = f[k - 1] \o seqs[k]
      /\ k \in 0 .. Len(seqs)
  BY DEF Joins
<1>2. /\ Len(f[k - 1]) \in Nat /\ Len(seqs[k]) \in Nat
      /\ Len(f[k]) = Len(f[k - 1]) + Len(seqs[k])
      /\ \A i \in 1 .. Len(seqs[k]) : f[k][Len(f[k - 1]) + i] = seqs[k][i]
  <2> DEFINE s == f[k - 1]
             t == seqs[k]
             u == f[k]
  <2>1. s \in Seq(S) /\ t \in Seq(S) /\ u = s \o t
    BY <1>1
  <2> HIDE DEF s, t, u
  <2>2. /\ Len(s) \in Nat /\ Len(t) \in Nat /\ Len(u) = Len(s) + Len(t)
        /\ \A i \in 1 .. Len(t) : u[Len(s) + i] = t[i]
    BY <2>1, Concatenated
  <2> QED BY <2>2 DEF s, t, u
<1>3. /\ Len(f[k]) <= Len(f[Len(seqs)])
      /\ \A i \in 1 .. Len(f[k]) : f[Len(seqs)][i] = f[k][i]
  BY <1>1, JoinedStay
<1> DEFINE before == Len(f[k - 1])
           size == Len(seqs[k])
<1>4. \A i \in 1 .. Len(seqs[k]) : Len(f[k - 1]) + i \in 1 .. Len(f[k])
  <2>1. before \in Nat /\ size \in Nat /\ Len(f[k]) = before + size
    BY <1>2
  <2> HIDE DEF before, size
  <2>2. \A i \in 1 .. size : before + i \in 1 .. before + size
    BY <2>1
  <2> QED BY <2>1, <2>2 DEF before, size
<1> QED BY <1>2, <1>3, <1>4 DEF Placed

----------------------------------------------------------------------------
(* The stream.                                                             *)

Start(r) == Len(r.header) + 2

Sound(r) == r \in Replies /\ r.framing # "other"

\* A reply that can be read has the header HonestAssumption says.
LEMMA Announced == ASSUME NEW r, Sound(r) PROVE Announces(r)
BY HonestAssumption DEF Sound

\* The characters of a line break, and of the empty line behind a header.
LEMMA LineBreak ==
    /\ "CR" \in Character /\ "LF" \in Character
    /\ Crlf \in Seq(Character) /\ Len(Crlf) = 2 /\ Crlf[1] = "CR" /\ Crlf[2] = "LF"
    /\ HeaderEnd \in Seq(Character) /\ Len(HeaderEnd) = 4
    /\ HeaderEnd[1] = "CR" /\ HeaderEnd[2] = "LF" /\ HeaderEnd[3] = "CR" /\ HeaderEnd[4] = "LF"
<1>1. "CR" \in Character /\ "LF" \in Character
  <2>1. CharOf[13] = "CR" /\ CharOf[10] = "LF"
    BY DEF CharOf
  <2> QED BY <2>1 DEF Character
<1>2. Crlf \in Seq(Character) /\ Len(Crlf) = 2 /\ Crlf[1] = "CR" /\ Crlf[2] = "LF"
  BY <1>1 DEF Crlf
<1>3. HeaderEnd \in Seq(Character) /\ Halves(HeaderEnd, Crlf, Crlf)
  BY <1>2, HalvesOf DEF HeaderEnd
<1>4. /\ Len(HeaderEnd) = 4
      /\ \A i \in 1 .. 2 : HeaderEnd[i] = Crlf[i] /\ HeaderEnd[2 + i] = Crlf[i]
  BY <1>2, <1>3 DEF Halves
<1> QED BY <1>1, <1>2, <1>3, <1>4

\* The stream is the header, an empty line, and the body as it is framed.
LEMMA StreamPlaces ==
    ASSUME NEW r, r.header \in Seq(Character), Framed(r) \in Seq(Character)
    PROVE  /\ Stream(r) \in Seq(Character) /\ Len(r.header) \in Nat /\ Len(Framed(r)) \in Nat
           /\ Len(Stream(r)) = Start(r) + Len(Framed(r))
           /\ \A i \in 1 .. Start(r) : Stream(r)[i] = (r.header \o Crlf)[i]
           /\ \A i \in 1 .. Len(Framed(r)) : Stream(r)[Start(r) + i] = Framed(r)[i]
           /\ r.header \o Crlf \in Seq(Character) /\ Len(r.header \o Crlf) = Start(r)
           /\ \A i \in 1 .. Len(r.header) : (r.header \o Crlf)[i] = r.header[i]
<1> DEFINE h == r.header
           hc == h \o Crlf
           f == Framed(r)
           s == Stream(r)
<1>1. s = hc \o f /\ h \in Seq(Character) /\ f \in Seq(Character)
  BY DEF Stream
<1> HIDE DEF h, f, s
<1>2. hc \in Seq(Character) /\ Halves(hc, h, Crlf)
  BY <1>1, LineBreak, HalvesOf
<1> HIDE DEF hc
<1>3. s \in Seq(Character) /\ Halves(s, hc, f)
  BY <1>1, <1>2, HalvesOf
<1>4. Len(h) \in Nat /\ Len(hc) = Len(h) + 2 /\ \A i \in 1 .. Len(h) : hc[i] = h[i]
  BY <1>2, LineBreak DEF Halves
<1> QED BY <1>2, <1>3, <1>4 DEF Halves, Start, h, hc, f, s

\* Where the parts of a chunk are in it (Chunk).
LEMMA ChunkPlaces ==
    ASSUME NEW p \in Seq(Character), Len(p) \in 1 .. 255
    PROVE  /\ Chunk(p) \in Seq(Character) /\ Len(Chunk(p)) = Len(p) + 6
           /\ \A i \in 1 .. 2 : Chunk(p)[i] = HexOf(Len(p))[i]
           /\ Chunk(p)[3] = "CR" /\ Chunk(p)[4] = "LF"
           /\ \A i \in 1 .. Len(p) : Chunk(p)[4 + i] = p[i]
           /\ Chunk(p)[Len(p) + 5] = "CR" /\ Chunk(p)[Len(p) + 6] = "LF"
<1> DEFINE l == Len(p)
           x == HexOf(l)
           xc == x \o Crlf
           xcp == xc \o p
           c == Chunk(p)
<1>0. l \in 1 .. 255 /\ l \in Nat /\ c = xcp \o Crlf
  BY DEF Chunk
<1>1. x \in Seq(Character) /\ Len(x) = 2
  <2>1. \A k \in 1 .. 2 : x[k] \in Character
    BY <1>0, SizeAssumption
  <2>2. PICK a, b : x = <<a, b>>
    BY DEF HexOf
  <2> HIDE DEF x
  <2>3. x[1] = a /\ x[2] = b
    BY <2>2
  <2>4. a \in Character /\ b \in Character
    BY <2>1, <2>3
  <2> QED BY <2>2, <2>4
<1> HIDE DEF l, x, c
<1>2. xc \in Seq(Character) /\ Halves(xc, x, Crlf)
  BY <1>1, LineBreak, HalvesOf
<1> HIDE DEF xc
<1>3. xcp \in Seq(Character) /\ Halves(xcp, xc, p)
  BY <1>2, HalvesOf
<1> HIDE DEF xcp
<1>4. c \in Seq(Character) /\ Halves(c, xcp, Crlf)
  BY <1>0, <1>3, LineBreak, HalvesOf
<1>a. Len(xc) = 4 /\ (\A i \in 1 .. 2 : xc[i] = x[i]) /\ xc[3] = "CR" /\ xc[4] = "LF"
  BY <1>1, <1>2, LineBreak DEF Halves
<1>b. Len(xcp) = 4 + l /\ (\A i \in 1 .. 4 : xcp[i] = xc[i]) /\ \A i \in 1 .. l : xcp[4 + i] = p[i]
  BY <1>3, <1>a DEF Halves, l
<1>c. /\ Len(c) = 4 + l + 2 /\ \A i \in 1 .. 4 + l : c[i] = xcp[i]
      /\ c[4 + l + 1] = "CR" /\ c[4 + l + 2] = "LF"
  <2>1. Len(c) = 4 + l + 2 /\ \A i \in 1 .. 4 + l : c[i] = xcp[i]
    BY <1>0, <1>4, <1>b, LineBreak DEF Halves
  <2>2. \A i \in 1 .. 2 : c[4 + l + i] = Crlf[i]
    BY <1>0, <1>4, <1>b, LineBreak DEF Halves
  <2>3. c[4 + l + 1] = Crlf[1] /\ c[4 + l + 2] = Crlf[2]
    BY <2>2
  <2> QED BY <2>1, <2>3, LineBreak
<1>5. c[3] = "CR" /\ c[4] = "LF" /\ c[l + 5] = "CR" /\ c[l + 6] = "LF"
  BY <1>0, <1>a, <1>b, <1>c
<1>6. \A i \in 1 .. 2 : c[i] = x[i]
  BY <1>0, <1>a, <1>b, <1>c
<1>7. \A i \in 1 .. l : c[4 + i] = p[i]
  BY <1>0, <1>b, <1>c
<1>8. Len(c) = l + 6
  BY <1>0, <1>c
<1> QED BY <1>4, <1>5, <1>6, <1>7, <1>8 DEF l, x, c

\* The body of a reply is a text.
LEMMA BodyIsText == ASSUME NEW r, Sound(r) PROVE Body(r) \in Seq(Character)
<1>1. r.parts \in Seq(Seq(Character))
  BY Announced DEF Announces
<1>2. PICK f \in [0 .. Len(r.parts) -> Seq(Character)] : f[Len(r.parts)] = FlattenSeq(r.parts)
  BY <1>1, Joined
<1>3. Len(r.parts) \in 0 .. Len(r.parts)
  BY <1>1
<1> QED BY <1>2, <1>3 DEF Body

\* A body that is not chunked stands behind the empty line as it is.
LEMMA PlainPlaces ==
    ASSUME NEW r, Sound(r), r.framing # "chunks"
    PROVE  /\ Start(r) \in Nat /\ Stream(r) \in Seq(Character)
           /\ Len(Stream(r)) = Start(r) + Len(Body(r))
           /\ \A i \in 1 .. Len(Body(r)) : Stream(r)[Start(r) + i] = Body(r)[i]
<1>1. r.header \in Seq(Character) /\ Framed(r) = Body(r) /\ Body(r) \in Seq(Character)
  BY Announced, BodyIsText DEF Announces, Framed
<1> QED BY <1>1, StreamPlaces DEF Start

\* Where the chunks begin in the stream, and their data in the body: m.at[k] and
\* m.of[k] are the characters before the (k + 1)-th.
ChunkAt(r, m, k) ==
    LET a == m.at[k - 1]
        b == m.of[k - 1]
        l == Len(r.parts[k])
    IN  /\ l \in 1 .. 255
        /\ m.at[k] = a + l + 6 /\ m.of[k] = b + l
        /\ m.at[k] + 5 <= Len(Stream(r)) /\ m.of[k] <= Len(Body(r))
        /\ \A i \in 1 .. 2 : Stream(r)[a + i] = HexOf(l)[i]
        /\ Stream(r)[a + 3] = "CR" /\ Stream(r)[a + 4] = "LF"
        /\ \A i \in 1 .. l : Stream(r)[a + 4 + i] = Body(r)[b + i]
        /\ Stream(r)[a + l + 5] = "CR" /\ Stream(r)[a + l + 6] = "LF"

LastChunkAt(r, m) ==
    LET a == m.at[Len(r.parts)]
    IN  /\ Len(Stream(r)) = a + 5 /\ m.of[Len(r.parts)] = Len(Body(r))
        /\ Stream(r)[a + 1] = "0" /\ Stream(r)[a + 2] = "CR" /\ Stream(r)[a + 3] = "LF"

IsLayout(r, m) ==
    /\ m \in [at: [0 .. Len(r.parts) -> Nat], of: [0 .. Len(r.parts) -> Nat]]
    /\ m.at[0] = Start(r) /\ m.of[0] = 0
    /\ \A k \in 1 .. Len(r.parts) : ChunkAt(r, m, k)
    /\ LastChunkAt(r, m)

\* The stream of a reply in chunks has a layout (Framed).
LEMMA ChunksLaidOut ==
    ASSUME NEW r, Sound(r), r.framing = "chunks"
    PROVE  /\ Framed(r) \in Seq(Character) /\ Start(r) \in Nat /\ Stream(r) \in Seq(Character)
           /\ \E m : IsLayout(r, m)
<1> DEFINE parts == r.parts
           N == Len(parts)
           chunks == [k \in DOMAIN parts |-> Chunk(parts[k])]
           zero == <<"0">>
           flat == FlattenSeq(chunks)
           fz == flat \o zero
           framed == Framed(r)
<1>1. /\ r.header \in Seq(Character) /\ parts \in Seq(Seq(Character))
      /\ N \in Nat /\ DOMAIN parts = 1 .. N
      /\ \A k \in 1 .. N : parts[k] \in Seq(Character) /\ Len(parts[k]) \in 1 .. 255
  <2>1. r.header \in Seq(Character) /\ parts \in Seq(Seq(Character))
    BY Announced DEF Announces
  <2>2. N \in Nat /\ DOMAIN parts = 1 .. N /\ \A k \in 1 .. N : parts[k] \in Seq(Character)
    BY <2>1
  <2>3. \A k \in DOMAIN parts : Len(parts[k]) \in 1 .. 255
    BY Announced DEF Announces
  <2> QED BY <2>1, <2>2, <2>3
<1>2. framed = fz \o HeaderEnd
  BY DEF Framed
<1>3. Body(r) = FlattenSeq(parts)
  BY DEF Body
<1> HIDE DEF parts, framed
<1>4. chunks \in Seq(Seq(Character)) /\ Len(chunks) = N
      /\ \A k \in 1 .. N : chunks[k] = Chunk(parts[k])
  <2>1. \A k \in 1 .. N : Chunk(parts[k]) \in Seq(Character)
    BY <1>1, ChunkPlaces
  <2>2. chunks \in [1 .. N -> Seq(Character)]
    BY <1>1, <2>1
  <2> HIDE DEF N
  <2>3. chunks \in Seq(Seq(Character)) /\ Len(chunks) = N
    <3> HIDE DEF chunks
    <3> QED BY <1>1, <2>2
  <2> QED BY <1>1, <2>3
<1> HIDE DEF chunks
<1>5. PICK f \in [0 .. N -> Seq(Character)] : Joins(f, parts) /\ f[N] = Body(r)
  BY <1>1, <1>3, Joined
<1>6. PICK g \in [0 .. N -> Seq(Character)] : Joins(g, chunks) /\ g[N] = flat
  BY <1>4, Joined
<1>7. flat \in Seq(Character) /\ Len(flat) \in Nat
  <2>1. N \in 0 .. N
    BY <1>1
  <2>2. flat \in Seq(Character)
    BY <1>6, <2>1
  <2> HIDE DEF flat
  <2> QED BY <2>2
<1> HIDE DEF flat, zero
<1>8. zero \in Seq(Character) /\ Len(zero) = 1 /\ zero[1] = "0"
  <2>1. "0" \in Character
    BY SizeAssumption
  <2> HIDE DEF fz, N
  <2> QED BY <2>1 DEF zero
<1>9. fz \in Seq(Character) /\ Halves(fz, flat, zero)
  BY <1>7, <1>8, HalvesOf
<1> HIDE DEF fz
<1>10. framed \in Seq(Character) /\ Halves(framed, fz, HeaderEnd)
  BY <1>2, <1>9, LineBreak, HalvesOf
<1>11. /\ Len(framed) = Len(flat) + 5
       /\ framed[Len(flat) + 1] = "0" /\ framed[Len(flat) + 2] = "CR" /\ framed[Len(flat) + 3] = "LF"
       /\ \A i \in 1 .. Len(flat) : framed[i] = flat[i]
  <2> DEFINE n == Len(flat)
  <2>1. n \in Nat /\ Len(fz) = n + 1 /\ fz[n + 1] = "0" /\ \A i \in 1 .. n : fz[i] = flat[i]
    BY <1>7, <1>8, <1>9 DEF Halves
  <2> HIDE DEF n
  <2>2. /\ Len(framed) = n + 1 + 4
        /\ \A i \in 1 .. n + 1 : framed[i] = fz[i]
        /\ \A i \in 1 .. 4 : framed[n + 1 + i] = HeaderEnd[i]
    BY <1>10, <2>1, LineBreak DEF Halves
  <2>3. framed[n + 1 + 1] = "CR" /\ framed[n + 1 + 2] = "LF"
    BY <2>2, LineBreak
  <2>4. n + 1 + 1 = n + 2 /\ n + 1 + 2 = n + 3 /\ n + 1 + 4 = n + 5 /\ n + 1 \in 1 .. n + 1
        /\ \A i \in 1 .. n : i \in 1 .. n + 1
    BY <2>1
  <2>5. framed[n + 1] = "0" /\ \A i \in 1 .. n : framed[i] = flat[i]
    BY <2>1, <2>2, <2>4
  <2> QED BY <2>2, <2>3, <2>4, <2>5 DEF n
<1>12. /\ Stream(r) \in Seq(Character) /\ Start(r) \in Nat
       /\ Len(Stream(r)) = Start(r) + Len(framed)
       /\ \A i \in 1 .. Len(framed) : Stream(r)[Start(r) + i] = framed[i]
  BY <1>1, <1>10, StreamPlaces DEF framed, Start
<1> DEFINE m == [at |-> [k \in 0 .. N |-> Start(r) + Len(g[k])], of |-> [k \in 0 .. N |-> Len(f[k])]]
<1>13. \A k \in 0 .. N : Len(f[k]) \in Nat /\ Len(g[k]) \in Nat
  <2> SUFFICES ASSUME NEW k \in 0 .. N PROVE Len(f[k]) \in Nat /\ Len(g[k]) \in Nat
    OBVIOUS
  <2>1. f[k] \in Seq(Character) /\ g[k] \in Seq(Character)
    BY <1>5, <1>6
  <2> QED BY <2>1
<1>14. \A k \in 0 .. N : m.at[k] = Start(r) + Len(g[k]) /\ m.of[k] = Len(f[k])
  OBVIOUS
<1>15. m \in [at: [0 .. N -> Nat], of: [0 .. N -> Nat]]
  BY <1>12, <1>13
<1> HIDE DEF m
<1>16. m.at[0] = Start(r) /\ m.of[0] = 0
  <2>1. Len(f[0]) = 0 /\ Len(g[0]) = 0
    BY <1>5, <1>6 DEF Joins
  <2>2. 0 \in 0 .. N
    BY <1>1
  <2> QED BY <1>12, <1>14, <2>1, <2>2
<1>17. LastChunkAt(r, m)
  <2>1. m.at[N] = Start(r) + Len(flat) /\ m.of[N] = Len(Body(r))
    BY <1>1, <1>5, <1>6, <1>14
  <2> DEFINE n == Len(flat)
             z == Start(r)
             a == m.at[N]
  <2>2. n \in Nat /\ z \in Nat /\ a = z + n /\ Len(framed) = n + 5
    BY <1>7, <1>11, <1>12, <2>1
  <2>3. \A i \in 1 .. 3 : Stream(r)[a + i] = framed[n + i]
    <3> HIDE DEF n, z, a
    <3> SUFFICES ASSUME NEW i \in 1 .. 3 PROVE Stream(r)[a + i] = framed[n + i]
      OBVIOUS
    <3>1. n + i \in 1 .. n + 5 /\ a + i = z + (n + i)
      BY <2>2
    <3>2. Stream(r)[z + (n + i)] = framed[n + i]
      BY <1>12, <2>2, <3>1 DEF z
    <3> QED BY <3>1, <3>2
  <2>4. Len(Stream(r)) = m.at[N] + 5
    BY <1>7, <1>11, <1>12, <2>1
  <2> QED BY <1>11, <2>1, <2>3, <2>4 DEF LastChunkAt, parts
<1>18. ASSUME NEW k \in 1 .. N PROVE ChunkAt(r, m, k)
  <2> DEFINE p == parts[k]
             l == Len(p)
             z == Start(r)
             a == m.at[k - 1]
             b == m.of[k - 1]
             c == Chunk(p)
             all == Len(Stream(r))
  <2>1. k \in 0 .. N /\ k - 1 \in 0 .. N
    BY <1>1
  <2>2. /\ a = z + Len(g[k - 1]) /\ m.at[k] = z + Len(g[k]) /\ z \in Nat
        /\ b = Len(f[k - 1]) /\ m.of[k] = Len(f[k])
    BY <1>12, <1>14, <2>1
  <2>3. p \in Seq(Character) /\ l \in 1 .. 255
    BY <1>1
  <2>4. Placed(Body(r), p, b, m.of[k])
    BY <1>1, <1>5, <2>2, JoinedPlace
  <2>5. Placed(flat, c, Len(g[k - 1]), Len(g[k]))
    BY <1>4, <1>6, JoinedPlace
  <2>6. /\ Len(c) = l + 6
        /\ \A i \in 1 .. 2 : c[i] = HexOf(l)[i]
        /\ c[3] = "CR" /\ c[4] = "LF"
        /\ \A i \in 1 .. l : c[4 + i] = p[i]
        /\ c[l + 5] = "CR" /\ c[l + 6] = "LF"
    BY <2>3, ChunkPlaces
  <2>7. all = z + Len(framed) /\ Len(framed) = Len(flat) + 5
    BY <1>11, <1>12
  <2>8. \A i \in 1 .. Len(framed) : Stream(r)[z + i] = framed[i]
    BY <1>12
  <2> HIDE DEF a, b, c, l, p, z, all
  <2>9. Placed(Stream(r), c, a, m.at[k]) /\ m.at[k] + 5 <= all
    <3> DEFINE q == Len(g[k - 1])
               t == Len(g[k])
               n == Len(flat)
    <3>1. /\ q \in Nat /\ t = q + (l + 6) /\ t <= n /\ n \in Nat
          /\ \A i \in 1 .. l + 6 : flat[q + i] = c[i]
      BY <1>7, <2>5, <2>6 DEF Placed
    <3>2. /\ a = z + q /\ m.at[k] = z + t /\ z \in Nat /\ all = z + (n + 5) /\ Len(framed) = n + 5
          /\ \A i \in 1 .. n : framed[i] = flat[i]
      BY <1>11, <2>2, <2>7
    <3> HIDE DEF q, t, n
    <3>3. /\ a \in Nat /\ m.at[k] = a + (l + 6) /\ m.at[k] + 5 <= all
      BY <2>3, <3>1, <3>2
    <3>4. ASSUME NEW i \in 1 .. l + 6 PROVE Stream(r)[a + i] = c[i]
      <4>1. q + i \in 1 .. n /\ q + i \in 1 .. n + 5 /\ a + i = z + (q + i)
        BY <2>3, <3>1, <3>2
      <4>2. Stream(r)[z + (q + i)] = framed[q + i] /\ framed[q + i] = flat[q + i]
        BY <2>8, <3>2, <4>1
      <4> QED BY <3>1, <4>1, <4>2
    <3>5. m.at[k] <= all
      BY <2>3, <3>1, <3>2
    <3> QED BY <2>6, <3>3, <3>4, <3>5 DEF Placed, all
  <2>10. /\ a \in Nat /\ m.at[k] = a + l + 6 /\ m.at[k] + 5 <= all
         /\ \A i \in 1 .. l + 6 : Stream(r)[a + i] = c[i]
    <3>1. a \in Nat /\ m.at[k] = a + (l + 6)
      BY <2>6, <2>9 DEF Placed
    <3>2. a + (l + 6) = a + l + 6
      BY <2>3, <3>1
    <3> QED BY <2>6, <2>9, <3>1, <3>2 DEF Placed
  <2>11. b \in Nat /\ m.of[k] = b + l /\ m.of[k] <= Len(Body(r)) /\ \A i \in 1 .. l : Body(r)[b + i] = p[i]
    BY <2>4 DEF Placed, l
  <2>12. \A i \in 1 .. l : Stream(r)[a + 4 + i] = Body(r)[b + i]
    <3> SUFFICES ASSUME NEW i \in 1 .. l PROVE Stream(r)[a + 4 + i] = Body(r)[b + i]
      OBVIOUS
    <3>1. 4 + i \in 1 .. l + 6 /\ a + 4 + i = a + (4 + i)
      BY <2>3, <2>10
    <3>2. c[4 + i] = p[i]
      BY <2>6
    <3>3. Stream(r)[a + (4 + i)] = c[4 + i]
      BY <2>10, <3>1
    <3>4. Body(r)[b + i] = p[i]
      BY <2>11
    <3> QED BY <3>1, <3>2, <3>3, <3>4
  <2>13. 1 \in 1 .. l + 6 /\ 2 \in 1 .. l + 6 /\ 3 \in 1 .. l + 6 /\ 4 \in 1 .. l + 6
         /\ l + 5 \in 1 .. l + 6 /\ l + 6 \in 1 .. l + 6
    BY <2>3
  <2>14. /\ Stream(r)[a + 3] = "CR" /\ Stream(r)[a + 4] = "LF"
         /\ \A i \in 1 .. 2 : Stream(r)[a + i] = HexOf(l)[i]
    <3>1. \A i \in 1 .. 2 : i \in 1 .. l + 6
      BY <2>3
    <3> QED BY <2>6, <2>10, <2>13, <3>1
  <2>15. Stream(r)[a + l + 5] = "CR" /\ Stream(r)[a + l + 6] = "LF"
    <3>1. a + l + 5 = a + (l + 5) /\ a + l + 6 = a + (l + 6)
      BY <2>3, <2>10
    <3> QED BY <2>6, <2>10, <2>13, <3>1
  <2> QED BY <2>3, <2>10, <2>11, <2>12, <2>14, <2>15 DEF ChunkAt, a, b, l, p, all, parts
<1>19. IsLayout(r, m)
  BY <1>15, <1>16, <1>17, <1>18 DEF IsLayout, parts
<1> QED BY <1>10, <1>12, <1>19 DEF framed

\* A layout of the chunks of a reply.
Marks(r) == CHOOSE m : IsLayout(r, m)

\* Marks is one.
LEMMA Marked == ASSUME NEW r, Sound(r), r.framing = "chunks" PROVE IsLayout(r, Marks(r))
BY ChunksLaidOut DEF Marks

----------------------------------------------------------------------------
(* Looking for the end of a line.                                          *)

Occurs(text, pattern, k) ==
    /\ 1 <= k /\ k + Len(pattern) - 1 <= Len(text)
    /\ \A i \in 1 .. Len(pattern) : text[k + i - 1] = pattern[i]

\* What a search finds, place by place (std::search).
LEMMA OccursAt ==
    ASSUME NEW text \in Seq(Character), NEW pattern \in Seq(Character), Len(pattern) \in Nat \ {0}, NEW k \in Int
    PROVE  k \in Occurrences(text, pattern) <=> Occurs(text, pattern, k)
<1> DEFINE n == Len(pattern)
           t == Len(text)
           part == SubSeq(text, k, k + n - 1)
           Fits == 1 <= k /\ k + n - 1 <= t
<1>1. n \in Nat \ {0} /\ t \in Nat
  OBVIOUS
<1>2. k \in Occurrences(text, pattern) <=> Fits /\ part = pattern
  <2>1. k \in Occurrences(text, pattern) <=> k \in 1 .. t + 1 - n /\ part = pattern
    BY DEF Occurrences
  <2> HIDE DEF n, t, part
  <2>2. k \in 1 .. t + 1 - n <=> Fits
    BY <1>1
  <2> QED BY <2>1, <2>2
<1>3. ASSUME Fits PROVE part = pattern <=> \A i \in 1 .. n : text[k + i - 1] = pattern[i]
  <2>1. /\ k + n - 1 \in Int /\ (k + n - 1) - k + 1 = n /\ k <= k + n - 1
        /\ \A i \in k .. k + n - 1 : i \in 1 .. t
    <3> HIDE DEF n, t
    <3> QED BY <1>1, <1>3
  <2>2. \A i \in k .. k + n - 1 : text[i] \in Character
    BY <2>1
  <2> DEFINE last == k + n - 1
  <2> HIDE DEF last, part, n
  <2>3. /\ SubSeq(text, k, last) \in Seq(Character) /\ Len(SubSeq(text, k, last)) = n
        /\ \A i \in 1 .. n : SubSeq(text, k, last)[i] = text[k + i - 1]
    BY <1>1, <2>1, <2>2, SubSeqProperties DEF last
  <2>4. part = SubSeq(text, k, last)
    BY DEF part, last
  <2>5. part \in Seq(Character) /\ Len(part) = n /\ \A i \in 1 .. n : part[i] = text[k + i - 1]
    BY <2>3, <2>4
  <2>6. (\A i \in 1 .. n : part[i] = pattern[i]) => part = pattern
    BY <2>5, SeqEqual DEF n
  <2> QED BY <2>5, <2>6
<1> QED BY <1>2, <1>3 DEF Occurs

\* The first of the places a search finds is the least (First).
LEMMA FirstIs ==
    ASSUME NEW positions \in SUBSET Int, NEW k \in positions, \A j \in positions : k <= j
    PROVE  First(positions) = k
<1>1. First(positions) \in positions /\ \A j \in positions : First(positions) <= j
  BY DEF First
<1>2. First(positions) <= k /\ k <= First(positions) /\ First(positions) \in Int /\ k \in Int
  BY <1>1
<1> QED BY <1>2

\* What a text has in front of and behind a place.
Part(u, s, k, n) == \* u is the n characters of s from k on
    u \in Seq(Character) /\ Len(u) = n /\ \A i \in 1 .. n : u[i] = s[k + i - 1]

\* SubSeq within the bounds.
LEMMA PartOf ==
    ASSUME NEW s \in Seq(Character), NEW k \in Nat, NEW n \in Nat, 1 <= k, k + n <= Len(s) + 1
    PROVE  Part(SubSeq(s, k, k + n - 1), s, k, n)
<1> DEFINE last == k + n - 1
           t == Len(s)
<1>1. t \in Nat /\ last \in Int /\ last <= t /\ last - k + 1 = n /\ (n = 0 <=> ~(k <= last))
  BY DEF t
<1>2. \A i \in k .. last : i \in 1 .. t
  <2> HIDE DEF last, t
  <2> QED BY <1>1
<1>3. \A i \in k .. last : s[i] \in Character
  BY <1>2
<1> HIDE DEF last
<1>4. /\ SubSeq(s, k, last) \in Seq(Character)
      /\ Len(SubSeq(s, k, last)) = IF k <= last THEN last - k + 1 ELSE 0
      /\ \A i \in 1 .. last - k + 1 : SubSeq(s, k, last)[i] = s[k + i - 1]
  BY <1>1, <1>3, SubSeqProperties
<1>5. Part(SubSeq(s, k, last), s, k, n)
  BY <1>1, <1>4 DEF Part
<1> QED BY <1>5 DEF last

\* What is left when the first n characters are taken (From).
LEMMA FromPart ==
    ASSUME NEW s \in Seq(Character), NEW n \in 0 .. Len(s)
    PROVE  Part(From(s, n + 1), s, n + 1, Len(s) - n)
<1> DEFINE t == Len(s)
<1>1. t \in Nat /\ n \in Nat /\ n <= t
  OBVIOUS
<1> HIDE DEF t
<1>2. /\ n + 1 \in Nat /\ t - n \in Nat /\ 1 <= n + 1 /\ (n + 1) + (t - n) <= t + 1
      /\ (n + 1) + (t - n) - 1 = t
  BY <1>1
<1>3. Part(SubSeq(s, n + 1, (n + 1) + (t - n) - 1), s, n + 1, t - n)
  BY <1>2, PartOf DEF t
<1> QED BY <1>2, <1>3 DEF From, t

----------------------------------------------------------------------------
(* What is received and not decoded, and what is decoded.                  *)

\* d is the stream s from pos on, as far as it was received, and out the rest of
\* it, if that was not lost.
Holds(d, out, lost, s, pos) ==
    /\ d \in Seq(Character) /\ out \in Seq(Character)
    /\ pos \in Nat /\ pos + Len(d) <= Len(s)
    /\ \A i \in 1 .. Len(d) : d[i] = s[pos + i]
    /\ lost => out = <<>>
    /\ ~lost => /\ pos + Len(d) + Len(out) = Len(s)
                /\ \A i \in 1 .. Len(out) : out[i] = s[pos + Len(d) + i]

\* w is the beginning of b, of length n.
Written(w, b, n) ==
    /\ w \in Seq(Character) /\ b \in Seq(Character)
    /\ Len(w) = n /\ n <= Len(b)
    /\ \A i \in 1 .. n : w[i] = b[i]

\* Socket::recv moves the next characters of the stream to what is not decoded.
LEMMA ReceiveHolds ==
    ASSUME NEW d, NEW out, NEW s \in Seq(Character), NEW pos, Holds(d, out, FALSE, s, pos), NEW n \in 1 .. Len(out)
    PROVE  Holds(d \o SubSeq(out, 1, n), From(out, n + 1), FALSE, s, pos)
<1> DEFINE l == Len(d)
           o == Len(out)
           part == SubSeq(out, 1, n)
           rest == From(out, n + 1)
           more == d \o part
           all == Len(s)
<1>1. /\ d \in Seq(Character) /\ out \in Seq(Character) /\ l \in Nat /\ o \in Nat /\ pos \in Nat /\ n \in 1 .. o /\ all \in Nat
      /\ pos + l + o = all
      /\ \A i \in 1 .. l : d[i] = s[pos + i]
      /\ \A i \in 1 .. o : out[i] = s[pos + l + i]
  BY DEF Holds
<1>2. Part(part, out, 1, n)
  <2>1. n \in Nat /\ 1 + n <= o + 1 /\ 1 + n - 1 = n
    <3> HIDE DEF o
    <3> QED BY <1>1
  <2>2. Part(SubSeq(out, 1, 1 + n - 1), out, 1, n)
    BY <1>1, <2>1, PartOf
  <2> QED BY <2>1, <2>2
<1>3. Part(rest, out, n + 1, o - n)
  <2>1. n \in 0 .. o
    <3> HIDE DEF o
    <3> QED BY <1>1
  <2> QED BY <1>1, <2>1, FromPart
<1> HIDE DEF part, rest
<1>4. more \in Seq(Character) /\ Halves(more, d, part)
  BY <1>1, <1>2, HalvesOf DEF Part
<1> HIDE DEF more, l, o, all
<1>5. /\ Len(more) = l + n
      /\ \A i \in 1 .. l : more[i] = d[i]
      /\ \A i \in 1 .. n : more[l + i] = part[i]
  BY <1>2, <1>4 DEF Halves, Part, l
<1>6. ASSUME NEW i \in 1 .. l + n PROVE more[i] = s[pos + i]
  <2>1. CASE i \in 1 .. l
    BY <1>1, <1>5, <2>1
  <2>2. CASE ~(i \in 1 .. l)
    <3> DEFINE j == i - l
    <3>1. j \in 1 .. n /\ j \in 1 .. o /\ l + j = i /\ 1 + j - 1 = j /\ pos + l + j = pos + i
      BY <1>1, <2>2
    <3> HIDE DEF j
    <3>2. more[l + j] = part[j] /\ part[j] = out[1 + j - 1] /\ out[j] = s[pos + l + j]
      BY <1>1, <1>2, <1>5, <3>1 DEF Part
    <3> QED BY <3>1, <3>2
  <2> QED BY <2>1, <2>2
<1>7. ASSUME NEW i \in 1 .. o - n PROVE rest[i] = s[pos + (l + n) + i]
  <2>1. n + i \in 1 .. o /\ n + 1 + i - 1 = n + i /\ pos + l + (n + i) = pos + (l + n) + i
    BY <1>1
  <2>2. rest[i] = out[n + 1 + i - 1] /\ out[n + i] = s[pos + l + (n + i)]
    BY <1>1, <1>3, <2>1 DEF Part
  <2> QED BY <2>1, <2>2
<1>8. /\ rest \in Seq(Character) /\ Len(rest) = o - n /\ more \in Seq(Character)
      /\ pos + (l + n) <= all /\ pos + (l + n) + (o - n) = all
  BY <1>1, <1>3, <1>4 DEF Part
<1> QED BY <1>1, <1>5, <1>6, <1>7, <1>8 DEF Holds, more, part, rest, l, o, all

\* Decoding moves the place in the stream by as much as it takes.
LEMMA DecodeHolds ==
    ASSUME NEW d, NEW out, NEW lost \in BOOLEAN, NEW s \in Seq(Character), NEW pos,
           Holds(d, out, lost, s, pos), NEW n \in 0 .. Len(d)
    PROVE  Holds(From(d, n + 1), out, lost, s, pos + n)
<1> DEFINE l == Len(d)
           o == Len(out)
           rest == From(d, n + 1)
           all == Len(s)
<1>1. /\ d \in Seq(Character) /\ out \in Seq(Character) /\ l \in Nat /\ o \in Nat /\ pos \in Nat
      /\ n \in 0 .. l /\ all \in Nat /\ pos + l <= all
      /\ \A i \in 1 .. l : d[i] = s[pos + i]
      /\ lost => out = <<>>
      /\ ~lost => pos + l + o = all /\ \A i \in 1 .. o : out[i] = s[pos + l + i]
  BY DEF Holds
<1>2. Part(rest, d, n + 1, l - n)
  BY <1>1, FromPart
<1> HIDE DEF rest, l, o, all
<1>3. /\ rest \in Seq(Character) /\ Len(rest) = l - n /\ l - n \in Nat
      /\ pos + n \in Nat /\ (pos + n) + (l - n) = pos + l
  BY <1>1, <1>2 DEF Part
<1>4. ASSUME NEW i \in 1 .. l - n PROVE rest[i] = s[(pos + n) + i]
  <2>1. n + i \in 1 .. l /\ n + 1 + i - 1 = n + i /\ pos + (n + i) = (pos + n) + i
    BY <1>1
  <2>2. rest[i] = d[n + 1 + i - 1] /\ d[n + i] = s[pos + (n + i)]
    BY <1>1, <1>2, <2>1 DEF Part
  <2> QED BY <2>1, <2>2
<1> QED BY <1>1, <1>3, <1>4 DEF Holds, rest, l, o, all

\* Appending the next characters of the body.
LEMMA WriteMore ==
    ASSUME NEW w, NEW b, NEW n, Written(w, b, n), NEW d \in Seq(Character), n + Len(d) <= Len(b),
           \A i \in 1 .. Len(d) : d[i] = b[n + i]
    PROVE  Written(w \o d, b, n + Len(d))
<1> DEFINE l == Len(d)
           u == w \o d
           all == Len(b)
<1>1. /\ w \in Seq(Character) /\ n \in Nat /\ l \in Nat /\ n + l <= all /\ Len(w) = n
      /\ \A i \in 1 .. n : w[i] = b[i]
      /\ \A i \in 1 .. l : d[i] = b[n + i]
      /\ b \in Seq(Character)
  BY DEF Written
<1>2. u \in Seq(Character) /\ Halves(u, w, d)
  BY <1>1, HalvesOf
<1> HIDE DEF u, l, all
<1>3. /\ Len(u) = n + l
      /\ \A i \in 1 .. n : u[i] = w[i]
      /\ \A i \in 1 .. l : u[n + i] = d[i]
  BY <1>1, <1>2 DEF Halves, l
<1>4. ASSUME NEW i \in 1 .. n + l PROVE u[i] = b[i]
  <2>1. CASE i \in 1 .. n
    BY <1>1, <1>3, <2>1
  <2>2. CASE ~(i \in 1 .. n)
    <3> DEFINE j == i - n
    <3>1. j \in 1 .. l /\ n + j = i
      BY <1>1, <2>2
    <3> HIDE DEF j
    <3>2. u[n + j] = d[j] /\ d[j] = b[n + j]
      BY <1>1, <1>3, <3>1
    <3> QED BY <3>1, <3>2
  <2> QED BY <2>1, <2>2
<1> QED BY <1>1, <1>2, <1>3, <1>4 DEF Written, u, l, all

\* What is written is a prefix, and the whole when it is as long.
LEMMA WrittenIsPrefix ==
    ASSUME NEW w, NEW b, NEW n, Written(w, b, n)
    PROVE  IsPrefix(w, b) /\ (n = Len(b) => w = b)
<1>1. /\ w \in Seq(Character) /\ b \in Seq(Character) /\ Len(w) = n /\ n \in Nat /\ n <= Len(b)
      /\ \A i \in 1 .. n : w[i] = b[i]
  BY DEF Written
<1> DEFINE p == SubSeq(b, 1, n)
<1>2. Part(p, b, 1, n)
  <2>1. 1 + n <= Len(b) + 1 /\ 1 + n - 1 = n
    BY <1>1
  <2>2. Part(SubSeq(b, 1, 1 + n - 1), b, 1, n)
    BY <1>1, <2>1, PartOf
  <2> QED BY <2>1, <2>2
<1> HIDE DEF p
<1>3. p = w
  <2>1. \A i \in 1 .. n : 1 + i - 1 = i
    BY <1>1
  <2>2. p \in Seq(Character) /\ Len(p) = n /\ \A i \in 1 .. n : p[i] = w[i]
    BY <1>1, <1>2, <2>1 DEF Part
  <2> QED BY <1>1, <2>2, SeqEqual
<1>4. SubSeq(w, 1, n) = w
  BY <1>1, SubSeqFull
<1>5. n = Len(b) => w = b
  BY <1>1, SeqEqual
<1> QED BY <1>1, <1>3, <1>4, <1>5 DEF IsPrefix, p

----------------------------------------------------------------------------
(* What the parsers find in a text that begins like the stream.            *)

Begins(d, s, a) == /\ d \in Seq(Character) /\ a \in Nat /\ a + Len(d) <= Len(s)
                   /\ \A i \in 1 .. Len(d) : d[i] = s[a + i]

\* The first empty line is the one that ends the header.
LEMMA HeaderFound ==
    ASSUME NEW r, Sound(r), NEW d, Begins(d, Stream(r), 0), Occurrences(d, HeaderEnd) # {}
    PROVE  LET ends == Occurrences(d, HeaderEnd)
           IN  /\ Len(r.header) \in Nat /\ Len(r.header) >= 2 /\ Start(r) <= Len(d)
               /\ First(ends) = Len(r.header) - 1
               /\ SubSeq(d, 1, First(ends) + 1) = r.header
<1> DEFINE h == r.header
           t == h \o Crlf
           ends == Occurrences(d, HeaderEnd)
           n == Len(h)
           l == Len(d)
           s == Stream(r)
<1>1. /\ h \in Seq(Character) /\ Occurrences(t, HeaderEnd) = {n - 1}
      /\ d \in Seq(Character) /\ l \in Nat /\ \A i \in 1 .. l : d[i] = s[i]
  <2>1. h \in Seq(Character)
    BY Announced DEF Announces
  <2>2. Occurrences(t, HeaderEnd) = {n - 1}
    BY Announced DEF Announces
  <2>3. d \in Seq(Character) /\ l \in Nat /\ \A i \in 1 .. l : d[i] = s[0 + i]
    BY DEF Begins
  <2>4. \A i \in 1 .. l : 0 + i = i
    BY <2>3
  <2> QED BY <2>1, <2>2, <2>3, <2>4
<1>2. Framed(r) \in Seq(Character)
  BY ChunksLaidOut, BodyIsText DEF Framed
<1>3. /\ n \in Nat /\ Start(r) = n + 2
      /\ t \in Seq(Character) /\ Len(t) = n + 2
      /\ \A i \in 1 .. n : t[i] = h[i]
      /\ \A i \in 1 .. n + 2 : s[i] = t[i]
  BY <1>1, <1>2, StreamPlaces DEF Start
<1>4. HeaderEnd \in Seq(Character) /\ Len(HeaderEnd) = 4
  BY LineBreak
<1> HIDE DEF h, t, n, l, s
<1>5. n - 1 \in Int /\ n >= 2 /\ \A i \in 1 .. 4 : t[(n - 1) + i - 1] = HeaderEnd[i]
  <2>1. n - 1 \in Int /\ n - 1 \in Occurrences(t, HeaderEnd)
    BY <1>1, <1>3
  <2>2. Occurs(t, HeaderEnd, n - 1)
    BY <1>3, <1>4, <2>1, OccursAt
  <2> QED BY <1>3, <1>4, <2>1, <2>2 DEF Occurs
<1>6. ends \in SUBSET Int
  BY DEF Occurrences
<1>7. ASSUME NEW k \in ends
      PROVE  k \in Int /\ 1 <= k /\ k + 3 <= l /\ \A i \in 1 .. 4 : d[k + i - 1] = HeaderEnd[i]
  <2>1. k \in Int
    BY <1>6
  <2>2. Occurs(d, HeaderEnd, k)
    BY <1>1, <1>4, <2>1, OccursAt
  <2> QED BY <1>1, <1>4, <2>1, <2>2 DEF Occurs, l
<1>8. ASSUME NEW k \in ends, k + 3 <= n + 2 PROVE k = n - 1
  <2>0. k \in Int /\ 1 <= k /\ k + 3 <= l /\ k + 3 <= n + 2
    BY <1>7, <1>8
  <2>1. \A i \in 1 .. 4 : k + i - 1 \in 1 .. l /\ k + i - 1 \in 1 .. n + 2
    BY <2>0, <1>1, <1>3
  <2>2. \A i \in 1 .. 4 : t[k + i - 1] = HeaderEnd[i]
    BY <1>1, <1>3, <1>7, <2>1
  <2>3. 1 <= k /\ k + 4 - 1 <= Len(t) /\ k \in Int
    BY <1>3, <1>7, <1>8
  <2>4. Occurs(t, HeaderEnd, k)
    BY <1>3, <1>4, <2>2, <2>3 DEF Occurs
  <2>5. k \in Occurrences(t, HeaderEnd)
    BY <1>3, <1>4, <2>3, <2>4, OccursAt
  <2> QED BY <1>1, <2>5
<1>9. \A k \in ends : n - 1 <= k
  BY <1>3, <1>7, <1>8
<1>10. n + 2 <= l
  <2>1. PICK k : k \in ends
    OBVIOUS
  <2>2. k \in Int /\ k + 3 <= l
    BY <1>7, <2>1
  <2>3. k + 3 <= n + 2 => k = n - 1
    BY <1>8, <2>1
  <2> QED BY <1>1, <1>3, <2>2, <2>3
<1>11. n - 1 \in ends
  <2>1. \A i \in 1 .. 4 : (n - 1) + i - 1 \in 1 .. l /\ (n - 1) + i - 1 \in 1 .. n + 2
    BY <1>1, <1>3, <1>5, <1>10
  <2>2. \A i \in 1 .. 4 : d[(n - 1) + i - 1] = HeaderEnd[i]
    BY <1>1, <1>3, <1>5, <2>1
  <2>3. 1 <= n - 1 /\ (n - 1) + 4 - 1 <= l
    BY <1>1, <1>3, <1>5, <1>10
  <2>4. Occurs(d, HeaderEnd, n - 1)
    BY <1>4, <2>2, <2>3 DEF Occurs, l
  <2> QED BY <1>1, <1>4, <1>5, <2>4, OccursAt
<1>12. First(ends) = n - 1
  BY <1>6, <1>9, <1>11, FirstIs
<1>13. SubSeq(d, 1, First(ends) + 1) = h
  <2>1. First(ends) + 1 = n /\ 1 + n - 1 = n /\ 1 + n <= l + 1
    BY <1>1, <1>3, <1>10, <1>12
  <2> DEFINE p == SubSeq(d, 1, 1 + n - 1)
  <2>2. Part(p, d, 1, n)
    BY <1>1, <1>3, <2>1, PartOf DEF l
  <2> HIDE DEF p
  <2>3. \A i \in 1 .. n : 1 + i - 1 = i /\ i \in 1 .. l /\ i \in 1 .. n + 2
    BY <1>1, <1>3, <1>10
  <2>4. \A i \in 1 .. n : p[i] = h[i]
    BY <1>1, <1>3, <2>2, <2>3 DEF Part
  <2>5. p = h
    BY <1>1, <1>3, <2>2, <2>4, SeqEqual DEF Part, n
  <2> QED BY <2>1, <2>5 DEF p
<1> QED BY <1>3, <1>5, <1>10, <1>12, <1>13 DEF h, n, l

\* A line break that the text holds is its first one, or stands behind it.
LEMMA BreakAt ==
    ASSUME NEW d \in Seq(Character), NEW k \in Nat \ {0}, k + 1 <= Len(d), d[k] = "CR", d[k + 1] = "LF",
           \A i \in 1 .. k - 1 : d[i] # "CR"
    PROVE  /\ Occurrences(d, Crlf) # {} /\ First(Occurrences(d, Crlf)) = k
<1> DEFINE ends == Occurrences(d, Crlf)
<1>1. Crlf \in Seq(Character) /\ Len(Crlf) = 2 /\ Crlf[1] = "CR" /\ Crlf[2] = "LF"
  BY LineBreak
<1>2. k \in ends
  <2>1. \A i \in 1 .. 2 : d[k + i - 1] = Crlf[i]
    <3>1. k + 1 - 1 = k /\ k + 2 - 1 = k + 1
      OBVIOUS
    <3>2. d[k + 1 - 1] = Crlf[1] /\ d[k + 2 - 1] = Crlf[2]
      BY <1>1, <3>1
    <3> QED BY <3>2
  <2>2. Occurs(d, Crlf, k)
    <3> DEFINE l == Len(d)
    <3>1. l \in Nat /\ k + 1 <= l
      OBVIOUS
    <3> HIDE DEF l
    <3>2. 1 <= k /\ k + 2 - 1 <= l
      BY <3>1
    <3> QED BY <1>1, <2>1, <3>2 DEF Occurs, l
  <2> QED BY <1>1, <2>2, OccursAt
<1>3. ends \in SUBSET Int
  BY DEF Occurrences
<1>4. ASSUME NEW j \in ends PROVE k <= j
  <2>1. j \in Int
    BY <1>3
  <2>2. Occurs(d, Crlf, j)
    BY <1>1, <2>1, OccursAt
  <2>3. d[j] = "CR"
    <3>1. j + 1 - 1 = j
      BY <2>1
    <3>2. d[j + 1 - 1] = Crlf[1]
      BY <1>1, <2>2 DEF Occurs
    <3> QED BY <1>1, <3>1, <3>2
  <2>4. 1 <= j /\ ~(j \in 1 .. k - 1)
    BY <2>2, <2>3 DEF Occurs
  <2> QED BY <2>1, <2>4
<1> QED BY <1>2, <1>3, <1>4, FirstIs

\* Where a text has a line break, it has the two characters.
LEMMA BreakHolds ==
    ASSUME NEW d \in Seq(Character), NEW n \in Nat, Occurrences(d, Crlf) # {}, \A i \in 1 .. n : i <= Len(d) => d[i] # "CR"
    PROVE  n + 2 <= Len(d)
<1>1. Crlf \in Seq(Character) /\ Len(Crlf) = 2 /\ Crlf[1] = "CR" /\ Crlf[2] = "LF"
  BY LineBreak
<1>2. PICK j : j \in Occurrences(d, Crlf)
  OBVIOUS
<1>3. j \in Int
  BY <1>2 DEF Occurrences
<1>4. Occurs(d, Crlf, j)
  <2>1. Len(Crlf) \in Nat \ {0}
    BY <1>1
  <2>2. j \in Occurrences(d, Crlf) <=> Occurs(d, Crlf, j)
    BY <1>1, <1>3, <2>1, OccursAt
  <2> QED BY <1>2, <2>2
<1> DEFINE l == Len(d)
<1>5. l \in Nat
  OBVIOUS
<1>6. 1 <= j /\ j + 1 <= l /\ d[j] = "CR"
  <2>1. 1 <= j /\ j + 2 - 1 <= l
    BY <1>1, <1>4 DEF Occurs
  <2>2. d[j + 1 - 1] = Crlf[1]
    BY <1>1, <1>4 DEF Occurs
  <2>3. j + 1 - 1 = j /\ j + 2 - 1 = j + 1
    BY <1>3
  <2> QED BY <1>1, <2>1, <2>2, <2>3
<1> HIDE DEF l
<1>7. j <= l /\ ~(j \in 1 .. n)
  <2>1. j <= l
    BY <1>3, <1>5, <1>6
  <2>2. \A i \in 1 .. n : i <= l => d[i] # "CR"
    BY DEF l
  <2> QED BY <1>6, <2>1, <2>2
<1>8. n + 2 <= l
  BY <1>3, <1>5, <1>6, <1>7
<1> QED BY <1>8 DEF l

----------------------------------------------------------------------------
(* The invariant: for every place of send(), how much of the stream is     *)
(* decoded and that the body is as much of the tracker's.  The predicates  *)
(* are about locals c, the rest of the stream, whether it was lost, and    *)
(* the reply.                                                              *)

Locals == {"at", "uri", "remaining", "responseData", "parsingBody", "chunkedResponse",
           "contentLengthReceived", "contentLength", "expectedChunkSize", "removeCrlfAfterChunk", "body"}

Received(c, out, lost, r, pos) == Holds(c.responseData, out, lost, Stream(r), pos)
Decoded(c, r, n) == Written(c.body, Body(r), n)

Asking(c, out, lost) ==
    /\ c.at \in {"idle", "prepare", "connect", "send"}
    /\ ~c.parsingBody /\ c.expectedChunkSize = 0 /\ ~c.removeCrlfAfterChunk
    /\ c.responseData = <<>> /\ c.body = <<>>
    /\ out = <<>> /\ lost = FALSE

ReadsHeader(c, out, lost, r) ==
    /\ ~c.parsingBody /\ c.expectedChunkSize = 0 /\ ~c.removeCrlfAfterChunk
    /\ c.body = <<>> /\ Received(c, out, lost, r, 0)

ReadsPlain(c, out, lost, r) ==
    /\ c.parsingBody /\ ~c.chunkedResponse /\ r.framing # "chunks"
    /\ Decoded(c, r, Len(c.body)) /\ Received(c, out, lost, r, Start(r) + Len(c.body))
    /\ r.framing = "length" => c.contentLengthReceived /\ c.contentLength = Len(Body(r))
    /\ r.framing = "close" => ~c.contentLengthReceived
    /\ c.at = "recv" => c.responseData = <<>>

\* In front of the (k + 1)-th chunk, in its data, behind its data.
AtSize(c, out, lost, r, k) ==
    /\ c.expectedChunkSize = 0 /\ ~c.removeCrlfAfterChunk
    /\ Received(c, out, lost, r, Marks(r).at[k]) /\ Decoded(c, r, Marks(r).of[k])
    /\ c.at = "recv" => Occurrences(c.responseData, Crlf) = {}

InData(c, out, lost, r, k) ==
    LET done == Len(r.parts[k + 1]) - c.expectedChunkSize
    IN  /\ k < Len(r.parts) /\ ~c.removeCrlfAfterChunk
        /\ c.expectedChunkSize \in 1 .. Len(r.parts[k + 1])
        /\ Received(c, out, lost, r, Marks(r).at[k] + 4 + done) /\ Decoded(c, r, Marks(r).of[k] + done)
        /\ c.at = "recv" => c.responseData = <<>>

AtEnd(c, out, lost, r, k) ==
    LET all == Len(r.parts[k + 1])
    IN  /\ k < Len(r.parts) /\ c.expectedChunkSize = 0 /\ c.removeCrlfAfterChunk
        /\ Received(c, out, lost, r, Marks(r).at[k] + 4 + all) /\ Decoded(c, r, Marks(r).of[k] + all)
        /\ c.at = "recv" => Len(c.responseData) < 2

InChunk(c, out, lost, r, k) ==
    AtSize(c, out, lost, r, k) \/ InData(c, out, lost, r, k) \/ AtEnd(c, out, lost, r, k)

ReadsChunks(c, out, lost, r) ==
    /\ c.parsingBody /\ c.chunkedResponse /\ r.framing = "chunks"
    /\ \E k \in 0 .. Len(r.parts) : InChunk(c, out, lost, r, k)

Reads(c, out, lost, r) ==
    /\ c.at \in {"recv", "decode"}
    /\ ReadsHeader(c, out, lost, r) \/ ReadsPlain(c, out, lost, r) \/ ReadsChunks(c, out, lost, r)

Ends(c, lost, r) ==
    /\ c.at \in {"returned", "threw"}
    /\ IsPrefix(c.body, Body(r))
    /\ c.at = "returned" /\ c.parsingBody /\ ~lost => c.body = Body(r)

Stage(c, out, lost, r) == Asking(c, out, lost) \/ Reads(c, out, lost, r) \/ Ends(c, lost, r)

HttpInv ==
    /\ DOMAIN client = Locals /\ cut \in BOOLEAN /\ reply \in Replies
    /\ Honest => Stage(client, outbox, cut, reply)

----------------------------------------------------------------------------
(* The body is a beginning of the tracker's wherever send() is.            *)

\* Nothing is written at first.
LEMMA Nothing == ASSUME NEW r, Sound(r) PROVE Written(<<>>, Body(r), 0)
<1>1. Body(r) \in Seq(Character)
  BY BodyIsText
<1> QED BY <1>1 DEF Written

\* At every place of send(), the body is a beginning of that of the tracker.
LEMMA StageIsPrefix ==
    ASSUME NEW c, NEW out, NEW lost, NEW r, Sound(r), Stage(c, out, lost, r)
    PROVE  IsPrefix(c.body, Body(r))
<1>1. CASE c.body = <<>>
  BY <1>1, Nothing, WrittenIsPrefix
<1>2. CASE \E n : Decoded(c, r, n)
  BY <1>2, WrittenIsPrefix DEF Decoded
<1>3. CASE Asking(c, out, lost)
  BY <1>1, <1>3 DEF Asking
<1>4. CASE Reads(c, out, lost, r)
  <2>1. CASE ReadsHeader(c, out, lost, r)
    BY <1>1, <2>1 DEF ReadsHeader
  <2>2. CASE ReadsPlain(c, out, lost, r)
    BY <1>2, <2>2 DEF ReadsPlain
  <2>3. CASE ReadsChunks(c, out, lost, r)
    <3>1. PICK k \in 0 .. Len(r.parts) : InChunk(c, out, lost, r, k)
      BY <2>3 DEF ReadsChunks
    <3>2. \E n : Decoded(c, r, n)
      <4>1. CASE AtSize(c, out, lost, r, k)
        BY <4>1 DEF AtSize
      <4>2. CASE InData(c, out, lost, r, k)
        BY <4>2 DEF InData
      <4>3. CASE AtEnd(c, out, lost, r, k)
        BY <4>3 DEF AtEnd
      <4> QED BY <3>1, <4>1, <4>2, <4>3 DEF InChunk
    <3> QED BY <1>2, <3>2
  <2> QED BY <1>4, <2>1, <2>2, <2>3 DEF Reads
<1>5. CASE Ends(c, lost, r)
  BY <1>5 DEF Ends
<1> QED BY <1>3, <1>4, <1>5 DEF Stage

\* Whatever throws leaves a beginning.
LEMMA ThrowEnds ==
    ASSUME NEW c, DOMAIN c = Locals, NEW out, NEW lost, NEW r, Sound(r), Stage(c, out, lost, r),
           NEW d, d = [c EXCEPT !.at = "threw"]
    PROVE  Ends(d, lost, r)
<1>1. d.at = "threw" /\ d.body = c.body
  BY DEF Locals
<1> QED BY <1>1, StageIsPrefix DEF Ends

\* So do the steps that ask.
LEMMA AskingStays ==
    ASSUME NEW c, NEW d, NEW out, NEW lost, Asking(c, out, lost),
           d.at \in {"idle", "prepare", "connect", "send"},
           d.parsingBody = c.parsingBody, d.expectedChunkSize = c.expectedChunkSize,
           d.removeCrlfAfterChunk = c.removeCrlfAfterChunk,
           d.responseData = c.responseData, d.body = c.body
    PROVE  Asking(d, out, lost)
BY DEF Asking

----------------------------------------------------------------------------
(* Chunks.                                                                 *)

\* The layout at one chunk, or at the end of them.
LEMMA MarksOf ==
    ASSUME NEW r, Sound(r), r.framing = "chunks", NEW k \in 0 .. Len(r.parts)
    PROVE  /\ Len(r.parts) \in Nat /\ Marks(r).at[k] \in Nat /\ Marks(r).of[k] \in Nat
           /\ k < Len(r.parts) => ChunkAt(r, Marks(r), k + 1)
           /\ k = Len(r.parts) => LastChunkAt(r, Marks(r))
<1>1. IsLayout(r, Marks(r))
  BY Marked
<1>2. r.parts \in Seq(Seq(Character))
  BY Announced DEF Announces
<1> DEFINE m == Marks(r)
           N == Len(r.parts)
<1>3. N \in Nat
  BY <1>2
<1> HIDE DEF m, N
<1>4. /\ m \in [at: [0 .. N -> Nat], of: [0 .. N -> Nat]]
      /\ \A j \in 1 .. N : ChunkAt(r, m, j)
      /\ LastChunkAt(r, m)
  BY <1>1 DEF IsLayout, m, N
<1>5. k < N => k + 1 \in 1 .. N
  BY <1>3 DEF N
<1>6. m.at[k] \in Nat /\ m.of[k] \in Nat
  BY <1>4 DEF N
<1> QED BY <1>3, <1>4, <1>5, <1>6 DEF m, N

\* The chunk behind k others: the stream from a on, the body from f on.
ChunkIs(r, k, a, f, l) ==
    /\ a \in Nat /\ f \in Nat /\ l \in 1 .. 255
    /\ k + 1 \in 0 .. Len(r.parts)
    /\ Marks(r).at[k + 1] = a + l + 6 /\ Marks(r).of[k + 1] = f + l
    /\ a + l + 11 <= Len(Stream(r)) /\ f + l <= Len(Body(r))
    /\ \A i \in 1 .. 2 : Stream(r)[a + i] = HexOf(l)[i]
    /\ Stream(r)[a + 3] = "CR" /\ Stream(r)[a + 4] = "LF"
    /\ \A i \in 1 .. l : Stream(r)[a + 4 + i] = Body(r)[f + i]
    /\ Stream(r)[a + l + 5] = "CR" /\ Stream(r)[a + l + 6] = "LF"

\* Every chunk of the stream is there, with what is in it.
LEMMA ChunkOf ==
    ASSUME NEW r, Sound(r), r.framing = "chunks", NEW k \in 0 .. Len(r.parts), k < Len(r.parts)
    PROVE  ChunkIs(r, k, Marks(r).at[k], Marks(r).of[k], Len(r.parts[k + 1]))
<1> DEFINE a == Marks(r).at[k]
           f == Marks(r).of[k]
           l == Len(r.parts[k + 1])
           j == k + 1
<1>1. Len(r.parts) \in Nat /\ a \in Nat /\ f \in Nat /\ ChunkAt(r, Marks(r), j)
  BY MarksOf
<1>2. j - 1 = k /\ j \in 0 .. Len(r.parts)
  BY <1>1
<1>3. a = Marks(r).at[j - 1] /\ f = Marks(r).of[j - 1] /\ l = Len(r.parts[j])
  BY <1>2, Zenon
<1> HIDE DEF a, f, l
<1>4. /\ l \in 1 .. 255
      /\ Marks(r).at[j] = a + l + 6 /\ Marks(r).of[j] = f + l
      /\ Marks(r).at[j] + 5 <= Len(Stream(r)) /\ Marks(r).of[j] <= Len(Body(r))
      /\ \A i \in 1 .. 2 : Stream(r)[a + i] = HexOf(l)[i]
      /\ Stream(r)[a + 3] = "CR" /\ Stream(r)[a + 4] = "LF"
      /\ \A i \in 1 .. l : Stream(r)[a + 4 + i] = Body(r)[f + i]
      /\ Stream(r)[a + l + 5] = "CR" /\ Stream(r)[a + l + 6] = "LF"
  <2> HIDE DEF j
  <2> QED BY <1>1, <1>3, Zenon DEF ChunkAt
<1>5. a + l + 6 + 5 = a + l + 11
  BY <1>1, <1>4
<1>6. ChunkIs(r, k, a, f, l)
  BY <1>1, <1>2, <1>4, <1>5 DEF ChunkIs
<1> QED BY <1>6 DEF a, f, l

\* The line with the size of a chunk.
LEMMA SizeLine ==
    ASSUME NEW r, Sound(r), r.framing = "chunks", NEW k \in 0 .. Len(r.parts), k < Len(r.parts),
           NEW d, NEW out, NEW lost, Holds(d, out, lost, Stream(r), Marks(r).at[k])
    PROVE  /\ Len(d) >= 4 => Occurrences(d, Crlf) # {}
           /\ Occurrences(d, Crlf) # {} =>
                 /\ Len(d) >= 4 /\ First(Occurrences(d, Crlf)) = 3
                 /\ SubSeq(d, 1, 2) = HexOf(Len(r.parts[k + 1]))
<1> DEFINE a == Marks(r).at[k]
           f == Marks(r).of[k]
           l == Len(r.parts[k + 1])
           s == Stream(r)
           n == Len(d)
<1>1. /\ a \in Nat /\ l \in 1 .. 255 /\ \A i \in 1 .. 2 : s[a + i] = HexOf(l)[i]
      /\ s[a + 3] = "CR" /\ s[a + 4] = "LF"
  <2>1. ChunkIs(r, k, a, f, l)
    BY ChunkOf
  <2> QED BY <2>1 DEF ChunkIs
<1>2. d \in Seq(Character) /\ n \in Nat /\ \A i \in 1 .. n : d[i] = s[a + i]
  BY DEF Holds
<1>3. \A i \in 1 .. 2 : HexOf(l)[i] \in Character /\ HexOf(l)[i] # "CR"
  BY <1>1, SizeAssumption
<1> HIDE DEF a, l, s, n
<1>4. \A i \in 1 .. 2 : i <= n => d[i] = HexOf(l)[i] /\ d[i] # "CR"
  BY <1>1, <1>2, <1>3
<1>5. ASSUME n >= 4 PROVE Occurrences(d, Crlf) # {} /\ First(Occurrences(d, Crlf)) = 3
  <2>1. d[3] = "CR" /\ d[3 + 1] = "LF" /\ 3 + 1 <= n
    <3>1. 3 \in 1 .. n /\ 4 \in 1 .. n
      BY <1>2, <1>5
    <3>2. d[3] = s[a + 3] /\ d[4] = s[a + 4]
      BY <1>2, <3>1
    <3> QED BY <1>1, <1>5, <3>2
  <2>2. \A i \in 1 .. 3 - 1 : d[i] # "CR"
    <3>1. \A i \in 1 .. 3 - 1 : i \in 1 .. 2 /\ i <= n
      BY <1>2, <1>5
    <3> QED BY <1>4, <3>1
  <2> QED BY <1>2, <2>1, <2>2, BreakAt DEF n
<1>6. ASSUME Occurrences(d, Crlf) # {} PROVE n >= 4 /\ SubSeq(d, 1, 2) = HexOf(l)
  <2>1. n >= 2 + 2
    <3>1. \A i \in 1 .. 2 : i <= Len(d) => d[i] # "CR"
      BY <1>4 DEF n
    <3> QED BY <1>2, <1>6, <3>1, BreakHolds DEF n
  <2>2. Part(SubSeq(d, 1, 1 + 2 - 1), d, 1, 2)
    BY <1>2, <2>1, PartOf DEF n
  <2> DEFINE p == SubSeq(d, 1, 2)
  <2>3. p \in Seq(Character) /\ Len(p) = 2 /\ \A i \in 1 .. 2 : p[i] = d[1 + i - 1]
    BY <2>2 DEF Part
  <2> HIDE DEF p
  <2>4. p[1] = d[1] /\ p[2] = d[2]
    BY <2>3
  <2>5. PICK x, y : HexOf(l) = <<x, y>>
    BY DEF HexOf
  <2>6. p[1] = x /\ p[2] = y
    <3>1. d[1] = HexOf(l)[1] /\ d[2] = HexOf(l)[2]
      BY <1>2, <1>4, <2>1
    <3>2. HexOf(l)[1] = x /\ HexOf(l)[2] = y
      BY <2>5
    <3> QED BY <2>4, <3>1, <3>2
  <2>7. p = <<x, y>>
    BY <2>3, <2>6
  <2> QED BY <1>2, <2>1, <2>5, <2>7 DEF p
<1> QED BY <1>5, <1>6 DEF l, n

\* The line that says there is no more.
LEMMA LastLine ==
    ASSUME NEW r, Sound(r), r.framing = "chunks",
           NEW d, NEW out, NEW lost, Holds(d, out, lost, Stream(r), Marks(r).at[Len(r.parts)])
    PROVE  /\ Len(d) >= 3 => Occurrences(d, Crlf) # {}
           /\ Occurrences(d, Crlf) # {} =>
                 /\ Len(d) >= 3 /\ First(Occurrences(d, Crlf)) = 2
                 /\ SubSeq(d, 1, 1) = <<"0">>
<1> DEFINE a == Marks(r).at[Len(r.parts)]
           s == Stream(r)
           n == Len(d)
<1>1. a \in Nat /\ s[a + 1] = "0" /\ s[a + 2] = "CR" /\ s[a + 3] = "LF"
  <2>1. r.parts \in Seq(Seq(Character))
    BY Announced DEF Announces
  <2>2. Len(r.parts) \in 0 .. Len(r.parts)
    BY <2>1
  <2>3. a \in Nat /\ LastChunkAt(r, Marks(r))
    BY <2>2, MarksOf
  <2> QED BY <2>3 DEF LastChunkAt
<1>2. d \in Seq(Character) /\ n \in Nat /\ \A i \in 1 .. n : d[i] = s[a + i]
  BY DEF Holds
<1> HIDE DEF a, s, n
<1>3. 1 <= n => d[1] = "0"
  BY <1>1, <1>2
<1>4. ASSUME n >= 3 PROVE Occurrences(d, Crlf) # {} /\ First(Occurrences(d, Crlf)) = 2
  <2>1. d[2] = "CR" /\ d[2 + 1] = "LF" /\ 2 + 1 <= n
    BY <1>1, <1>2, <1>4
  <2>2. \A i \in 1 .. 2 - 1 : d[i] # "CR"
    <3>1. d[1] # "CR"
      BY <1>2, <1>3, <1>4
    <3>2. \A i \in 1 .. 2 - 1 : i = 1
      OBVIOUS
    <3> QED BY <3>1, <3>2
  <2> QED BY <1>2, <2>1, <2>2, BreakAt DEF n
<1>5. ASSUME Occurrences(d, Crlf) # {} PROVE n >= 3 /\ SubSeq(d, 1, 1) = <<"0">>
  <2>1. n >= 1 + 2
    <3>1. \A i \in 1 .. 1 : i <= Len(d) => d[i] # "CR"
      BY <1>3 DEF n
    <3> QED BY <1>2, <1>5, <3>1, BreakHolds DEF n
  <2>2. Part(SubSeq(d, 1, 1 + 1 - 1), d, 1, 1)
    BY <1>2, <2>1, PartOf DEF n
  <2> DEFINE p == SubSeq(d, 1, 1)
  <2>3. p \in Seq(Character) /\ Len(p) = 1 /\ \A i \in 1 .. 1 : p[i] = d[1 + i - 1]
    BY <2>2 DEF Part
  <2> HIDE DEF p
  <2>4. p[1] = "0"
    BY <1>2, <1>3, <2>1, <2>3
  <2>5. p = <<"0">>
    BY <2>3, <2>4
  <2> QED BY <1>2, <2>1, <2>5 DEF p
<1> QED BY <1>4, <1>5 DEF n

----------------------------------------------------------------------------
(* The steps that decode chunks.                                           *)

\* The sums of the places in a chunk of l characters: a is its place in the
\* stream, f that of its data in the body, e is what of the data is missing, and n
\* the next of the data that is taken.
LEMMA ChunkSums ==
    ASSUME NEW a \in Nat, NEW l \in Nat
    PROVE  a + 4 + l + 2 = a + l + 6 /\ l - l = 0 /\ a + 4 + 0 = a + 4 /\ a + 0 = a
OBVIOUS

\* The size of a chunk is a number that is not zero.
LEMMA SizeIsNat ==
    ASSUME NEW l \in 1 .. 255
    PROVE  l \in Nat /\ l # 0 /\ l \in 1 .. l
OBVIOUS

\* What is missing of a chunk, and what is received, can be compared.
LEMMA LeftIsInt ==
    ASSUME NEW l \in 1 .. 255, NEW e \in 1 .. l, NEW size \in Nat
    PROVE  e \in Int /\ size \in Int /\ e >= 1
OBVIOUS

SumsOf(a, f, l, e, n, done, all) ==
    /\ done \in Nat /\ done + n <= l /\ l - (e - n) = done + n
    /\ a + 4 + done + n = a + 4 + (done + n) /\ f + done + n = f + (done + n)
    /\ f + done + n <= all
    /\ n = e => e - n = 0 /\ done + n = l
    /\ n # e => e - n \in 1 .. l

\* Taking n characters of the data of a chunk.
LEMMA DataSums ==
    ASSUME NEW a \in Nat, NEW f \in Nat, NEW l \in Nat, NEW e \in 1 .. l, NEW n \in Nat, n <= e,
           NEW all \in Nat, f + l <= all
    PROVE  SumsOf(a, f, l, e, n, l - e, all)
BY DEF SumsOf

PlacesOf(a, f, l, done, i) ==
    /\ 1 + i - 1 = i /\ done + i \in 1 .. l
    /\ a + 4 + done + i = a + 4 + (done + i) /\ f + done + i = f + (done + i)

\* The i-th of them.
LEMMA DataPlaces ==
    ASSUME NEW a \in Nat, NEW f \in Nat, NEW l \in Nat, NEW done \in Nat, NEW n \in Nat, done + n <= l,
           NEW i \in 1 .. n
    PROVE  PlacesOf(a, f, l, done, i)
BY DEF PlacesOf

\* It was received.
LEMMA WithinData ==
    ASSUME NEW size \in Nat, NEW n \in Nat, n <= size, NEW i \in 1 .. n
    PROVE  i \in 1 .. size
OBVIOUS

\* send() is in the loop over chunks, with the locals c.
InLoop(c, lost, r) ==
    /\ Sound(r) /\ r.framing = "chunks" /\ lost \in BOOLEAN
    /\ DOMAIN c = Locals /\ c.at = "decode" /\ c.parsingBody /\ c.chunkedResponse

\* The locals after a turn that takes the line with a size.
TakesSize(c, d) ==
    LET ends == Occurrences(c.responseData, Crlf)
        digits == SubSeq(c.responseData, 1, First(ends) - 1)
    IN  /\ ends # {}
        /\ d = [c EXCEPT !.expectedChunkSize = ToUint(digits, 16),
                         !.responseData = From(@, First(ends) + 2),
                         !.at = IF ToUint(digits, 16) = 0 THEN "returned" ELSE @]

\* The line with a size is taken: the data of that chunk is next, or, after the
\* last line, the body is whole.
LEMMA SizeTaken ==
    ASSUME NEW r, NEW c, NEW out, NEW lost, InLoop(c, lost, r), NEW k \in 0 .. Len(r.parts),
           AtSize(c, out, lost, r, k), NEW d, TakesSize(c, d)
    PROVE  Stage(d, out, lost, r)
<1> DEFINE data == c.responseData
           m == Marks(r)
           N == Len(r.parts)
           ends == Occurrences(c.responseData, Crlf)
           digits == SubSeq(c.responseData, 1, First(ends) - 1)
<1>a. /\ Sound(r) /\ r.framing = "chunks" /\ lost \in BOOLEAN
      /\ DOMAIN c = Locals /\ c.at = "decode" /\ c.parsingBody /\ c.chunkedResponse
  BY DEF InLoop
<1>b. /\ ends # {}
      /\ d = [c EXCEPT !.expectedChunkSize = ToUint(digits, 16),
                       !.responseData = From(@, First(ends) + 2),
                       !.at = IF ToUint(digits, 16) = 0 THEN "returned" ELSE @]
  BY DEF TakesSize
<1>c. ends = Occurrences(data, Crlf) /\ digits = SubSeq(data, 1, First(ends) - 1)
  OBVIOUS
<1> HIDE DEF ends, digits
<1> USE <1>a, <1>b, <1>c
<1>1. /\ c.expectedChunkSize = 0 /\ ~c.removeCrlfAfterChunk
      /\ Holds(data, out, lost, Stream(r), m.at[k]) /\ Written(c.body, Body(r), m.of[k])
  BY DEF AtSize, Received, Decoded
<1>2. N \in Nat /\ m.at[k] \in Nat /\ m.of[k] \in Nat
  BY MarksOf
<1>3. /\ d.expectedChunkSize = ToUint(digits, 16) /\ d.responseData = From(data, First(ends) + 2)
      /\ d.at = (IF ToUint(digits, 16) = 0 THEN "returned" ELSE "decode")
      /\ d.parsingBody = c.parsingBody /\ d.chunkedResponse = c.chunkedResponse
      /\ d.removeCrlfAfterChunk = c.removeCrlfAfterChunk /\ d.body = c.body
  BY DEF Locals
<1>4. CASE k < N
  <2> DEFINE l == Len(r.parts[k + 1])
  <2>1. ChunkIs(r, k, m.at[k], m.of[k], l)
    BY <1>4, ChunkOf
  <2>2. l \in 1 .. 255
    BY <2>1 DEF ChunkIs
  <2>3. Len(data) >= 4 /\ First(ends) = 3 /\ SubSeq(data, 1, 2) = HexOf(l)
    BY <1>1, <1>4, SizeLine
  <2>4. digits = HexOf(l) /\ ToUint(digits, 16) = l /\ l # 0
    <3>1. First(ends) - 1 = 2
      BY <2>3
    <3>2. digits = HexOf(l)
      BY <2>3, <3>1
    <3>3. ToUint(HexOf(l), 16) = l
      BY <2>2, SizeAssumption
    <3>4. l # 0
      BY <2>2, SizeIsNat, Zenon
    <3> QED BY <3>2, <3>3, <3>4
  <2>5. Holds(From(data, 4 + 1), out, lost, Stream(r), m.at[k] + 4)
    <3>1. 4 \in 0 .. Len(data) /\ Stream(r) \in Seq(Character)
      BY <1>1, <2>3, ChunksLaidOut DEF Holds
    <3> QED BY <1>1, <3>1, DecodeHolds
  <2>6. d.responseData = From(data, 4 + 1) /\ d.expectedChunkSize = l /\ d.at = "decode"
    BY <1>3, <2>3, <2>4
  <2>7. l - l = 0 /\ m.at[k] + 4 + 0 = m.at[k] + 4 /\ m.of[k] + 0 = m.of[k] /\ l \in 1 .. l
    <3> HIDE DEF l, m
    <3>1. l \in Nat /\ l \in 1 .. l
      BY <2>2, SizeIsNat, Zenon
    <3> QED BY <1>2, <3>1, ChunkSums
  <2> HIDE DEF l, data, m
  <2>8. InData(d, out, lost, r, k)
    BY <1>1, <1>3, <1>4, <2>5, <2>6, <2>7 DEF InData, Received, Decoded, l, m, N
  <2> QED BY <1>3, <2>6, <2>8 DEF Stage, Reads, ReadsChunks, InChunk
<1>5. CASE k = N
  <2>1. Len(data) >= 3 /\ First(ends) = 2 /\ SubSeq(data, 1, 1) = <<"0">>
    BY <1>1, <1>5, LastLine
  <2>2. digits = <<"0">>
    <3>1. First(ends) - 1 = 1
      BY <2>1
    <3> QED BY <2>1, <3>1
  <2>3. d.at = "returned"
    BY <1>3, <2>2, SizeAssumption
  <2>4. m.of[k] = Len(Body(r))
    BY <1>5, MarksOf DEF LastChunkAt
  <2>5. IsPrefix(d.body, Body(r)) /\ d.body = Body(r)
    BY <1>1, <1>3, <2>4, WrittenIsPrefix
  <2> QED BY <2>3, <2>5 DEF Stage, Ends
<1> QED BY <1>2, <1>4, <1>5

\* The locals after a turn that takes data of a chunk.
TakesData(c, d) ==
    LET n == Min({c.expectedChunkSize, Len(c.responseData)})
    IN  d = [c EXCEPT !.body = @ \o SubSeq(c.responseData, 1, n),
                      !.responseData = From(@, n + 1),
                      !.expectedChunkSize = @ - n,
                      !.removeCrlfAfterChunk = @ \/ n = c.expectedChunkSize,
                      !.at = IF n = Len(c.responseData) THEN "recv" ELSE @]

\* Data of a chunk is taken: send() is in the data still, or at its end.
LEMMA DataTaken ==
    ASSUME NEW r, NEW c, NEW out, NEW lost, InLoop(c, lost, r), NEW k \in 0 .. Len(r.parts),
           InData(c, out, lost, r, k), NEW d, TakesData(c, d)
    PROVE  Stage(d, out, lost, r)
<1> DEFINE n == Min({c.expectedChunkSize, Len(c.responseData)})
<1>a. /\ Sound(r) /\ r.framing = "chunks" /\ lost \in BOOLEAN
      /\ DOMAIN c = Locals /\ c.at = "decode" /\ c.parsingBody /\ c.chunkedResponse
  BY DEF InLoop
<1>b. d = [c EXCEPT !.body = @ \o SubSeq(c.responseData, 1, n),
                    !.responseData = From(@, n + 1),
                    !.expectedChunkSize = @ - n,
                    !.removeCrlfAfterChunk = @ \/ n = c.expectedChunkSize,
                    !.at = IF n = Len(c.responseData) THEN "recv" ELSE @]
  BY DEF TakesData
<1>c. n = Min({c.expectedChunkSize, Len(c.responseData)})
  OBVIOUS
<1> HIDE DEF n
<1> USE <1>a, <1>b, <1>c
<1> DEFINE data == c.responseData
           e == c.expectedChunkSize
           a == Marks(r).at[k]
           f == Marks(r).of[k]
           l == Len(r.parts[k + 1])
           s == Stream(r)
           b == Body(r)
           size == Len(data)
           part == SubSeq(data, 1, n)
           rest == From(data, n + 1)
<1>1. /\ k < Len(r.parts) /\ ~c.removeCrlfAfterChunk /\ e \in 1 .. l
      /\ Holds(data, out, lost, s, a + 4 + (l - e)) /\ Written(c.body, b, f + (l - e))
  BY DEF InData, Received, Decoded
<1>2. ChunkIs(r, k, a, f, l)
  BY <1>1, ChunkOf
<1>3. /\ a \in Nat /\ f \in Nat /\ l \in 1 .. 255 /\ f + l <= Len(b)
      /\ \A i \in 1 .. l : s[a + 4 + i] = b[f + i]
  BY <1>2 DEF ChunkIs
<1>4. /\ d.body = c.body \o part /\ d.responseData = rest /\ d.expectedChunkSize = e - n
      /\ d.removeCrlfAfterChunk = (c.removeCrlfAfterChunk \/ n = e)
      /\ d.at = (IF n = size THEN "recv" ELSE "decode")
      /\ d.parsingBody = c.parsingBody /\ d.chunkedResponse = c.chunkedResponse
  BY DEF Locals
<1>5. s \in Seq(Character) /\ b \in Seq(Character)
  BY ChunksLaidOut, BodyIsText
<1>6. data \in Seq(Character) /\ size \in Nat /\ \A i \in 1 .. size : data[i] = s[a + 4 + (l - e) + i]
  BY <1>1 DEF Holds
<1>7. /\ n \in 0 .. size /\ n <= e /\ (n = e \/ n = size)
      /\ e \in Int /\ l \in Nat /\ n \in Nat /\ n <= size
  <2>0. e \in 1 .. l /\ l \in 1 .. 255 /\ size \in Nat
    BY <1>1, <1>3, <1>6
  <2>1. e \in Int /\ size \in Int /\ e >= 1 /\ l \in Nat
    <3> HIDE DEF e, l, size
    <3> QED BY <2>0, SizeIsNat, LeftIsInt, ZenonT(60)
  <2>2. n \in {e, size} /\ \A x \in {e, size} : n <= x
    <3> HIDE DEF e, size
    <3>1. \E x \in {e, size} : \A y \in {e, size} : x <= y
      BY <2>1
    <3>2. n = Min({e, size})
      BY DEF e, size
    <3> QED BY <3>1, <3>2 DEF Min
  <2> HIDE DEF e, l, size
  <2> QED BY <2>0, <2>1, <2>2
<1> DEFINE done == l - e
<1>8. Part(part, data, 1, n)
  <2>1. n \in Nat /\ 1 + n <= size + 1 /\ 1 + n - 1 = n
    <3> HIDE DEF size
    <3> QED BY <1>6, <1>7
  <2>2. data \in Seq(Character) /\ 1 \in Nat /\ 1 <= 1 /\ 1 + n <= Len(data) + 1
    BY <1>6, <2>1
  <2> HIDE DEF data
  <2>3. Part(SubSeq(data, 1, 1 + n - 1), data, 1, n)
    BY <2>1, <2>2, PartOf
  <2> QED BY <2>1, <2>3 DEF data
<1>9. Holds(rest, out, lost, s, a + 4 + done + n)
  BY <1>1, <1>5, <1>6, <1>7, DecodeHolds
<1>10. rest \in Seq(Character) /\ Len(rest) = size - n
  BY <1>6, <1>7, FromPart DEF Part
<1> HIDE DEF data, e, a, f, l, s, b, size, part, rest
<1>11. /\ done \in Nat /\ done + n <= l /\ l - (e - n) = done + n
       /\ a + 4 + done + n = a + 4 + (done + n) /\ f + done + n = f + (done + n)
       /\ f + done + n <= Len(b)
       /\ n = e => e - n = 0 /\ done + n = l
       /\ n # e => e - n \in 1 .. l
  <2>1. /\ Len(b) \in Nat /\ a \in Nat /\ f \in Nat /\ l \in Nat /\ f + l <= Len(b)
        /\ e \in 1 .. l /\ n \in Nat /\ n <= e
    BY <1>1, <1>3, <1>5, <1>7
  <2>2. SumsOf(a, f, l, e, n, done, Len(b))
    BY <2>1, DataSums, Zenon
  <2> HIDE DEF done
  <2> QED BY <2>2 DEF SumsOf
<1>12. Written(c.body \o part, b, f + done + n)
  <2>1. part \in Seq(Character) /\ Len(part) = n /\ \A i \in 1 .. n : part[i] = data[1 + i - 1]
    BY <1>8 DEF Part
  <2>2. ASSUME NEW i \in 1 .. Len(part) PROVE part[i] = b[(f + done) + i]
    <3>1. /\ i \in 1 .. n /\ i \in 1 .. size /\ 1 + i - 1 = i /\ done + i \in 1 .. l
          /\ a + 4 + done + i = a + 4 + (done + i) /\ f + done + i = f + (done + i)
      <4>1. i \in 1 .. n /\ a \in Nat /\ f \in Nat
        BY <1>3, <2>1
      <4>2. n \in Nat /\ n <= size /\ size \in Nat /\ l \in Nat
        BY <1>6, <1>7
      <4>3. i \in 1 .. size
        BY <4>1, <4>2, WithinData, Zenon
      <4> HIDE DEF done
      <4>4. done \in Nat /\ done + n <= l
        BY <1>11
      <4>5. PlacesOf(a, f, l, done, i)
        BY <4>1, <4>2, <4>4, DataPlaces, Zenon
      <4> QED BY <4>1, <4>3, <4>5 DEF PlacesOf
    <3>2. part[i] = data[i] /\ data[i] = s[a + 4 + done + i]
      BY <1>6, <2>1, <3>1
    <3>3. s[a + 4 + (done + i)] = b[f + (done + i)]
      BY <1>3, <3>1
    <3> QED BY <3>1, <3>2, <3>3
  <2> HIDE DEF done
  <2>3. Written(c.body, b, f + done) /\ (f + done) + Len(part) <= Len(b)
    BY <1>1, <1>11, <2>1 DEF done
  <2>4. Written(c.body \o part, b, (f + done) + Len(part))
    BY <2>1, <2>2, <2>3, WriteMore
  <2> QED BY <2>1, <2>4
<1>13. n = size => rest = <<>>
  BY <1>6, <1>10, EmptySeq
<1> HIDE DEF done
<1>14. /\ Holds(d.responseData, out, lost, s, a + 4 + (done + n)) /\ Written(d.body, b, f + (done + n))
       /\ (d.at = "recv" => n = size) /\ d.at \in {"recv", "decode"}
       /\ d.parsingBody /\ d.chunkedResponse
  BY <1>4, <1>9, <1>11, <1>12
<1>15. InData(d, out, lost, r, k) \/ AtEnd(d, out, lost, r, k)
  <2>1. CASE n = e
    <3>1. /\ d.expectedChunkSize = 0 /\ d.removeCrlfAfterChunk /\ done + n = l
          /\ (d.at = "recv" => Len(d.responseData) < 2)
      <4>1. e - n = 0 /\ done + n = l
        BY <1>11, <2>1
      <4>2. n = size => Len(rest) < 2
        BY <1>6, <1>10
      <4> QED BY <1>4, <1>14, <2>1, <4>1, <4>2
    <3>2. Holds(d.responseData, out, lost, s, a + 4 + l) /\ Written(d.body, b, f + l)
      BY <1>14, <3>1
    <3> QED BY <1>1, <3>1, <3>2 DEF AtEnd, Received, Decoded, l, a, f, s, b
  <2>2. CASE n # e
    <3>1. d.expectedChunkSize \in 1 .. l /\ l - d.expectedChunkSize = done + n /\ ~d.removeCrlfAfterChunk
      <4>1. e - n \in 1 .. l
        BY <1>11, <2>2
      <4> QED BY <1>1, <1>4, <1>11, <2>2, <4>1
    <3>2. d.at = "recv" => d.responseData = <<>>
      BY <1>4, <1>13, <1>14
    <3>3. /\ Holds(d.responseData, out, lost, s, a + 4 + (l - d.expectedChunkSize))
          /\ Written(d.body, b, f + (l - d.expectedChunkSize))
      BY <1>14, <3>1
    <3> QED BY <1>1, <3>1, <3>2, <3>3 DEF InData, Received, Decoded, l, a, f, s, b
  <2> QED BY <2>1, <2>2
<1> QED BY <1>14, <1>15 DEF Stage, Reads, ReadsChunks, InChunk

\* The locals after a turn that takes the line break behind a chunk.
TakesEnd(c, d) ==
    /\ Len(c.responseData) >= 2
    /\ d = [c EXCEPT !.removeCrlfAfterChunk = FALSE, !.responseData = From(@, 3)]

\* The line break behind a chunk is taken: the next size is expected.
LEMMA EndTaken ==
    ASSUME NEW r, NEW c, NEW out, NEW lost, InLoop(c, lost, r), NEW k \in 0 .. Len(r.parts),
           AtEnd(c, out, lost, r, k), NEW d, TakesEnd(c, d)
    PROVE  Stage(d, out, lost, r)
<1>a. /\ Sound(r) /\ r.framing = "chunks" /\ lost \in BOOLEAN
      /\ DOMAIN c = Locals /\ c.at = "decode" /\ c.parsingBody /\ c.chunkedResponse
      /\ Len(c.responseData) >= 2
      /\ d = [c EXCEPT !.removeCrlfAfterChunk = FALSE, !.responseData = From(@, 3)]
  BY DEF InLoop, TakesEnd
<1> USE <1>a
<1> DEFINE data == c.responseData
           a == Marks(r).at[k]
           f == Marks(r).of[k]
           l == Len(r.parts[k + 1])
           s == Stream(r)
<1>1. /\ k < Len(r.parts) /\ c.expectedChunkSize = 0
      /\ Holds(data, out, lost, s, a + 4 + l) /\ Written(c.body, Body(r), f + l)
  BY DEF AtEnd, Received, Decoded
<1>2. ChunkIs(r, k, a, f, l)
  BY <1>1, ChunkOf
<1>3. /\ a \in Nat /\ l \in 1 .. 255 /\ k + 1 \in 0 .. Len(r.parts)
      /\ Marks(r).at[k + 1] = a + l + 6 /\ Marks(r).of[k + 1] = f + l
  BY <1>2 DEF ChunkIs
<1>4. /\ d.expectedChunkSize = 0 /\ ~d.removeCrlfAfterChunk /\ d.responseData = From(data, 2 + 1)
      /\ d.at = "decode" /\ d.parsingBody /\ d.chunkedResponse /\ d.body = c.body
  BY <1>1 DEF Locals
<1>5. Holds(From(data, 2 + 1), out, lost, s, a + 4 + l + 2)
  <2>1. 2 \in 0 .. Len(data) /\ s \in Seq(Character)
    BY <1>1, ChunksLaidOut DEF Holds
  <2> QED BY <1>1, <2>1, DecodeHolds
<1> HIDE DEF data, a, f, l, s
<1>6. a + 4 + l + 2 = a + l + 6
  <2>1. a \in Nat /\ l \in Nat
    BY <1>3, SizeIsNat, Zenon
  <2> QED BY <2>1, ChunkSums
<1>7. AtSize(d, out, lost, r, k + 1)
  BY <1>1, <1>3, <1>4, <1>5, <1>6 DEF AtSize, Received, Decoded, s
<1> QED BY <1>3, <1>4, <1>7 DEF Stage, Reads, ReadsChunks, InChunk

\* A turn that waits for more: a line is not there, or not all of it.
Waits(c, out, lost, r, k) ==
    \/ AtSize(c, out, lost, r, k) /\ Occurrences(c.responseData, Crlf) = {}
    \/ AtEnd(c, out, lost, r, k) /\ Len(c.responseData) < 2

\* It stays in front of the line it waits for.
LEMMA ChunkWaits ==
    ASSUME NEW r, NEW c, NEW out, NEW lost, InLoop(c, lost, r), NEW k \in 0 .. Len(r.parts),
           Waits(c, out, lost, r, k), NEW d, d = [c EXCEPT !.at = "recv"]
    PROVE  Stage(d, out, lost, r)
<1>a. r.framing = "chunks" /\ DOMAIN c = Locals /\ c.parsingBody /\ c.chunkedResponse
  BY DEF InLoop
<1> USE <1>a DEF Waits
<1>1. /\ d.at = "recv" /\ d.parsingBody /\ d.chunkedResponse /\ d.body = c.body
      /\ d.expectedChunkSize = c.expectedChunkSize /\ d.responseData = c.responseData
      /\ d.removeCrlfAfterChunk = c.removeCrlfAfterChunk
  BY DEF Locals
<1>2. AtSize(d, out, lost, r, k) \/ AtEnd(d, out, lost, r, k)
  BY <1>1 DEF AtSize, AtEnd, Received, Decoded
<1> QED BY <1>1, <1>2 DEF Stage, Reads, ReadsChunks, InChunk

----------------------------------------------------------------------------
(* The other steps that read.                                              *)

\* The stream is a text.
LEMMA StreamIsText ==
    ASSUME NEW r, Sound(r)
    PROVE  Stream(r) \in Seq(Character) /\ Body(r) \in Seq(Character)
           /\ Len(Stream(r)) \in Nat /\ Len(Body(r)) \in Nat
<1>1. Stream(r) \in Seq(Character)
  BY ChunksLaidOut, PlainPlaces
<1>2. Body(r) \in Seq(Character)
  BY BodyIsText
<1> HIDE DEF Stream, Body
<1> QED BY <1>1, <1>2

\* What send() waits for, or works on, is the reply.
LEMMA StageReads ==
    ASSUME NEW c, NEW out, NEW lost, NEW r, Stage(c, out, lost, r), c.at \in {"recv", "decode"}
    PROVE  Reads(c, out, lost, r)
BY DEF Stage, Asking, Ends

\* Before it does, there is nothing.
LEMMA StageAsks ==
    ASSUME NEW c, NEW out, NEW lost, NEW r, Stage(c, out, lost, r),
           c.at \in {"idle", "prepare", "connect", "send"}
    PROVE  Asking(c, out, lost)
BY DEF Stage, Reads, Ends

\* Only what is received changes, in the loop it is received for.
SameLoop(c, d) ==
    /\ d.parsingBody = c.parsingBody /\ d.chunkedResponse = c.chunkedResponse
    /\ d.contentLengthReceived = c.contentLengthReceived /\ d.contentLength = c.contentLength
    /\ d.expectedChunkSize = c.expectedChunkSize /\ d.removeCrlfAfterChunk = c.removeCrlfAfterChunk
    /\ d.body = c.body
    /\ d.at \in {"recv", "decode"}
    /\ d.at = "recv" => c.at = "recv" /\ d.responseData = c.responseData

\* The loop goes on where it was if what is received continues the stream.
LEMMA ReadsOn ==
    ASSUME NEW r, NEW c, NEW out, NEW lost, Reads(c, out, lost, r),
           NEW d, SameLoop(c, d), NEW outNext, NEW lostNext,
           \A pos : Received(c, out, lost, r, pos) => Received(d, outNext, lostNext, r, pos)
    PROVE  Reads(d, outNext, lostNext, r)
<1>1. CASE ReadsHeader(c, out, lost, r)
  BY <1>1 DEF ReadsHeader, Reads, SameLoop
<1>2. CASE ReadsPlain(c, out, lost, r)
  <2>1. ReadsPlain(d, outNext, lostNext, r)
    BY <1>2 DEF ReadsPlain, SameLoop, Decoded
  <2> QED BY <2>1 DEF Reads, SameLoop
<1>3. CASE ReadsChunks(c, out, lost, r)
  <2>1. PICK k \in 0 .. Len(r.parts) : InChunk(c, out, lost, r, k)
    BY <1>3 DEF ReadsChunks
  <2>2. CASE AtSize(c, out, lost, r, k)
    <3>1. AtSize(d, outNext, lostNext, r, k)
      BY <2>2 DEF AtSize, SameLoop, Decoded
    <3> QED BY <1>3, <3>1 DEF Reads, ReadsChunks, InChunk, SameLoop
  <2>3. CASE InData(c, out, lost, r, k)
    <3>1. InData(d, outNext, lostNext, r, k)
      BY <2>3 DEF InData, SameLoop, Decoded
    <3> QED BY <1>3, <3>1 DEF Reads, ReadsChunks, InChunk, SameLoop
  <2>4. CASE AtEnd(c, out, lost, r, k)
    <3>1. AtEnd(d, outNext, lostNext, r, k)
      BY <2>4 DEF AtEnd, SameLoop, Decoded
    <3> QED BY <1>3, <3>1 DEF Reads, ReadsChunks, InChunk, SameLoop
  <2> QED BY <2>1, <2>2, <2>3, <2>4 DEF InChunk
<1> QED BY <1>1, <1>2, <1>3 DEF Reads

\* A piece of the stream is received.
LEMMA PieceReceived ==
    ASSUME NEW r, Sound(r), NEW c, c.at = "recv", NEW out, NEW lost \in BOOLEAN, Reads(c, out, lost, r),
           NEW n \in 1 .. Len(out), NEW d,
           SameLoop(c, d), d.responseData = c.responseData \o SubSeq(out, 1, n)
    PROVE  Reads(d, From(out, n + 1), lost, r)
<1>1. ASSUME NEW pos, Received(c, out, lost, r, pos) PROVE Received(d, From(out, n + 1), lost, r, pos)
  <2>1. Holds(c.responseData, out, lost, Stream(r), pos)
    BY <1>1 DEF Received
  <2>2. lost = FALSE
    <3>1. out # <<>>
      OBVIOUS
    <3> QED BY <2>1, <3>1 DEF Holds
  <2>3. Holds(c.responseData, out, FALSE, Stream(r), pos)
    BY <2>1, <2>2
  <2>4. Stream(r) \in Seq(Character)
    BY StreamIsText
  <2>5. Holds(c.responseData \o SubSeq(out, 1, n), From(out, n + 1), FALSE, Stream(r), pos)
    BY <2>3, <2>4, ReceiveHolds
  <2> QED BY <2>2, <2>5 DEF Received
<1> QED BY <1>1, ReadsOn

\* The connection is lost.
LEMMA RestLost ==
    ASSUME NEW r, NEW c, NEW out, NEW lost, Reads(c, out, lost, r)
    PROVE  Reads(c, <<>>, TRUE, r)
<1>1. ASSUME NEW pos, Received(c, out, lost, r, pos) PROVE Received(c, <<>>, TRUE, r, pos)
  BY <1>1 DEF Received, Holds
<1>2. SameLoop(c, c)
  BY DEF SameLoop, Reads
<1> QED BY <1>1, <1>2, ReadsOn

\* The locals after all that was received of a body that is not chunked is taken.
TakesBody(c, d) ==
    /\ d.body = c.body \o c.responseData /\ d.responseData = <<>>
    /\ d.parsingBody = c.parsingBody /\ d.chunkedResponse = c.chunkedResponse
    /\ d.contentLengthReceived = c.contentLengthReceived /\ d.contentLength = c.contentLength
    /\ d.at = IF c.contentLengthReceived /\ Len(c.body \o c.responseData) >= c.contentLength
              THEN "returned" ELSE "recv"

\* A body of a known length ends with its last character, and not before.
LEMMA BodyTaken ==
    ASSUME NEW r, Sound(r), NEW c, NEW out, NEW lost \in BOOLEAN, ReadsPlain(c, out, lost, r),
           NEW d, TakesBody(c, d)
    PROVE  Stage(d, out, lost, r)
<1> USE DEF TakesBody
<1> DEFINE data == c.responseData
           n == Len(c.body)
           l == Len(data)
           s == Stream(r)
           b == Body(r)
           z == Start(r)
           all == Len(b)
<1>1. /\ r.framing # "chunks" /\ Written(c.body, b, n) /\ Holds(data, out, lost, s, z + n)
  BY DEF ReadsPlain, Decoded, Received
<1>2. /\ z \in Nat /\ s \in Seq(Character) /\ b \in Seq(Character)
      /\ Len(s) = z + all /\ \A i \in 1 .. all : s[z + i] = b[i]
  BY <1>1, PlainPlaces, BodyIsText
<1>3. /\ data \in Seq(Character) /\ z + n + l <= Len(s) /\ \A i \in 1 .. l : data[i] = s[z + n + i]
  BY <1>1 DEF Holds
<1>4. n \in Nat /\ n <= all
  BY <1>1 DEF Written
<1>5. l \in Nat /\ all \in Nat
  BY <1>2, <1>3
<1>6. n + l <= all /\ z + n + l = z + (n + l) /\ n + l \in Nat
  <2> HIDE DEF n, l, z, all
  <2>1. z \in Nat /\ n \in Nat /\ l \in Nat /\ all \in Nat /\ z + n + l <= z + all
    BY <1>2, <1>3, <1>4, <1>5
  <2> QED BY <2>1
<1>7. ASSUME NEW i \in 1 .. l PROVE data[i] = b[n + i]
  <2>1. n + i \in 1 .. all /\ z + n + i = z + (n + i)
    <3> HIDE DEF n, l, z, all
    <3> QED BY <1>2, <1>4, <1>5, <1>6
  <2>2. data[i] = s[z + n + i] /\ s[z + (n + i)] = b[n + i]
    BY <1>2, <1>3, <2>1
  <2> QED BY <2>1, <2>2
<1>8. Written(d.body, b, n + l)
  BY <1>1, <1>3, <1>6, <1>7, WriteMore
<1>9. Len(d.body) = n + l
  BY <1>8 DEF Written
<1>10. Holds(<<>>, out, lost, s, z + n + l)
  <2>1. l \in 0 .. l
    BY <1>5
  <2>2. Holds(From(data, l + 1), out, lost, s, z + n + l)
    BY <1>1, <1>2, <2>1, DecodeHolds
  <2>3. Part(From(data, l + 1), data, l + 1, l - l)
    BY <1>3, <2>1, FromPart
  <2>4. l - l = 0
    <3> HIDE DEF l
    <3> QED BY <1>5
  <2> DEFINE rest == From(data, l + 1)
  <2>5. rest \in Seq(Character) /\ Len(rest) = 0
    BY <2>3, <2>4 DEF Part
  <2> HIDE DEF rest
  <2>6. rest = <<>>
    BY <2>5, EmptySeq
  <2> QED BY <2>2, <2>6 DEF rest
<1>11. CASE c.contentLengthReceived /\ n + l >= c.contentLength
  <2>1. r.framing \in {"length", "close"}
    BY <1>1, HttpAssumption DEF Sound, Framing
  <2>2. c.contentLength = all
    BY <1>11, <2>1 DEF ReadsPlain
  <2>3. n + l = all
    <3> HIDE DEF n, l, all
    <3>1. n + l >= all
      BY <1>11, <2>2
    <3> QED BY <1>5, <1>6, <3>1
  <2>4. IsPrefix(d.body, b) /\ d.body = b
    BY <1>8, <2>3, WrittenIsPrefix
  <2>5. d.at = "returned"
    BY <1>9, <1>11
  <2> QED BY <2>4, <2>5 DEF Stage, Ends
<1>12. CASE ~(c.contentLengthReceived /\ n + l >= c.contentLength)
  <2>1. d.at = "recv"
    BY <1>9, <1>12
  <2>2. Decoded(d, r, Len(d.body)) /\ Received(d, out, lost, r, Start(r) + Len(d.body))
    BY <1>6, <1>8, <1>9, <1>10 DEF Decoded, Received
  <2>3. ReadsPlain(d, out, lost, r)
    BY <2>1, <2>2 DEF ReadsPlain
  <2> QED BY <2>1, <2>3 DEF Stage, Reads
<1> QED BY <1>11, <1>12

\* The connection ends when there is nothing more to come.
LEMMA EndOfStream ==
    ASSUME NEW r, Sound(r), NEW c, c.at = "recv", Reads(c, <<>>, FALSE, r), c.parsingBody
    PROVE  c.body = Body(r)
<1> DEFINE s == Stream(r)
           b == Body(r)
<1>1. ASSUME NEW pos, Received(c, <<>>, FALSE, r, pos)
      PROVE  /\ pos \in Nat /\ Len(c.responseData) \in Nat /\ Len(s) \in Nat
             /\ pos + Len(c.responseData) = Len(s)
  <2>1. /\ c.responseData \in Seq(Character) /\ pos \in Nat
        /\ pos + Len(c.responseData) + Len(<<>>) = Len(s)
    BY <1>1 DEF Received, Holds
  <2>2. Len(c.responseData) \in Nat /\ Len(s) \in Nat /\ Len(<<>>) = 0
    BY <2>1, StreamIsText
  <2> DEFINE n == Len(c.responseData)
             t == Len(s)
  <2> HIDE DEF n, t
  <2>3. n \in Nat /\ t \in Nat /\ pos \in Nat /\ pos + n + 0 = t
    BY <2>1, <2>2 DEF n, t
  <2>4. pos + n = t
    BY <2>3
  <2> QED BY <2>3, <2>4 DEF n, t
<1>2. CASE ReadsPlain(c, <<>>, FALSE, r)
  <2>1. /\ Written(c.body, b, Len(c.body)) /\ c.responseData = <<>> /\ r.framing # "chunks"
        /\ Received(c, <<>>, FALSE, r, Start(r) + Len(c.body))
    BY <1>2 DEF ReadsPlain, Decoded
  <2>2. Start(r) + Len(c.body) + 0 = Len(s) /\ Len(<<>>) = 0
    BY <1>1, <2>1
  <2>3. Start(r) \in Nat /\ Len(s) = Start(r) + Len(b) /\ Len(b) \in Nat
    BY <2>1, PlainPlaces, StreamIsText
  <2>4. Len(c.body) \in Nat
    BY <2>1 DEF Written
  <2>5. Len(c.body) = Len(b)
    <3> DEFINE n == Len(c.body)
               z == Start(r)
               all == Len(b)
    <3> HIDE DEF n, z, all
    <3>1. n \in Nat /\ z \in Nat /\ all \in Nat /\ z + n + 0 = z + all
      BY <2>2, <2>3, <2>4 DEF n, z, all
    <3>2. n = all
      BY <3>1
    <3> QED BY <3>2 DEF n, all
  <2> QED BY <2>1, <2>5, WrittenIsPrefix
<1>3. CASE ReadsChunks(c, <<>>, FALSE, r)
  <2>1. PICK k \in 0 .. Len(r.parts) : InChunk(c, <<>>, FALSE, r, k)
    BY <1>3 DEF ReadsChunks
  <2> DEFINE a == Marks(r).at[k]
             f == Marks(r).of[k]
             l == Len(r.parts[k + 1])
             t == Len(s)
             n == Len(c.responseData)
             e == c.expectedChunkSize
  <2>2. r.framing = "chunks"
    BY <1>3 DEF ReadsChunks
  <2>3. a \in Nat /\ Len(r.parts) \in Nat
    BY <2>2, MarksOf
  <2>4. ASSUME k < Len(r.parts) PROVE l \in 1 .. 255 /\ a + l + 11 <= t
    <3>1. ChunkIs(r, k, a, f, l)
      BY <2>2, <2>4, ChunkOf
    <3> QED BY <3>1 DEF ChunkIs
  <2>5. CASE AtSize(c, <<>>, FALSE, r, k)
    <3>1. Received(c, <<>>, FALSE, r, a) /\ Occurrences(c.responseData, Crlf) = {}
      BY <2>5 DEF AtSize
    <3>2. Holds(c.responseData, <<>>, FALSE, s, a)
      BY <3>1 DEF Received
    <3>3. n \in Nat /\ t \in Nat /\ a + n = t
      BY <1>1, <3>1
    <3>4. CASE k < Len(r.parts)
      <4>1. ~(n >= 4)
        BY <2>2, <3>1, <3>2, <3>4, SizeLine
      <4>2. l \in 1 .. 255 /\ a + l + 11 <= t
        BY <2>4, <3>4
      <4> HIDE DEF a, l, t, n
      <4> QED BY <2>3, <3>3, <4>1, <4>2
    <3>5. CASE k = Len(r.parts)
      <4>1. ~(n >= 3)
        BY <2>2, <3>1, <3>2, <3>5, LastLine
      <4>2. t = a + 5
        BY <2>2, <3>5, MarksOf DEF LastChunkAt
      <4> HIDE DEF a, l, t, n
      <4> QED BY <2>3, <3>3, <4>1, <4>2
    <3> QED BY <2>3, <3>4, <3>5
  <2>6. CASE InData(c, <<>>, FALSE, r, k)
    <3>1. /\ k < Len(r.parts) /\ e \in 1 .. l /\ c.responseData = <<>>
          /\ Received(c, <<>>, FALSE, r, a + 4 + (l - e))
      BY <2>6 DEF InData
    <3>2. t \in Nat /\ a + 4 + (l - e) + 0 = t
      <4>1. Len(<<>>) = 0
        OBVIOUS
      <4> QED BY <1>1, <3>1, <4>1
    <3>3. l \in 1 .. 255 /\ a + l + 11 <= t
      BY <2>4, <3>1
    <3> HIDE DEF a, l, t, e
    <3> QED BY <2>3, <3>1, <3>2, <3>3
  <2>7. CASE AtEnd(c, <<>>, FALSE, r, k)
    <3>1. k < Len(r.parts) /\ n < 2 /\ Received(c, <<>>, FALSE, r, a + 4 + l)
      BY <2>7 DEF AtEnd
    <3>2. n \in Nat /\ t \in Nat /\ a + 4 + l + n = t
      BY <1>1, <3>1
    <3>3. l \in 1 .. 255 /\ a + l + 11 <= t
      BY <2>4, <3>1
    <3> HIDE DEF a, l, t, n
    <3> QED BY <2>3, <3>1, <3>2, <3>3
  <2> QED BY <2>1, <2>5, <2>6, <2>7 DEF InChunk
<1> QED BY <1>2, <1>3 DEF Reads, ReadsHeader

\* The locals after the header was taken.
TakesHeader(c, d) ==
    LET ends == Occurrences(c.responseData, HeaderEnd)
        parsed == ReadHeader(SubSeq(c.responseData, 1, First(ends) + 1))
        encodings == Values(parsed.fields, "transfer-encoding")
        lengths == Values(parsed.fields, "content-length")
    IN  /\ c.at = "decode" /\ ends # {}
        /\ d.at = c.at /\ d.parsingBody = TRUE /\ d.chunkedResponse = (encodings # <<>>)
        /\ d.contentLengthReceived = (lengths # <<>>)
        /\ lengths # <<>> => d.contentLength = ToUint(Last(lengths), 10)
        /\ d.responseData = From(c.responseData, First(ends) + 4)
        /\ d.expectedChunkSize = c.expectedChunkSize /\ d.removeCrlfAfterChunk = c.removeCrlfAfterChunk
        /\ d.body = c.body

\* The header is read to its end, and says which loop reads the body.
LEMMA HeaderRead ==
    ASSUME NEW r, Sound(r), NEW c, NEW out, NEW lost \in BOOLEAN, ReadsHeader(c, out, lost, r),
           NEW d, TakesHeader(c, d)
    PROVE  Stage(d, out, lost, r)
<1> DEFINE data == c.responseData
           s == Stream(r)
           z == Start(r)
           ends == Occurrences(c.responseData, HeaderEnd)
           parsed == ReadHeader(SubSeq(c.responseData, 1, First(ends) + 1))
           encodings == Values(parsed.fields, "transfer-encoding")
           lengths == Values(parsed.fields, "content-length")
<1>a. /\ c.at = "decode" /\ ends # {}
      /\ d.at = c.at /\ d.parsingBody = TRUE /\ d.chunkedResponse = (encodings # <<>>)
      /\ d.contentLengthReceived = (lengths # <<>>)
      /\ lengths # <<>> => d.contentLength = ToUint(Last(lengths), 10)
      /\ d.responseData = From(data, First(ends) + 4)
      /\ d.expectedChunkSize = c.expectedChunkSize /\ d.removeCrlfAfterChunk = c.removeCrlfAfterChunk
      /\ d.body = c.body
  BY DEF TakesHeader
<1>b. /\ ends = Occurrences(data, HeaderEnd)
      /\ parsed = ReadHeader(SubSeq(data, 1, First(ends) + 1))
      /\ encodings = Values(parsed.fields, "transfer-encoding")
      /\ lengths = Values(parsed.fields, "content-length")
  OBVIOUS
<1> HIDE DEF ends, parsed, encodings, lengths
<1> USE <1>a, <1>b
<1>1. /\ c.expectedChunkSize = 0 /\ ~c.removeCrlfAfterChunk /\ c.body = <<>>
      /\ Holds(data, out, lost, s, 0)
  BY DEF ReadsHeader, Received
<1>2. Begins(data, s, 0)
  BY <1>1 DEF Holds, Begins
<1>3. /\ Len(r.header) \in Nat /\ z <= Len(data) /\ First(ends) = Len(r.header) - 1
      /\ SubSeq(data, 1, First(ends) + 1) = r.header
  BY <1>2, HeaderFound
<1>4. parsed = ReadHeader(r.header)
  BY <1>3
<1>5. /\ r.framing = "chunks" <=> encodings # <<>>
      /\ r.framing = "length" => lengths # <<>> /\ ToUint(Last(lengths), 10) = Len(Body(r))
      /\ r.framing = "close" => lengths = <<>>
  <2>1. Announces(r)
    BY Announced
  <2>2. /\ encodings = Values(ReadHeader(r.header).fields, "transfer-encoding")
        /\ lengths = Values(ReadHeader(r.header).fields, "content-length")
    BY <1>4
  <2>3. r.framing = "chunks" <=> encodings # <<>>
    BY <2>1, <2>2, Zenon DEF Announces
  <2>4. r.framing = "length" => lengths # <<>> /\ ToUint(Last(lengths), 10) = Len(Body(r))
    BY <2>1, <2>2, Zenon DEF Announces
  <2>5. r.framing = "close" => lengths = <<>>
    BY <2>1, <2>2, Zenon DEF Announces
  <2> QED BY <2>3, <2>4, <2>5
<1>6. z \in Nat /\ First(ends) + 4 = z + 1 /\ 0 + z = z
  <2> DEFINE n == Len(r.header)
  <2>1. n \in Nat /\ z = n + 2 /\ First(ends) = n - 1
    BY <1>3 DEF Start
  <2> HIDE DEF n, z
  <2>2. z \in Nat /\ (n - 1) + 4 = z + 1 /\ 0 + z = z
    BY <2>1
  <2> QED BY <2>1, <2>2
<1>7. Holds(d.responseData, out, lost, s, z)
  <2>1. data \in Seq(Character) /\ s \in Seq(Character)
    BY <1>1, StreamIsText DEF Holds
  <2>2. z \in 0 .. Len(data)
    <3>1. Len(data) \in Nat
      BY <2>1
    <3> QED BY <1>3, <1>6, <3>1
  <2>3. Holds(From(data, z + 1), out, lost, s, 0 + z)
    BY <1>1, <2>1, <2>2, DecodeHolds
  <2> QED BY <1>6, <2>3
<1>8. Written(d.body, Body(r), 0)
  BY <1>1, Nothing
<1>9. CASE r.framing # "chunks"
  <2>1. Len(d.body) = 0 /\ z + 0 = z
    BY <1>1, <1>6
  <2>2. ReadsPlain(d, out, lost, r)
    BY <1>5, <1>7, <1>8, <1>9, <2>1 DEF ReadsPlain, Decoded, Received
  <2> QED BY <2>2 DEF Stage, Reads
<1>10. CASE r.framing = "chunks"
  <2>1. Marks(r).at[0] = z /\ Marks(r).of[0] = 0
    BY <1>10, Marked DEF IsLayout
  <2>2. 0 \in 0 .. Len(r.parts)
    <3>1. r.parts \in Seq(Seq(Character))
      BY Announced DEF Announces
    <3> QED BY <3>1
  <2>3. AtSize(d, out, lost, r, 0)
    BY <1>1, <1>7, <1>8, <2>1 DEF AtSize, Received, Decoded
  <2> QED BY <1>5, <1>10, <2>2, <2>3 DEF Stage, Reads, ReadsChunks, InChunk
<1> QED BY <1>9, <1>10

\* The request is out, and the reply on its way.
LEMMA ReplyBegins ==
    ASSUME NEW r, Sound(r), NEW c, Asking(c, <<>>, FALSE),
           NEW d, d.at = "recv", d.parsingBody = c.parsingBody, d.expectedChunkSize = c.expectedChunkSize,
           d.removeCrlfAfterChunk = c.removeCrlfAfterChunk, d.responseData = c.responseData, d.body = c.body
    PROVE  Stage(d, Stream(r), FALSE, r)
<1> DEFINE s == Stream(r)
           n == Len(s)
<1>1. s \in Seq(Character) /\ n \in Nat
  BY StreamIsText
<1> HIDE DEF s, n
<1>2. 0 + 0 <= n /\ 0 + 0 + n = n /\ \A i \in 1 .. n : 0 + 0 + i = i
  BY <1>1
<1>3. Len(<<>>) = 0 /\ <<>> \in Seq(Character) /\ 1 .. 0 = {}
  OBVIOUS
<1>4. Holds(<<>>, s, FALSE, s, 0)
  BY <1>1, <1>2, <1>3 DEF Holds, n
<1>5. ReadsHeader(d, s, FALSE, r)
  BY <1>4 DEF Asking, ReadsHeader, Received, s
<1> QED BY <1>5 DEF Stage, Reads, s

----------------------------------------------------------------------------
(* The actions.                                                            *)

\* The reply is one that can be read.
Reading == HttpInv /\ Sound(reply)
StageNext == Stage(client', outbox', cut', reply)

\* Where send() is, in the invariant.
LEMMA NowAt ==
    ASSUME Reading
    PROVE  DOMAIN client = Locals /\ cut \in BOOLEAN /\ Stage(client, outbox, cut, reply)
BY DEF Reading, HttpInv, Honest, Sound

\* A step that throws (ParseHeader, TakeChunkSize, the faults...) keeps a beginning.
LEMMA GoThrew ==
    ASSUME Reading, Go("threw"), UNCHANGED cut
    PROVE  StageNext
<1>1. DOMAIN client = Locals /\ Stage(client, outbox, cut, reply) /\ Sound(reply)
  BY NowAt DEF Reading
<1>2. client' = [client EXCEPT !.at = "threw"]
  BY DEF Go
<1>3. Ends(client', cut, reply)
  BY <1>1, <1>2, ThrowEnds
<1> QED BY <1>3 DEF StageNext, Stage

\* A response whose header was not read, or whose body is whole.
LEMMA GoReturned ==
    ASSUME Reading, Go("returned"), UNCHANGED cut,
           client.parsingBody /\ ~cut => client.body = Body(reply)
    PROVE  StageNext
<1>1. DOMAIN client = Locals /\ Stage(client, outbox, cut, reply) /\ Sound(reply)
  BY NowAt DEF Reading
<1>2. client'.at = "returned" /\ client'.body = client.body /\ client'.parsingBody = client.parsingBody
  BY <1>1 DEF Go, Locals
<1>3. IsPrefix(client.body, Body(reply))
  BY <1>1, StageIsPrefix
<1>4. Ends(client', cut, reply)
  BY <1>2, <1>3 DEF Ends
<1> QED BY <1>4 DEF StageNext, Stage

\* The steps up to the request receive nothing.
LEMMA AsksNext ==
    ASSUME Reading, client.at \in {"idle", "prepare", "connect", "send"}, UNCHANGED <<outbox, cut>>,
           client'.at \in {"idle", "prepare", "connect", "send"}, client'.parsingBody = client.parsingBody,
           client'.expectedChunkSize = client.expectedChunkSize,
           client'.removeCrlfAfterChunk = client.removeCrlfAfterChunk,
           client'.responseData = client.responseData, client'.body = client.body
    PROVE  StageNext
<1>1. Asking(client, outbox, cut)
  BY NowAt, StageAsks
<1>2. Asking(client', outbox, cut)
  BY <1>1, AskingStays
<1> QED BY <1>2 DEF StageNext, Stage

\* The constructor of Request (Begin).
LEMMA BeginStage == ASSUME Reading, Begin PROVE StageNext
<1>1. CASE Go("threw")
  BY <1>1, GoThrew DEF Begin
<1>2. CASE client' = [client EXCEPT !.at = "prepare", !.uri = client'.uri]
  <2>1. DOMAIN client = Locals
    BY NowAt
  <2> DEFINE uri == client'.uri
  <2>2. client' = [client EXCEPT !.at = "prepare", !.uri = uri]
    BY <1>2
  <2> HIDE DEF uri
  <2>3. /\ client'.at = "prepare" /\ client'.parsingBody = client.parsingBody
        /\ client'.expectedChunkSize = client.expectedChunkSize
        /\ client'.removeCrlfAfterChunk = client.removeCrlfAfterChunk
        /\ client'.responseData = client.responseData /\ client'.body = client.body
    BY <2>1, <2>2 DEF Locals
  <2> QED BY <2>3, AsksNext DEF Begin
<1> QED BY <1>1, <1>2 DEF Begin

\* The address is looked up and the request written (Prepare).
LEMMA PrepareStage == ASSUME Reading, Prepare PROVE StageNext
<1>1. DOMAIN client = Locals
  BY NowAt
<1>2. CASE Go("threw")
  BY <1>2, GoThrew DEF Prepare
<1>3. CASE client' = [client EXCEPT !.at = "connect", !.remaining = EncodeHtml(client.uri)]
  <2>1. /\ client'.at = "connect" /\ client'.parsingBody = client.parsingBody
        /\ client'.expectedChunkSize = client.expectedChunkSize
        /\ client'.removeCrlfAfterChunk = client.removeCrlfAfterChunk
        /\ client'.responseData = client.responseData /\ client'.body = client.body
    BY <1>1, <1>3 DEF Locals
  <2> QED BY <2>1, AsksNext DEF Prepare
<1> QED BY <1>2, <1>3 DEF Prepare, Fails

\* The socket is connected (Connect).
LEMMA ConnectStage == ASSUME Reading, Connect PROVE StageNext
<1>1. DOMAIN client = Locals
  BY NowAt
<1>2. CASE Go("threw")
  BY <1>2, GoThrew DEF Connect
<1>3. CASE Go("send")
  <2>1. /\ client'.at = "send" /\ client'.parsingBody = client.parsingBody
        /\ client'.expectedChunkSize = client.expectedChunkSize
        /\ client'.removeCrlfAfterChunk = client.removeCrlfAfterChunk
        /\ client'.responseData = client.responseData /\ client'.body = client.body
    BY <1>1, <1>3 DEF Go, Locals
  <2> QED BY <2>1, AsksNext DEF Connect
<1> QED BY <1>2, <1>3 DEF Connect, Fails

\* The last of the request is sent, and the reply is on its way (SendRequest).
LEMMA SendRequestStage == ASSUME Reading, SendRequest PROVE StageNext
<1>1. DOMAIN client = Locals /\ Asking(client, outbox, cut)
  BY NowAt, StageAsks DEF SendRequest
<1>2. PICK size \in 1 .. Len(client.remaining) :
          /\ client' = [client EXCEPT !.remaining = From(@, size + 1),
                                      !.at = IF size = Len(client.remaining) THEN "recv" ELSE @]
          /\ outbox' = IF size = Len(client.remaining) THEN Stream(reply) ELSE <<>>
  BY DEF SendRequest
<1>3. /\ client'.at = (IF size = Len(client.remaining) THEN "recv" ELSE client.at)
      /\ client'.parsingBody = client.parsingBody
      /\ client'.expectedChunkSize = client.expectedChunkSize
      /\ client'.removeCrlfAfterChunk = client.removeCrlfAfterChunk
      /\ client'.responseData = client.responseData /\ client'.body = client.body
  BY <1>1, <1>2 DEF Locals
<1>4. outbox = <<>> /\ cut = FALSE /\ cut' = cut /\ client.at = "send"
  BY <1>1 DEF Asking, SendRequest
<1>5. CASE size = Len(client.remaining)
  <2>1. client'.at = "recv" /\ outbox' = Stream(reply) /\ Asking(client, <<>>, FALSE) /\ Sound(reply)
    BY <1>1, <1>2, <1>3, <1>4, <1>5 DEF Reading
  <2>2. Stage(client', Stream(reply), FALSE, reply)
    BY <1>3, <2>1, ReplyBegins
  <2> QED BY <1>4, <2>1, <2>2 DEF StageNext
<1>6. CASE size # Len(client.remaining)
  <2>1. client'.at = "send" /\ outbox' = outbox
    BY <1>2, <1>3, <1>4, <1>6
  <2> QED BY <1>3, <1>4, <2>1, AsksNext
<1> QED BY <1>5, <1>6

\* A piece of the stream is received (Recv).
LEMMA RecvStage == ASSUME Reading, Recv PROVE StageNext
<1>1. DOMAIN client = Locals /\ cut \in BOOLEAN /\ Reads(client, outbox, cut, reply) /\ Sound(reply)
  BY NowAt, StageReads DEF Recv, Reading
<1>2. PICK size \in 1 .. RecvSize :
          /\ size <= Len(outbox)
          /\ client' = [client EXCEPT !.responseData = @ \o SubSeq(outbox, 1, size), !.at = "decode"]
          /\ outbox' = From(outbox, size + 1)
  BY DEF Recv
<1>3. client'.responseData = client.responseData \o SubSeq(outbox, 1, size) /\ SameLoop(client, client')
  BY <1>1, <1>2 DEF Locals, SameLoop
<1>4. outbox \in Seq(Character)
  <2>1. \E pos : Received(client, outbox, cut, reply, pos)
    BY <1>1 DEF Reads, ReadsHeader, ReadsPlain, ReadsChunks, InChunk, AtSize, InData, AtEnd
  <2> QED BY <2>1 DEF Received, Holds
<1>5. size \in 1 .. Len(outbox)
  <2>1. Len(outbox) \in Nat /\ RecvSize \in Nat
    BY <1>4, HttpAssumption
  <2> QED BY <1>2, <2>1
<1>6. Reads(client', From(outbox, size + 1), cut, reply)
  <2>1. client.at = "recv"
    BY DEF Recv
  <2> QED BY <1>1, <1>3, <1>5, <2>1, PieceReceived, Zenon
<1> QED BY <1>2, <1>6 DEF StageNext, Stage, Recv

\* There is nothing more to come, so that all of it was decoded (Disconnected).
LEMMA DisconnectedStage == ASSUME Reading, Disconnected PROVE StageNext
<1>1. cut \in BOOLEAN /\ Reads(client, outbox, cut, reply) /\ Sound(reply)
  BY NowAt, StageReads DEF Disconnected, Reading
<1>2. ASSUME client.parsingBody, ~cut PROVE client.body = Body(reply)
  <2>1. Reads(client, <<>>, FALSE, reply)
    BY <1>1, <1>2 DEF Disconnected
  <2> QED BY <1>1, <1>2, <2>1, EndOfStream DEF Disconnected
<1> QED BY <1>2, GoReturned DEF Disconnected

\* The rest is lost, what was decoded is not (Cut).
LEMMA CutStage == ASSUME Reading, Cut PROVE StageNext
<1>1. Reads(client, outbox, cut, reply)
  BY NowAt, StageReads DEF Cut
<1>2. Reads(client, <<>>, TRUE, reply)
  BY <1>1, RestLost
<1> QED BY <1>2 DEF Cut, StageNext, Stage

\* send() or recv() throws.
LEMMA FailsStage == ASSUME Reading, SendFails \/ RecvFails PROVE StageNext
BY GoThrew DEF SendFails, RecvFails, Fails

\* A response without its header, which has no body (HeaderUnfinished).
LEMMA HeaderUnfinishedStage == ASSUME Reading, HeaderUnfinished PROVE StageNext
BY GoReturned DEF HeaderUnfinished, Decoding

\* The header is taken, and selects the loop for its framing (ParseHeader).
LEMMA ParseHeaderStage == ASSUME Reading, ParseHeader PROVE StageNext
<1> DEFINE data == client.responseData
           ends == Occurrences(data, HeaderEnd)
           parsed == ReadHeader(SubSeq(data, 1, First(ends) + 1))
           encodings == Values(parsed.fields, "transfer-encoding")
           lengths == Values(parsed.fields, "content-length")
<1>1. DOMAIN client = Locals /\ cut \in BOOLEAN /\ Reads(client, outbox, cut, reply) /\ Sound(reply)
  BY NowAt, StageReads DEF ParseHeader, Decoding, Reading
<1>2. client.at = "decode" /\ ~client.parsingBody /\ outbox' = outbox /\ cut' = cut /\ ends # {}
  BY DEF ParseHeader, Decoding
<1>3. ReadsHeader(client, outbox, cut, reply)
  BY <1>1, <1>2 DEF Reads, ReadsPlain, ReadsChunks
<1>4. \/ Go("threw")
      \/ client' = [client EXCEPT
             !.parsingBody = TRUE,
             !.chunkedResponse = encodings # <<>>,
             !.contentLengthReceived = lengths # <<>>,
             !.contentLength = IF lengths = <<>> THEN @ ELSE ToUint(Last(lengths), 10),
             !.responseData = From(data, First(ends) + 4)]
  BY DEF ParseHeader
<1>5. CASE Go("threw")
  BY <1>2, <1>5, GoThrew
<1>6. CASE ~Go("threw")
  <2> HIDE DEF data, ends, parsed, encodings, lengths
  <2>1. /\ client'.at = client.at /\ client'.parsingBody = TRUE
        /\ client'.chunkedResponse = (encodings # <<>>)
        /\ client'.contentLengthReceived = (lengths # <<>>)
        /\ lengths # <<>> => client'.contentLength = ToUint(Last(lengths), 10)
        /\ client'.responseData = From(data, First(ends) + 4)
        /\ client'.expectedChunkSize = client.expectedChunkSize
        /\ client'.removeCrlfAfterChunk = client.removeCrlfAfterChunk
        /\ client'.body = client.body
    BY <1>1, <1>4, <1>6 DEF Locals
  <2>2. TakesHeader(client, client')
    BY <1>2, <2>1 DEF TakesHeader, data, ends, parsed, encodings, lengths
  <2>3. Stage(client', outbox, cut, reply)
    BY <1>1, <1>3, <2>2, HeaderRead, Zenon
  <2> QED BY <1>2, <2>3 DEF StageNext
<1> QED BY <1>5, <1>6

\* The loop for a body of a known length, or up to the close (TakeBody).
LEMMA TakeBodyStage == ASSUME Reading, TakeBody PROVE StageNext
<1>1. DOMAIN client = Locals /\ cut \in BOOLEAN /\ Reads(client, outbox, cut, reply) /\ Sound(reply)
  BY NowAt, StageReads DEF TakeBody, Decoding, Reading
<1>2. client.at = "decode" /\ outbox' = outbox /\ cut' = cut /\ client.parsingBody /\ ~client.chunkedResponse
  BY DEF TakeBody, Decoding
<1>3. ReadsPlain(client, outbox, cut, reply)
  BY <1>1, <1>2 DEF Reads, ReadsHeader, ReadsChunks
<1> DEFINE place == IF /\ client.contentLengthReceived
                       /\ Len(client.body \o client.responseData) >= client.contentLength
                    THEN "returned" ELSE "recv"
<1>4. client' = [client EXCEPT !.body = @ \o client.responseData, !.responseData = <<>>, !.at = place]
  BY DEF TakeBody
<1> HIDE DEF place
<1>5. /\ client'.body = client.body \o client.responseData /\ client'.responseData = <<>>
      /\ client'.parsingBody = client.parsingBody /\ client'.chunkedResponse = client.chunkedResponse
      /\ client'.contentLengthReceived = client.contentLengthReceived
      /\ client'.contentLength = client.contentLength /\ client'.at = place
  BY <1>1, <1>4 DEF Locals
<1>6. Stage(client', outbox, cut, reply)
  <2>1. TakesBody(client, client')
    BY <1>5 DEF place, TakesBody
  <2> QED BY <1>1, <1>3, <2>1, BodyTaken, Zenon
<1> QED BY <1>2, <1>6 DEF StageNext

\* The loop over chunks is in one of them.
LEMMA InOneChunk ==
    ASSUME Reading, InChunks
    PROVE  /\ InLoop(client, cut, reply) /\ outbox' = outbox /\ cut' = cut
           /\ \E k \in 0 .. Len(reply.parts) : InChunk(client, outbox, cut, reply, k)
<1>1. client.at = "decode" /\ outbox' = outbox /\ cut' = cut /\ client.parsingBody /\ client.chunkedResponse
  BY DEF InChunks, Decoding
<1>2. DOMAIN client = Locals /\ cut \in BOOLEAN /\ Reads(client, outbox, cut, reply) /\ Sound(reply)
  BY <1>1, NowAt, StageReads DEF Reading
<1>3. ReadsChunks(client, outbox, cut, reply)
  BY <1>1, <1>2 DEF Reads, ReadsHeader, ReadsPlain
<1> QED BY <1>1, <1>2, <1>3 DEF ReadsChunks, InLoop

\* A turn of the loop over chunks that takes data (TakeChunkData).
LEMMA TakeChunkDataStage == ASSUME Reading, TakeChunkData PROVE StageNext
<1> DEFINE n == Min({client.expectedChunkSize, Len(client.responseData)})
<1>1. InChunks /\ client.expectedChunkSize > 0
  BY DEF TakeChunkData
<1>2. client' = [client EXCEPT
                    !.body = @ \o SubSeq(client.responseData, 1, n),
                    !.responseData = From(@, n + 1),
                    !.expectedChunkSize = @ - n,
                    !.removeCrlfAfterChunk = @ \/ n = client.expectedChunkSize,
                    !.at = IF n = Len(client.responseData) THEN "recv" ELSE @]
  BY DEF TakeChunkData
<1>3. PICK k \in 0 .. Len(reply.parts) : InChunk(client, outbox, cut, reply, k)
  BY <1>1, InOneChunk
<1>4. InData(client, outbox, cut, reply, k)
  <2>1. client.expectedChunkSize # 0
    BY <1>1
  <2> QED BY <1>3, <2>1 DEF InChunk, AtSize, AtEnd
<1>5. Stage(client', outbox, cut, reply)
  <2>1. TakesData(client, client')
    BY <1>2 DEF TakesData
  <2>2. InLoop(client, cut, reply)
    BY <1>1, InOneChunk
  <2> HIDE DEF n
  <2> QED BY <1>4, <2>1, <2>2, DataTaken, Zenon
<1> QED BY <1>1, <1>5, InOneChunk DEF StageNext

\* The line break behind a chunk (TakeChunkEnd).
LEMMA TakeChunkEndStage == ASSUME Reading, TakeChunkEnd PROVE StageNext
<1>1. InChunks /\ client.expectedChunkSize = 0 /\ client.removeCrlfAfterChunk
  BY DEF TakeChunkEnd
<1>2. PICK k \in 0 .. Len(reply.parts) : InChunk(client, outbox, cut, reply, k)
  BY <1>1, InOneChunk
<1>3. AtEnd(client, outbox, cut, reply, k)
  BY <1>1, <1>2 DEF InChunk, AtSize, InData
<1>4. CASE Go("threw")
  BY <1>1, <1>4, InOneChunk, GoThrew
<1>5. CASE Len(client.responseData) < 2
  <2>1. client' = [client EXCEPT !.at = "recv"]
    BY <1>5 DEF TakeChunkEnd, Go
  <2>2. Stage(client', outbox, cut, reply)
    <3>1. InLoop(client, cut, reply)
      BY <1>1, InOneChunk
    <3>2. Waits(client, outbox, cut, reply, k)
      BY <1>3, <1>5 DEF Waits
    <3> QED BY <2>1, <3>1, <3>2, ChunkWaits, Zenon
  <2> QED BY <1>1, <2>2, InOneChunk DEF StageNext
<1>6. CASE ~(Len(client.responseData) < 2) /\ ~Go("threw")
  <2>1. client' = [client EXCEPT !.removeCrlfAfterChunk = FALSE, !.responseData = From(@, 3)]
    BY <1>6 DEF TakeChunkEnd
  <2>2. Len(client.responseData) >= 2
    <3>1. client.responseData \in Seq(Character)
      BY <1>3 DEF AtEnd, Received, Holds
    <3>2. Len(client.responseData) \in Nat
      BY <3>1
    <3> QED BY <1>6, <3>2
  <2>3. Stage(client', outbox, cut, reply)
    <3>1. InLoop(client, cut, reply)
      BY <1>1, InOneChunk
    <3>2. TakesEnd(client, client')
      BY <2>1, <2>2 DEF TakesEnd
    <3> QED BY <1>3, <3>1, <3>2, EndTaken, Zenon
  <2> QED BY <1>1, <2>3, InOneChunk DEF StageNext
<1> QED BY <1>4, <1>5, <1>6

\* The line with the size of the next (TakeChunkSize).
LEMMA TakeChunkSizeStage == ASSUME Reading, TakeChunkSize PROVE StageNext
<1> DEFINE data == client.responseData
           ends == Occurrences(data, Crlf)
           digits == SubSeq(data, 1, First(ends) - 1)
<1>1. InChunks /\ client.expectedChunkSize = 0 /\ ~client.removeCrlfAfterChunk
  BY DEF TakeChunkSize
<1>2. PICK k \in 0 .. Len(reply.parts) : InChunk(client, outbox, cut, reply, k)
  BY <1>1, InOneChunk
<1>3. AtSize(client, outbox, cut, reply, k)
  <2>1. ~InData(client, outbox, cut, reply, k)
    <3>1. 0 \notin 1 .. Len(reply.parts[k + 1])
      <4>1. \A l : 0 \notin 1 .. l
        OBVIOUS
      <4> QED BY <4>1
    <3> QED BY <1>1, <3>1 DEF InData
  <2> QED BY <1>1, <1>2, <2>1 DEF InChunk, AtEnd
<1>4. CASE Go("threw")
  BY <1>1, <1>4, InOneChunk, GoThrew
<1>5. CASE ends = {}
  <2>1. client' = [client EXCEPT !.at = "recv"]
    BY <1>5 DEF TakeChunkSize, Go
  <2>2. Stage(client', outbox, cut, reply)
    <3>1. InLoop(client, cut, reply)
      BY <1>1, InOneChunk
    <3>2. Waits(client, outbox, cut, reply, k)
      BY <1>3, <1>5 DEF Waits
    <3> QED BY <2>1, <3>1, <3>2, ChunkWaits, Zenon
  <2> QED BY <1>1, <2>2, InOneChunk DEF StageNext
<1>6. CASE ends # {} /\ ~Go("threw")
  <2>1. client' = [client EXCEPT
                      !.expectedChunkSize = ToUint(digits, 16),
                      !.responseData = From(@, First(ends) + 2),
                      !.at = IF ToUint(digits, 16) = 0 THEN "returned" ELSE @]
    BY <1>6 DEF TakeChunkSize
  <2>2. TakesSize(client, client')
    BY <1>6, <2>1 DEF TakesSize
  <2> HIDE DEF data, ends, digits
  <2>3. Stage(client', outbox, cut, reply)
    <3>1. InLoop(client, cut, reply)
      BY <1>1, InOneChunk
    <3> QED BY <1>3, <2>2, <3>1, SizeTaken, Zenon
  <2> QED BY <1>1, <2>3, InOneChunk DEF StageNext
<1> QED BY <1>4, <1>5, <1>6

----------------------------------------------------------------------------
(* The invariant holds, and with it the properties.                        *)

\* The invariant holds before the request.
LEMMA InitHttp == HttpInit => HttpInv
<1> SUFFICES ASSUME HttpInit PROVE HttpInv
  OBVIOUS
<1>1. /\ DOMAIN client = Locals /\ client.at = "idle" /\ client.parsingBody = FALSE
      /\ client.expectedChunkSize = 0 /\ client.removeCrlfAfterChunk = FALSE
      /\ client.responseData = <<>> /\ client.body = <<>>
  BY DEF HttpInit, Locals
<1>2. outbox = <<>> /\ cut = FALSE /\ reply \in Replies
  BY DEF HttpInit
<1>3. Asking(client, outbox, cut)
  BY <1>1, <1>2 DEF Asking
<1> QED BY <1>1, <1>2, <1>3 DEF HttpInv, Stage

\* No step adds a local, or changes the reply.
LEMMA NextLocals ==
    ASSUME HttpInv, HttpNext
    PROVE  DOMAIN client' = Locals /\ cut' \in BOOLEAN /\ reply' = reply
<1>1. DOMAIN client = Locals /\ cut \in BOOLEAN
  BY DEF HttpInv
<1>2. CASE \E place : Go(place) /\ UNCHANGED <<reply, cut>>
  BY <1>1, <1>2 DEF Go
<1>3. CASE Begin
  BY <1>1, <1>3 DEF Begin, Go
<1>4. CASE Prepare
  BY <1>1, <1>4 DEF Prepare, Go, Fails
<1>5. CASE Connect
  BY <1>1, <1>5 DEF Connect, Go, Fails
<1>6. CASE SendRequest
  BY <1>1, <1>6 DEF SendRequest
<1>7. CASE Recv
  BY <1>1, <1>7 DEF Recv
<1>8. CASE Disconnected \/ HeaderUnfinished \/ SendFails \/ RecvFails
  BY <1>2, <1>8 DEF Disconnected, HeaderUnfinished, SendFails, RecvFails, Fails, Decoding
<1>9. CASE ParseHeader
  BY <1>1, <1>9 DEF ParseHeader, Go, Decoding
<1>10. CASE TakeBody
  BY <1>1, <1>10 DEF TakeBody, Decoding
<1>11. CASE TakeChunkData
  BY <1>1, <1>11 DEF TakeChunkData, InChunks, Decoding
<1>12. CASE TakeChunkEnd
  BY <1>1, <1>12 DEF TakeChunkEnd, InChunks, Decoding, Go
<1>13. CASE TakeChunkSize
  BY <1>1, <1>13 DEF TakeChunkSize, InChunks, Decoding, Go
<1>14. CASE Cut
  BY <1>1, <1>14 DEF Cut
<1> QED
  BY <1>3, <1>4, <1>5, <1>6, <1>7, <1>8, <1>9, <1>10, <1>11, <1>12, <1>13, <1>14
  DEF HttpNext, Send, HttpFaults

\* Every step keeps it.
LEMMA NextHttp == HttpInv /\ [HttpNext]_httpVars => HttpInv'
<1> SUFFICES ASSUME HttpInv, [HttpNext]_httpVars PROVE HttpInv'
  OBVIOUS
<1>1. CASE UNCHANGED httpVars
  BY <1>1 DEF HttpInv, Honest, httpVars
<1>2. CASE HttpNext
  <2>1. DOMAIN client' = Locals /\ cut' \in BOOLEAN /\ reply' = reply
    BY <1>2, NextLocals
  <2>2. ASSUME Honest PROVE StageNext
    <3>1. Reading
      BY <2>2 DEF HttpInv, Reading, Honest, Sound
    <3> QED
      BY <1>2, <3>1, BeginStage, PrepareStage, ConnectStage, SendRequestStage, RecvStage, DisconnectedStage,
         HeaderUnfinishedStage, ParseHeaderStage, TakeBodyStage, TakeChunkDataStage, TakeChunkEndStage,
         TakeChunkSizeStage, CutStage, FailsStage
      DEF HttpNext, Send, HttpFaults
  <2> QED BY <2>1, <2>2 DEF HttpInv, Honest, StageNext
<1> QED BY <1>1, <1>2

\* It says what the theorems below do.
LEMMA InvIsEnough == HttpInv => BodyIsPrefix /\ ReturnedBodyIsWhole
<1> SUFFICES ASSUME HttpInv, Honest
             PROVE  /\ IsPrefix(client.body, Body(reply))
                    /\ client.at = "returned" /\ client.parsingBody /\ ~cut => client.body = Body(reply)
  BY DEF BodyIsPrefix, ReturnedBodyIsWhole
<1>1. Sound(reply) /\ Stage(client, outbox, cut, reply)
  BY DEF HttpInv, Honest, Sound
<1>2. IsPrefix(client.body, Body(reply))
  BY <1>1, StageIsPrefix
<1>3. ASSUME client.at = "returned", client.parsingBody, ~cut PROVE client.body = Body(reply)
  BY <1>1, <1>3 DEF Stage, Asking, Reads, Ends
<1> QED BY <1>2, <1>3

\* However recv() cuts the stream up, what send() takes for the body is at any
\* time a beginning of the body the tracker sent (TakeBody, TakeChunkData).
THEOREM TakenIsPrefix == HttpSpec => []BodyIsPrefix
BY InitHttp, NextHttp, InvIsEnough, PTL DEF HttpSpec

\* A response that is returned has the whole body, unless the connection ended
\* before the tracker closed it or before the header was there.
THEOREM ReturnedIsWhole == HttpSpec => []ReturnedBodyIsWhole
BY InitHttp, NextHttp, InvIsEnough, PTL DEF HttpSpec
=============================================================================
