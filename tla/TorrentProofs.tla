--------------------------- MODULE TorrentProofs ---------------------------
(***************************************************************************)
(* For every torrent whose piece length fits the word, every word size and *)
(* every block size: finalize() exactly fills its buffer, and the bytes of *)
(* the file are where the torrent has them.  The argument is the loop      *)
(* invariant of finalize(): when b blocks are copied, the pointer is at    *)
(* Start(b), the place where the request for block b begins, and what lies *)
(* before it is the beginning of the piece.                                *)
(***************************************************************************)
EXTENDS Torrent, Integers, TLAPS

\* Division with remainder.
LEMMA DivMod ==
    ASSUME NEW n \in Nat, NEW d \in Nat \ {0}
    PROVE  /\ n \div d \in Nat
           /\ n % d \in 0 .. d - 1
           /\ n = d * (n \div d) + (n % d)
    OBVIOUS

LEMMA ModSmall ==
    ASSUME NEW n \in Nat, NEW d \in Nat \ {0}, n < d
    PROVE  n % d = n
    OBVIOUS

LEMMA TimesMonotone ==
    ASSUME NEW a \in Nat, NEW b \in Nat, NEW c \in Nat, a <= b
    PROVE  a * c <= b * c
    OBVIOUS

\* The p-th of the parts of size s that n is divided into ends within n.
LEMMA PartFits ==
    ASSUME NEW s \in Nat \ {0}, NEW n \in Nat, NEW p \in Nat, p < n \div s
    PROVE  p * s + s <= n
<1>1. n \div s \in Nat /\ n = s * (n \div s) + (n % s) /\ n % s \in 0 .. s - 1
    BY DivMod
<1>2. p + 1 <= n \div s
    BY <1>1
<1>3. (p + 1) * s <= (n \div s) * s
    BY <1>1, <1>2, TimesMonotone
<1>4. (p + 1) * s = p * s + s
    OBVIOUS
<1> QED
    BY <1>1, <1>3, <1>4

\* What the geometry of a torrent is made of.
LEMMA Sizes ==
    ASSUME NEW t \in Torrents
    PROVE  /\ piece_size(t) \in Nat \ {0} /\ piece_size(t) < Word
           /\ file_length(t) \in Nat /\ file_length(t) < Word
           /\ pieces(t) \in Nat
           /\ block_count(t) \in Nat \ {0}
<1>1. t.length \in Nat /\ t.piece_length \in 1 .. Word - 1
    BY TorrentAssumption
<1>2. piece_size(t) \in Nat \ {0} /\ piece_size(t) < Word
    BY <1>1, TorrentAssumption DEF piece_size
<1>3. file_length(t) \in Nat /\ file_length(t) < Word
    <2>1. t.length % Word \in 0 .. Word - 1
        BY <1>1, TorrentAssumption, DivMod
    <2> QED
        BY <2>1, TorrentAssumption DEF file_length
<1>4. pieces(t) \in Nat
    BY <1>2, <1>3, DivMod DEF pieces
<1>5. block_count(t) \in Nat \ {0}
    <2>1. /\ piece_size(t) \div BLOCK_SIZE \in Nat
          /\ piece_size(t) % BLOCK_SIZE = 0 => piece_size(t) \div BLOCK_SIZE # 0
        <3>1. PICK q \in Nat : q = piece_size(t) \div BLOCK_SIZE
            BY <1>2, TorrentAssumption, DivMod
        <3>2. PICK r \in Nat : r = piece_size(t) % BLOCK_SIZE
            BY <1>2, TorrentAssumption, DivMod
        <3>3. piece_size(t) = BLOCK_SIZE * q + r
            BY <1>2, <3>1, <3>2, TorrentAssumption, DivMod
        <3>4. r = 0 => q # 0
            BY <1>2, <3>3, TorrentAssumption
        <3> QED
            BY <3>1, <3>2, <3>4
    <2>2. CASE piece_size(t) % BLOCK_SIZE = 0
        BY <2>1, <2>2 DEF block_count
    <2>3. CASE piece_size(t) % BLOCK_SIZE # 0
        BY <2>1, <2>3 DEF block_count
    <2> QED
        BY <2>2, <2>3
<1> QED
    BY <1>2, <1>3, <1>4, <1>5

LEMMA Multiples ==
    ASSUME NEW d \in Nat \ {0}, NEW q \in Nat, NEW r \in 0 .. d - 1, NEW b \in Nat
    PROVE  /\ b < q => b * d < d * q + r
           /\ b <= q => b * d <= d * q + r
           /\ d * q + r < (q + 1) * d
<1>1. (b + 1) * d = b * d + d /\ (q + 1) * d = q * d + d /\ d * q = q * d
    OBVIOUS
<1>2. /\ b < q => (b + 1) * d <= q * d
      /\ b <= q => b * d <= q * d
    BY TimesMonotone
<1>3. b * d \in Nat /\ q * d \in Nat
    OBVIOUS
<1> QED
    BY <1>1, <1>2, <1>3

\* The blocks start within the piece, and the last one reaches its end.
LEMMA BlocksCover ==
    ASSUME NEW t \in Torrents, NEW b \in Nat
    PROVE  /\ b < block_count(t) => b * BLOCK_SIZE < piece_size(t)
           /\ b = block_count(t) => piece_size(t) <= b * BLOCK_SIZE
<1>1. PICK q \in Nat : q = piece_size(t) \div BLOCK_SIZE
    BY Sizes, TorrentAssumption, DivMod
<1>2. PICK r \in 0 .. BLOCK_SIZE - 1 : r = piece_size(t) % BLOCK_SIZE
    BY Sizes, TorrentAssumption, DivMod
<1>3. piece_size(t) = BLOCK_SIZE * q + r
    BY <1>1, <1>2, Sizes, TorrentAssumption, DivMod
<1>4. /\ b < q => b * BLOCK_SIZE < piece_size(t)
      /\ b <= q => b * BLOCK_SIZE <= piece_size(t)
      /\ piece_size(t) < (q + 1) * BLOCK_SIZE
    BY <1>3, TorrentAssumption, Multiples
<1>5. CASE r = 0
    <2>1. block_count(t) = q
        BY <1>1, <1>2, <1>5 DEF block_count
    <2>2. BLOCK_SIZE * q = q * BLOCK_SIZE /\ q * BLOCK_SIZE \in Nat
        BY TorrentAssumption
    <2> QED
        BY <1>3, <1>4, <1>5, <2>1, <2>2
<1>6. CASE r # 0
    <2>1. block_count(t) = q + 1
        BY <1>1, <1>2, <1>6 DEF block_count
    <2>2. b = q => b * BLOCK_SIZE < piece_size(t)
        <3> SUFFICES ASSUME b = q
                     PROVE  q * BLOCK_SIZE < piece_size(t)
            OBVIOUS
        <3>1. BLOCK_SIZE * q = q * BLOCK_SIZE /\ q * BLOCK_SIZE \in Nat /\ r > 0
            BY <1>6, TorrentAssumption
        <3> QED
            BY <1>3, <3>1
    <2>3. (q + 1) * BLOCK_SIZE \in Nat /\ piece_size(t) \in Nat
        BY Sizes, TorrentAssumption
    <2> QED
        BY <1>4, <2>1, <2>2, <2>3
<1> QED
    BY <1>5, <1>6

\* The offset of a block does not wrap.
LEMMA BlockOffsetExact ==
    ASSUME NEW t \in Torrents, NEW b \in Nat, b < block_count(t)
    PROVE  BlockOffset(b) = b * BLOCK_SIZE
<1>1. b * BLOCK_SIZE \in Nat /\ b * BLOCK_SIZE < Word
    BY BlocksCover, Sizes, TorrentAssumption
<1> QED
    BY <1>1, ModSmall, TorrentAssumption DEF BlockOffset

\* Neither does the offset of a piece, and the piece ends within the word.
LEMMA PieceOffsetExact ==
    ASSUME NEW t \in Torrents, NEW p \in PieceIdx(t)
    PROVE  /\ PieceOffset(t, p) = p * piece_size(t)
           /\ p * piece_size(t) \in Nat
           /\ p * piece_size(t) + piece_size(t) <= file_length(t)
           /\ p * piece_size(t) + piece_size(t) < Word
<1>1. p \in Nat /\ p < file_length(t) \div piece_size(t)
    BY Sizes DEF PieceIdx, pieces
<1>2. p * piece_size(t) + piece_size(t) <= file_length(t)
    BY <1>1, Sizes, PartFits
<1>3. p * piece_size(t) \in Nat /\ p * piece_size(t) < Word /\ p * piece_size(t) + piece_size(t) < Word
    BY <1>1, <1>2, Sizes, TorrentAssumption
<1> QED
    BY <1>2, <1>3, ModSmall, TorrentAssumption DEF PieceOffset

----------------------------------------------------------------------------
(* The loop of finalize().                                                 *)

Start(b) == IF b < block_count(tor) THEN b * BLOCK_SIZE ELSE piece_size(tor)

\* The request for block b reaches from Start(b) to Start(b + 1).
LEMMA RequestsTile ==
    ASSUME tor \in Torrents, NEW b \in Nat, b < block_count(tor)
    PROVE  /\ Start(b) = BlockOffset(b)
           /\ RequestLength(tor, b) \in Nat \ {0}
           /\ Start(b) + RequestLength(tor, b) = Start(b + 1)
           /\ Start(b) \in Nat /\ Start(b + 1) \in Nat
           /\ Start(b + 1) <= piece_size(tor)
<1>1. BlockOffset(b) = b * BLOCK_SIZE /\ b * BLOCK_SIZE \in Nat /\ b * BLOCK_SIZE < piece_size(tor)
    BY BlockOffsetExact, BlocksCover, TorrentAssumption
<1>2. piece_size(tor) \in Nat /\ block_count(tor) \in Nat
    BY Sizes
<1>3. (b + 1) * BLOCK_SIZE = b * BLOCK_SIZE + BLOCK_SIZE
    BY TorrentAssumption
<1>4. Start(b) = b * BLOCK_SIZE
    BY DEF Start
<1>5. CASE b + 1 < block_count(tor)
    <2>1. Start(b + 1) = (b + 1) * BLOCK_SIZE /\ (b + 1) * BLOCK_SIZE < piece_size(tor)
        BY <1>5, BlocksCover DEF Start
    <2>2. RequestLength(tor, b) = BLOCK_SIZE
        BY <1>1, <1>2, <1>3, <2>1, TorrentAssumption DEF RequestLength
    <2> QED
        BY <1>1, <1>2, <1>3, <1>4, <2>1, <2>2, TorrentAssumption
<1>6. CASE b + 1 = block_count(tor)
    <2>1. Start(b + 1) = piece_size(tor) /\ piece_size(tor) <= (b + 1) * BLOCK_SIZE
        BY <1>2, <1>6, BlocksCover DEF Start
    <2>2. RequestLength(tor, b) = piece_size(tor) - b * BLOCK_SIZE
        BY <1>1, <1>2, <1>3, <2>1, TorrentAssumption DEF RequestLength
    <2> QED
        BY <1>1, <1>2, <1>4, <2>1, <2>2
<1> QED
    BY <1>2, <1>5, <1>6

\* Buffer: the blocks that were copied are the beginning of the piece.  Written:
\* the pieces no longer missing are in the file.
Buffer ==
    /\ ptr = Start(copied)
    /\ current # None =>
           \A k \in Reach(tor) : k < ptr => data[k] = current * piece_size(tor) + k
Written ==
    \A p \in PieceIdx(tor) \ missing : \A j \in 0 .. piece_size(tor) - 1 :
        file[p * piece_size(tor) + j] = p * piece_size(tor) + j

Inv == TypeOK /\ Buffer /\ FileInPlace /\ Written

\* The buffer of the model is long enough for the piece.
LEMMA ReachCoversPiece ==
    ASSUME NEW t \in Torrents, NEW k \in Nat, k <= piece_size(t)
    PROVE  k \in Reach(t)
<1>1. piece_size(t) <= block_count(t) * BLOCK_SIZE /\ block_count(t) \in Nat
    BY Sizes, BlocksCover
<1>2. block_count(t) * BLOCK_SIZE <= (block_count(t) + 1) * BLOCK_SIZE
    BY <1>1, TorrentAssumption, TimesMonotone
<1>3. block_count(t) * BLOCK_SIZE \in Nat /\ (block_count(t) + 1) * BLOCK_SIZE \in Nat
    BY <1>1, TorrentAssumption
<1> QED
    BY <1>1, <1>2, <1>3, Sizes DEF Reach

LEMMA InitInv == Init => Inv
<1> SUFFICES ASSUME Init PROVE Inv
    OBVIOUS
<1>1. tor \in Torrents /\ block_count(tor) \in Nat \ {0}
    BY Sizes DEF Init
<1>2. TypeOK
    BY <1>1 DEF Init, TypeOK, NewBuffer
<1>3. Buffer
    BY <1>1, TorrentAssumption DEF Init, Buffer, Start
<1>4. FileInPlace
    BY DEF Init, FileInPlace
<1>5. Written
    BY DEF Init, Written
<1> QED
    BY <1>2, <1>3, <1>4, <1>5 DEF Inv

LEMMA TakeInv == Inv /\ TakePiece => Inv'
<1> SUFFICES ASSUME Inv, TakePiece PROVE Inv'
    OBVIOUS
<1> USE DEF Inv
<1>1. tor \in Torrents /\ block_count(tor) \in Nat \ {0}
    BY Sizes DEF TypeOK
<1>2. TypeOK'
    BY <1>1 DEF TypeOK, TakePiece, NewBuffer
<1>3. Start(0) = 0 /\ Start(copied)' = Start(0)
    BY <1>1, TorrentAssumption DEF Start, TakePiece
<1>4. Buffer'
    BY <1>3 DEF Buffer, TakePiece, Reach
<1>5. FileInPlace' /\ Written'
    BY DEF FileInPlace, Written, TakePiece
<1> QED
    BY <1>2, <1>4, <1>5

LEMMA AcceptInv == Inv /\ AcceptBlock => Inv'
<1> SUFFICES ASSUME Inv, AcceptBlock PROVE Inv'
    OBVIOUS
<1> USE DEF Inv, AcceptBlock
<1>1. TypeOK'
    BY DEF TypeOK
<1>2. Buffer'
    BY DEF Buffer, Start
<1>3. FileInPlace' /\ Written'
    BY DEF FileInPlace, Written
<1> QED
    BY <1>1, <1>2, <1>3

LEMMA CopyInv == Inv /\ CopyBlock => Inv'
<1> SUFFICES ASSUME Inv, CopyBlock PROVE Inv'
    OBVIOUS
<1> USE DEF Inv
<1> DEFINE len == RequestLength(tor, copied)
           base == current * piece_size(tor)
<1>1. tor \in Torrents /\ block_count(tor) \in Nat /\ piece_size(tor) \in Nat
    BY Sizes DEF TypeOK
<1>2. copied \in Nat /\ copied < block_count(tor) /\ copied + 1 \in 0 .. block_count(tor)
    BY <1>1 DEF TypeOK, CopyBlock
<1>3. /\ ptr = BlockOffset(copied) /\ ptr = Start(copied) /\ ptr \in Nat
      /\ len \in Nat /\ ptr + len = Start(copied + 1)
    BY <1>1, <1>2, RequestsTile DEF Buffer
<1>4. current \in Nat /\ base \in Nat
    BY <1>1 DEF TypeOK, CopyBlock, PieceIdx
<1>5. ptr' = ptr + len /\ copied' = copied + 1
    BY DEF CopyBlock
<1>6. \A k \in Reach(tor) : ptr <= k /\ k < ptr + len => data'[k] = base + k
    <2> SUFFICES ASSUME NEW k \in Reach(tor), ptr <= k, k < ptr + len
                 PROVE  data'[k] = base + k
        OBVIOUS
    <2>1. k \in Int
        BY DEF Reach
    <2>2. data'[k] = ByteOf(tor, current, copied, k - ptr)
        BY DEF CopyBlock
    <2>3. ByteOf(tor, current, copied, k - ptr) = base + ptr + (k - ptr)
        BY <1>3 DEF ByteOf
    <2>4. base + ptr + (k - ptr) = base + k
        <3>1. \A x, y \in Nat : \A z \in Int : x + y + (z - y) = x + z
            OBVIOUS
        <3> QED
            BY <1>3, <1>4, <2>1, <3>1
    <2> QED
        BY <2>2, <2>3, <2>4
<1>7. \A k \in Reach(tor) : ~(ptr <= k /\ k < ptr + len) => data'[k] = data[k]
    BY DEF CopyBlock
<1>8. data' \in [Reach(tor) -> Nat \cup {None}]
    <2>1. \A k \in Reach(tor) : data'[k] \in Nat \cup {None}
        BY <1>4, <1>6, <1>7 DEF TypeOK, Reach
    <2>2. data' = [k \in Reach(tor) |-> data'[k]]
        BY DEF CopyBlock
    <2> QED
        BY <2>1, <2>2
<1>9. TypeOK'
    BY <1>2, <1>3, <1>5, <1>8 DEF TypeOK, CopyBlock
<1>10. Buffer'
    <2>1. ptr' = Start(copied)'
        BY <1>3, <1>5 DEF CopyBlock, Start
    <2>2. \A k \in Reach(tor) : k < ptr' => data'[k] = base + k
        <3> SUFFICES ASSUME NEW k \in Reach(tor), k < ptr + len
                     PROVE  data'[k] = base + k
            BY <1>5
        <3>1. k \in Int
            BY DEF Reach
        <3>2. CASE ptr <= k
            BY <1>6, <3>2
        <3>3. CASE k < ptr
            BY <1>3, <1>7, <3>1, <3>3 DEF Buffer, CopyBlock
        <3> QED
            BY <1>3, <3>1, <3>2, <3>3
    <2> QED
        BY <2>1, <2>2 DEF Buffer, CopyBlock, Reach
<1>11. FileInPlace' /\ Written'
    BY DEF FileInPlace, Written, CopyBlock
<1> QED
    BY <1>9, <1>10, <1>11

LEMMA WriteInv == Inv /\ WritePiece => Inv'
<1> SUFFICES ASSUME Inv, WritePiece PROVE Inv'
    OBVIOUS
<1> USE DEF Inv
<1> DEFINE base == current * piece_size(tor)
           InPiece(k) == base <= k /\ k < base + piece_size(tor)
<1>1. /\ tor \in Torrents /\ current \in PieceIdx(tor)
      /\ piece_size(tor) \in Nat \ {0} /\ block_count(tor) \in Nat
    BY Sizes DEF TypeOK, WritePiece
<1>2. PieceOffset(tor, current) = base /\ base \in Nat /\ base + piece_size(tor) < Word
    BY <1>1, PieceOffsetExact
<1>3. ptr = piece_size(tor)
    BY <1>1 DEF Buffer, Start, WritePiece
<1>4. \A k \in 0 .. Word - 1 : InPiece(k) => file'[k] = k
    <2> SUFFICES ASSUME NEW k \in 0 .. Word - 1, InPiece(k)
                 PROVE  file'[k] = k
        OBVIOUS
    <2>1. k - base \in Nat /\ k - base < piece_size(tor)
        BY <1>1, <1>2
    <2>2. k - base \in Reach(tor)
        BY <1>1, <2>1, ReachCoversPiece
    <2>3. data[k - base] = base + (k - base)
        BY <1>3, <2>1, <2>2 DEF Buffer, WritePiece
    <2>4. file'[k] = data[k - base]
        BY <1>2 DEF WritePiece
    <2> QED
        BY <1>2, <2>3, <2>4
<1>5. \A k \in 0 .. Word - 1 : ~InPiece(k) => file'[k] = file[k]
    BY <1>2 DEF WritePiece
<1>6. file' \in [0 .. Word - 1 -> Nat \cup {None}]
    <2>1. \A k \in 0 .. Word - 1 : file'[k] \in Nat \cup {None}
        BY <1>4, <1>5 DEF TypeOK
    <2>2. file' = [k \in 0 .. Word - 1 |-> file'[k]]
        BY DEF WritePiece
    <2> QED
        BY <2>1, <2>2
<1>7. TypeOK'
    BY <1>6 DEF TypeOK, WritePiece
<1>8. Buffer'
    BY DEF Buffer, WritePiece, Start
<1>9. FileInPlace'
    BY <1>4, <1>5 DEF FileInPlace
<1>10. Written'
    <2> SUFFICES ASSUME NEW p \in PieceIdx(tor), p \notin missing \/ p = current,
                        NEW j \in 0 .. piece_size(tor) - 1
                 PROVE  file'[p * piece_size(tor) + j] = p * piece_size(tor) + j
        BY DEF Written, WritePiece
    <2> DEFINE k == p * piece_size(tor) + j
    <2>1. k \in 0 .. Word - 1
        BY <1>1, PieceOffsetExact, TorrentAssumption
    <2>2. CASE InPiece(k)
        BY <1>4, <2>1, <2>2
    <2>3. CASE ~InPiece(k)
        <3>1. p # current
            BY <1>1, <1>2, <2>3
        <3>2. file[k] = k
            BY <3>1 DEF Written
        <3> QED
            BY <1>5, <2>1, <2>3, <3>2
    <2> QED
        BY <2>2, <2>3
<1> QED
    BY <1>7, <1>8, <1>9, <1>10

LEMMA StutterInv == Inv /\ UNCHANGED vars => Inv'
    BY DEF Inv, vars, TypeOK, Buffer, Start, FileInPlace, Written

LEMMA Always == Spec => []Inv
<1>1. Inv /\ [Next]_vars => Inv'
    BY TakeInv, AcceptInv, CopyInv, WriteInv, StutterInv DEF Next, Complete
<1> QED
    BY InitInv, <1>1, PTL DEF Spec

----------------------------------------------------------------------------
(* Theorems.                                                               *)

\* The sizes and the buffer keep their types; no block is copied twice, and the
\* piece in work is one the monitor still misses.
THEOREM TypesKept == Spec => []TypeOK
<1>1. Inv => TypeOK
    BY DEF Inv
<1> QED
    BY Always, <1>1, PTL

\* finalize() never writes beyond the piece_size_ bytes it allocated, and fills
\* them all: for every piece length and block size, divisible or not.
THEOREM BufferFits == Spec => []BufferExactlyFilled
<1>1. Inv => BufferExactlyFilled
    <2> SUFFICES ASSUME Inv PROVE BufferExactlyFilled
        OBVIOUS
    <2>1. /\ tor \in Torrents /\ copied \in Nat /\ copied <= block_count(tor)
          /\ block_count(tor) \in Nat /\ piece_size(tor) \in Nat
        BY Sizes DEF Inv, TypeOK
    <2>2. copied < block_count(tor) => copied * BLOCK_SIZE < piece_size(tor)
        BY <2>1, BlocksCover
    <2>3. copied * BLOCK_SIZE \in Nat
        BY <2>1, TorrentAssumption
    <2> QED
        BY <2>1, <2>2, <2>3 DEF Inv, Buffer, Start, BufferExactlyFilled
<1> QED
    BY Always, <1>1, PTL

\* No byte is ever written to a place that is not its own: the 32 bit offsets
\* of pieces and blocks do not wrap, whatever the length in the metadata.
THEOREM EveryByteInPlace == Spec => []FileInPlace
<1>1. Inv => FileInPlace
    BY DEF Inv
<1> QED
    BY Always, <1>1, PTL

\* When the monitor misses no piece, every whole piece is in the file.
THEOREM WholePiecesArrive == Spec => []WholePiecesWritten
<1>1. Inv => WholePiecesWritten
    <2> SUFFICES ASSUME Inv, missing = {}, NEW k \in 0 .. pieces(tor) * piece_size(tor) - 1
                 PROVE  file[k] = k
        BY DEF WholePiecesWritten
    <2> DEFINE s == piece_size(tor)
    <2>1. tor \in Torrents /\ s \in Nat \ {0} /\ pieces(tor) \in Nat
        BY Sizes DEF Inv, TypeOK
    <2>2. pieces(tor) * s \in Nat
        BY <2>1
    <2>3. k \in Nat /\ k < pieces(tor) * s
        BY <2>2
    <2>4. PICK q \in Nat : q = k \div s
        BY <2>1, <2>3, DivMod
    <2>5. PICK r \in 0 .. s - 1 : r = k % s
        BY <2>1, <2>3, DivMod
    <2>6. k = s * q + r
        BY <2>1, <2>3, <2>4, <2>5, DivMod
    <2>7. q * s = s * q /\ q * s \in Nat
        BY <2>1
    <2>8. q < pieces(tor)
        <3>1. pieces(tor) <= q => pieces(tor) * s <= q * s
            BY <2>1, TimesMonotone
        <3> QED
            BY <2>1, <2>2, <2>3, <2>5, <2>6, <2>7, <3>1
    <2>9. q \in PieceIdx(tor)
        BY <2>1, <2>8 DEF PieceIdx
    <2>10. file[q * s + r] = q * s + r
        BY <2>5, <2>9 DEF Inv, Written
    <2> QED
        BY <2>6, <2>7, <2>10
<1> QED
    BY Always, <1>1, PTL
=============================================================================
