-------------------------------- MODULE Sha1 --------------------------------
(***************************************************************************)
(* The hash of pieces and of the info dictionary (sha1.hpp, and Hash::of   *)
(* of common.cpp), next to the hash the standard defines (FIPS 180-4).  A  *)
(* word of 32 bits is the sequence of its four bytes, the highest first.   *)
(***************************************************************************)
EXTENDS Text, Bitwise

BLOCK_INTS == 16
BLOCK_BYTES == BLOCK_INTS * 4

WordOf(n) == <<n \div 256^3, (n \div 256^2) % 256, (n \div 256) % 256, n % 256>>

AndTable == [a \in 0 .. 255 |-> [b \in 0 .. 255 |-> a & b]]
Bytewise(op(_, _), v, w) ==
    <<op(v[1], w[1]), op(v[2], w[2]), op(v[3], w[3]), op(v[4], w[4])>>
and(v, w) == Bytewise(LAMBDA a, b : AndTable[a][b], v, w)
or(v, w) == Bytewise(LAMBDA a, b : a + b - AndTable[a][b], v, w)
xor(v, w) == Bytewise(LAMBDA a, b : a + b - 2 * AndTable[a][b], v, w)
not(v) == xor(v, <<255, 255, 255, 255>>)

Add(v, w) ==
    LET low == 256 * (v[3] + w[3]) + v[4] + w[4]
        high == 256 * (v[1] + w[1]) + v[2] + w[2] + (low \div 256^2)
    IN  <<(high \div 256) % 256, high % 256, (low \div 256) % 256, low % 256>>

rol(value, bits) ==
    LET up == 2^(bits % 8)
        byte(k) == value[((k + (bits \div 8)) % 4) + 1]
        turned(k) == ((byte(k) * up) % 256) + ((byte(k + 1) * up) \div 256)
    IN  <<turned(0), turned(1), turned(2), turned(3)>>

Initial == << <<\H67, \H45, \H23, \H01>>, <<\Hef, \Hcd, \Hab, \H89>>, <<\H98, \Hba, \Hdc, \Hfe>>,
              <<\H10, \H32, \H54, \H76>>, <<\Hc3, \Hd2, \He1, \Hf0>> >>
K(t) == CASE t < 20 -> <<\H5a, \H82, \H79, \H99>>
          [] t \in 20 .. 39 -> <<\H6e, \Hd9, \Heb, \Ha1>>
          [] t \in 40 .. 59 -> <<\H8f, \H1b, \Hbc, \Hdc>>
          [] t > 59 -> <<\Hca, \H62, \Hc1, \Hd6>>

----------------------------------------------------------------------------
(* transform().                                                            *)

\* blk: the words of the schedule replace each other in a block of 16.
blk(block, i) ==
    rol(xor(xor(block[(i + 13) % 16], block[(i + 8) % 16]), xor(block[(i + 2) % 16], block[i])), 1)

\* The Boolean functions of R0 and R1, R2, R3 and R4.
Mix(t, w, x, y) ==
    CASE t < 20 -> xor(and(w, xor(x, y)), y)
      [] t \in 40 .. 59 -> or(and(or(w, x), y), and(w, x))
      [] OTHER -> xor(xor(w, x), y)

\* Round t of the 80: the variables a to e stay in place and change their
\* roles v to z, one place on in every round; R0 leaves the block alone.
Round(s, t) ==
    LET i == t % 16
        block == IF t < 16 THEN s.block ELSE [s.block EXCEPT ![i] = blk(s.block, i)]
        role(p) == ((p + 4 * t) % 5) + 1
        v == s.vars[role(0)]
        w == s.vars[role(1)]
        z == Add(Add(Add(Add(s.vars[role(4)], Mix(t, w, s.vars[role(2)], s.vars[role(3)])),
                         block[i]), K(t)), rol(v, 5))
    IN  [block |-> block, vars |-> [s.vars EXCEPT ![role(4)] = z, ![role(1)] = rol(w, 30)]]

AddAll(d, v) ==
    <<Add(d[1], v[1]), Add(d[2], v[2]), Add(d[3], v[3]), Add(d[4], v[4]), Add(d[5], v[5])>>

\* (The next values are taken out of sets of one: TLC then carries values from
\* round to round and not expressions.)
Transform(h, block) ==
    LET after[n \in 0 .. 80] ==
            IF n = 0 THEN [block |-> block, vars |-> h.digest]
            ELSE CHOOSE r \in {Round(s, n - 1) : s \in {after[n - 1]}} : TRUE
    IN  [h EXCEPT !.digest = AddAll(@, after[80].vars), !.transforms = @ + 1]

----------------------------------------------------------------------------
(* An object of the class SHA1: [digest, buffer, transforms].              *)

Reset == [digest |-> Initial, buffer |-> <<>>, transforms |-> 0]

BufferToBlock(buffer) ==
    [i \in 0 .. BLOCK_INTS - 1 |->
        [k \in 1 .. 4 |-> Code[buffer[4 * i + k]]]]

\* update(): every turn reads as much as the buffer lacks, and returns when the
\* stream had less.
RECURSIVE Update(_, _)
Update(h, stream) ==
    LET count == Min({BLOCK_BYTES - Len(h.buffer), Len(stream)})
        buffer == h.buffer \o SubSeq(stream, 1, count)
    IN  IF Len(buffer) # BLOCK_BYTES THEN [h EXCEPT !.buffer = buffer]
        ELSE Update([Transform(h, BufferToBlock(buffer)) EXCEPT !.buffer = <<>>],
                    From(stream, count + 1))

\* final(): total_bits fits in a word here.
FinalSpillLate(h) ==    \* mutant: a byte too many is taken to fit before the length
    LET total_bits == (h.transforms * BLOCK_BYTES + Len(h.buffer)) * 8
        begun == h.buffer \o <<CharOf[128]>>
        block == BufferToBlock(begun \o [k \in 1 .. BLOCK_BYTES - Len(begun) |-> "NUL"])
        spill == Len(begun) > BLOCK_BYTES - 7
        last == IF spill THEN [i \in 0 .. BLOCK_INTS - 1 |-> WordOf(0)] ELSE block
    IN  Transform(IF spill THEN Transform(h, block) ELSE h,
                  [last EXCEPT ![BLOCK_INTS - 1] = WordOf(total_bits),
                               ![BLOCK_INTS - 2] = WordOf(0)]).digest

Final(h) ==
    LET total_bits == (h.transforms * BLOCK_BYTES + Len(h.buffer)) * 8
        begun == h.buffer \o <<CharOf[128]>>
        block == BufferToBlock(begun \o [k \in 1 .. BLOCK_BYTES - Len(begun) |-> "NUL"])
        spill == Len(begun) > BLOCK_BYTES - 8
        last == IF spill THEN [i \in 0 .. BLOCK_INTS - 1 |-> WordOf(0)] ELSE block
    IN  Transform(IF spill THEN Transform(h, block) ELSE h,
                  [last EXCEPT ![BLOCK_INTS - 1] = WordOf(total_bits),
                               ![BLOCK_INTS - 2] = WordOf(0)]).digest

\* The digest in hexadecimal, setw(8) for each word.
WriteHex(digest) == FlattenSeq([k \in DOMAIN digest |-> FlattenSeq([i \in 1 .. 4 |-> HexOf(digest[k][i])])])
FromString(text) == WriteHex(Final(Update(Reset, text)))

\* cmn::hex_to_bytes, for an even number of digits.
HexToBytes(hex) == [k \in 1 .. Len(hex) \div 2 |-> CharOf[Numeral(SubSeq(hex, 2 * k - 1, 2 * k), 16)]]
HashOf(text) == HexToBytes(FromString(text))

----------------------------------------------------------------------------
(* The standard.                                                           *)

Padded(text) ==
    LET zeros == (119 - (Len(text) % 64)) % 64
        length == WordOf(8 * Len(text))
    IN  text \o <<CharOf[128]>> \o [k \in 1 .. zeros + 4 |-> "NUL"] \o [k \in 1 .. 4 |-> CharOf[length[k]]]

\* Word t of the message schedule, behind those before it.
Extend(w, t) ==
    IF t < 16 THEN w
    ELSE Append(w, rol(xor(xor(w[t - 2], w[t - 7]), xor(w[t - 13], w[t - 15])), 1))

F(t, b, c, d) ==
    CASE t < 20 -> xor(and(b, c), and(not(b), d))
      [] t \in 40 .. 59 -> xor(xor(and(b, c), and(b, d)), and(c, d))
      [] OTHER -> xor(xor(b, c), d)

Step(s, t) ==
    LET w == Extend(s.w, t)
        v == s.v
    IN  [w |-> w, v |-> <<Add(Add(Add(Add(rol(v[1], 5), F(t, v[2], v[3], v[4])), v[5]), K(t)), w[t + 1]),
                          v[1], rol(v[2], 30), v[3], v[4]>>]

Compress(digest, block) ==
    LET after[n \in 0 .. 80] ==
            IF n = 0 THEN [w |-> [k \in 1 .. 16 |-> block[k - 1]], v |-> digest]
            ELSE CHOOSE r \in {Step(s, n - 1) : s \in {after[n - 1]}} : TRUE
    IN  AddAll(digest, after[80].v)

StandardHash(text) ==
    LET padded == Padded(text)
        after[n \in 0 .. Len(padded) \div 64] ==
            IF n = 0 THEN Initial
            ELSE Compress(after[n - 1], BufferToBlock(SubSeq(padded, 64 * n - 63, 64 * n)))
        bytes == FlattenSeq(after[Len(padded) \div 64])
    IN  [k \in 1 .. 20 |-> CharOf[bytes[k]]]

\* The standard's example: the hash of "abc".
ASSUME KnownAnswer ==
    LET hex == Chars("a9993e364706816aba3e25717850c26c9cd0d89d")
    IN  FromString(Chars("abc")) = hex /\ StandardHash(Chars("abc")) = HexToBytes(hex)
=============================================================================
