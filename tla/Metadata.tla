------------------------------ MODULE Metadata ------------------------------
(***************************************************************************)
(* What the torrent file and the tracker's response say (torrent.cpp), and *)
(* the helpers of common.cpp they are read with: pure operators.           *)
(***************************************************************************)
EXTENDS Bencode, Sha1

CONSTANTS Word,     \* 2^32, the integers of a torrent are uint32_t
          Beyond    \* the bytes that may stand behind a string in memory

HASH_SIZE == 20
ADDRESS_SIZE == 6

ASSUME MetadataAssumption ==
    /\ Word \in Nat \ {0}
    /\ \A bytes \in Beyond : Len(bytes) >= HASH_SIZE

----------------------------------------------------------------------------
(* Dictionaries: dict.at() throws when there is no such key, std::get when *)
(* its value is of another kind.                                           *)

Has(dict, key, kind) == Chars(key) \in DOMAIN dict /\ dict[Chars(key)][1] = kind
Get(dict, key) == dict[Chars(key)][2]

\* What a text decodes to, when that is a dictionary; what follows it in the text
\* is not read.
IsDict(decoded) == decoded.value[1] = "dict"
DictOf(decoded) == decoded.value[2]

\* The loops over hashes and addresses take groups of a size out of a string;
\* they test where a group begins, and a last group that is not complete goes on
\* in the memory beyond the string.
GroupsReadWhole(bytes, size, beyond) ==    \* mutant: a last group that is not complete is not read
    [k \in 1 .. Len(bytes) \div size |-> SubSeq(bytes, size * (k - 1) + 1, size * k)]
Groups(bytes, size, beyond) ==
    [k \in 1 .. (Len(bytes) + size - 1) \div size |->
        SubSeq(bytes \o beyond, size * (k - 1) + 1, size * k)]

----------------------------------------------------------------------------
(* SingleFileTorrent.                                                      *)

\* "ensure it's HTTP"
EnsureHttp(announce) ==
    LET found == Occurrences(announce, Chars("udp"))
        start_pos == First(found)
    IN  IF found = {} THEN announce
        ELSE SubSeq(announce, 1, start_pos - 1) \o Chars("http") \o From(announce, start_pos + 3)

\* The constructor throws, divides by zero, is lost in the decoder, or makes a
\* torrent of what the data decodes to.
TorrentOf(decoded, beyond) ==
    LET dict == DictOf(decoded)
        info == Get(dict, "info")
        piece_length == Get(info, "piece length") % Word
        file_length == Get(info, "length") % Word
    IN  IF ~decoded.ok THEN [at |-> decoded.at]
        ELSE IF \/ ~IsDict(decoded)
                \/ ~(Has(dict, "announce", "str") /\ Has(dict, "info", "dict"))
                \/ ~(Has(info, "piece length", "int") /\ Has(info, "length", "int") /\ Has(info, "name", "str"))
             THEN [at |-> "threw"]
        ELSE IF piece_length = 0 THEN [at |-> "died"]
        ELSE IF ~Has(info, "pieces", "str") THEN [at |-> "threw"]
        ELSE [at |-> "made",
              announce |-> EnsureHttp(Get(dict, "announce")),
              piece_length |-> piece_length,
              file_length |-> file_length,
              filename |-> Get(info, "name"),
              piece_hashes |-> Groups(Get(info, "pieces"), HASH_SIZE, beyond),
              info_hash |-> HashOf(Encode(<<"dict", info>>))]
SingleFileTorrent(data, beyond) == TorrentOf(Decode(data), beyond)

----------------------------------------------------------------------------
(* TrackerResponse and Address.                                            *)

\* An integer read from memory has its lowest byte first there; ntohl and ntohs
\* turn it round.  The highest byte comes first here.
Load(bytes) == Reverse([k \in DOMAIN bytes |-> Code[bytes[k]]])
ntoh(word) == Reverse(word)

AddressAsLoaded(bytes) ==    \* mutant: the port keeps the order of the host's memory
    [raw |-> ntoh(Load(SubSeq(bytes, 1, 4))), port |-> Load(SubSeq(bytes, 5, 6))]
Address(bytes) ==
    [raw |-> ntoh(Load(SubSeq(bytes, 1, 4))), port |-> ntoh(Load(SubSeq(bytes, 5, 6)))]

Dotted(word) == FlattenSeq([k \in 1 .. 4 |-> Decimal[word[k]] \o (IF k < 4 THEN <<".">> ELSE <<>>)])
ip(address) == Dotted(address.raw)
port_str(address) == Decimal[256 * address.port[1] + address.port[2]]

ResponseOf(decoded, beyond) ==
    LET dict == DictOf(decoded)
        peers == Groups(Get(dict, "peers"), ADDRESS_SIZE, beyond)
    IN  IF ~decoded.ok THEN [at |-> decoded.at]
        ELSE IF ~IsDict(decoded) \/ ~(Has(dict, "interval", "int") /\ Has(dict, "peers", "str"))
        THEN [at |-> "threw"]
        ELSE [at |-> "made", interval |-> Get(dict, "interval") % Word,
              peers |-> [k \in DOMAIN peers |-> Address(peers[k])]]
TrackerResponse(data, beyond) == ResponseOf(Decode(data), beyond)

----------------------------------------------------------------------------
(* urlencode.                                                              *)

Unescaped ==
    ToSet(Chars("abcdefghijklmnopqrstuvwxyzABCDEFGHIJKLMNOPQRSTUVWXYZ0123456789-_.!~*'()"))

urlencode(s) ==
    FlattenSeq([k \in DOMAIN s |->
        IF s[k] \in Unescaped THEN <<s[k]>>
        ELSE IF s[k] = " " THEN <<"+">>
        ELSE <<"%">> \o HexOf(Code[s[k]])])
=============================================================================
