------------------------------ MODULE Bencode ------------------------------
(***************************************************************************)
(* The decoder and the encoder of bencoded data (bencode.hpp), with which  *)
(* the torrent file and the tracker's response are read and the info       *)
(* dictionary is written again for its hash.  The decoder keeps a stack of *)
(* the lists and dictionaries it is inside of; Turn is one turn of its     *)
(* loop.                                                                   *)
(*                                                                         *)
(* A value is <<"int", n>>, <<"str", text>>, <<"list", sequence>> or       *)
(* <<"dict", function from keys to values>>.                               *)
(***************************************************************************)
EXTENDS Text

CONSTANTS MaxInt, Digits10,  \* numeric_limits<integer>::max() and digits10
          SizeDigits10       \* numeric_limits<size_t>::digits10

\* Integers are signed; size_t has as many bits and no sign.
MinInt == -MaxInt - 1
MaxSize == 2 * MaxInt + 1

ASSUME BencodeAssumption ==
    /\ MaxInt \in Nat /\ {Digits10, SizeDigits10} \subseteq Nat \ {0}
    /\ MaxInt \in 10^Digits10 - 1 .. 10^(Digits10 + 1) - 2
    /\ MaxSize \in 10^SizeDigits10 - 1 .. 10^(SizeDigits10 + 1) - 2

----------------------------------------------------------------------------
(* Decoding of numbers and strings.  Each returns the value and the        *)
(* position behind it.  ok is FALSE when the code throws, or is lost: what *)
(* it does then is undefined.                                              *)

Throws == [ok |-> FALSE, at |-> "threw"]
Lost == [ok |-> FALSE, at |-> "lost"]

\* check_overflow and check_underflow: the last digit d must fit behind n, a
\* number of digits10 digits.  Division of a negative number truncates.
FitsUnlessEqual(n, d, limit) ==    \* mutant: the last digit itself does not fit
    ~(n > limit \div 10 \/ (n = limit \div 10 /\ d >= limit % 10))
Fits(n, d, limit) ==
    ~(n > limit \div 10 \/ (n = limit \div 10 /\ d > limit % 10))

\* decode_digits, for a type that ends at limit: digits10 digits always fit, one
\* more is checked, and a number with still more is refused.
DecodeDigits(text, k, limit, digits10) ==
    LET Number(end) ==
            IF \/ end > Len(text) \/ end - k > digits10 + 1
               \/ /\ end - k = digits10 + 1
                  /\ ~Fits(Numeral(SubSeq(text, k, end - 2), 10), DigitOf(text[end - 1]), limit)
            THEN Throws
            ELSE [ok |-> TRUE, value |-> Numeral(SubSeq(text, k, end - 1), 10), next |-> end]
    IN  Number(Span(text, k, ToSet(DigitChars)))

\* decode_int, from the "i" at position k.
DecodeInt(text, k) ==
    LET negative == At(text, k + 1) = "-"
        Integer(digits) ==
            IF ~digits.ok \/ (digits.ok /\ At(text, digits.next) # "e") THEN Throws
            ELSE [ok |-> TRUE, value |-> <<"int", IF negative THEN -digits.value ELSE digits.value>>,
                  next |-> digits.next + 1]
    IN  Integer(IF negative THEN DecodeDigits(text, k + 2, -MinInt, Digits10)
                ELSE DecodeDigits(text, k + 1, MaxInt, Digits10))

\* decode_str, from the first digit of the length at position k.  The length is
\* compared as a ptrdiff_t: one beyond that type is negative there and passes, a
\* string_view is made of more characters than there are, and begin leaves the
\* text, or goes back in it.
DecodeStr(text, k) ==
    LET Characters(first, length) ==
            IF length > MaxInt THEN Lost
            ELSE IF Len(text) + 1 - first < length THEN Throws
            ELSE [ok |-> TRUE, value |-> <<"str", SubSeq(text, first, first + length - 1)>>,
                  next |-> first + length]
        AfterLength(length) ==
            IF ~length.ok \/ (length.ok /\ At(text, length.next) # ":") THEN Throws
            ELSE Characters(length.next + 1, length.value)
    IN  AfterLength(DecodeDigits(text, k, MaxSize, SizeDigits10))

----------------------------------------------------------------------------
(* The loop of basic_decode: the position of *begin, the open containers   *)
(* as [kind, items, key], and the result.                                  *)

Empty == [k \in {} |-> <<>>]
NewList == [kind |-> "list", items |-> <<>>, key |-> <<>>]
NewDict == [kind |-> "dict", items |-> Empty, key |-> <<>>]

Fail(d, failure) == [d EXCEPT !.at = failure.at]
Throw(d) == Fail(d, Throws)
Top(d) == Last(d.state)
InDict(d) == d.state # <<>> /\ Top(d).kind = "dict"

\* store(): into the list or the dictionary on top of the stack, or the result
\* itself; the loop ends when the stack is empty.
Store(d, key, v, next) ==
    LET n == Len(d.state)
    IN  IF n = 0 THEN [d EXCEPT !.begin = next, !.result = v, !.at = "done"]
        ELSE [d EXCEPT !.begin = next,
                 !.state[n].items = IF InDict(d) THEN [k \in {key} |-> v] @@ @ ELSE Append(@, v)]

\* A container is stored where it begins, its contents when they come; the
\* entry it will have waits under "key" and is filled in when it is popped.
Open(d, key, container, next) ==
    LET n == Len(d.state)
        below == IF n = 0 THEN <<>> ELSE [d.state EXCEPT ![n].key = key]
    IN  [d EXCEPT !.begin = next, !.state = Append(below, container)]

\* "e": the container on top is finished and belongs to the one below it.
Close(d) ==
    LET below == [d EXCEPT !.state = Front(@)]
        key == IF below.state = <<>> THEN <<>> ELSE Top(below).key
    IN  IF d.state = <<>> THEN Throw(d)
        ELSE Store(below, key, <<Top(d).kind, Top(d).items>>, d.begin + 1)

\* The key in front of a value in a dictionary, and the position behind it.
KeyHere(text, d) ==
    IF ~InDict(d) THEN [ok |-> TRUE, value |-> <<"str", <<>>>>, next |-> d.begin]
    ELSE IF ~IsDigit(At(text, d.begin)) THEN Throws
    ELSE DecodeStr(text, d.begin)

\* The integer or string at position k.
Atom(text, k) ==
    IF text[k] = "i" THEN DecodeInt(text, k)
    ELSE IF IsDigit(text[k]) THEN DecodeStr(text, k) ELSE Throws

\* An element, with its key; "duplicated key in dict" is noticed at the store.
Element(text, d, key, k) ==
    LET duplicated == InDict(d) /\ key \in DOMAIN Top(d).items
        Put(atom) ==
            IF ~atom.ok THEN Fail(d, atom)
            ELSE IF duplicated THEN Throw(d) ELSE Store(d, key, atom.value, atom.next)
    IN  IF text[k] \notin {"l", "d"} THEN Put(Atom(text, k))
        ELSE IF duplicated THEN Throw(d)
        ELSE Open(d, key, IF text[k] = "l" THEN NewList ELSE NewDict, k + 1)

Turn(text, d) ==
    LET Keyed(key) ==
            IF ~key.ok THEN Fail(d, key)
            ELSE IF key.next > Len(text) THEN Throw(d)
            ELSE Element(text, d, key.value[2], key.next)
    IN  IF d.begin > Len(text) THEN Throw(d)
        ELSE IF text[d.begin] = "e" THEN Close(d)
        ELSE Keyed(KeyHere(text, d))

RECURSIVE Run(_, _)
Run(text, d) == IF d.at = "decoding" THEN Run(text, Turn(text, d)) ELSE d

\* decode_view: the value at the beginning of the text.
Decode(text) ==
    LET Outcome(d) ==
            IF d.at = "done" THEN [ok |-> TRUE, value |-> d.result, next |-> d.begin]
            ELSE [ok |-> FALSE, at |-> d.at]
    IN  Outcome(Run(text, [begin |-> 1, state |-> <<>>, result |-> <<>>, at |-> "decoding"]))

----------------------------------------------------------------------------
(* Encoding.                                                               *)

\* std::map keeps its keys in the order of their characters.
Less(s, t) ==
    \/ IsStrictPrefix(s, t)
    \/ \E k \in DOMAIN s \cap DOMAIN t :
          SubSeq(s, 1, k - 1) = SubSeq(t, 1, k - 1) /\ Code[s[k]] < Code[t[k]]
SortedKeys(f) ==
    [n \in 1 .. Cardinality(DOMAIN f) |->
        CHOOSE s \in DOMAIN f : Cardinality({t \in DOMAIN f : Less(t, s)}) = n - 1]

WriteMagnitude(n) == Decimal[IF n < 0 THEN -n ELSE n]    \* mutant: the sign is lost
WriteInteger(n) == IF n < 0 THEN <<"-">> \o Decimal[-n] ELSE Decimal[n]
EncodeStr(s) == WriteInteger(Len(s)) \o <<":">> \o s

RECURSIVE Encode(_)
Encode(v) ==
    CASE v[1] = "int" -> <<"i">> \o WriteInteger(v[2]) \o <<"e">>
      [] v[1] = "str" -> EncodeStr(v[2])
      [] v[1] = "list" -> <<"l">> \o FlattenSeq([k \in DOMAIN v[2] |-> Encode(v[2][k])]) \o <<"e">>
      [] v[1] = "dict" ->
            LET keys == SortedKeys(v[2])
            IN  <<"d">> \o FlattenSeq([k \in DOMAIN keys |->
                               EncodeStr(keys[k]) \o Encode(v[2][keys[k]])]) \o <<"e">>
=============================================================================
