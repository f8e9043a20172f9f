---------------------------- MODULE HttpMessage ----------------------------
(***************************************************************************)
(* The texts of an HTTP exchange (namespace detail of httprequest.hpp):    *)
(* addresses, the request that is made of one, and the header of a         *)
(* response.  A parser returns what it read and the position behind it,    *)
(* ok is FALSE when it throws.                                             *)
(***************************************************************************)
EXTENDS Text

Digit == ToSet(DigitChars)
Alpha == ToSet(Chars("abcdefghijklmnopqrstuvwxyz")) \cup ToSet(Chars("ABCDEFGHIJKLMNOPQRSTUVWXYZ"))
WhiteSpace == {" ", "TAB"}
Token == Digit \cup Alpha \cup ToSet(Chars("!#$%&'*+-.^_|~")) \cup {"x60"}
Visible == {CharOf[n] : n \in 33 .. 126}
ObsoleteText == {CharOf[n] : n \in 128 .. 255}
ValueChar == WhiteSpace \cup Visible \cup ObsoleteText

----------------------------------------------------------------------------
(* parseUri.                                                               *)

SchemeChar == Alpha \cup Digit \cup {"+", "-", "."}
SchemeEnd(text) == IF At(text, 1) \in Alpha THEN Span(text, 2, SchemeChar) ELSE 1
IsUri(text) == At(text, 1) \in Alpha /\ StartsAt(text, SchemeEnd(text), Chars("://"))

ParseUri(text) ==
    LET rest == Before(From(text, SchemeEnd(text) + 3), "#")
        target == Before(rest, "?")
        authority == Before(target, "/")
        userinfo == IF "@" \in ToSet(authority) THEN Before(authority, "@") ELSE <<>>
        host == IF "@" \in ToSet(authority) THEN Behind(authority, "@") ELSE authority
    IN  [scheme |-> SubSeq(text, 1, SchemeEnd(text) - 1),
         user |-> Before(userinfo, ":"), password |-> Behind(userinfo, ":"),
         host |-> Before(host, ":"), port |-> Behind(host, ":"),
         path |-> IF "/" \in ToSet(target) THEN From(target, Place(target, "/")) ELSE <<"/">>,
         query |-> Behind(rest, "?")]

----------------------------------------------------------------------------
(* The request.                                                            *)

Base64 == Chars("ABCDEFGHIJKLMNOPQRSTUVWXYZabcdefghijklmnopqrstuvwxyz0123456789+/")

\* Three bytes make four digits; the last group has as many as it has bits for,
\* and padding.
EncodeBase64Unpadded(text) ==    \* mutant: one digit too few of a last group of two bytes
    LET byte(k) == IF k \in DOMAIN text THEN Code[text[k]] ELSE 0
        triple(g) == 256^2 * byte(3 * g - 2) + 256 * byte(3 * g - 1) + byte(3 * g)
    IN  [j \in 1 .. 4 * ((Len(text) + 2) \div 3) |->
            IF j > (8 * Len(text)) \div 6 THEN "="
            ELSE Base64[((triple((j + 3) \div 4) \div 64^(3 - ((j - 1) % 4))) % 64) + 1]]
EncodeBase64(text) ==
    LET byte(k) == IF k \in DOMAIN text THEN Code[text[k]] ELSE 0
        triple(g) == 256^2 * byte(3 * g - 2) + 256 * byte(3 * g - 1) + byte(3 * g)
    IN  [j \in 1 .. 4 * ((Len(text) + 2) \div 3) |->
            IF j > (8 * Len(text) + 5) \div 6 THEN "="
            ELSE Base64[((triple((j + 3) \div 4) \div 64^(3 - ((j - 1) % 4))) % 64) + 1]]

EncodeRequestLine(target) == Chars("GET ") \o target \o Chars(" HTTP/1.1") \o Crlf
EncodeHeaderField(name, value) == Chars(name) \o Chars(": ") \o value \o Crlf

\* encodeHtml, for a GET without body or further fields; "Invalid header field
\* value" can only be the host's.
Encodable(uri) == ToSet(uri.host) \subseteq ValueChar
EncodeHtml(uri) ==
    EncodeRequestLine(uri.path \o (IF uri.query = <<>> THEN <<>> ELSE <<"?">> \o uri.query))
    \o EncodeHeaderField("Host", uri.host)
    \o EncodeHeaderField("Content-Length", <<"0">>)
    \o (IF uri.user = <<>> /\ uri.password = <<>> THEN <<>>
        ELSE EncodeHeaderField("Authorization",
                 Chars("Basic ") \o EncodeBase64(uri.user \o <<":">> \o uri.password)))
    \o Crlf

----------------------------------------------------------------------------
(* The header of a response: a status line and fields, each with its line  *)
(* break.                                                                  *)

\* parseStatusLine: the position behind "HTTP/1.1 200 OK" and its line break.
ParseStatusLine(header) ==
    LET end == Span(header, 14, ValueChar)
    IN  [ok |-> /\ Len(header) > 13
                /\ StartsAt(header, 1, Chars("HTTP/"))
                /\ header[6] \in Digit /\ header[7] = "." /\ header[8] \in Digit /\ header[9] = " "
                /\ Span(header, 10, Digit) = 13 /\ header[13] = " "
                /\ StartsAt(header, end, Crlf),
         next |-> end + 2]

\* parseFieldContent: values that go on in another line ("obsolete fold") are
\* joined by a space, each trimmed at its end.
Trimmed(text) ==
    SubSeq(text, 1, CHOOSE n \in 0 .. Len(text) :
                        /\ ToSet(From(text, n + 1)) \subseteq WhiteSpace
                        /\ n > 0 => text[n] \notin WhiteSpace)
ParseFieldContent(header, first) ==
    LET content[k \in Nat] ==
            LET stop == Span(header, k, ValueChar)
                value == Trimmed(SubSeq(header, k, stop - 1))
                rest == content[stop + 3]
            IN  IF StartsAt(header, stop, Crlf) /\ At(header, stop + 2) \in WhiteSpace
                THEN [value |-> value \o <<" ">> \o rest.value, next |-> rest.next]
                ELSE [value |-> value, next |-> stop]
    IN  content[first]

\* parseHeaderField.
ParseHeaderField(header, k) ==
    LET colon == Span(header, k, Token)
        Field(content) ==
            IF ~(colon > k /\ At(header, colon) = ":" /\ StartsAt(header, content.next, Crlf))
            THEN [ok |-> FALSE]
            ELSE [ok |-> TRUE, name |-> SubSeq(header, k, colon - 1), value |-> content.value,
                  next |-> content.next + 2]
    IN  Field(ParseFieldContent(header, Span(header, colon + 1, WhiteSpace)))

\* toLower of a name.
Lower(c) == IF Code[c] \in 65 .. 90 THEN CharOf[Code[c] + 32] ELSE c
ToLower(text) == [k \in DOMAIN text |-> Lower(text[k])]

\* The loop of send() over the fields: there must be one, and it ends where the
\* header does.
ParseHeaderFields(header, first) ==
    LET fields[k \in Nat] ==
            LET Rest(next) ==
                    IF next > Len(header) THEN [ok |-> TRUE, fields |-> <<>>] ELSE fields[next]
                Prepend(field, rest) ==
                    IF ~rest.ok THEN rest
                    ELSE [ok |-> TRUE,
                          fields |-> <<[name |-> ToLower(field.name), value |-> field.value]>> \o rest.fields]
                Fields(field) == IF field.ok THEN Prepend(field, Rest(field.next)) ELSE [ok |-> FALSE]
            IN  Fields(ParseHeaderField(header, k))
    IN  fields[first]

\* All of it.
ReadHeader(header) ==
    LET Fields(statusLine) ==
            IF statusLine.ok THEN ParseHeaderFields(header, statusLine.next) ELSE [ok |-> FALSE]
    IN  Fields(ParseStatusLine(header))

\* stringToUint and hexStringToUint, which throw at any other character; numbers
\* here fit in a size_t.
IsUint(text, base) == IsNumber(ToLower(text), base)
ToUint(text, base) == Numeral(ToLower(text), base)
=============================================================================
