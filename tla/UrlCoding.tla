----------------------------- MODULE UrlCoding ------------------------------
(* The coding of URLs and forms (engine/src/utils) and what the handlers do  *)
(* with the strings they get from it: pure functions on sequences of bytes.  *)
(* A byte is its value, also where the code looks at a char, whose -1 is the *)
(* byte 255.                                                                 *)
EXTENDS Integers, Sequences, SequencesExt, FiniteSetsExt

Bytes == 0..255

Percent == 37
Amp == 38
EqualSign == 61
Backslash == 92

Digits == 48..57
UpperCase == 65..90
LowerCase == 97..122
Alnum == Digits \cup UpperCase \cup LowerCase

\* The result -1 of HexCharToBin and HexStrToBin.
NoHex == 255

HexCharToBin(ch) == CASE ch \in Digits -> ch - 48
                      [] ch \in 97..102 -> ch - 87
                      [] ch \in 65..70 -> ch - 55
                      [] OTHER -> NoHex

HexStrToBin(first, second) ==
    LET high == HexCharToBin(first)
        low == HexCharToBin(second)
    IN IF NoHex \in {high, low} THEN NoHex ELSE high * 16 + low

HexDigit(n) == IF n < 10 THEN 48 + n ELSE 55 + n

UrlEncode(str) ==
    FlattenSeq([i \in DOMAIN str |->
      IF str[i] \in Alnum THEN <<str[i]>>
      ELSE <<Percent, HexDigit(str[i] \div 16), HexDigit(str[i] % 16)>>])

\* decoded[i] is what is still to be appended at position i.  Three bytes that
\* are no escape stay as they are, and so do the last one or two after a %.
UrlDecode(str) ==
    LET decoded[i \in 1..Len(str) + 3] ==
          IF i > Len(str) THEN <<>>
          ELSE IF str[i] # Percent THEN <<str[i]>> \o decoded[i + 1]
          ELSE IF i + 2 > Len(str) THEN SubSeq(str, i, Len(str))
          ELSE LET ch == HexStrToBin(str[i + 1], str[i + 2])
               IN (IF ch = NoHex THEN SubSeq(str, i, i + 2) ELSE <<ch>>)
                  \o decoded[i + 3]
    IN decoded[1]

----------------------------------------------------------------------------
\* The parts of a string when one byte more is read at its start.
WithByte(ch, separators, parts) ==
    IF ch \in separators THEN << <<>> >> \o parts
    ELSE << <<ch>> \o Head(parts) >> \o Tail(parts)

\* boost::split: the parts between the separators, also the empty ones;
\* parts[i] is those of the string from i on.
Split(str, separators) ==
    LET parts[i \in 1..Len(str) + 1] ==
          IF i > Len(str) THEN << <<>> >>
          ELSE WithByte(str[i], separators, parts[i + 1])
    IN parts[1]

\* The map that inserting the pairs <<name, value>> in turn makes: the first
\* value of a name stays.
FirstValues(pairs) ==
    [name \in {pairs[i][1] : i \in DOMAIN pairs} |->
       pairs[Min({i \in DOMAIN pairs : pairs[i][1] = name})][2]]

NoFields == FirstValues(<<>>)

\* The fields of a form from its pairs, each a name and a value or a name only;
\* not ok when the code throws.
Fields(pairs) ==
    LET value(pair) == IF Len(pair) = 2 THEN pair[2] ELSE <<>>
    IN IF \E i \in DOMAIN pairs : Len(pairs[i]) > 2
         THEN [ok |-> FALSE, fields |-> NoFields]
         ELSE [ok |-> TRUE,
               fields |-> FirstValues([i \in DOMAIN pairs |->
                            <<pairs[i][1], value(pairs[i])>>])]

Pairs(str) ==
    LET parts == Split(str, {Backslash, Amp})
    IN [i \in DOMAIN parts |-> Split(parts[i], {EqualSign})]

\* Mutant: the string is decoded and then split.
ParsedDecodedFirst(str) ==
    IF str = <<>> THEN [ok |-> TRUE, fields |-> NoFields]
    ELSE Fields(Pairs(UrlDecode(str)))

\* ParseXWWWWFormUrlencodedStr
Parsed(str) ==
    LET decoded(pair) == [i \in DOMAIN pair |-> UrlDecode(pair[i])]
    IN IF str = <<>> THEN [ok |-> TRUE, fields |-> NoFields]
       ELSE Fields([i \in DOMAIN Pairs(str) |-> decoded(Pairs(str)[i])])

----------------------------------------------------------------------------
\* boost::algorithm::to_upper
ToUpper(str) ==
    [i \in DOMAIN str |-> IF str[i] \in LowerCase THEN str[i] - 32 ELSE str[i]]

\* IEqualTo and IHash, which compare codes in the currencies cache.
SameCode(a, b) == ToUpper(a) = ToUpper(b)

\* Mutant: the second code starts where the first one ends.
ParseCurrPairOverlapping(str) == <<SubSeq(str, 1, 3), SubSeq(str, 3, 6)>>

\* ParseCurrPair, of a string of the right size.
IsCurrPair(str) == Len(str) = 6
ParseCurrPair(str) == <<SubSeq(str, 1, 3), SubSeq(str, 4, 6)>>

\* Router::Find parses the decoded path once more, as an encoded one.  The rest
\* of a path is the one segment a route has a variable for when it has these
\* bytes only, and escapes (which stay in it), and is no dot segment.
PathBytes == Alnum \cup {33, 36, 38, 39, 40, 41, 42, 43, 44, 45, 46, 58, 59, 61,
                         64, 95, 126}

IsSegment(str) ==
    /\ UrlDecode(str) \notin {<<46>>, <<46, 46>>}
    /\ \A i \in DOMAIN str :
         \/ str[i] \in PathBytes
         \/ /\ str[i] = Percent /\ i + 2 <= Len(str)
            /\ NoHex \notin {HexCharToBin(str[i + 1]), HexCharToBin(str[i + 2])}
============================================================================
