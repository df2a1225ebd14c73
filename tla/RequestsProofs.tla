--------------------------- MODULE RequestsProofs ---------------------------
(* Proofs about Requests: what a client sends in a form arrives, what was    *)
(* accepted is found by its code, no two rows differ in case only, and       *)
(* conversions say the same whichever rates they are made from.              *)
(*                                                                           *)
(* The first half is about the functions on texts and holds of texts of any  *)
(* size: encoding, decoding, splitting and joining, by induction.  The       *)
(* library's induction theorems are about operators; here a predicate is the *)
(* set of those that have it.                                                *)
EXTENDS Requests, SequenceTheorems, WellFoundedInduction, TLAPS

----------------------------------------------------------------------------
(* Induction, over sets instead of predicates.                               *)

\* The order of the numbers, as a set of pairs.
LEMMA NatIsWellFounded ==
    IsWellFoundedOn({ss \in Nat \X Nat : ss[1] < ss[2]}, Nat)
BY NatLessThanWellFounded DEF OpToRel

\* A set of numbers has a smallest one.
LEMMA SmallestOf ==
    ASSUME NEW S \in SUBSET Nat, S # {}
    PROVE  \E m \in S : \A k \in S : m <= k
<1>1. PICK m \in S : \A k \in S : <<k, m>> \notin {ss \in Nat \X Nat : ss[1] < ss[2]}
  BY WFMin, NatIsWellFounded
<1>2. ASSUME NEW k \in S, k < m PROVE FALSE
  BY <1>1, <1>2
<1> QED
  BY <1>2

\* From zero on.
LEMMA SetInduction ==
    ASSUME NEW S, 0 \in S, \A n \in Nat : n \in S => n + 1 \in S
    PROVE  Nat \subseteq S
<1> SUFFICES ASSUME Nat \ S # {} PROVE FALSE
  OBVIOUS
<1>1. PICK m \in Nat \ S : \A k \in Nat \ S : m <= k
  BY SmallestOf
<1>2. m # 0 /\ m - 1 \in Nat
  OBVIOUS
<1> QED
  BY <1>1, <1>2

\* From the end of an interval to its start, ...
LEMMA DownwardInduction ==
    ASSUME NEW n \in Nat \ {0}, NEW S, n \in S,
           \A i \in 1..n - 1 : (i + 1)..n \subseteq S => i \in S
    PROVE  1..n \subseteq S
<1> DEFINE T == {k \in Nat : k < n => (n - k)..n \subseteq S}
<1>1. 0 \in T
  OBVIOUS
<1>2. ASSUME NEW k \in Nat, k \in T PROVE k + 1 \in T
  <2> SUFFICES ASSUME k + 1 < n PROVE (n - (k + 1))..n \subseteq S
    OBVIOUS
  <2>1. (n - k)..n \subseteq S
    BY <1>2
  <2>2. n - (k + 1) \in S
    BY <2>1
  <2> QED
    BY <2>1, <2>2
<1>3. Nat \subseteq T
  BY <1>1, <1>2, SetInduction
<1>4. n - 1 \in T
  BY <1>3
<1> QED
  BY <1>4

\* ... and from the start on.
LEMMA UpwardInduction ==
    ASSUME NEW n \in Nat, NEW S,
           \A i \in 1..n : 1..i - 1 \subseteq S => i \in S
    PROVE  1..n \subseteq S
<1> DEFINE T == {k \in Nat : k <= n => 1..k \subseteq S}
<1>1. 0 \in T
  OBVIOUS
<1>2. ASSUME NEW k \in Nat, k \in T PROVE k + 1 \in T
  BY <1>2
<1>3. n \in T
  BY <1>1, <1>2, SetInduction
<1> QED
  BY <1>3

\* Over sequences that grow at the end.
LEMMA SeqInduction ==
    ASSUME NEW A, NEW S, <<>> \in S,
           \A s \in Seq(A), x \in A : s \in S => Append(s, x) \in S
    PROVE  Seq(A) \subseteq S
<1> DEFINE T == {n \in Nat : \A s \in Seq(A) : Len(s) = n => s \in S}
<1>1. 0 \in T
  BY EmptySeq
<1>2. ASSUME NEW n \in Nat, n \in T PROVE n + 1 \in T
  <2> SUFFICES ASSUME NEW s \in Seq(A), Len(s) = n + 1 PROVE s \in S
    OBVIOUS
  <2>1. PICK t \in Seq(A), x \in A : s = Append(t, x)
    BY SequenceEmptyOrAppend, EmptySeq
  <2>2. Len(t) = n
    BY <2>1, AppendProperties, LenProperties
  <2> QED
    BY <1>2, <2>1, <2>2
<1>3. Nat \subseteq T
  BY <1>1, <1>2, SetInduction
<1> QED
  BY <1>3, LenProperties

\* And at the start.
LEMMA ConsInduction ==
    ASSUME NEW A, NEW S, <<>> \in S,
           \A s \in Seq(A), x \in A : s \in S => <<x>> \o s \in S
    PROVE  Seq(A) \subseteq S
<1> DEFINE T == {n \in Nat : \A s \in Seq(A) : Len(s) = n => s \in S}
<1>1. 0 \in T
  BY EmptySeq
<1>2. ASSUME NEW n \in Nat, n \in T PROVE n + 1 \in T
  <2> SUFFICES ASSUME NEW s \in Seq(A), Len(s) = n + 1 PROVE s \in S
    OBVIOUS
  <2>1. s # <<>>
    BY EmptySeq
  <2>2. Head(s) \in A /\ Tail(s) \in Seq(A) /\ Len(Tail(s)) = n
    BY <2>1, HeadTailProperties
  <2>3. s = <<Head(s)>> \o Tail(s)
    BY <2>1, <2>2
  <2> QED
    BY <1>2, <2>2, <2>3
<1>3. Nat \subseteq T
  BY <1>1, <1>2, SetInduction
<1> QED
  BY <1>3, LenProperties

----------------------------------------------------------------------------
(* Decoding.                                                                 *)

\* What decoded[i] is made of the ones after it.
DecodeStep(str, decoded, i) ==
    IF i > Len(str) THEN <<>>
    ELSE IF str[i] # Percent THEN <<str[i]>> \o decoded[i + 1]
    ELSE IF i + 2 > Len(str) THEN SubSeq(str, i, Len(str))
    ELSE LET ch == HexStrToBin(str[i + 1], str[i + 2])
         IN (IF ch = NoHex THEN SubSeq(str, i, i + 2) ELSE <<ch>>)
            \o decoded[i + 3]

\* The values from place i on.
DecodesFrom(str, decoded, i) ==
    decoded = [j \in i..Len(str) + 3 |-> DecodeStep(str, decoded, j)]

\* A step looks at later places only.
LEMMA DecodeStepLooksAhead ==
    ASSUME NEW str, Len(str) \in Nat, NEW i \in Nat, NEW f, NEW g,
           \A j \in i + 1..Len(str) + 3 : f[j] = g[j]
    PROVE  DecodeStep(str, f, i) = DecodeStep(str, g, i)
<1>1. i <= Len(str) => f[i + 1] = g[i + 1] /\ f[i + 3] = g[i + 3]
  OBVIOUS
<1> QED
  BY <1>1 DEF DecodeStep

\* The function that UrlDecode chooses exists, from the last place back.
LEMMA DecodedExists ==
    ASSUME NEW str, Len(str) \in Nat
    PROVE  \E decoded : DecodesFrom(str, decoded, 1)
<1> DEFINE n == Len(str) + 3
           S == {i \in 1..n : \E f : DecodesFrom(str, f, i)}
<1>1. n \in Nat \ {0}
  OBVIOUS
<1>2. n \in S
  <2> DEFINE f == [j \in n..n |-> <<>>]
  <2>1. \A j \in n..n : DecodeStep(str, f, j) = <<>>
    BY DEF DecodeStep
  <2>2. DecodesFrom(str, f, n)
    BY <2>1 DEF DecodesFrom
  <2> QED
    BY <1>1, <2>2
<1>3. ASSUME NEW i \in 1..n - 1, (i + 1)..n \subseteq S
      PROVE  i \in S
  <2>1. i + 1 \in (i + 1)..n
    OBVIOUS
  <2>2. PICK f : DecodesFrom(str, f, i + 1)
    BY <1>3, <2>1
  <2> DEFINE g == [j \in i..n |-> IF j = i THEN DecodeStep(str, f, i) ELSE f[j]]
  <2>3. \A j \in (i + 1)..n : g[j] = f[j]
    OBVIOUS
  <2>4. ASSUME NEW j \in i..n PROVE g[j] = DecodeStep(str, g, j)
    <3>1. DecodeStep(str, g, j) = DecodeStep(str, f, j)
      BY <2>3, DecodeStepLooksAhead
    <3>2. CASE j = i
      BY <3>1, <3>2
    <3>3. CASE j # i
      <4>1. j \in (i + 1)..n
        BY <3>3
      <4>2. f[j] = DecodeStep(str, f, j)
        BY <2>2, <4>1 DEF DecodesFrom
      <4> QED
        BY <2>3, <3>1, <4>1, <4>2
    <3> QED
      BY <3>2, <3>3
  <2>5. DecodesFrom(str, g, i)
    BY <2>4 DEF DecodesFrom
  <2>6. i \in 1..n
    OBVIOUS
  <2> HIDE DEF g, n
  <2> QED
    BY <2>5, <2>6
<1> HIDE DEF S
<1>4. 1..n \subseteq S
  BY <1>1, <1>2, <1>3, DownwardInduction
<1>5. 1 \in S
  BY <1>1, <1>4
<1> QED
  BY <1>5 DEF S

\* So UrlDecode is what its equations say.
LEMMA UrlDecodeUnfolds ==
    ASSUME NEW str, Len(str) \in Nat
    PROVE  \E decoded : DecodesFrom(str, decoded, 1) /\ UrlDecode(str) = decoded[1]
BY DecodedExists DEF DecodesFrom, DecodeStep, UrlDecode

\* Two digits, or what are none, make a byte.
LEMMA HexStrToBinIsByte ==
    ASSUME NEW first \in Bytes, NEW second \in Bytes
    PROVE  HexStrToBin(first, second) \in Bytes
<1>1. \A ch \in Bytes : HexCharToBin(ch) \in 0..15 \cup {NoHex}
  BY DEF Bytes, HexCharToBin, Digits, NoHex
<1>2. PICK high \in 0..15 \cup {NoHex}, low \in 0..15 \cup {NoHex} :
        high = HexCharToBin(first) /\ low = HexCharToBin(second)
  BY <1>1
<1>3. HexStrToBin(first, second)
      = IF NoHex \in {high, low} THEN NoHex ELSE high * 16 + low
  BY <1>2 DEF HexStrToBin
<1>4. CASE NoHex \in {high, low}
  BY <1>3, <1>4 DEF NoHex, Bytes
<1>5. CASE NoHex \notin {high, low}
  <2>1. high \in 0..15 /\ low \in 0..15
    BY <1>5
  <2> QED
    BY <1>3, <1>5, <2>1 DEF Bytes
<1> QED
  BY <1>4, <1>5

\* Decoding makes bytes from bytes.
LEMMA UrlDecodeType ==
    ASSUME NEW str \in Seq(Bytes)
    PROVE  UrlDecode(str) \in Seq(Bytes)
<1>1. Len(str) \in Nat /\ \A i \in 1..Len(str) : str[i] \in Bytes
  BY LenProperties, ElementOfSeq
<1>2. PICK f : DecodesFrom(str, f, 1) /\ UrlDecode(str) = f[1]
  BY <1>1, UrlDecodeUnfolds
<1> DEFINE n == Len(str) + 3
           S == {i \in 1..n : f[i] \in Seq(Bytes)}
<1>3. \A i \in 1..n : f[i] = DecodeStep(str, f, i)
  BY <1>2 DEF DecodesFrom
<1>4. n \in Nat \ {0} /\ <<>> \in Seq(Bytes)
  BY <1>1, EmptySeq
<1>5. n \in S
  <2>1. DecodeStep(str, f, n) = <<>>
    BY <1>1 DEF DecodeStep
  <2>2. n \in 1..n
    BY <1>4
  <2> QED
    BY <1>3, <1>4, <2>1, <2>2
<1>6. ASSUME NEW i \in 1..n - 1, (i + 1)..n \subseteq S
      PROVE  i \in S
  <2>1. CASE i > Len(str)
    <3>1. DecodeStep(str, f, i) = <<>>
      BY <2>1 DEF DecodeStep
    <3>2. i \in 1..n
      BY <1>4
    <3> QED
      BY <1>3, <1>4, <3>1, <3>2
  <2>2. CASE i <= Len(str)
    <3>1. f[i + 1] \in Seq(Bytes) /\ f[i + 3] \in Seq(Bytes)
      BY <1>1, <1>6, <2>2
    <3>2. /\ <<str[i]>> \in Seq(Bytes)
          /\ SubSeq(str, i, Len(str)) \in Seq(Bytes)
      BY <1>1, <2>2, SubSeqProperties
    <3>3. CASE i + 2 <= Len(str)
      <4>1. SubSeq(str, i, i + 2) \in Seq(Bytes)
        BY <1>1, <3>3, SubSeqProperties
      <4>2. <<HexStrToBin(str[i + 1], str[i + 2])>> \in Seq(Bytes)
        BY <1>1, <2>2, <3>3, HexStrToBinIsByte
      <4>3. DecodeStep(str, f, i) \in Seq(Bytes)
        BY <1>1, <2>2, <3>1, <3>2, <3>3, <4>1, <4>2, ConcatProperties DEF DecodeStep
      <4> QED
        BY <1>3, <4>3
    <3>4. CASE i + 2 > Len(str)
      <4>1. DecodeStep(str, f, i) \in Seq(Bytes)
        BY <1>1, <2>2, <3>1, <3>2, <3>4, ConcatProperties DEF DecodeStep
      <4> QED
        BY <1>3, <4>1
    <3> QED
      BY <1>1, <3>3, <3>4
  <2> QED
    BY <1>1, <2>1, <2>2
<1>7. 1 \in 1..n
  BY <1>1
<1> HIDE DEF n
<1>8. 1..n \subseteq S
  <2> HIDE DEF S
  <2> QED
    BY <1>4, <1>5, <1>6, DownwardInduction
<1> QED
  BY <1>2, <1>7, <1>8

\* A string that ends with t: its places after the first k are those of t.
EndsWith(str, k, t) ==
    /\ Len(str) = k + Len(t)
    /\ \A i \in 1..Len(t) : str[i + k] = t[i]

\* Of two strings joined, the second is the end.
LEMMA ConcatEndsWith ==
    ASSUME NEW a \in Seq(Bytes), NEW t \in Seq(Bytes)
    PROVE  EndsWith(a \o t, Len(a), t)
BY ConcatProperties, LenProperties DEF EndsWith

\* A part of the end is a part of the string.
LEMMA SubSeqOfEnd ==
    ASSUME NEW str \in Seq(Bytes), NEW t \in Seq(Bytes), NEW k \in Nat,
           EndsWith(str, k, t), NEW i \in 1..Len(t), NEW j \in 1..Len(t)
    PROVE  SubSeq(t, i, j) = SubSeq(str, i + k, j + k)
<1>1. Len(t) \in Nat
  BY LenProperties
<1>2. \A m \in i..j : t[m] \in Bytes
  BY <1>1, ElementOfSeq
<1>3. \A m \in (i + k)..(j + k) : m - k \in i..j /\ str[m] = t[m - k]
  <2> SUFFICES ASSUME NEW m \in (i + k)..(j + k)
               PROVE  m - k \in i..j /\ str[m] = t[m - k]
    OBVIOUS
  <2>1. m - k \in 1..Len(t) /\ m - k \in i..j /\ m = (m - k) + k
    BY <1>1
  <2> QED
    BY <2>1 DEF EndsWith
<1>4. \A m \in (i + k)..(j + k) : str[m] \in Bytes
  BY <1>2, <1>3
<1>5. /\ SubSeq(t, i, j) \in Seq(Bytes)
      /\ Len(SubSeq(t, i, j)) = IF i <= j THEN j - i + 1 ELSE 0
      /\ \A m \in 1..j - i + 1 : SubSeq(t, i, j)[m] = t[i + m - 1]
  BY <1>1, <1>2, SubSeqProperties
<1>6. /\ SubSeq(str, i + k, j + k) \in Seq(Bytes)
      /\ Len(SubSeq(str, i + k, j + k)) = IF i <= j THEN j - i + 1 ELSE 0
      /\ \A m \in 1..j - i + 1 : SubSeq(str, i + k, j + k)[m] = str[i + k + m - 1]
  BY <1>1, <1>4, SubSeqProperties
<1>7. ASSUME NEW m \in 1..Len(SubSeq(t, i, j))
      PROVE  SubSeq(t, i, j)[m] = SubSeq(str, i + k, j + k)[m]
  <2>1. m \in 1..j - i + 1 /\ i + m - 1 \in 1..Len(t)
    BY <1>1, <1>5
  <2>2. str[(i + m - 1) + k] = t[i + m - 1]
    BY <2>1 DEF EndsWith
  <2> QED
    BY <1>5, <1>6, <2>1, <2>2
<1> QED
  BY <1>5, <1>6, <1>7, SeqEqual

\* The values at the end of a string are those of the end alone.
LEMMA DecodesEnd ==
    ASSUME NEW str \in Seq(Bytes), NEW t \in Seq(Bytes), NEW k \in Nat,
           EndsWith(str, k, t),
           NEW f, DecodesFrom(str, f, 1), NEW g, DecodesFrom(t, g, 1)
    PROVE  f[k + 1] = g[1]
<1>1. Len(str) \in Nat /\ Len(t) \in Nat /\ Len(str) = k + Len(t)
  BY LenProperties DEF EndsWith
<1> DEFINE n == Len(t) + 3
           S == {i \in 1..n : f[i + k] = g[i]}
<1>2. \A i \in 1..n : g[i] = DecodeStep(t, g, i)
  BY DEF DecodesFrom
<1>3. \A i \in 1..n : f[i + k] = DecodeStep(str, f, i + k)
  <2>1. \A i \in 1..n : i + k \in 1..Len(str) + 3
    BY <1>1
  <2> QED
    BY <2>1 DEF DecodesFrom
<1>4. ASSUME NEW i \in 1..n, i > Len(t)
      PROVE  i \in S
  <2>1. DecodeStep(t, g, i) = <<>> /\ DecodeStep(str, f, i + k) = <<>>
    BY <1>1, <1>4 DEF DecodeStep
  <2> QED
    BY <1>2, <1>3, <2>1
<1>5. ASSUME NEW i \in 1..n - 1, (i + 1)..n \subseteq S
      PROVE  i \in S
  <2>1. CASE i > Len(t)
    BY <1>1, <1>4, <2>1
  <2>2. CASE i <= Len(t)
    <3>1. f[(i + k) + 1] = g[i + 1] /\ f[(i + k) + 3] = g[i + 3]
      <4>1. i + 1 \in (i + 1)..n /\ i + 3 \in (i + 1)..n
        BY <1>1, <2>2
      <4>2. (i + 1) + k = (i + k) + 1 /\ (i + 3) + k = (i + k) + 3
        BY <1>1
      <4>3. i + 1 \in S /\ i + 3 \in S
        BY <1>5, <4>1
      <4> QED
        BY <4>2, <4>3
    <3>2. i \in 1..Len(t) /\ str[i + k] = t[i]
      BY <1>1, <2>2 DEF EndsWith
    <3>3. SubSeq(str, i + k, Len(str)) = SubSeq(t, i, Len(t))
      <4>1. Len(t) \in 1..Len(t) /\ Len(t) + k = Len(str)
        BY <1>1, <3>2
      <4>2. SubSeq(t, i, Len(t)) = SubSeq(str, i + k, Len(t) + k)
        BY <3>2, <4>1, SubSeqOfEnd
      <4> QED
        BY <4>1, <4>2
    <3>4. i + k > Len(str) <=> i > Len(t)
      BY <1>1
    <3>5. (i + k) + 2 > Len(str) <=> i + 2 > Len(t)
      BY <1>1
    <3>6. CASE i + 2 <= Len(t)
      <4>1. /\ (i + k) + 1 = (i + 1) + k /\ (i + k) + 2 = (i + 2) + k
            /\ i + 1 \in 1..Len(t) /\ i + 2 \in 1..Len(t)
        BY <1>1, <3>6
      <4>2. str[(i + k) + 1] = t[i + 1] /\ str[(i + k) + 2] = t[i + 2]
        BY <4>1 DEF EndsWith
      <4>3. SubSeq(str, i + k, (i + k) + 2) = SubSeq(t, i, i + 2)
        BY <3>2, <4>1, SubSeqOfEnd
      <4>4. DecodeStep(str, f, i + k) = DecodeStep(t, g, i)
        BY <3>1, <3>2, <3>3, <3>4, <3>5, <4>2, <4>3 DEF DecodeStep
      <4> QED
        BY <1>2, <1>3, <4>4
    <3>7. CASE i + 2 > Len(t)
      <4>1. DecodeStep(str, f, i + k) = DecodeStep(t, g, i)
        BY <2>2, <3>1, <3>2, <3>3, <3>4, <3>5, <3>7 DEF DecodeStep
      <4> QED
        BY <1>2, <1>3, <4>1
    <3> QED
      BY <1>1, <3>6, <3>7
  <2> QED
    BY <1>1, <2>1, <2>2
<1>6. n \in Nat \ {0} /\ n > Len(t) /\ 1 \in 1..n
  BY <1>1
<1>7. n \in S
  BY <1>4, <1>6
<1>8. 1..n \subseteq S
  <2> HIDE DEF S, n
  <2> QED
    BY <1>5, <1>6, <1>7, DownwardInduction
<1>9. 1 \in S
  BY <1>6, <1>8
<1>10. 1 + k = k + 1
  OBVIOUS
<1> QED
  BY <1>9, <1>10

\* What a string decodes to, from its start on.
LEMMA UrlDecodeEmpty == UrlDecode(<<>>) = <<>>
<1>1. PICK f : DecodesFrom(<<>>, f, 1) /\ UrlDecode(<<>>) = f[1]
  BY UrlDecodeUnfolds, EmptySeq
<1>2. f[1] = DecodeStep(<<>>, f, 1)
  BY <1>1, EmptySeq DEF DecodesFrom
<1> QED
  BY <1>1, <1>2, EmptySeq DEF DecodeStep

\* A byte that is no percent sign stays ...
LEMMA UrlDecodeByte ==
    ASSUME NEW c \in Bytes \ {Percent}, NEW t \in Seq(Bytes)
    PROVE  UrlDecode(<<c>> \o t) = <<c>> \o UrlDecode(t)
<1> DEFINE str == <<c>> \o t
<1>1. str \in Seq(Bytes) /\ Len(t) \in Nat /\ Len(str) = 1 + Len(t) /\ str[1] = c
  BY ConcatProperties, LenProperties
<1>2. EndsWith(str, 1, t)
  <2>1. <<c>> \in Seq(Bytes) /\ Len(<<c>>) = 1
    OBVIOUS
  <2> QED
    BY <2>1, ConcatEndsWith
<1> HIDE DEF str
<1>3. PICK f : DecodesFrom(str, f, 1) /\ UrlDecode(str) = f[1]
  BY <1>1, UrlDecodeUnfolds
<1>4. PICK g : DecodesFrom(t, g, 1) /\ UrlDecode(t) = g[1]
  BY <1>1, UrlDecodeUnfolds
<1>5. f[1 + 1] = g[1]
  BY <1>1, <1>2, <1>3, <1>4, DecodesEnd
<1>6. f[1] = DecodeStep(str, f, 1)
  BY <1>1, <1>3 DEF DecodesFrom
<1>7. DecodeStep(str, f, 1) = <<c>> \o f[1 + 1]
  BY <1>1 DEF DecodeStep
<1> QED
  BY <1>3, <1>4, <1>5, <1>6, <1>7 DEF str

\* ... and an escape becomes its byte.
LEMMA UrlDecodeEscape ==
    ASSUME NEW high \in Bytes, NEW low \in Bytes, NEW t \in Seq(Bytes),
           HexStrToBin(high, low) # NoHex
    PROVE  UrlDecode(<<Percent, high, low>> \o t)
           = <<HexStrToBin(high, low)>> \o UrlDecode(t)
<1> DEFINE esc == <<Percent, high, low>>
           str == esc \o t
<1>1. /\ esc \in Seq(Bytes) /\ Len(esc) = 3
      /\ esc[1] = Percent /\ esc[2] = high /\ esc[3] = low
  BY DEF Percent, Bytes
<1> HIDE DEF esc
<1>2. /\ str \in Seq(Bytes) /\ Len(t) \in Nat /\ Len(str) = 3 + Len(t)
      /\ str[1] = Percent /\ str[2] = high /\ str[3] = low
  <2>1. Len(t) \in Nat
    BY LenProperties
  <2>2. /\ str \in Seq(Bytes) /\ Len(str) = 3 + Len(t)
        /\ \A i \in 1..3 + Len(t) : str[i] = IF i <= 3 THEN esc[i] ELSE t[i - 3]
    <3>1. /\ esc \o t \in Seq(Bytes) /\ Len(esc \o t) = Len(esc) + Len(t)
          /\ \A i \in 1..Len(esc) + Len(t) :
               (esc \o t)[i] = IF i <= Len(esc) THEN esc[i] ELSE t[i - Len(esc)]
      BY <1>1, ConcatProperties
    <3> QED
      BY <1>1, <3>1
  <2>3. {1, 2, 3} \subseteq 1..3 + Len(t)
    BY <2>1
  <2> HIDE DEF str
  <2> QED
    BY <1>1, <2>1, <2>2, <2>3
<1>3. EndsWith(str, 3, t)
  BY <1>1, ConcatEndsWith
<1> HIDE DEF str
<1>4. PICK f : DecodesFrom(str, f, 1) /\ UrlDecode(str) = f[1]
  BY <1>2, UrlDecodeUnfolds
<1>5. PICK g : DecodesFrom(t, g, 1) /\ UrlDecode(t) = g[1]
  BY <1>2, UrlDecodeUnfolds
<1>6. f[3 + 1] = g[1]
  BY <1>2, <1>3, <1>4, <1>5, DecodesEnd
<1>7. f[1] = DecodeStep(str, f, 1)
  <2>1. 1 \in 1..Len(str) + 3
    BY <1>2
  <2> QED
    BY <1>4, <2>1 DEF DecodesFrom
<1>8. DecodeStep(str, f, 1) = <<HexStrToBin(high, low)>> \o f[1 + 3]
  <2>1. ~ 1 > Len(str) /\ ~ 1 + 2 > Len(str) /\ 1 + 1 = 2 /\ 1 + 2 = 3
    BY <1>2
  <2> QED
    BY <1>2, <2>1 DEF DecodeStep
<1>9. 1 + 3 = 3 + 1
  OBVIOUS
<1> QED
  BY <1>4, <1>5, <1>6, <1>7, <1>8, <1>9 DEF str, esc

\* A string of letters and digits stays as it is.
LEMMA UrlDecodePlain ==
    ASSUME NEW str \in Seq(Alnum)
    PROVE  UrlDecode(str) = str
<1> DEFINE S == {s \in Seq(Alnum) : UrlDecode(s) = s}
<1>1. <<>> \in S
  BY UrlDecodeEmpty, EmptySeq
<1>2. Alnum \subseteq Bytes \ {Percent}
  BY DEF Alnum, Bytes, Percent, Digits, UpperCase, LowerCase
<1>3. ASSUME NEW s \in Seq(Alnum), NEW c \in Alnum, s \in S
      PROVE  <<c>> \o s \in S
  <2>1. s \in Seq(Bytes)
    BY <1>2, SeqMonotonic
  <2>2. UrlDecode(<<c>> \o s) = <<c>> \o s
    BY <1>2, <1>3, <2>1, UrlDecodeByte
  <2>3. <<c>> \o s \in Seq(Alnum)
    BY ConcatProperties
  <2> QED
    BY <2>2, <2>3
<1>4. Seq(Alnum) \subseteq S
  <2> HIDE DEF S
  <2> QED
    BY <1>1, <1>3, ConsInduction
<1> QED
  BY <1>4

----------------------------------------------------------------------------
(* Joining and encoding.                                                     *)

FlattenStep(seqs, flatten, i) ==
    IF i = 1 THEN seqs[i] ELSE flatten[i - 1] \o seqs[i]

FlattensTo(seqs, flatten, i) ==
    flatten = [j \in 1..i |-> FlattenStep(seqs, flatten, j)]

\* The function that FlattenSeq chooses exists.
LEMMA FlattenedExists ==
    ASSUME NEW seqs, NEW n \in Nat
    PROVE  \E flatten : FlattensTo(seqs, flatten, n)
<1> DEFINE S == {i \in Nat : \E f : FlattensTo(seqs, f, i)}
<1>1. 0 \in S
  <2> DEFINE f == [j \in 1..0 |-> 0]
  <2>1. f = [j \in 1..0 |-> FlattenStep(seqs, f, j)]
    OBVIOUS
  <2>2. FlattensTo(seqs, f, 0)
    BY <2>1 DEF FlattensTo
  <2> QED
    BY <2>2
<1>2. ASSUME NEW i \in Nat, i \in S PROVE i + 1 \in S
  <2>1. PICK f : FlattensTo(seqs, f, i)
    BY <1>2
  <2> DEFINE g == [j \in 1..i + 1 |-> IF j = i + 1 THEN FlattenStep(seqs, f, j)
                                      ELSE f[j]]
  <2>2. \A j \in 1..i : g[j] = f[j]
    OBVIOUS
  <2>3. ASSUME NEW j \in 1..i + 1 PROVE g[j] = FlattenStep(seqs, g, j)
    <3>1. j # 1 => j - 1 \in 1..i
      OBVIOUS
    <3>2. FlattenStep(seqs, g, j) = FlattenStep(seqs, f, j)
      BY <2>2, <3>1 DEF FlattenStep
    <3>3. CASE j = i + 1
      BY <3>2, <3>3
    <3>4. CASE j # i + 1
      <4>1. j \in 1..i
        BY <3>4
      <4>2. f[j] = FlattenStep(seqs, f, j)
        BY <2>1, <4>1 DEF FlattensTo
      <4> QED
        BY <2>2, <3>2, <4>1, <4>2
    <3> QED
      BY <3>3, <3>4
  <2>4. FlattensTo(seqs, g, i + 1)
    BY <2>3 DEF FlattensTo
  <2> HIDE DEF g
  <2> QED
    BY <2>4
<1> HIDE DEF S
<1>3. n \in S
  BY <1>1, <1>2, SetInduction
<1> QED
  BY <1>3 DEF S

\* So FlattenSeq is what its equations say.
LEMMA FlattenSeqUnfolds ==
    ASSUME NEW seqs, Len(seqs) \in Nat \ {0}
    PROVE  \E flatten : /\ FlattensTo(seqs, flatten, Len(seqs))
                        /\ FlattenSeq(seqs) = flatten[Len(seqs)]
BY FlattenedExists DEF FlattensTo, FlattenStep, FlattenSeq

LEMMA FlattenSeqEmpty == FlattenSeq(<<>>) = <<>>
BY EmptySeq DEF FlattenSeq

\* Joined sequences have the elements of the ones they are made of.
LEMMA FlattenSeqType ==
    ASSUME NEW A, NEW seqs \in Seq(Seq(A))
    PROVE  FlattenSeq(seqs) \in Seq(A)
<1>1. CASE seqs = <<>>
  BY <1>1, FlattenSeqEmpty, EmptySeq
<1>2. CASE seqs # <<>>
  <2>1. Len(seqs) \in Nat \ {0} /\ \A i \in 1..Len(seqs) : seqs[i] \in Seq(A)
    BY <1>2, EmptySeq, ElementOfSeq
  <2>2. PICK f : /\ FlattensTo(seqs, f, Len(seqs))
                 /\ FlattenSeq(seqs) = f[Len(seqs)]
    BY <2>1, FlattenSeqUnfolds
  <2> DEFINE S == {i \in 1..Len(seqs) : f[i] \in Seq(A)}
  <2>3. ASSUME NEW i \in 1..Len(seqs), 1..i - 1 \subseteq S
        PROVE  i \in S
    <3>1. f[i] = FlattenStep(seqs, f, i)
      BY <2>2 DEF FlattensTo
    <3>2. CASE i = 1
      BY <2>1, <3>1, <3>2 DEF FlattenStep
    <3>3. CASE i # 1
      <4>1. i - 1 \in 1..i - 1
        BY <2>1, <3>3
      <4>2. f[i - 1] \in Seq(A)
        BY <2>3, <4>1
      <4>3. f[i - 1] \o seqs[i] \in Seq(A)
        BY <2>1, <4>2, ConcatProperties
      <4> QED
        BY <3>1, <3>3, <4>3 DEF FlattenStep
    <3> QED
      BY <3>2, <3>3
  <2>4. 1..Len(seqs) \subseteq S
    <3> HIDE DEF S
    <3> QED
      BY <2>1, <2>3, UpwardInduction
  <2>5. Len(seqs) \in 1..Len(seqs)
    BY <2>1
  <2> QED
    BY <2>2, <2>4, <2>5
<1> QED
  BY <1>1, <1>2

\* One sequence more is joined at the end.
LEMMA FlattenSeqAppend ==
    ASSUME NEW A, NEW seqs \in Seq(Seq(A)), NEW x \in Seq(A)
    PROVE  FlattenSeq(Append(seqs, x)) = FlattenSeq(seqs) \o x
<1> DEFINE more == Append(seqs, x)
           n == Len(seqs)
<1>1. /\ n \in Nat /\ Len(more) = n + 1 /\ more[n + 1] = x
      /\ \A i \in 1..n : more[i] = seqs[i]
  BY LenProperties, AppendProperties
<1> HIDE DEF more
<1>2. PICK g : FlattensTo(more, g, n + 1) /\ FlattenSeq(more) = g[n + 1]
  <2>1. Len(more) \in Nat \ {0}
    BY <1>1
  <2> QED
    BY <1>1, <2>1, FlattenSeqUnfolds
<1>3. g[n + 1] = FlattenStep(more, g, n + 1)
  <2>1. n + 1 \in 1..n + 1
    BY <1>1
  <2> QED
    BY <1>2, <2>1 DEF FlattensTo
<1>4. CASE seqs = <<>>
  <2>1. n = 0
    BY <1>4, EmptySeq
  <2>2. FlattenSeq(more) = x
    BY <1>1, <1>2, <1>3, <2>1 DEF FlattenStep
  <2>3. FlattenSeq(seqs) \o x = x
    BY <1>4, FlattenSeqEmpty, ConcatEmptySeq
  <2> QED
    BY <2>2, <2>3 DEF more
<1>5. CASE seqs # <<>>
  <2>1. n \in Nat \ {0}
    BY <1>5, EmptySeq
  <2>2. PICK f : FlattensTo(seqs, f, n) /\ FlattenSeq(seqs) = f[n]
    BY <2>1, FlattenSeqUnfolds
  <2> DEFINE S == {i \in 1..n : f[i] = g[i]}
  <2>3. ASSUME NEW i \in 1..n, 1..i - 1 \subseteq S
        PROVE  i \in S
    <3>1. f[i] = FlattenStep(seqs, f, i)
      BY <2>2 DEF FlattensTo
    <3>2. g[i] = FlattenStep(more, g, i)
      <4>1. i \in 1..n + 1
        BY <1>1
      <4> QED
        BY <1>2, <4>1 DEF FlattensTo
    <3>3. i # 1 => f[i - 1] = g[i - 1]
      <4>1. i # 1 => i - 1 \in 1..i - 1
        BY <1>1
      <4> QED
        BY <2>3, <4>1
    <3>4. FlattenStep(seqs, f, i) = FlattenStep(more, g, i)
      BY <1>1, <3>3 DEF FlattenStep
    <3> QED
      BY <3>1, <3>2, <3>4
  <2>4. 1..n \subseteq S
    <3> HIDE DEF S
    <3> QED
      BY <1>1, <2>3, UpwardInduction
  <2>5. f[n] = g[n]
    <3>1. n \in 1..n
      BY <2>1
    <3> QED
      BY <2>4, <3>1
  <2>6. FlattenStep(more, g, n + 1) = g[n] \o x
    <3>1. n + 1 # 1 /\ (n + 1) - 1 = n
      BY <2>1
    <3> QED
      BY <1>1, <3>1 DEF FlattenStep
  <2> QED
    BY <1>2, <1>3, <2>2, <2>5, <2>6 DEF more
<1> QED
  BY <1>4, <1>5

\* The code of one byte, and what it consists of.
EncodeByte(c) ==
    IF c \in Alnum THEN <<c>>
    ELSE <<Percent, HexDigit(c \div 16), HexDigit(c % 16)>>

CodeBytes == Alnum \cup {Percent}

\* The code of a byte: itself, or a percent sign and two digits.
LEMMA EncodeByteType ==
    ASSUME NEW c \in Bytes
    PROVE  EncodeByte(c) \in Seq(CodeBytes)
<1>1. CASE c \in Alnum
  BY <1>1 DEF EncodeByte, CodeBytes
<1>2. CASE c \notin Alnum
  <2>1. c \div 16 \in 0..15 /\ c % 16 \in 0..15
    BY DEF Bytes
  <2>2. \A n \in 0..15 : HexDigit(n) \in Alnum
    BY DEF HexDigit, Alnum, Digits, UpperCase
  <2> QED
    BY <1>2, <2>1, <2>2 DEF EncodeByte, CodeBytes
<1> QED
  BY <1>1, <1>2

LEMMA CodeBytesAreBytes == CodeBytes \subseteq Bytes
BY DEF CodeBytes, Alnum, Percent, Bytes, Digits, UpperCase, LowerCase

LEMMA UrlEncodeEmpty == UrlEncode(<<>>) = <<>>
<1>1. [i \in DOMAIN <<>> |-> EncodeByte(<<>>[i])] = <<>>
  OBVIOUS
<1> QED
  BY <1>1, FlattenSeqEmpty DEF UrlEncode, EncodeByte

\* A text is encoded byte by byte.
LEMMA UrlEncodeAppend ==
    ASSUME NEW str \in Seq(Bytes), NEW c \in Bytes
    PROVE  UrlEncode(Append(str, c)) = UrlEncode(str) \o EncodeByte(c)
<1> DEFINE Codes(s) == [i \in DOMAIN s |-> EncodeByte(s[i])]
           more == Append(str, c)
<1>1. \A s : UrlEncode(s) = FlattenSeq(Codes(s))
  BY DEF UrlEncode, EncodeByte
<1>2. /\ Len(str) \in Nat /\ DOMAIN str = 1..Len(str)
      /\ \A i \in 1..Len(str) : str[i] \in Bytes
  BY LenProperties, ElementOfSeq
<1>3. /\ DOMAIN more = 1..Len(str) + 1 /\ more[Len(str) + 1] = c
      /\ \A i \in 1..Len(str) : more[i] = str[i]
  BY AppendProperties, LenProperties
<1>4. Codes(str) \in Seq(Seq(CodeBytes)) /\ Len(Codes(str)) = Len(str)
  <2>1. \A i \in 1..Len(str) : EncodeByte(str[i]) \in Seq(CodeBytes)
    BY <1>2, EncodeByteType
  <2> QED
    BY <1>2, <2>1
<1> HIDE DEF more
<1>5. Codes(more) = Append(Codes(str), EncodeByte(c))
  <2>1. /\ Append(Codes(str), EncodeByte(c)) \in Seq(Seq(CodeBytes))
        /\ Len(Append(Codes(str), EncodeByte(c))) = Len(str) + 1
        /\ \A i \in 1..Len(str) : Append(Codes(str), EncodeByte(c))[i] = Codes(str)[i]
        /\ Append(Codes(str), EncodeByte(c))[Len(str) + 1] = EncodeByte(c)
    <3> HIDE DEF Codes
    <3> QED
      BY <1>4, EncodeByteType, AppendProperties
  <2> DEFINE both == Append(Codes(str), EncodeByte(c))
  <2>2. both = [i \in 1..Len(str) + 1 |-> both[i]]
    BY <2>1, LenProperties
  <2>3. \A i \in 1..Len(str) + 1 : Codes(more)[i] = both[i]
    <3> HIDE DEF both
    <3> SUFFICES ASSUME NEW i \in 1..Len(str) + 1 PROVE Codes(more)[i] = both[i]
      OBVIOUS
    <3>1. CASE i = Len(str) + 1
      BY <1>3, <2>1, <3>1 DEF both
    <3>2. CASE i # Len(str) + 1
      <4>1. i \in 1..Len(str)
        BY <1>2, <3>2
      <4> QED
        BY <1>2, <1>3, <2>1, <4>1 DEF both
    <3> QED
      BY <3>1, <3>2
  <2> HIDE DEF both
  <2>4. Codes(more) = both
    BY <1>3, <2>2, <2>3
  <2> QED
    BY <2>4 DEF both
<1> HIDE DEF Codes
<1>6. FlattenSeq(Codes(more)) = FlattenSeq(Codes(str)) \o EncodeByte(c)
  BY <1>4, <1>5, EncodeByteType, FlattenSeqAppend
<1> QED
  BY <1>1, <1>6 DEF more

\* No encoded text has a separator.
LEMMA UrlEncodeType ==
    ASSUME NEW str \in Seq(Bytes)
    PROVE  UrlEncode(str) \in Seq(CodeBytes)
<1> DEFINE S == {s \in Seq(Bytes) : UrlEncode(s) \in Seq(CodeBytes)}
<1>1. <<>> \in S
  BY UrlEncodeEmpty, EmptySeq
<1>2. ASSUME NEW s \in Seq(Bytes), NEW c \in Bytes, s \in S
      PROVE  Append(s, c) \in S
  <2>1. UrlEncode(s) \o EncodeByte(c) \in Seq(CodeBytes)
    BY <1>2, EncodeByteType, ConcatProperties
  <2> QED
    BY <2>1, UrlEncodeAppend, AppendProperties
<1>3. Seq(Bytes) \subseteq S
  <2> HIDE DEF S
  <2> QED
    BY <1>1, <1>2, SeqInduction
<1> QED
  BY <1>3

\* The code of a byte is decoded to that byte, but for the byte 255.
LEMMA UrlDecodeCode ==
    ASSUME NEW c \in Bytes \ {NoHex}, NEW t \in Seq(Bytes)
    PROVE  UrlDecode(EncodeByte(c) \o t) = <<c>> \o UrlDecode(t)
<1>1. CASE c \in Alnum
  <2>1. c # Percent
    BY <1>1 DEF Alnum, Percent, Digits, UpperCase, LowerCase
  <2> QED
    BY <1>1, <2>1, UrlDecodeByte DEF EncodeByte
<1>2. CASE c \notin Alnum
  <2>1. PICK high \in 0..15, low \in 0..15 :
          high = c \div 16 /\ low = c % 16 /\ c = high * 16 + low
    BY DEF Bytes
  <2>2. ASSUME NEW n \in 0..15
        PROVE  HexDigit(n) \in Bytes /\ HexCharToBin(HexDigit(n)) = n
    <3>1. CASE n < 10
      <4>1. /\ HexDigit(n) = 48 + n /\ HexDigit(n) \in Digits
            /\ HexDigit(n) \notin 97..102 /\ HexDigit(n) \notin 65..70
        BY <3>1 DEF HexDigit, Digits
      <4>2. HexCharToBin(HexDigit(n)) = HexDigit(n) - 48
        BY <4>1 DEF HexCharToBin
      <4> QED
        BY <4>1, <4>2 DEF Bytes
    <3>2. CASE n >= 10
      <4>1. /\ HexDigit(n) = 55 + n /\ HexDigit(n) \notin Digits
            /\ HexDigit(n) \notin 97..102 /\ HexDigit(n) \in 65..70
        BY <3>2 DEF HexDigit, Digits
      <4>2. HexCharToBin(HexDigit(n)) = HexDigit(n) - 55
        BY <4>1 DEF HexCharToBin
      <4> QED
        BY <4>1, <4>2 DEF Bytes
    <3> QED
      BY <3>1, <3>2
  <2>3. HexStrToBin(HexDigit(high), HexDigit(low)) = c
    <3>1. NoHex \notin {high, low}
      BY DEF NoHex
    <3>2. HexCharToBin(HexDigit(high)) = high /\ HexCharToBin(HexDigit(low)) = low
      BY <2>2
    <3> QED
      BY <2>1, <3>1, <3>2 DEF HexStrToBin
  <2>4. UrlDecode(<<Percent, HexDigit(high), HexDigit(low)>> \o t)
        = <<c>> \o UrlDecode(t)
    BY <2>2, <2>3, UrlDecodeEscape
  <2> QED
    BY <1>2, <2>1, <2>4 DEF EncodeByte
<1> QED
  BY <1>1, <1>2

\* What is encoded comes back, whatever its size: UrlDecode of url_coding.cpp
\* undoes UrlEncode, but for the byte 255.
THEOREM UrlDecodeOfUrlEncode ==
    ASSUME NEW str \in Seq(Bytes \ {NoHex})
    PROVE  UrlDecode(UrlEncode(str)) = str
<1> DEFINE Clean == Bytes \ {NoHex}
           S == {s \in Seq(Clean) :
                   \A t \in Seq(Bytes) :
                     UrlDecode(UrlEncode(s) \o t) = s \o UrlDecode(t)}
<1>1. \A s \in Seq(Clean) : s \in Seq(Bytes)
  BY SeqMonotonic
<1>2. <<>> \in S
  BY UrlEncodeEmpty, EmptySeq, ConcatEmptySeq, UrlDecodeType
<1>3. ASSUME NEW s \in Seq(Clean), NEW c \in Clean, s \in S
      PROVE  Append(s, c) \in S
  <2>1. Append(s, c) \in Seq(Clean)
    BY AppendProperties
  <2>2. ASSUME NEW t \in Seq(Bytes)
        PROVE  UrlDecode(UrlEncode(Append(s, c)) \o t) = Append(s, c) \o UrlDecode(t)
    <3>1. /\ UrlEncode(s) \in Seq(Bytes) /\ EncodeByte(c) \in Seq(Bytes)
          /\ EncodeByte(c) \o t \in Seq(Bytes)
      <4>1. UrlEncode(s) \in Seq(CodeBytes) /\ EncodeByte(c) \in Seq(CodeBytes)
        BY <1>1, UrlEncodeType, EncodeByteType
      <4>2. UrlEncode(s) \in Seq(Bytes) /\ EncodeByte(c) \in Seq(Bytes)
        BY <4>1, CodeBytesAreBytes, SeqMonotonic
      <4> QED
        BY <4>2, ConcatProperties
    <3>2. UrlEncode(Append(s, c)) \o t = UrlEncode(s) \o (EncodeByte(c) \o t)
      <4>1. UrlEncode(Append(s, c)) = UrlEncode(s) \o EncodeByte(c)
        BY <1>1, UrlEncodeAppend
      <4> QED
        BY <3>1, <4>1, ConcatAssociative
    <3>3. UrlDecode(UrlEncode(s) \o (EncodeByte(c) \o t))
          = s \o UrlDecode(EncodeByte(c) \o t)
      BY <1>3, <3>1
    <3>4. UrlDecode(EncodeByte(c) \o t) = <<c>> \o UrlDecode(t)
      BY UrlDecodeCode
    <3>5. s \o (<<c>> \o UrlDecode(t)) = (s \o <<c>>) \o UrlDecode(t)
      <4>1. s \in Seq(Bytes) /\ <<c>> \in Seq(Bytes) /\ UrlDecode(t) \in Seq(Bytes)
        BY <1>1, UrlDecodeType
      <4> QED
        BY <4>1, ConcatAssociative
    <3>6. Append(s, c) = s \o <<c>>
      BY AppendIsConcat
    <3> QED
      BY <3>2, <3>3, <3>4, <3>5, <3>6
  <2> QED
    BY <2>1, <2>2
<1>4. Seq(Clean) \subseteq S
  <2> HIDE DEF S, Clean
  <2> QED
    BY <1>2, <1>3, SeqInduction
<1>5. UrlDecode(UrlEncode(str) \o <<>>) = str \o UrlDecode(<<>>)
  BY <1>4, EmptySeq
<1>6. UrlEncode(str) \in Seq(CodeBytes) /\ str \in Seq(Bytes)
  BY <1>1, UrlEncodeType
<1> QED
  BY <1>5, <1>6, UrlDecodeEmpty, ConcatEmptySeq

----------------------------------------------------------------------------
(* Splitting.                                                                *)

SplitStep(str, separators, parts, i) ==
    IF i > Len(str) THEN << <<>> >>
    ELSE WithByte(str[i], separators, parts[i + 1])

\* The values from place i on.
SplitsFrom(str, separators, parts, i) ==
    parts = [j \in i..Len(str) + 1 |-> SplitStep(str, separators, parts, j)]

\* A step looks at the next place only.
LEMMA SplitStepLooksAhead ==
    ASSUME NEW str, NEW separators, Len(str) \in Nat, NEW i \in Nat, NEW f, NEW g,
           \A j \in i + 1..Len(str) + 1 : f[j] = g[j]
    PROVE  SplitStep(str, separators, f, i) = SplitStep(str, separators, g, i)
<1>1. i <= Len(str) => f[i + 1] = g[i + 1]
  OBVIOUS
<1> QED
  BY <1>1 DEF SplitStep

\* The function that Split chooses exists, from the last place back.
LEMMA SplitExists ==
    ASSUME NEW str, NEW separators, Len(str) \in Nat
    PROVE  \E parts : SplitsFrom(str, separators, parts, 1)
<1> DEFINE n == Len(str) + 1
           Step(f, i) == SplitStep(str, separators, f, i)
           S == {i \in 1..n : \E f : SplitsFrom(str, separators, f, i)}
<1>1. n \in Nat \ {0}
  OBVIOUS
<1>2. n \in S
  <2> DEFINE f == [j \in n..n |-> << <<>> >>]
  <2>1. \A j \in n..n : Step(f, j) = << <<>> >>
    BY DEF SplitStep
  <2>2. SplitsFrom(str, separators, f, n)
    BY <2>1 DEF SplitsFrom
  <2> QED
    BY <1>1, <2>2
<1>3. ASSUME NEW i \in 1..n - 1, (i + 1)..n \subseteq S
      PROVE  i \in S
  <2>1. i + 1 \in (i + 1)..n
    OBVIOUS
  <2>2. PICK f : SplitsFrom(str, separators, f, i + 1)
    BY <1>3, <2>1
  <2> DEFINE g == [j \in i..n |-> IF j = i THEN Step(f, i) ELSE f[j]]
  <2>3. \A j \in (i + 1)..n : g[j] = f[j]
    OBVIOUS
  <2>4. ASSUME NEW j \in i..n PROVE g[j] = Step(g, j)
    <3>1. Step(g, j) = Step(f, j)
      BY <2>3, SplitStepLooksAhead
    <3>2. CASE j = i
      BY <3>1, <3>2
    <3>3. CASE j # i
      <4>1. j \in (i + 1)..n
        BY <3>3
      <4>2. f[j] = Step(f, j)
        BY <2>2, <4>1 DEF SplitsFrom
      <4> QED
        BY <2>3, <3>1, <4>1, <4>2
    <3> QED
      BY <3>2, <3>3
  <2>5. SplitsFrom(str, separators, g, i)
    BY <2>4 DEF SplitsFrom
  <2>6. i \in 1..n
    OBVIOUS
  <2> HIDE DEF g, n
  <2> QED
    BY <2>5, <2>6
<1> HIDE DEF S
<1>4. 1..n \subseteq S
  BY <1>1, <1>2, <1>3, DownwardInduction
<1>5. 1 \in S
  BY <1>1, <1>4
<1> QED
  BY <1>5 DEF S

\* So Split is what its equations say.
LEMMA SplitUnfolds ==
    ASSUME NEW str, NEW separators, Len(str) \in Nat
    PROVE  \E parts : /\ SplitsFrom(str, separators, parts, 1)
                      /\ Split(str, separators) = parts[1]
<1>1. \E parts : SplitsFrom(str, separators, parts, 1)
  BY SplitExists
<1> DEFINE parts == CHOOSE p : SplitsFrom(str, separators, p, 1)
<1>2. SplitsFrom(str, separators, parts, 1)
  BY <1>1
<1>3. Split(str, separators) = parts[1]
  BY DEF SplitsFrom, SplitStep, Split
<1> QED
  BY <1>2, <1>3

\* The values at the end of a string are those of the end alone.
LEMMA SplitsEnd ==
    ASSUME NEW str \in Seq(Bytes), NEW t \in Seq(Bytes), NEW k \in Nat,
           NEW separators, EndsWith(str, k, t),
           NEW f, SplitsFrom(str, separators, f, 1),
           NEW g, SplitsFrom(t, separators, g, 1)
    PROVE  f[k + 1] = g[1]
<1>1. Len(str) \in Nat /\ Len(t) \in Nat /\ Len(str) = k + Len(t)
  BY LenProperties DEF EndsWith
<1> DEFINE n == Len(t) + 1
           S == {i \in 1..n : f[i + k] = g[i]}
<1>2. \A i \in 1..n : g[i] = SplitStep(t, separators, g, i)
  BY DEF SplitsFrom
<1>3. \A i \in 1..n : f[i + k] = SplitStep(str, separators, f, i + k)
  <2>1. \A i \in 1..n : i + k \in 1..Len(str) + 1
    BY <1>1
  <2> QED
    BY <2>1 DEF SplitsFrom
<1>4. n \in Nat \ {0} /\ n > Len(t) /\ n \in 1..n /\ 1 \in 1..n
  BY <1>1
<1>5. n \in S
  <2>1. SplitStep(t, separators, g, n) = << <<>> >>
    BY <1>1 DEF SplitStep
  <2>2. SplitStep(str, separators, f, n + k) = << <<>> >>
    BY <1>1 DEF SplitStep
  <2> QED
    BY <1>2, <1>3, <1>4, <2>1, <2>2
<1>6. ASSUME NEW i \in 1..n - 1, (i + 1)..n \subseteq S
      PROVE  i \in S
  <2>1. i + 1 \in (i + 1)..n /\ (i + 1) + k = (i + k) + 1
    BY <1>1
  <2>2. f[(i + k) + 1] = g[i + 1]
    BY <1>6, <2>1
  <2>3. i \in 1..Len(t) /\ i \in 1..n
    BY <1>1
  <2>4. str[i + k] = t[i] /\ ~ i > Len(t) /\ ~ i + k > Len(str)
    BY <1>1, <2>3 DEF EndsWith
  <2>5. SplitStep(t, separators, g, i) = SplitStep(str, separators, f, i + k)
    BY <2>2, <2>4 DEF SplitStep
  <2> QED
    BY <1>2, <1>3, <2>3, <2>5
<1>7. 1..n \subseteq S
  <2> HIDE DEF S, n
  <2> QED
    BY <1>4, <1>5, <1>6, DownwardInduction
<1>8. f[1 + k] = g[1]
  BY <1>4, <1>7
<1>9. 1 + k = k + 1
  OBVIOUS
<1> QED
  BY <1>8, <1>9

LEMMA SplitEmpty == \A separators : Split(<<>>, separators) = << <<>> >>
<1> SUFFICES ASSUME NEW separators PROVE Split(<<>>, separators) = << <<>> >>
  OBVIOUS
<1>1. PICK f : SplitsFrom(<<>>, separators, f, 1) /\ Split(<<>>, separators) = f[1]
  BY SplitUnfolds, EmptySeq
<1>2. f[1] = SplitStep(<<>>, separators, f, 1)
  BY <1>1, EmptySeq DEF SplitsFrom
<1> QED
  BY <1>1, <1>2, EmptySeq DEF SplitStep

\* What a string is split into, from its start on.
LEMMA SplitByte ==
    ASSUME NEW c \in Bytes, NEW t \in Seq(Bytes), NEW separators
    PROVE  Split(<<c>> \o t, separators) = WithByte(c, separators, Split(t, separators))
<1> DEFINE str == <<c>> \o t
<1>1. str \in Seq(Bytes) /\ Len(t) \in Nat /\ Len(str) = 1 + Len(t) /\ str[1] = c
  BY ConcatProperties, LenProperties
<1>2. EndsWith(str, 1, t)
  <2>1. <<c>> \in Seq(Bytes) /\ Len(<<c>>) = 1
    OBVIOUS
  <2> QED
    BY <2>1, ConcatEndsWith
<1> HIDE DEF str
<1>3. PICK f : SplitsFrom(str, separators, f, 1) /\ Split(str, separators) = f[1]
  BY <1>1, SplitUnfolds
<1>4. PICK g : SplitsFrom(t, separators, g, 1) /\ Split(t, separators) = g[1]
  BY <1>1, SplitUnfolds
<1>5. f[1 + 1] = g[1]
  BY <1>1, <1>2, <1>3, <1>4, SplitsEnd
<1>6. f[1] = SplitStep(str, separators, f, 1)
  BY <1>1, <1>3 DEF SplitsFrom
<1>7. SplitStep(str, separators, f, 1) = WithByte(c, separators, f[1 + 1])
  BY <1>1 DEF SplitStep
<1> QED
  BY <1>3, <1>4, <1>5, <1>6, <1>7 DEF str

LEMMA WithByteType ==
    ASSUME NEW c \in Bytes, NEW separators,
           NEW parts \in Seq(Seq(Bytes)), parts # <<>>
    PROVE  /\ WithByte(c, separators, parts) \in Seq(Seq(Bytes))
           /\ WithByte(c, separators, parts) # <<>>
<1> DEFINE Texts == Seq(Bytes)
<1>1. /\ Head(parts) \in Texts /\ Tail(parts) \in Seq(Texts)
      /\ <<>> \in Texts /\ <<c>> \in Texts
  BY HeadTailProperties, EmptySeq
<1>2. <<c>> \o Head(parts) \in Texts
  BY <1>1, ConcatProperties
<1> HIDE DEF Texts
<1>3. ASSUME NEW x \in Texts, NEW rest \in Seq(Texts)
      PROVE  <<x>> \o rest \in Seq(Texts) /\ <<x>> \o rest # <<>>
  <2>1. <<x>> \in Seq(Texts) /\ <<x>> # <<>>
    OBVIOUS
  <2> QED
    BY <2>1, ConcatProperties, ConcatEqualIffEmpty
<1>4. parts \in Seq(Texts)
  BY DEF Texts
<1> QED
  BY <1>1, <1>2, <1>3, <1>4 DEF WithByte, Texts

\* A string is split into texts, at least one.
LEMMA SplitType ==
    ASSUME NEW str \in Seq(Bytes), NEW separators
    PROVE  Split(str, separators) \in Seq(Seq(Bytes)) \ {<<>>}
<1> DEFINE S == {s \in Seq(Bytes) :
                   Split(s, separators) \in Seq(Seq(Bytes)) \ {<<>>}}
<1>1. <<>> \in S
  <2>1. << <<>> >> \in Seq(Seq(Bytes)) /\ << <<>> >> # <<>>
    BY EmptySeq
  <2> QED
    BY <2>1, SplitEmpty, EmptySeq
<1>2. ASSUME NEW s \in Seq(Bytes), NEW c \in Bytes, s \in S
      PROVE  <<c>> \o s \in S
  <2>1. <<c>> \o s \in Seq(Bytes)
    BY ConcatProperties
  <2> QED
    BY <1>2, <2>1, SplitByte, WithByteType
<1>3. Seq(Bytes) \subseteq S
  <2> HIDE DEF S
  <2> QED
    BY <1>1, <1>2, ConsInduction
<1> QED
  BY <1>3

\* Without a separator there is one part.
LEMMA SplitOfWhole ==
    ASSUME NEW A \in SUBSET Bytes, NEW separators, A \cap separators = {},
           NEW str \in Seq(A)
    PROVE  Split(str, separators) = <<str>>
<1> DEFINE S == {s \in Seq(A) : Split(s, separators) = <<s>>}
<1>1. <<>> \in S
  BY SplitEmpty, EmptySeq
<1>2. ASSUME NEW s \in Seq(A), NEW c \in A, s \in S
      PROVE  <<c>> \o s \in S
  <2>1. <<c>> \o s \in Seq(A)
    BY ConcatProperties
  <2>2. s \in Seq(Bytes) /\ c \in Bytes /\ c \notin separators
    BY SeqMonotonic
  <2>3. Split(<<c>> \o s, separators) = WithByte(c, separators, <<s>>)
    BY <1>2, <2>2, SplitByte
  <2>4. Head(<<s>>) = s /\ Tail(<<s>>) = <<>>
    OBVIOUS
  <2>5. << <<c>> \o s >> \o <<>> = << <<c>> \o s >>
    <3> DEFINE x == <<c>> \o s
    <3> HIDE DEF x
    <3>1. <<x>> \in Seq({x})
      OBVIOUS
    <3>2. <<x>> \o <<>> = <<x>>
      BY <3>1, ConcatEmptySeq
    <3> QED
      BY <3>2 DEF x
  <2> QED
    BY <2>1, <2>2, <2>3, <2>4, <2>5 DEF WithByte
<1>3. Seq(A) \subseteq S
  <2> HIDE DEF S
  <2> QED
    BY <1>1, <1>2, ConsInduction
<1> QED
  BY <1>3

\* The parts at the start and the one at the end do not meet.
LEMMA WithByteAppend ==
    ASSUME NEW c \in Bytes, NEW separators,
           NEW parts \in Seq(Seq(Bytes)), parts # <<>>, NEW b \in Seq(Bytes)
    PROVE  WithByte(c, separators, Append(parts, b))
           = Append(WithByte(c, separators, parts), b)
<1> DEFINE Texts == Seq(Bytes)
<1>1. /\ Head(parts) \in Texts /\ Tail(parts) \in Seq(Texts) /\ parts \in Seq(Texts)
      /\ <<>> \in Texts /\ <<c>> \in Texts /\ b \in Texts
  BY HeadTailProperties, EmptySeq
<1>2. <<c>> \o Head(parts) \in Texts
  BY <1>1, ConcatProperties
<1> HIDE DEF Texts
<1>3. /\ Head(Append(parts, b)) = Head(parts)
      /\ Tail(Append(parts, b)) = Append(Tail(parts), b)
  BY <1>1, HeadTailAppend
<1>4. ASSUME NEW x \in Texts, NEW rest \in Seq(Texts)
      PROVE  <<x>> \o Append(rest, b) = Append(<<x>> \o rest, b)
  <2>1. <<x>> \in Seq(Texts) /\ <<b>> \in Seq(Texts)
    BY <1>1
  <2>2. <<x>> \o (rest \o <<b>>) = (<<x>> \o rest) \o <<b>>
    BY <2>1, ConcatAssociative
  <2>3. <<x>> \o rest \in Seq(Texts)
    BY <2>1, ConcatProperties
  <2>4. Append(rest, b) = rest \o <<b>>
    BY <1>1, AppendIsConcat
  <2>5. Append(<<x>> \o rest, b) = (<<x>> \o rest) \o <<b>>
    BY <1>1, <2>3, AppendIsConcat
  <2> QED
    BY <2>2, <2>4, <2>5
<1>5. CASE c \in separators
  <2>1. << <<>> >> \o Append(parts, b) = Append(<< <<>> >> \o parts, b)
    BY <1>1, <1>4
  <2> QED
    BY <1>5, <2>1 DEF WithByte
<1>6. CASE c \notin separators
  <2> DEFINE x == <<c>> \o Head(parts)
  <2>1. <<x>> \o Append(Tail(parts), b) = Append(<<x>> \o Tail(parts), b)
    <3> HIDE DEF x
    <3>1. x \in Texts
      BY <1>2 DEF x
    <3> QED
      BY <1>1, <1>4, <3>1
  <2> QED
    BY <1>3, <1>6, <2>1 DEF WithByte
<1> QED
  BY <1>5, <1>6

\* What is joined with a separator is split there.
LEMMA SplitAppend ==
    ASSUME NEW separators, NEW sep \in Bytes, sep \in separators,
           NEW b \in Seq(Bytes), Split(b, separators) = <<b>>,
           NEW a \in Seq(Bytes)
    PROVE  Split(a \o (<<sep>> \o b), separators) = Append(Split(a, separators), b)
<1> DEFINE S == {s \in Seq(Bytes) :
                   Split(s \o (<<sep>> \o b), separators)
                   = Append(Split(s, separators), b)}
           tail == <<sep>> \o b
<1>1. tail \in Seq(Bytes)
  BY ConcatProperties
<1>2. <<>> \in S
  <2>1. Split(<<sep>> \o b, separators) = << <<>> >> \o <<b>>
    <3>1. Split(<<sep>> \o b, separators) = WithByte(sep, separators, <<b>>)
      BY SplitByte
    <3> QED
      BY <3>1 DEF WithByte
  <2>2. Append(<< <<>> >>, b) = << <<>> >> \o <<b>>
    OBVIOUS
  <2>3. <<>> \o tail = tail
    BY <1>1, ConcatEmptySeq
  <2> QED
    BY <2>1, <2>2, <2>3, SplitEmpty, EmptySeq
<1>3. ASSUME NEW s \in Seq(Bytes), NEW c \in Bytes, s \in S
      PROVE  <<c>> \o s \in S
  <2>1. /\ <<c>> \in Seq(Bytes) /\ <<c>> \o s \in Seq(Bytes)
        /\ s \o tail \in Seq(Bytes)
    BY <1>1, ConcatProperties
  <2>2. (<<c>> \o s) \o tail = <<c>> \o (s \o tail)
    BY <1>1, <2>1, ConcatAssociative
  <2>3. Split(<<c>> \o (s \o tail), separators)
        = WithByte(c, separators, Append(Split(s, separators), b))
    <3>1. Split(<<c>> \o (s \o tail), separators)
          = WithByte(c, separators, Split(s \o tail, separators))
      BY <2>1, SplitByte
    <3> QED
      BY <1>3, <3>1
  <2>4. WithByte(c, separators, Append(Split(s, separators), b))
        = Append(WithByte(c, separators, Split(s, separators)), b)
    BY SplitType, WithByteAppend
  <2>5. Split(<<c>> \o s, separators) = WithByte(c, separators, Split(s, separators))
    BY SplitByte
  <2> QED
    BY <2>1, <2>2, <2>3, <2>4, <2>5
<1>4. Seq(Bytes) \subseteq S
  <2> HIDE DEF S
  <2> QED
    BY <1>2, <1>3, ConsInduction
<1> QED
  BY <1>4

----------------------------------------------------------------------------
(* Forms.                                                                    *)

Texts == Seq(Bytes)
Forms == Seq(Texts \X Texts)

\* One field of a form as it is sent.
FieldCode(field) == UrlEncode(field[1]) \o <<EqualSign>> \o UrlEncode(field[2])

FieldBytes == CodeBytes \cup {EqualSign}

\* The code of a field has no separator of fields.
LEMMA FieldCodeType ==
    ASSUME NEW field \in Texts \X Texts
    PROVE  /\ FieldCode(field) \in Seq(FieldBytes)
           /\ FieldCode(field) \in Texts
           /\ FieldCode(field) # <<>>
<1>1. /\ UrlEncode(field[1]) \in Seq(CodeBytes) /\ UrlEncode(field[2]) \in Seq(CodeBytes)
  BY UrlEncodeType DEF Texts
<1>2. /\ UrlEncode(field[1]) \in Seq(FieldBytes) /\ UrlEncode(field[2]) \in Seq(FieldBytes)
      /\ <<EqualSign>> \in Seq(FieldBytes)
  BY <1>1, SeqMonotonic DEF FieldBytes
<1>3. /\ UrlEncode(field[1]) \o <<EqualSign>> \in Seq(FieldBytes)
      /\ UrlEncode(field[1]) \o <<EqualSign>> # <<>>
  BY <1>2, ConcatProperties, ConcatEqualIffEmpty
<1>4. FieldCode(field) \in Seq(FieldBytes) /\ FieldCode(field) # <<>>
  BY <1>2, <1>3, ConcatProperties, ConcatEqualIffEmpty DEF FieldCode
<1>5. FieldBytes \subseteq Bytes
  BY CodeBytesAreBytes DEF FieldBytes, EqualSign, Bytes
<1> QED
  BY <1>4, <1>5, SeqMonotonic DEF Texts

\* Places, not fields: the first one has no separator before it.
Piece(form, i) ==
    (IF i = 1 THEN <<>> ELSE <<Amp>>)
    \o UrlEncode(form[i][1]) \o <<EqualSign>> \o UrlEncode(form[i][2])

LEMMA PieceIsFieldCode ==
    ASSUME NEW form, NEW i, form[i] \in Texts \X Texts
    PROVE  /\ Piece(form, i) = IF i = 1 THEN FieldCode(form[i])
                               ELSE <<Amp>> \o FieldCode(form[i])
           /\ Piece(form, i) \in Texts
<1> DEFINE name == UrlEncode(form[i][1])
           value == UrlEncode(form[i][2])
           eq == <<EqualSign>>
<1>1. name \in Texts /\ value \in Texts /\ eq \in Texts /\ <<Amp>> \in Texts
  <2>1. name \in Seq(CodeBytes) /\ value \in Seq(CodeBytes)
    BY UrlEncodeType DEF Texts
  <2>2. name \in Seq(Bytes) /\ value \in Seq(Bytes)
    BY <2>1, CodeBytesAreBytes, SeqMonotonic
  <2>3. eq \in Seq(Bytes) /\ <<Amp>> \in Seq(Bytes)
    BY DEF EqualSign, Amp, Bytes
  <2> QED
    BY <2>2, <2>3 DEF Texts
<1>2. FieldCode(form[i]) = name \o eq \o value
  BY DEF FieldCode
<1>3. Piece(form, i) = IF i = 1 THEN ((<<>> \o name) \o eq) \o value
                       ELSE ((<<Amp>> \o name) \o eq) \o value
  BY DEF Piece
<1> HIDE DEF name, value, eq
<1>4. <<>> \o name = name
  BY <1>1, ConcatEmptySeq DEF Texts
<1>5. ((<<Amp>> \o name) \o eq) \o value = <<Amp>> \o ((name \o eq) \o value)
  <2>1. name \o eq \in Texts
    BY <1>1, ConcatProperties DEF Texts
  <2>2. (<<Amp>> \o name) \o eq = <<Amp>> \o (name \o eq)
    BY <1>1, ConcatAssociative DEF Texts
  <2>3. (<<Amp>> \o (name \o eq)) \o value = <<Amp>> \o ((name \o eq) \o value)
    BY <1>1, <2>1, ConcatAssociative DEF Texts
  <2> QED
    BY <2>2, <2>3
<1>6. /\ Piece(form, i) = IF i = 1 THEN FieldCode(form[i])
                          ELSE <<Amp>> \o FieldCode(form[i])
  BY <1>2, <1>3, <1>4, <1>5
<1>7. FieldCode(form[i]) \in Texts
  BY FieldCodeType
<1>8. <<Amp>> \o FieldCode(form[i]) \in Texts
  BY <1>1, <1>7, ConcatProperties DEF Texts
<1> QED
  BY <1>6, <1>7, <1>8

LEMMA WireEmpty == Wire(<<>>) = <<>>
<1>1. [i \in DOMAIN <<>> |-> Piece(<<>>, i)] = <<>>
  OBVIOUS
<1> QED
  BY <1>1, FlattenSeqEmpty DEF Wire, Piece

\* One field more is joined with the separator.
LEMMA WireAppend ==
    ASSUME NEW form \in Forms, NEW field \in Texts \X Texts
    PROVE  Wire(Append(form, field))
           = Wire(form) \o (IF form = <<>> THEN FieldCode(field)
                            ELSE <<Amp>> \o FieldCode(field))
<1> DEFINE Pieces(f) == [i \in DOMAIN f |-> Piece(f, i)]
           more == Append(form, field)
           last1 == Piece(more, Len(form) + 1)
<1>1. \A f : Wire(f) = FlattenSeq(Pieces(f))
  BY DEF Wire, Piece
<1>2. /\ Len(form) \in Nat /\ DOMAIN form = 1..Len(form)
      /\ \A i \in 1..Len(form) : form[i] \in Texts \X Texts
  BY LenProperties, ElementOfSeq DEF Forms
<1>3. /\ DOMAIN more = 1..Len(form) + 1 /\ more[Len(form) + 1] = field
      /\ \A i \in 1..Len(form) : more[i] = form[i]
  BY AppendProperties, LenProperties DEF Forms
<1> HIDE DEF more
<1>4. last1 \in Texts
  BY <1>3, PieceIsFieldCode
<1>5. Pieces(form) \in Seq(Texts) /\ Len(Pieces(form)) = Len(form)
  <2>1. \A i \in 1..Len(form) : Piece(form, i) \in Texts
    BY <1>2, PieceIsFieldCode
  <2> QED
    BY <1>2, <2>1
<1>6. \A i \in 1..Len(form) : Piece(more, i) = Piece(form, i)
  BY <1>3 DEF Piece
<1> HIDE DEF last1
<1>7. Pieces(more) = Append(Pieces(form), last1)
  <2> DEFINE both == Append(Pieces(form), last1)
  <2>1. /\ both \in Seq(Texts)
        /\ Len(both) = Len(form) + 1
        /\ \A i \in 1..Len(form) : both[i] = Pieces(form)[i]
        /\ both[Len(form) + 1] = last1
    <3> HIDE DEF Pieces
    <3> QED
      BY <1>4, <1>5, AppendProperties
  <2>2. both = [i \in 1..Len(form) + 1 |-> both[i]]
    BY <2>1, LenProperties
  <2>3. ASSUME NEW i \in 1..Len(form) + 1 PROVE Pieces(more)[i] = both[i]
    <3> HIDE DEF both
    <3>1. CASE i = Len(form) + 1
      BY <1>3, <2>1, <3>1 DEF last1
    <3>2. CASE i # Len(form) + 1
      <4>1. i \in 1..Len(form)
        BY <1>2, <3>2
      <4> QED
        BY <1>2, <1>3, <1>6, <2>1, <4>1
    <3> QED
      BY <3>1, <3>2
  <2> HIDE DEF both
  <2>4. Pieces(more) = both
    BY <1>3, <2>2, <2>3
  <2> QED
    BY <2>4 DEF both
<1> HIDE DEF Pieces
<1>8. FlattenSeq(Pieces(more)) = FlattenSeq(Pieces(form)) \o last1
  BY <1>4, <1>5, <1>7, FlattenSeqAppend DEF Texts
<1>9. last1 = IF form = <<>> THEN FieldCode(field) ELSE <<Amp>> \o FieldCode(field)
  <2>1. Len(form) + 1 = 1 <=> form = <<>>
    BY <1>2, EmptySeq DEF Forms
  <2> QED
    BY <1>3, <2>1, PieceIsFieldCode DEF last1
<1> QED
  BY <1>1, <1>8, <1>9 DEF more

\* A form is sent as a text.
LEMMA WireType ==
    ASSUME NEW form \in Forms
    PROVE  Wire(form) \in Texts /\ (form # <<>> => Wire(form) # <<>>)
<1> DEFINE S == {f \in Forms : Wire(f) \in Texts /\ (f # <<>> => Wire(f) # <<>>)}
<1>1. <<>> \in S
  BY WireEmpty, EmptySeq DEF Forms, Texts
<1>2. ASSUME NEW f \in Forms, NEW field \in Texts \X Texts, f \in S
      PROVE  Append(f, field) \in S
  <2> DEFINE x == IF f = <<>> THEN FieldCode(field) ELSE <<Amp>> \o FieldCode(field)
  <2>1. FieldCode(field) \in Texts /\ FieldCode(field) # <<>>
    BY FieldCodeType
  <2>2. x \in Texts /\ x # <<>>
    <3>1. <<Amp>> \in Texts /\ <<Amp>> # <<>>
      BY DEF Texts, Amp, Bytes
    <3> QED
      BY <2>1, <3>1, ConcatProperties, ConcatEqualIffEmpty DEF Texts
  <2> HIDE DEF x
  <2>3. Wire(f) \o x \in Texts /\ Wire(f) \o x # <<>>
    BY <1>2, <2>2, ConcatProperties, ConcatEqualIffEmpty DEF Texts
  <2>4. Append(f, field) \in Forms
    BY AppendProperties DEF Forms
  <2> QED
    BY <2>3, <2>4, WireAppend DEF x
<1>3. Forms \subseteq S
  <2> HIDE DEF S
  <2> QED
    BY <1>1, <1>2, SeqInduction DEF Forms
<1> QED
  BY <1>3

\* A body is split into the fields it was joined from.
LEMMA SplitOfWire ==
    ASSUME NEW form \in Forms, form # <<>>
    PROVE  Split(Wire(form), {Backslash, Amp})
           = [i \in 1..Len(form) |-> FieldCode(form[i])]
<1> DEFINE Codes(f) == [i \in 1..Len(f) |-> FieldCode(f[i])]
           separators == {Backslash, Amp}
           S == {f \in Forms : f # <<>> => Split(Wire(f), separators) = Codes(f)}
<1>1. FieldBytes \in SUBSET Bytes /\ FieldBytes \cap separators = {}
  BY CodeBytesAreBytes DEF FieldBytes, CodeBytes, Alnum, Digits, UpperCase, LowerCase,
     EqualSign, Percent, Bytes, Backslash, Amp
<1> HIDE DEF separators
<1>2. <<>> \in S
  BY EmptySeq DEF Forms
<1>3. ASSUME NEW f \in Forms, NEW field \in Texts \X Texts, f \in S
      PROVE  Append(f, field) \in S
  <2> DEFINE more == Append(f, field)
             code == FieldCode(field)
  <2>1. /\ more \in Forms /\ Len(f) \in Nat /\ Len(more) = Len(f) + 1
        /\ more[Len(f) + 1] = field /\ \A i \in 1..Len(f) : more[i] = f[i]
    BY AppendProperties, LenProperties DEF Forms
  <2>2. code \in Texts /\ Split(code, separators) = <<code>>
    BY <1>1, FieldCodeType, SplitOfWhole
  <2>3. CASE f = <<>>
    <3>1. Len(f) = 0
      BY <2>3, EmptySeq
    <3>2. Wire(more) = code
      <4>1. Wire(more) = <<>> \o code
        BY <2>3, WireAppend, WireEmpty
      <4> QED
        BY <2>2, <4>1, ConcatEmptySeq DEF Texts
    <3>3. Codes(more) = <<code>>
      <4> HIDE DEF more
      <4>1. Len(more) = 1 /\ more[1] = field
        BY <2>1, <3>1
      <4> QED
        BY <4>1
    <3> QED
      BY <2>1, <2>2, <3>2, <3>3
  <2>4. CASE f # <<>>
    <3> DEFINE parts == Split(Wire(f), separators)
    <3>1. Wire(more) = Wire(f) \o (<<Amp>> \o code)
      BY <2>4, WireAppend
    <3>2. Split(Wire(more), separators) = Append(parts, code)
      <4>1. Amp \in Bytes /\ Amp \in separators
        BY DEF Amp, Bytes, separators
      <4> QED
        BY <2>2, <3>1, <4>1, WireType, SplitAppend DEF Texts
    <3>3. parts = Codes(f) /\ parts \in Seq(Texts)
      BY <1>3, <2>4, WireType, SplitType DEF Texts
    <3>4. Append(parts, code) = Codes(more)
      <4> DEFINE both == Append(parts, code)
      <4>1. Len(parts) = Len(f) /\ \A i \in 1..Len(f) : parts[i] = FieldCode(f[i])
        BY <2>1, <3>3
      <4> HIDE DEF parts
      <4>2. /\ both \in Seq(Texts) /\ Len(both) = Len(f) + 1
            /\ \A i \in 1..Len(f) : both[i] = parts[i]
            /\ both[Len(f) + 1] = code
        BY <2>2, <3>3, <4>1, AppendProperties
      <4> HIDE DEF both, more
      <4>3. both = [i \in 1..Len(f) + 1 |-> both[i]]
        BY <4>2, LenProperties
      <4>4. ASSUME NEW i \in 1..Len(f) + 1 PROVE both[i] = FieldCode(more[i])
        <5>1. CASE i = Len(f) + 1
          BY <2>1, <4>2, <5>1
        <5>2. CASE i # Len(f) + 1
          <6>1. i \in 1..Len(f)
            BY <2>1, <5>2
          <6> QED
            BY <2>1, <4>1, <4>2, <6>1
        <5> QED
          BY <5>1, <5>2
      <4>5. both = Codes(more)
        BY <2>1, <4>3, <4>4
      <4> QED
        BY <4>5 DEF both, more
    <3> QED
      BY <2>1, <3>2, <3>4
  <2> QED
    BY <2>3, <2>4
<1>4. Forms \subseteq S
  <2> HIDE DEF S
  <2> QED
    BY <1>2, <1>3, SeqInduction DEF Forms
<1> QED
  BY <1>4 DEF separators

\* Names and values without the byte 255.
CleanTexts == Seq(Bytes \ {NoHex})

\* A field is split into the codes of its name and its value.
LEMMA SplitOfFieldCode ==
    ASSUME NEW field \in Texts \X Texts
    PROVE  Split(FieldCode(field), {EqualSign})
           = <<UrlEncode(field[1]), UrlEncode(field[2])>>
<1> DEFINE name == UrlEncode(field[1])
           value == UrlEncode(field[2])
<1>1. name \in Seq(CodeBytes) /\ value \in Seq(CodeBytes)
  BY UrlEncodeType DEF Texts
<1>2. CodeBytes \in SUBSET Bytes /\ CodeBytes \cap {EqualSign} = {}
  BY CodeBytesAreBytes DEF CodeBytes, Alnum, Digits, UpperCase, LowerCase, EqualSign,
     Percent
<1> HIDE DEF name, value
<1>3. name \in Seq(Bytes) /\ value \in Seq(Bytes)
  BY <1>1, <1>2, SeqMonotonic
<1>4. EqualSign \in Bytes
  BY DEF EqualSign, Bytes
<1>5. /\ Split(name, {EqualSign}) = <<name>>
      /\ Split(value, {EqualSign}) = <<value>>
  BY <1>1, <1>2, SplitOfWhole
<1>6. Split(name \o (<<EqualSign>> \o value), {EqualSign}) = Append(<<name>>, value)
  BY <1>3, <1>4, <1>5, SplitAppend
<1>7. Append(<<name>>, value) = <<name, value>>
  <2> SUFFICES ASSUME NEW x, NEW y PROVE Append(<<x>>, y) = <<x, y>>
    OBVIOUS
  <2>1. <<x>> \in Seq({x, y}) /\ Len(<<x>>) = 1 /\ <<x>>[1] = x
    OBVIOUS
  <2>2. /\ Append(<<x>>, y) \in Seq({x, y}) /\ Len(Append(<<x>>, y)) = 2
        /\ Append(<<x>>, y)[1] = x /\ Append(<<x>>, y)[2] = y
    BY <2>1, AppendProperties
  <2>3. <<x, y>> \in Seq({x, y}) /\ Len(<<x, y>>) = 2 /\ <<x, y>>[1] = x /\ <<x, y>>[2] = y
    OBVIOUS
  <2> DEFINE a == Append(<<x>>, y)
             b == <<x, y>>
  <2>4. a \in Seq({x, y}) /\ b \in Seq({x, y}) /\ Len(a) = Len(b)
    BY <2>2, <2>3
  <2>5. \A i \in 1..Len(a) : a[i] = b[i]
    <3>1. \A i \in 1..Len(a) : i = 1 \/ i = 2
      BY <2>2
    <3> QED
      BY <2>2, <2>3, <3>1
  <2> HIDE DEF a, b
  <2>6. a = b
    BY <2>4, <2>5, SeqEqual
  <2> QED
    BY <2>6 DEF a, b
<1>8. FieldCode(field) = name \o (<<EqualSign>> \o value)
  <2>1. <<EqualSign>> \in Seq(Bytes)
    BY <1>4
  <2>2. FieldCode(field) = (name \o <<EqualSign>>) \o value
    BY DEF FieldCode, name, value
  <2> QED
    BY <1>3, <2>1, <2>2, ConcatAssociative
<1> QED
  BY <1>6, <1>7, <1>8 DEF name, value

\* A form of any size is read as it was filled in: what UrlEncode and the
\* separators make of it, ParseXWWWWFormUrlencodedStr takes apart
\* (x_www_form_urlencoded.cpp).
THEOREM FormArrives ==
    ASSUME NEW form \in Seq(CleanTexts \X CleanTexts), form # <<>>
    PROVE  Parsed(Wire(form)) = [ok |-> TRUE, fields |-> FirstValues(form)]
<1> DEFINE n == Len(form)
           str == Wire(form)
           pairs == Pairs(str)
           decoded(pair) == [i \in DOMAIN pair |-> UrlDecode(pair[i])]
           read == [i \in DOMAIN pairs |-> decoded(pairs[i])]
<1>1. CleanTexts \subseteq Texts
  BY SeqMonotonic DEF CleanTexts, Texts
<1>2. form \in Forms
  <2>1. CleanTexts \X CleanTexts \subseteq Texts \X Texts
    BY <1>1
  <2> QED
    BY <2>1, SeqMonotonic DEF Forms
<1>3. /\ n \in Nat /\ DOMAIN form = 1..n
      /\ \A i \in 1..n : /\ form[i] \in CleanTexts \X CleanTexts
                         /\ form[i] \in Texts \X Texts
  BY <1>2, LenProperties, ElementOfSeq DEF Forms
<1>4. pairs = [i \in 1..n |-> <<UrlEncode(form[i][1]), UrlEncode(form[i][2])>>]
  <2>1. Split(str, {Backslash, Amp}) = [i \in 1..n |-> FieldCode(form[i])]
    BY <1>2, SplitOfWire
  <2>2. pairs = [i \in 1..n |-> Split(FieldCode(form[i]), {EqualSign})]
    BY <2>1 DEF Pairs
  <2> QED
    BY <1>3, <2>2, SplitOfFieldCode
<1> HIDE DEF pairs
<1>5. ASSUME NEW i \in 1..n
      PROVE  decoded(pairs[i]) = form[i]
  <2>1. pairs[i] = <<UrlEncode(form[i][1]), UrlEncode(form[i][2])>>
    BY <1>4
  <2>2. /\ UrlDecode(UrlEncode(form[i][1])) = form[i][1]
        /\ UrlDecode(UrlEncode(form[i][2])) = form[i][2]
    BY <1>3, UrlDecodeOfUrlEncode DEF CleanTexts
  <2>3. decoded(pairs[i]) = <<form[i][1], form[i][2]>>
    BY <2>1, <2>2
  <2>4. form[i] = <<form[i][1], form[i][2]>>
    BY <1>3
  <2> QED
    BY <2>3, <2>4
<1>6. read = form
  <2>1. DOMAIN pairs = 1..n
    BY <1>4
  <2>2. read = [i \in 1..n |-> form[i]]
    BY <1>5, <2>1
  <2>3. form = [i \in 1..n |-> form[i]]
    BY <1>2, <1>3, LenProperties DEF Forms
  <2> QED
    BY <2>2, <2>3
<1>7. Fields(form) = [ok |-> TRUE, fields |-> FirstValues(form)]
  <2> DEFINE value(pair) == IF Len(pair) = 2 THEN pair[2] ELSE <<>>
  <2>1. \A i \in DOMAIN form : Len(form[i]) = 2 /\ form[i] = <<form[i][1], form[i][2]>>
    BY <1>3
  <2>2. [i \in DOMAIN form |-> <<form[i][1], value(form[i])>>] = form
    <3>1. \A i \in DOMAIN form : <<form[i][1], value(form[i])>> = form[i]
      BY <2>1
    <3>2. form = [i \in DOMAIN form |-> form[i]]
      BY <1>2, <1>3, LenProperties DEF Forms
    <3> QED
      BY <3>1, <3>2
  <2>3. ~ \E i \in DOMAIN form : Len(form[i]) > 2
    <3>1. \A i \in DOMAIN form : ~ (Len(form[i]) > 2)
      <4> SUFFICES ASSUME NEW i \in DOMAIN form PROVE ~ (Len(form[i]) > 2)
        OBVIOUS
      <4>1. Len(form[i]) = 2
        BY <2>1
      <4> QED
        BY <4>1, SMT
    <3> QED
      BY <3>1
  <2> QED
    BY <2>2, <2>3 DEF Fields
<1>8. str # <<>>
  BY <1>2, WireType
<1>9. Parsed(str) = Fields(read)
  BY <1>8 DEF Parsed, pairs
<1> QED
  BY <1>6, <1>7, <1>9

----------------------------------------------------------------------------
\* The values that a form is read as are texts.
LEMMA FirstValuesType ==
    ASSUME NEW n \in Nat, NEW pairs, DOMAIN pairs = 1..n,
           \A i \in 1..n : pairs[i][2] \in Texts,
           NEW name \in DOMAIN FirstValues(pairs)
    PROVE  FirstValues(pairs)[name] \in Texts
<1> DEFINE S == {i \in DOMAIN pairs : pairs[i][1] = name}
<1>1. name \in {pairs[i][1] : i \in DOMAIN pairs} /\ FirstValues(pairs)[name] = pairs[Min(S)][2]
  BY DEF FirstValues
<1>2. S # {} /\ S \subseteq 1..n /\ S \in SUBSET Nat
  BY <1>1
<1> HIDE DEF S
<1>3. \E m \in S : \A k \in S : m <= k
  BY <1>2, SmallestOf
<1>4. Min(S) \in S
  BY <1>3 DEF Min
<1> QED
  BY <1>1, <1>2, <1>4

LEMMA NoFieldsIsEmpty == DOMAIN NoFields = {}
BY DEF NoFields, FirstValues

\* With or without a value,
LEMMA FieldsType ==
    ASSUME NEW n \in Nat, NEW pairs, DOMAIN pairs = 1..n,
           \A i \in 1..n : pairs[i] \in Seq(Texts),
           NEW name \in DOMAIN Fields(pairs).fields
    PROVE  Fields(pairs).fields[name] \in Texts
<1> DEFINE value(pair) == IF Len(pair) = 2 THEN pair[2] ELSE <<>>
           whole == [i \in DOMAIN pairs |-> <<pairs[i][1], value(pairs[i])>>]
<1>1. CASE \E i \in DOMAIN pairs : Len(pairs[i]) > 2
  BY <1>1, NoFieldsIsEmpty DEF Fields
<1>2. CASE ~ \E i \in DOMAIN pairs : Len(pairs[i]) > 2
  <2>1. Fields(pairs).fields = FirstValues(whole)
    BY <1>2 DEF Fields
  <2>2. ASSUME NEW i \in 1..n PROVE value(pairs[i]) \in Texts
    <3>1. <<>> \in Texts
      BY EmptySeq DEF Texts
    <3>2. ASSUME Len(pairs[i]) = 2 PROVE pairs[i][2] \in Texts
      <4>1. pairs[i] \in Seq(Texts) /\ 2 \in 1..Len(pairs[i])
        BY <3>2
      <4> QED
        BY <4>1, ElementOfSeq
    <3> QED
      BY <3>1, <3>2
  <2>3. DOMAIN whole = 1..n /\ \A i \in 1..n : whole[i][2] \in Texts
    BY <2>2
  <2> HIDE DEF whole
  <2> QED
    BY <2>1, <2>3, FirstValuesType
<1> QED
  BY <1>1, <1>2

\* and whatever the body.
LEMMA ParsedType ==
    ASSUME NEW str \in Texts, NEW name \in DOMAIN Parsed(str).fields
    PROVE  Parsed(str).fields[name] \in Texts
<1> DEFINE parts == Split(str, {Backslash, Amp})
           pairs == Pairs(str)
           decoded(pair) == [i \in DOMAIN pair |-> UrlDecode(pair[i])]
           read == [i \in DOMAIN pairs |-> decoded(pairs[i])]
           n == Len(parts)
<1>1. parts \in Seq(Texts) /\ n \in Nat /\ DOMAIN parts = 1..n
      /\ \A i \in 1..n : parts[i] \in Texts
  <2>1. parts \in Seq(Texts)
    BY SplitType DEF Texts
  <2> HIDE DEF parts
  <2> QED
    BY <2>1, LenProperties, ElementOfSeq
<1>2. DOMAIN pairs = 1..n /\ \A i \in 1..n : pairs[i] = Split(parts[i], {EqualSign})
  BY <1>1 DEF Pairs
<1> HIDE DEF parts, pairs, n
<1>3. \A i \in 1..n : pairs[i] \in Seq(Texts)
  BY <1>1, <1>2, SplitType DEF Texts
<1>4. ASSUME NEW i \in 1..n PROVE decoded(pairs[i]) \in Seq(Texts)
  <2>1. pairs[i] \in Seq(Texts)
    BY <1>3
  <2>2. /\ Len(pairs[i]) \in Nat /\ DOMAIN pairs[i] = 1..Len(pairs[i])
        /\ \A j \in 1..Len(pairs[i]) : pairs[i][j] \in Texts
    BY <2>1, LenProperties, ElementOfSeq
  <2>3. \A j \in 1..Len(pairs[i]) : UrlDecode(pairs[i][j]) \in Texts
    BY <2>2, UrlDecodeType DEF Texts
  <2> QED
    BY <2>2, <2>3
<1>5. DOMAIN read = 1..n /\ \A i \in 1..n : read[i] \in Seq(Texts)
  BY <1>2, <1>4
<1>6. Parsed(str).fields = IF str = <<>> THEN NoFields ELSE Fields(read).fields
  BY DEF Parsed, pairs
<1> HIDE DEF read
<1>7. n \in Nat
  BY <1>1
<1>8. CASE str = <<>>
  BY <1>6, <1>8, NoFieldsIsEmpty
<1>9. CASE str # <<>>
  BY <1>5, <1>6, <1>7, <1>9, FieldsType
<1> QED
  BY <1>8, <1>9

----------------------------------------------------------------------------
(* Codes.                                                                    *)

\* Upper case changes no size.
LEMMA ToUpperProperties ==
    ASSUME NEW str \in Texts
    PROVE  /\ ToUpper(str) \in Texts /\ Len(ToUpper(str)) = Len(str)
           /\ ToUpper(str) # <<>> <=> str # <<>>
<1>1. /\ Len(str) \in Nat /\ DOMAIN str = 1..Len(str)
      /\ \A i \in 1..Len(str) : str[i] \in Bytes
  BY LenProperties, ElementOfSeq DEF Texts
<1>2. /\ DOMAIN ToUpper(str) = 1..Len(str)
      /\ ToUpper(str) = [i \in 1..Len(str) |->
                           IF str[i] \in LowerCase THEN str[i] - 32 ELSE str[i]]
  BY <1>1 DEF ToUpper
<1>3. \A i \in 1..Len(str) :
        (IF str[i] \in LowerCase THEN str[i] - 32 ELSE str[i]) \in Bytes
  BY <1>1 DEF LowerCase, Bytes
<1>4. ToUpper(str) \in Seq(Bytes) /\ Len(ToUpper(str)) = Len(str)
  BY <1>1, <1>2, <1>3
<1>5. /\ str # <<>> <=> Len(str) # 0
      /\ ToUpper(str) # <<>> <=> Len(ToUpper(str)) # 0
  BY <1>4, EmptySeq DEF Texts
<1> QED
  BY <1>4, <1>5 DEF Texts

\* Two texts joined are in upper case when both are.
LEMMA ToUpperConcat ==
    ASSUME NEW a \in Texts, NEW b \in Texts
    PROVE  ToUpper(a \o b) = ToUpper(a) \o ToUpper(b)
<1> DEFINE up(ch) == IF ch \in LowerCase THEN ch - 32 ELSE ch
           both == a \o b
           A == ToUpper(a)
           B == ToUpper(b)
<1>1. /\ A \in Texts /\ Len(A) = Len(a) /\ B \in Texts /\ Len(B) = Len(b)
      /\ Len(a) \in Nat /\ Len(b) \in Nat
      /\ both \in Texts /\ Len(both) = Len(a) + Len(b)
      /\ ToUpper(both) \in Texts /\ Len(ToUpper(both)) = Len(a) + Len(b)
  BY ToUpperProperties, ConcatProperties, LenProperties DEF Texts
<1>2. \A s \in Texts : \A i \in 1..Len(s) : ToUpper(s)[i] = up(s[i])
  <2> SUFFICES ASSUME NEW s \in Texts, NEW i \in 1..Len(s)
               PROVE  ToUpper(s)[i] = up(s[i])
    OBVIOUS
  <2>1. DOMAIN s = 1..Len(s)
    BY LenProperties DEF Texts
  <2> QED
    BY <2>1 DEF ToUpper
<1>3. \A i \in 1..Len(a) + Len(b) :
        both[i] = IF i <= Len(a) THEN a[i] ELSE b[i - Len(a)]
  BY ConcatProperties DEF Texts
<1> HIDE DEF A, B, both, up
<1>4. A \o B \in Texts /\ Len(A \o B) = Len(a) + Len(b)
      /\ \A i \in 1..Len(a) + Len(b) :
           (A \o B)[i] = IF i <= Len(a) THEN A[i] ELSE B[i - Len(a)]
  <2>1. A \in Seq(Bytes) /\ B \in Seq(Bytes)
    BY <1>1 DEF Texts
  <2>2. /\ A \o B \in Seq(Bytes) /\ Len(A \o B) = Len(A) + Len(B)
        /\ \A i \in 1..Len(A) + Len(B) :
             (A \o B)[i] = IF i <= Len(A) THEN A[i] ELSE B[i - Len(A)]
    BY <2>1, ConcatProperties
  <2> QED
    BY <1>1, <2>2 DEF Texts
<1>5. ASSUME NEW i \in 1..Len(a) + Len(b) PROVE ToUpper(both)[i] = (A \o B)[i]
  <2>1. i \in 1..Len(both)
    BY <1>1
  <2>2. ToUpper(both)[i] = up(both[i])
    BY <1>1, <1>2, <2>1
  <2>3. CASE i <= Len(a)
    <3>1. i \in 1..Len(a)
      BY <1>1, <2>3
    <3>2. A[i] = up(a[i])
      BY <1>2, <3>1 DEF A
    <3> QED
      BY <1>3, <1>4, <2>2, <2>3, <3>2
  <2>4. CASE ~ (i <= Len(a))
    <3>1. i - Len(a) \in 1..Len(b)
      BY <1>1, <2>4
    <3>2. B[i - Len(a)] = up(b[i - Len(a)])
      BY <1>2, <3>1 DEF B
    <3> QED
      BY <1>3, <1>4, <2>2, <2>4, <3>2
  <2> QED
    BY <2>3, <2>4
<1>6. ToUpper(both) = A \o B
  BY <1>1, <1>4, <1>5, SeqEqual DEF Texts
<1> QED
  BY <1>6 DEF both, A, B

\* Sequences of the same first part and the same rest, whose first parts are of
\* the same size.
LEMMA ConcatSplits ==
    ASSUME NEW a \in Texts, NEW b \in Texts, NEW c \in Texts, NEW d \in Texts,
           Len(a) = Len(c), a \o b = c \o d
    PROVE  a = c /\ b = d
<1> DEFINE ab == a \o b
           cd == c \o d
<1>1. /\ Len(a) \in Nat /\ Len(b) \in Nat /\ Len(d) \in Nat
      /\ Len(ab) = Len(a) + Len(b) /\ Len(cd) = Len(a) + Len(d)
      /\ \A i \in 1..Len(a) + Len(b) : ab[i] = IF i <= Len(a) THEN a[i] ELSE b[i - Len(a)]
      /\ \A i \in 1..Len(a) + Len(d) : cd[i] = IF i <= Len(a) THEN c[i] ELSE d[i - Len(a)]
  <2>1. Len(a) \in Nat /\ Len(b) \in Nat /\ Len(d) \in Nat
    BY LenProperties DEF Texts
  <2>2. /\ Len(ab) = Len(a) + Len(b)
        /\ \A i \in 1..Len(a) + Len(b) : ab[i] = IF i <= Len(a) THEN a[i] ELSE b[i - Len(a)]
    BY ConcatProperties DEF Texts
  <2>3. /\ Len(cd) = Len(c) + Len(d)
        /\ \A i \in 1..Len(c) + Len(d) : cd[i] = IF i <= Len(c) THEN c[i] ELSE d[i - Len(c)]
    BY ConcatProperties DEF Texts
  <2> HIDE DEF ab, cd
  <2> QED
    BY <2>1, <2>2, <2>3
<1>2. ab = cd
  OBVIOUS
<1> HIDE DEF ab, cd
<1>3. Len(b) = Len(d)
  BY <1>1, <1>2
<1>4. ASSUME NEW i \in 1..Len(a) PROVE a[i] = c[i]
  <2>1. i \in 1..Len(a) + Len(b) /\ i <= Len(a)
    BY <1>1
  <2> QED
    BY <1>1, <1>2, <1>3, <2>1
<1>5. ASSUME NEW i \in 1..Len(b) PROVE b[i] = d[i]
  <2>1. i + Len(a) \in 1..Len(a) + Len(b) /\ ~ (i + Len(a) <= Len(a))
        /\ i + Len(a) - Len(a) = i
    BY <1>1
  <2> QED
    BY <1>1, <1>2, <1>3, <2>1
<1> QED
  BY <1>3, <1>4, <1>5, SeqEqual DEF Texts

\* The two codes of a pair are the string.
LEMMA PairOfCodes ==
    ASSUME NEW str \in Texts, IsCurrPair(str)
    PROVE  /\ ParseCurrPair(str)[1] \in Texts /\ ParseCurrPair(str)[2] \in Texts
           /\ Len(ParseCurrPair(str)[1]) = 3 /\ Len(ParseCurrPair(str)[2]) = 3
           /\ str = ParseCurrPair(str)[1] \o ParseCurrPair(str)[2]
<1> DEFINE a == SubSeq(str, 1, 3)
           b == SubSeq(str, 4, 6)
<1>1. Len(str) = 6 /\ \A i \in 1..6 : str[i] \in Bytes
  BY ElementOfSeq DEF IsCurrPair, Texts
<1>2. a \in Texts /\ Len(a) = 3
  <2>1. \A i \in 1..3 : str[i] \in Bytes
    BY <1>1
  <2> QED
    BY <2>1, SubSeqProperties DEF Texts
<1>3. b \in Texts /\ Len(b) = 3
  <2>1. \A i \in 4..6 : str[i] \in Bytes
    BY <1>1
  <2> QED
    BY <2>1, SubSeqProperties DEF Texts
<1>4. a \o b = SubSeq(str, 1, 6)
  <2>1. 1 \in 1..Len(str) + 1 /\ 3 \in 1 - 1..Len(str) /\ 6 \in 3..Len(str)
    BY <1>1
  <2>2. SubSeq(str, 1, 3) \o SubSeq(str, 3 + 1, 6) = SubSeq(str, 1, 6)
    BY <2>1, ConcatAdjacentSubSeq DEF Texts
  <2> QED
    BY <2>2
<1>5. SubSeq(str, 1, 6) = str
  BY <1>1, SubSeqFull DEF Texts
<1> QED
  BY <1>2, <1>3, <1>4, <1>5 DEF ParseCurrPair

\* Letters and digits are a segment of a path as they are.
LEMMA PlainIsSegment ==
    ASSUME NEW str \in Texts, Plain(str)
    PROVE  IsSegment(str)
<1>1. Len(str) \in Nat /\ DOMAIN str = 1..Len(str)
  BY LenProperties DEF Texts
<1>2. \A i \in 1..Len(str) : str[i] \in Alnum
  BY <1>1 DEF Plain, ToSet
<1>3. str \in Seq(Alnum)
  <2>1. str = [i \in 1..Len(str) |-> str[i]]
    BY <1>1, LenProperties DEF Texts
  <2> QED
    BY <1>1, <1>2, <2>1
<1>4. UrlDecode(str) = str
  BY <1>3, UrlDecodePlain
<1>5. str \notin {<<46>>, <<46, 46>>}
  <2>1. 46 \notin Alnum
    BY DEF Alnum, Digits, UpperCase, LowerCase
  <2>2. ASSUME str = << 46 >> \/ str = <<46, 46>> PROVE FALSE
    <3>1. Len(str) >= 1 /\ str[1] = 46
      BY <2>2
    <3> QED
      BY <1>1, <1>2, <2>1, <3>1
  <2> QED
    BY <2>2
<1>6. \A i \in DOMAIN str : str[i] \in PathBytes
  BY <1>1, <1>2 DEF PathBytes
<1> QED
  BY <1>4, <1>5, <1>6 DEF IsSegment

----------------------------------------------------------------------------
(* Numbers.                                                                  *)

LEMMA DivisionBounds ==
    ASSUME NEW n \in Int, NEW m \in Nat \ {0}
    PROVE  n \div m \in Int /\ m * (n \div m) <= n /\ n < m * (n \div m + 1)
OBVIOUS

LEMMA ProductsAreNumbers ==
    ASSUME NEW m \in Nat, NEW n \in Nat
    PROVE  m * n \in Nat
OBVIOUS

LEMMA ProductsAreIntegers ==
    ASSUME NEW m \in Int, NEW n \in Int
    PROVE  m * n \in Int
OBVIOUS

\* Bounds on both sides times a factor that is not negative.
LEMMA ScaledBounds ==
    ASSUME NEW m \in Nat, NEW e \in Int, NEW b \in Nat, e \in - b .. b
    PROVE  m * e \in - (m * b) .. m * b
<1>1. m * e <= m * b /\ m * (- b) <= m * e
  OBVIOUS
<1>2. m * (- b) = - (m * b) /\ m * e \in Int /\ m * b \in Int
  OBVIOUS
<1> QED
  BY <1>1, <1>2

\* A factor that is not zero can be cancelled.
LEMMA CancelledBounds ==
    ASSUME NEW m \in Nat \ {0}, NEW e \in Int, NEW b \in Int,
           m * e \in - (m * b) .. m * b
    PROVE  e \in - b .. b
<1>1. m * e <= m * b /\ - (m * b) <= m * e
  OBVIOUS
<1>2. e <= b
  <2>1. ASSUME b < e PROVE m * b < m * e
    BY <2>1
  <2>2. m * e \in Int /\ m * b \in Int
    OBVIOUS
  <2> QED
    BY <1>1, <2>1, <2>2
<1>3. - b <= e
  <2>1. ASSUME e < - b PROVE m * e < m * (- b)
    BY <2>1
  <2>2. m * e \in Int /\ m * b \in Int /\ m * (- b) = - (m * b)
    OBVIOUS
  <2> QED
    BY <1>1, <2>1, <2>2
<1> QED
  BY <1>2, <1>3

\* The hundredths of a fraction are half a hundredth off at most.
LEMMA CentsBounds ==
    ASSUME NEW n \in Int, NEW d \in Nat \ {0}
    PROVE  /\ Cents([num |-> n, den |-> d]) \in Int
           /\ 2 * (Cents([num |-> n, den |-> d]) * d - 100 * n) \in - d .. d
<1> DEFINE below == (100 * n) \div d
           twice == 2 * (100 * n - below * d)
<1>1. 100 * n \in Int
  OBVIOUS
<1>2. below \in Int /\ d * below <= 100 * n /\ 100 * n < d * (below + 1)
  BY <1>1, DivisionBounds
<1>3. Cents([num |-> n, den |-> d])
      = IF twice < d \/ (twice = d /\ below % 2 = 0) THEN below ELSE below + 1
  BY DEF Cents
<1> HIDE DEF below
<1>4. /\ d * below = below * d /\ d * (below + 1) = below * d + d
      /\ (below + 1) * d = below * d + d /\ below * d \in Int
  BY <1>2
<1>5. CASE twice <= d /\ Cents([num |-> n, den |-> d]) = below
  <2>1. 2 * (below * d - 100 * n) \in - d .. d
    BY <1>1, <1>2, <1>4, <1>5
  <2> QED
    BY <1>2, <1>5, <2>1
<1>6. CASE twice >= d /\ Cents([num |-> n, den |-> d]) = below + 1
  <2>1. 2 * ((below + 1) * d - 100 * n) \in - d .. d
    BY <1>1, <1>2, <1>4, <1>6
  <2> QED
    BY <1>2, <1>6, <2>1
<1>7. twice \in Int
  BY <1>1, <1>4
<1> QED
  BY <1>3, <1>5, <1>6, <1>7

\* Only a fraction with the denominator 0 is no number.
LEMMA CentsOfNumbers ==
    ASSUME NEW n \in Int, NEW d \in Nat
    PROVE  Cents([num |-> n, den |-> d]) = Null <=> d = 0
<1>1. ASSUME d # 0 PROVE Cents([num |-> n, den |-> d]) # Null
  BY <1>1, CentsBounds, ValuesAssumption
<1>2. ASSUME d = 0 PROVE Cents([num |-> n, den |-> d]) = Null
  BY <1>2 DEF Cents
<1> QED
  BY <1>1, <1>2

\* A number around the quotient of two is around that of what they are worth.
LEMMA QuotientIsClose ==
    ASSUME NEW num \in Int, NEW den \in Nat \ {0}, NEW x \in Nat, NEW y \in Nat,
           NEW precision \in Nat \ {0}, NEW digits \in Int,
           num * y = x * den,
           digits * den \in num * precision - den .. num * precision + den
    PROVE  precision * (digits * y - x * precision)
             \in - (y * precision) .. y * precision
<1> DEFINE off == digits * den - num * precision
           error == digits * y - x * precision
<1>1. off \in Int /\ error \in Int /\ y * den \in Nat
  BY ProductsAreNumbers
<1>2. off \in - den .. den
  <2>1. \A i, j, b \in Int : i \in j - b .. j + b => i - j \in - b .. b
    OBVIOUS
  <2>2. digits * den \in Int /\ num * precision \in Int
    OBVIOUS
  <2> QED
    BY <2>1, <2>2
<1>3. y * off = den * error
  <2>1. y * (num * precision) = (num * y) * precision
    OBVIOUS
  <2>2. y * off = y * (digits * den) - y * (num * precision)
    OBVIOUS
  <2>3. den * error = den * (digits * y) - (x * den) * precision
    OBVIOUS
  <2>4. y * (digits * den) = den * (digits * y)
    OBVIOUS
  <2> QED
    BY <2>1, <2>2, <2>3, <2>4
<1> HIDE DEF off, error
<1>4. y * off \in - (y * den) .. y * den
  BY <1>1, <1>2, ScaledBounds
<1>5. den * error \in - (den * y) .. den * y
  <2>1. y * den = den * y
    OBVIOUS
  <2> QED
    BY <1>3, <1>4, <2>1
<1>6. error \in - y .. y
  BY <1>1, <1>5, CancelledBounds
<1>7. precision * error \in - (precision * y) .. precision * y
  BY <1>1, <1>6, ScaledBounds
<1>8. precision * y = y * precision
  OBVIOUS
<1> QED
  BY <1>7, <1>8 DEF error

----------------------------------------------------------------------------
(* The inductive invariant of the numbers.                                   *)

\* Codes are stored in upper case.
UpperCodes == \A c \in currencies : ToUpper(c) = c

\* A rate is between two rows of currencies and what its text was rounded to.
RatesInv ==
    /\ DOMAIN rates \subseteq currencies \X currencies
    /\ DOMAIN given = DOMAIN rates
    /\ \A p \in DOMAIN rates : /\ given[p] \in Int \cup {Null}
                               /\ rates[p] = Rounded(given[p])
                               /\ rates[p] \in RateColumn

NumbersInv == UpperCodes /\ RatesInv /\ ConversionsAgree

----------------------------------------------------------------------------
\* A code in upper case is its own upper case.
LEMMA ToUpperTwice == \A str : ToUpper(ToUpper(str)) = ToUpper(str)
<1> SUFFICES ASSUME NEW str PROVE ToUpper(ToUpper(str)) = ToUpper(str)
  OBVIOUS
<1>1. \A ch : LET up == IF ch \in LowerCase THEN ch - 32 ELSE ch
              IN up \notin LowerCase
  BY DEF LowerCase
<1> DEFINE once == ToUpper(str)
<1>2. DOMAIN once = DOMAIN str /\ \A i \in DOMAIN once : once[i] \notin LowerCase
  BY <1>1 DEF ToUpper
<1>3. once = [i \in DOMAIN once |-> once[i]]
  BY DEF ToUpper
<1> HIDE DEF once
<1>4. ToUpper(once) = once
  BY <1>2, <1>3 DEF ToUpper
<1> QED
  BY <1>4 DEF once

\* What a text is rounded to, and when that is nothing.
LEMMA RoundedIsNumber ==
    ASSUME NEW value \in Int \cup {Null}
    PROVE  /\ Rounded(value) \in Int \cup {Null}
           /\ Rounded(value) = Null => value = Null
           /\ Rounded(value) = 0 => value \in -4 .. 4
<1>1. CASE value = Null
  BY <1>1, ValuesAssumption DEF Rounded
<1>2. CASE value \in Int /\ value # Null /\ value < 0
  <2>1. PICK n \in Int : n = 5 - value
    BY <1>2
  <2>2. n \div 10 \in Int /\ 10 * (n \div 10) <= n /\ n < 10 * (n \div 10 + 1)
    BY <2>1
  <2>3. Rounded(value) = - (n \div 10)
    BY <1>2, <2>1 DEF Rounded
  <2> QED
    BY <1>2, <2>1, <2>2, <2>3, ValuesAssumption
<1>3. CASE value \in Int /\ value # Null /\ ~ (value < 0)
  <2>1. PICK n \in Int : n = value + 5
    BY <1>3
  <2>2. n \div 10 \in Int /\ 10 * (n \div 10) <= n /\ n < 10 * (n \div 10 + 1)
    BY <2>1
  <2>3. Rounded(value) = n \div 10
    BY <1>3, <2>1 DEF Rounded
  <2> QED
    BY <1>3, <2>1, <2>2, <2>3, ValuesAssumption
<1> QED
  BY <1>1, <1>2, <1>3

\* A rate was given as no number, or as less than half a unit.
NoNumber == \E p \in DOMAIN rates : given[p] \in {Null} \cup (-4 .. 4)

LEMMA RatesAreNumbers ==
    ASSUME RatesInv, NEW p \in DOMAIN rates
    PROVE  /\ rates[p] \in Int \cup {Null}
           /\ rates[p] \in {Null, 0} => NoNumber
<1>1. given[p] \in Int \cup {Null} /\ rates[p] = Rounded(given[p])
  BY DEF RatesInv
<1> QED
  BY <1>1, RoundedIsNumber DEF NoNumber

\* What is a rate before and after a step.
LEMMA RatesAreNumbersAfter ==
    ASSUME RatesInv', NEW p \in DOMAIN rates'
    PROVE  /\ rates'[p] \in Int \cup {Null}
           /\ rates'[p] \in {Null, 0} => NoNumber'
<1>1. given'[p] \in Int \cup {Null} /\ rates'[p] = Rounded(given'[p])
  BY DEF RatesInv
<1> QED
  BY <1>1, RoundedIsNumber DEF NoNumber

\* Storing the number of a text keeps the rates in order.
LEMMA StoreKeepsRates ==
    ASSUME RatesInv, NEW p \in currencies \X currencies, NEW text,
           Storable(text), Store(p, text), UNCHANGED currencies
    PROVE  RatesInv' /\ p \in DOMAIN rates'
<1> DEFINE value == RateValue[text]
<1>1. value \in Int \cup {Null} /\ Rounded(value) \in RateColumn
  BY ValuesAssumption DEF Storable
<1> HIDE DEF value
<1>2. /\ rates' = Put(rates, p, Rounded(value))
      /\ given' = Put(given, p, value)
  BY DEF Store, value
<1>3. /\ DOMAIN rates' = DOMAIN rates \cup {p}
      /\ DOMAIN given' = DOMAIN rates \cup {p}
  BY <1>2 DEF Put, RatesInv
<1>4. ASSUME NEW q \in DOMAIN rates'
      PROVE  /\ given'[q] \in Int \cup {Null}
             /\ rates'[q] = Rounded(given'[q])
             /\ rates'[q] \in RateColumn
  <2>1. CASE q = p
    BY <1>1, <1>2, <1>3, <2>1 DEF Put
  <2>2. CASE q # p
    <3>1. q \in DOMAIN rates /\ q \in DOMAIN given
      BY <1>3, <1>4, <2>2 DEF RatesInv
    <3>2. rates'[q] = rates[q] /\ given'[q] = given[q]
      BY <1>2, <2>2, <3>1 DEF Put
    <3> QED
      BY <3>1, <3>2 DEF RatesInv
  <2> QED
    BY <2>1, <2>2
<1>5. DOMAIN rates' \subseteq currencies' \X currencies'
  BY <1>3 DEF RatesInv
<1> QED
  BY <1>3, <1>4, <1>5 DEF RatesInv

----------------------------------------------------------------------------
(* What the rates are worth.                                                 *)

\* A reply without a rate says nothing of numbers.
LEMMA OtherRepliesAgree ==
    ASSUME \/ last'.status # "ok"
           \/ last'.op \notin {"postRate", "patchRate", "getRate", "getExchange"}
    PROVE  ConversionsAgree'
BY DEF ConversionsAgree

\* The fraction num / den is what base is worth in target, but for a digit.
Close(num, den, base, target) ==
    /\ {base, target} \subseteq DOMAIN Worth
    /\ Precision * (num * Worth[target] - Worth[base] * den)
         \in - (Worth[target] * den) .. Worth[target] * den

\* What a rate is: a fraction, a number unless a rate was given as none, and then
\* close to the worths if all rates are.
RateOf(rate, base, target) ==
    /\ rate = [num |-> rate.num, den |-> rate.den]
    /\ rate.num \in Int /\ rate.den \in Nat
    /\ rate.den = 0 => NoNumber
    /\ rate.den # 0 /\ (\A p \in DOMAIN rates : IsWorth(p))
         => Close(rate.num, rate.den, base, target)

\* If a rate is close to the worths, and c are the hundredths of an amount a that is
\* converted by it, then c are what the amount is worth but for half a hundredth and
\* what the last digit comes to.
LEMMA ErrorsAddUp ==
    ASSUME NEW n \in Int, NEW d \in Nat \ {0}, NEW base, NEW target,
           Close(n, d, base, target), NEW a \in Int, NEW c \in Int,
           2 * (c * (d * AmountScale) - 100 * (n * a))
             \in - (d * AmountScale) .. d * AmountScale
    PROVE  SaysWorth(c, a, <<base, target>>)
<1> DEFINE x == Worth[base]
           y == Worth[target]
           size == IF a < 0 THEN - a ELSE a
           rounding == 2 * (c * (d * AmountScale) - 100 * (n * a))
           quotient == Precision * (n * y - x * d)
           error == 2 * Precision * (c * (y * AmountScale) - 100 * (x * a))
           margin == (y * AmountScale) * Precision + 200 * y * size
<1>1. /\ x \in Nat /\ y \in Nat /\ size \in Nat
      /\ Precision \in Nat /\ AmountScale \in Nat
  BY ValuesAssumption, LimitsAssumption DEF Close
<1>2. /\ rounding \in - (d * AmountScale) .. d * AmountScale
      /\ quotient \in - (y * d) .. y * d
  BY DEF Close
<1>3. size = a \/ size = - a
  OBVIOUS
<1> HIDE DEF x, y, size
<1>4. d * error = (Precision * y) * rounding + (200 * a) * quotient
  BY <1>1
<1>5. d * margin = (Precision * y) * (d * AmountScale) + (200 * size) * (y * d)
  BY <1>1
<1>6. /\ rounding \in Int /\ quotient \in Int /\ error \in Int /\ margin \in Int
      /\ y * d \in Nat /\ d * AmountScale \in Nat
      /\ Precision * y \in Nat /\ 200 * size \in Nat
  BY <1>1, ProductsAreNumbers
<1> HIDE DEF rounding, quotient, error, margin
<1>7. (Precision * y) * rounding
        \in - ((Precision * y) * (d * AmountScale)) .. (Precision * y) * (d * AmountScale)
  BY <1>2, <1>6, ScaledBounds
<1>8. (200 * a) * quotient \in - ((200 * size) * (y * d)) .. (200 * size) * (y * d)
  <2>1. (200 * size) * quotient
          \in - ((200 * size) * (y * d)) .. (200 * size) * (y * d)
    BY <1>2, <1>6, ScaledBounds
  <2>2. \/ (200 * a) * quotient = (200 * size) * quotient
        \/ (200 * a) * quotient = - ((200 * size) * quotient)
    BY <1>1, <1>3, <1>6
  <2>3. \A i, b \in Int : i \in - b .. b => - i \in - b .. b
    OBVIOUS
  <2>4. (200 * size) * quotient \in Int /\ (200 * size) * (y * d) \in Int
    BY <1>6, ProductsAreIntegers
  <2> QED
    BY <2>1, <2>2, <2>3, <2>4
<1>9. d * error \in - (d * margin) .. d * margin
  <2>1. \A i, j, b, e \in Int : i \in - b .. b /\ j \in - e .. e
                                  => i + j \in - (b + e) .. b + e
    OBVIOUS
  <2>2. /\ (Precision * y) * rounding \in Int
        /\ (Precision * y) * (d * AmountScale) \in Int
        /\ (200 * a) * quotient \in Int /\ (200 * size) * (y * d) \in Int
    BY <1>1, <1>6, ProductsAreIntegers
  <2> QED
    BY <1>4, <1>5, <1>7, <1>8, <2>1, <2>2
<1>10. error \in - margin .. margin
  BY <1>6, <1>9, CancelledBounds
<1> QED
  BY <1>10 DEF SaysWorth, error, margin, size, x, y

\* The hundredths of such a rate, and of an amount converted by it.
LEMMA CloseRateSaysWorth ==
    ASSUME NEW num \in Int, NEW den \in Nat \ {0}, NEW base, NEW target,
           Close(num, den, base, target), NEW amount \in Int
    PROVE  /\ SaysWorth(Cents([num |-> num, den |-> den]), AmountScale,
                        <<base, target>>)
           /\ SaysWorth(Cents([num |-> num * amount, den |-> den * AmountScale]),
                        amount, <<base, target>>)
<1>1. AmountScale \in Nat \ {0}
  BY LimitsAssumption
<1>2. ASSUME NEW a \in Int, NEW c \in Int,
             2 * (c * (den * AmountScale) - 100 * (num * a))
               \in - (den * AmountScale) .. den * AmountScale
      PROVE  SaysWorth(c, a, <<base, target>>)
  BY <1>2, ErrorsAddUp
<1>3. SaysWorth(Cents([num |-> num, den |-> den]), AmountScale, <<base, target>>)
  <2>1. PICK c \in Int : /\ c = Cents([num |-> num, den |-> den])
                         /\ 2 * (c * den - 100 * num) \in - den .. den
    BY CentsBounds
  <2>2. AmountScale * (2 * (c * den - 100 * num))
          \in - (AmountScale * den) .. AmountScale * den
    <3>1. 2 * (c * den - 100 * num) \in Int
      OBVIOUS
    <3> QED
      BY <1>1, <2>1, <3>1, ScaledBounds
  <2>3. /\ AmountScale * (2 * (c * den - 100 * num))
           = 2 * (c * (den * AmountScale) - 100 * (num * AmountScale))
        /\ AmountScale * den = den * AmountScale
    BY <1>1
  <2>4. AmountScale \in Int
    BY <1>1
  <2> QED
    BY <1>2, <2>1, <2>2, <2>3, <2>4
<1>4. SaysWorth(Cents([num |-> num * amount, den |-> den * AmountScale]),
                amount, <<base, target>>)
  <2>1. num * amount \in Int /\ den * AmountScale \in Nat \ {0}
    BY <1>1
  <2> QED
    BY <1>2, <2>1, CentsBounds
<1> QED
  BY <1>3, <1>4

\* A stored rate has no digit too few.
LEMMA StoredIsClose ==
    ASSUME NEW units \in Int, NEW base, NEW target,
           {base, target} \subseteq DOMAIN Worth,
           units * Worth[target] = Worth[base] * Scale
    PROVE  Close(units, Scale, base, target)
<1>1. Worth[target] \in Nat /\ Worth[base] \in Nat
  BY ValuesAssumption
<1>2. Scale \in Nat /\ Precision \in Nat
  BY LimitsAssumption
<1>3. Precision * (units * Worth[target] - Worth[base] * Scale) = 0
  BY <1>1, <1>2
<1>4. Worth[target] * Scale \in Nat
  BY <1>1, <1>2, ProductsAreNumbers
<1>5. \A n \in Nat : 0 \in - n .. n
  OBVIOUS
<1> QED
  BY <1>3, <1>4, <1>5 DEF Close

\* The reply about one rate.
LEMMA RateReplyAgrees ==
    ASSUME RatesInv', NEW p \in DOMAIN rates',
           last'.op \in {"postRate", "patchRate", "getRate"},
           last'.dto = ExchangeRateDto(p, rates'[p])
    PROVE  ConversionsAgree'
<1> DEFINE units == rates'[p]
<1>1. /\ last'.dto.found = p
      /\ last'.dto.rate = Cents(Stored(units))
      /\ last'.dto.converted = 0
  BY DEF ExchangeRateDto, NoDto
<1>2. /\ units \in Int \cup {Null}
      /\ units = Null => NoNumber'
      /\ Scale \in Nat \ {0} /\ 0 # Null
  BY RatesAreNumbersAfter, LimitsAssumption, ValuesAssumption
<1>3. p = <<p[1], p[2]>>
  BY DEF RatesInv
<1>4. (\A q \in DOMAIN rates' : IsWorth(q)') =>
        /\ {p[1], p[2]} \subseteq DOMAIN Worth
        /\ units * Worth[p[2]] = Worth[p[1]] * Scale
  BY DEF IsWorth
<1> HIDE DEF units
<1>5. CASE units = Null
  <2>1. Cents(Stored(units)) = Null
    BY <1>5 DEF Cents, Stored, NaN
  <2> QED
    BY <1>1, <1>2, <1>5, <2>1 DEF ConversionsAgree, NoNumber
<1>6. CASE units \in Int /\ units # Null
  <2>1. Stored(units) = [num |-> units, den |-> Scale]
    BY <1>6 DEF Stored
  <2>2. Null \notin {last'.dto.rate, last'.dto.converted}
    BY <1>1, <1>2, <1>6, <2>1, CentsOfNumbers
  <2>3. ASSUME \A q \in DOMAIN rates' : IsWorth(q)'
        PROVE  SaysWorth(last'.dto.rate, AmountScale, p)
    <3>1. Close(units, Scale, p[1], p[2])
      BY <1>4, <1>6, <2>3, StoredIsClose
    <3>2. SaysWorth(Cents([num |-> units, den |-> Scale]), AmountScale, <<p[1], p[2]>>)
      <4>1. 0 \in Int
        OBVIOUS
      <4> QED
        BY <1>2, <1>6, <3>1, <4>1, CloseRateSaysWorth
    <3> QED
      BY <1>1, <1>3, <2>1, <3>2
  <2> QED
    BY <1>1, <2>2, <2>3 DEF ConversionsAgree, SaysWorth
<1> QED
  BY <1>2, <1>5, <1>6

----------------------------------------------------------------------------
(* Conversions.                                                              *)

LEMMA DirectRate ==
    ASSUME RatesInv, NEW base, NEW target, <<base, target>> \in DOMAIN rates
    PROVE  RateOf(Stored(rates[<<base, target>>]), base, target)
<1> DEFINE units == rates[<<base, target>>]
<1>1. /\ units \in Int \cup {Null}
      /\ units = Null => NoNumber
      /\ Scale \in Nat \ {0}
  BY RatesAreNumbers, LimitsAssumption
<1>2. (\A p \in DOMAIN rates : IsWorth(p)) =>
        /\ {base, target} \subseteq DOMAIN Worth
        /\ units * Worth[target] = Worth[base] * Scale
  BY DEF IsWorth
<1> HIDE DEF units
<1>3. RateOf(Stored(units), base, target)
  <2>1. CASE units = Null
    BY <1>1, <2>1 DEF RateOf, Stored, NaN
  <2>2. CASE units \in Int /\ units # Null
    <3>1. (\A p \in DOMAIN rates : IsWorth(p)) => Close(units, Scale, base, target)
      BY <1>2, <2>2, StoredIsClose
    <3> QED
      BY <1>1, <2>2, <3>1 DEF RateOf, Stored
  <2> QED
    BY <1>1, <2>1, <2>2
<1> QED
  BY <1>3 DEF units

\* A quotient of two numbers, the second of which is not 0 unless a rate is.
LEMMA QuotientIsRate ==
    ASSUME NEW num \in Int \cup {Null}, NEW den \in Int \cup {Null},
           NEW base, NEW target, NEW rate \in Quotients(num, den),
           Null \in {num, den} \/ den = 0 => NoNumber,
           (\A p \in DOMAIN rates : IsWorth(p)) =>
             /\ {base, target} \subseteq DOMAIN Worth
             /\ den \in Nat
             /\ num * Worth[target] = Worth[base] * den
    PROVE  RateOf(rate, base, target)
<1>1. Precision \in Nat \ {0}
  BY LimitsAssumption
<1>2. CASE Null \in {num, den} \/ den = 0
  BY <1>2 DEF Quotients, RateOf, NaN
<1>3. CASE ~ (Null \in {num, den} \/ den = 0)
  <2>1. num \in Int /\ den \in Int /\ den # 0
    BY <1>3
  <2>2. PICK digits \in IF den < 0 THEN Around(- num, - den) ELSE Around(num, den) :
          rate = [num |-> digits, den |-> Precision]
    BY <1>3 DEF Quotients
  <2>3. digits \in Int
    BY <2>2 DEF Around
  <2>4. ASSUME \A p \in DOMAIN rates : IsWorth(p)
        PROVE  Close(digits, Precision, base, target)
    <3>1. /\ {base, target} \subseteq DOMAIN Worth
          /\ den \in Nat \ {0}
          /\ num * Worth[target] = Worth[base] * den
      BY <2>1, <2>4
    <3>2. digits * den \in num * Precision - den .. num * Precision + den
      BY <2>2, <3>1 DEF Around
    <3>3. Worth[base] \in Nat /\ Worth[target] \in Nat
      BY <3>1, ValuesAssumption
    <3>4. Precision * (digits * Worth[target] - Worth[base] * Precision)
            \in - (Worth[target] * Precision) .. Worth[target] * Precision
      BY <1>1, <2>1, <2>3, <3>1, <3>2, <3>3, QuotientIsClose
    <3> QED
      BY <3>1, <3>4 DEF Close
  <2> QED
    BY <1>1, <2>2, <2>3, <2>4 DEF RateOf
<1> QED
  BY <1>2, <1>3

\* Rates that are worths are positive.
LEMMA WorthIsPositive ==
    ASSUME RatesInv, NEW p \in DOMAIN rates, IsWorth(p)
    PROVE  rates[p] \in Nat
<1>1. rates[p] \in Int
  BY RatesAreNumbers DEF IsWorth
<1>2. PICK x \in Nat, y \in Nat \ {0} : rates[p] * y = x * Scale
  BY ValuesAssumption DEF IsWorth
<1>3. x * Scale \in Nat
  BY <1>2, LimitsAssumption, ProductsAreNumbers
<1>4. \A i \in Int, m \in Nat \ {0} : i < 0 => i * m < 0
  OBVIOUS
<1> QED
  BY <1>1, <1>2, <1>3, <1>4

LEMMA ReverseRate ==
    ASSUME RatesInv, NEW base, NEW target, <<target, base>> \in DOMAIN rates,
           NEW rate \in CalcReverseRate(rates[<<target, base>>])
    PROVE  RateOf(rate, base, target)
<1> DEFINE units == rates[<<target, base>>]
<1>1. /\ units \in Int \cup {Null} /\ Scale \in Int
      /\ units \in {Null, 0} => NoNumber
  BY RatesAreNumbers, LimitsAssumption
<1>2. ASSUME \A p \in DOMAIN rates : IsWorth(p)
      PROVE  /\ {base, target} \subseteq DOMAIN Worth
             /\ units \in Nat
             /\ Scale * Worth[target] = Worth[base] * units
  <2>1. /\ {base, target} \subseteq DOMAIN Worth
        /\ units * Worth[base] = Worth[target] * Scale
        /\ units \in Nat
    BY <1>2, WorthIsPositive DEF IsWorth
  <2>2. Worth[base] \in Nat /\ Worth[target] \in Nat
    BY <2>1, ValuesAssumption
  <2> HIDE DEF units
  <2> QED
    BY <1>1, <2>1, <2>2
<1>3. rate \in Quotients(Scale, units)
  BY DEF CalcReverseRate
<1>4. Scale # Null
  BY <1>1, ValuesAssumption
<1> HIDE DEF units
<1> QED
  BY <1>1, <1>2, <1>3, <1>4, QuotientIsRate

\* What both currencies are worth in a third one cancels it.
LEMMA ThirdCancels ==
    ASSUME NEW a \in Int, NEW b \in Int, NEW c \in Nat, NEW x \in Nat, NEW y \in Nat,
           a * x = c, b * y = c
    PROVE  b * y = x * a
OBVIOUS

LEMMA RateThroughUsd ==
    ASSUME RatesInv, NEW base, NEW target,
           <<USD, base>> \in DOMAIN rates, <<USD, target>> \in DOMAIN rates,
           NEW rate \in CalcRateByUsdExchRates(rates[<<USD, base>>],
                                               rates[<<USD, target>>])
    PROVE  RateOf(rate, base, target)
<1> DEFINE ofBase == rates[<<USD, base>>]
           ofTarget == rates[<<USD, target>>]
<1>1. /\ ofBase \in Int \cup {Null} /\ ofTarget \in Int \cup {Null}
      /\ Scale \in Nat \ {0}
      /\ Null \in {ofTarget, ofBase} \/ ofBase = 0 => NoNumber
  BY RatesAreNumbers, LimitsAssumption
<1>2. ASSUME \A p \in DOMAIN rates : IsWorth(p)
      PROVE  /\ {base, target} \subseteq DOMAIN Worth
             /\ ofBase \in Nat
             /\ ofTarget * Worth[target] = Worth[base] * ofBase
  <2>1. /\ {USD, base, target} \subseteq DOMAIN Worth
        /\ ofBase * Worth[base] = Worth[USD] * Scale
        /\ ofTarget * Worth[target] = Worth[USD] * Scale
        /\ ofBase \in Nat /\ ofTarget \in Nat
    BY <1>2, WorthIsPositive DEF IsWorth
  <2>2. /\ Worth[base] \in Nat /\ Worth[target] \in Nat /\ Worth[USD] \in Nat
    BY <2>1, ValuesAssumption
  <2> HIDE DEF ofBase, ofTarget
  <2>3. Worth[USD] * Scale \in Nat
    BY <1>1, <2>2, ProductsAreNumbers
  <2> QED
    BY <1>1, <2>1, <2>2, <2>3, ThirdCancels
<1>3. rate \in Quotients(ofTarget, ofBase)
  BY DEF CalcRateByUsdExchRates
<1> HIDE DEF ofBase, ofTarget
<1> QED
  BY <1>1, <1>2, <1>3, QuotientIsRate

\* Whichever way it is found.
LEMMA ConversionRate ==
    ASSUME RatesInv, NEW base, NEW target, NEW rate \in RatesFor(base, target)
    PROVE  RateOf(rate, base, target)
<1>1. CASE <<base, target>> \in DOMAIN rates
  BY <1>1, DirectRate DEF RatesFor
<1>2. CASE /\ <<base, target>> \notin DOMAIN rates
           /\ <<target, base>> \in DOMAIN rates
  BY <1>2, ReverseRate DEF RatesFor
<1>3. CASE /\ <<base, target>> \notin DOMAIN rates
           /\ <<target, base>> \notin DOMAIN rates
  BY <1>3, RateThroughUsd DEF RatesFor
<1> QED
  BY <1>1, <1>2, <1>3

\* The reply to a conversion.
LEMMA ConversionReplyAgrees ==
    ASSUME RatesInv, NEW base, NEW target, NEW rate \in RatesFor(base, target),
           NEW text \in DOMAIN AmountValue,
           UNCHANGED <<currencies, rates, given>>,
           last'.op = "getExchange",
           last'.asked[3] = text,
           last'.dto = ConvertedAmountDto(base, target, rate,
                         CalcConvAmount(rate, AmountValue[text]))
    PROVE  ConversionsAgree'
<1> DEFINE amount == AmountValue[text]
           converted == CalcConvAmount(rate, amount)
<1>1. amount \in Int \cup {Null}
  BY ValuesAssumption
<1>2. /\ last'.dto.found = <<base, target>>
      /\ last'.dto.rate = Cents(rate)
      /\ last'.dto.converted = Cents(converted)
      /\ AmountValue[last'.asked[3]] = amount
  BY DEF ConvertedAmountDto
<1> HIDE DEF amount, converted
<1>3. PICK num \in Int, den \in Nat :
        /\ rate = [num |-> num, den |-> den]
        /\ den = 0 => NoNumber
        /\ den # 0 /\ (\A p \in DOMAIN rates : IsWorth(p))
             => Close(num, den, base, target)
  BY ConversionRate DEF RateOf
<1>4. /\ NoNumber' <=> NoNumber
      /\ (\A p \in DOMAIN rates : IsWorth(p))' <=> \A p \in DOMAIN rates : IsWorth(p)
  BY DEF NoNumber, IsWorth
<1>5. CASE den = 0
  <2>1. Cents(rate) = Null /\ NoNumber'
    BY <1>3, <1>4, <1>5 DEF Cents
  <2> QED
    BY <1>2, <2>1 DEF ConversionsAgree, NoNumber
<1>6. CASE den # 0 /\ amount = Null
  <2>1. converted = NaN
    BY <1>3, <1>6 DEF CalcConvAmount, converted
  <2>2. Cents(converted) = Null
    BY <2>1 DEF Cents, NaN
  <2> QED
    BY <1>2, <1>6, <2>2 DEF ConversionsAgree
<1>7. CASE den # 0 /\ amount \in Int /\ amount # Null
  <2>1. converted = [num |-> num * amount, den |-> den * AmountScale]
    BY <1>3, <1>7 DEF CalcConvAmount, converted
  <2>2. num * amount \in Int /\ den * AmountScale \in Nat \ {0}
    BY <1>7, LimitsAssumption
  <2>3. Cents(rate) # Null /\ Cents(converted) # Null
    BY <1>3, <1>7, <2>1, <2>2, CentsOfNumbers
  <2>4. ASSUME \A p \in DOMAIN rates : IsWorth(p)
        PROVE  /\ SaysWorth(Cents(rate), AmountScale, <<base, target>>)
               /\ SaysWorth(Cents(converted), amount, <<base, target>>)
    <3>1. Close(num, den, base, target)
      BY <1>3, <1>7, <2>4
    <3> QED
      BY <1>3, <1>7, <2>1, <3>1, CloseRateSaysWorth
  <2> QED
    BY <1>2, <1>4, <2>3, <2>4 DEF ConversionsAgree, SaysWorth
<1> QED
  BY <1>1, <1>5, <1>6, <1>7

----------------------------------------------------------------------------
(* The invariant holds.                                                      *)

\* Looking something up changes no table.
LEMMA TablesUnchanged ==
    ASSUME UpperCodes, RatesInv, UNCHANGED <<currencies, rates, given>>
    PROVE  UpperCodes' /\ RatesInv'
BY DEF UpperCodes, RatesInv

LEMMA InitNumbers == Init => NumbersInv
<1> SUFFICES ASSUME Init PROVE NumbersInv
  OBVIOUS
<1>1. DOMAIN NoFields = {}
  BY DEF NoFields, FirstValues
<1> QED
  BY <1>1 DEF Init, NumbersInv, UpperCodes, RatesInv, ConversionsAgree, Blank

LEMMA PostCurrencyNumbers ==
    ASSUME NumbersInv, PostCurrency
    PROVE  NumbersInv'
<1>1. /\ last'.op = "postCurrency"
      /\ UNCHANGED <<rates, given>>
      /\ \/ UNCHANGED currencies
         \/ \E fields : currencies' = currencies \cup {CurrencyCode(fields)}
  BY DEF PostCurrency, Blank
<1>2. UpperCodes'
  BY <1>1, ToUpperTwice DEF NumbersInv, UpperCodes, CurrencyCode
<1>3. RatesInv'
  BY <1>1 DEF NumbersInv, RatesInv
<1>4. ConversionsAgree'
  BY <1>1, OtherRepliesAgree
<1> QED
  BY <1>2, <1>3, <1>4 DEF NumbersInv

\* A change of a rate: another row or value and the reply about it, or nothing.
LEMMA RateChangeInv ==
    ASSUME NumbersInv, UNCHANGED currencies,
           last'.op \in {"postRate", "patchRate"},
           \/ last'.status # "ok" /\ UNCHANGED <<rates, given>>
           \/ \E p \in currencies \X currencies, text \in DOMAIN RateValue :
                /\ Storable(text) /\ Store(p, text)
                /\ last'.dto = ExchangeRateDto(p, rates'[p])
    PROVE  NumbersInv'
<1>1. UpperCodes'
  BY DEF NumbersInv, UpperCodes
<1>2. CASE last'.status # "ok" /\ UNCHANGED <<rates, given>>
  BY <1>1, <1>2, TablesUnchanged, OtherRepliesAgree DEF NumbersInv
<1>3. CASE \E p \in currencies \X currencies, text \in DOMAIN RateValue :
             /\ Storable(text) /\ Store(p, text)
             /\ last'.dto = ExchangeRateDto(p, rates'[p])
  <2>1. PICK p \in currencies \X currencies, text \in DOMAIN RateValue :
          /\ Storable(text) /\ Store(p, text)
          /\ last'.dto = ExchangeRateDto(p, rates'[p])
    BY <1>3
  <2>2. RatesInv' /\ p \in DOMAIN rates'
    BY <2>1, StoreKeepsRates DEF NumbersInv
  <2>3. ConversionsAgree'
    BY <2>1, <2>2, RateReplyAgrees
  <2> QED
    BY <1>1, <2>2, <2>3 DEF NumbersInv
<1> QED
  BY <1>2, <1>3

LEMMA PostRateNumbers ==
    ASSUME NumbersInv, PostRate
    PROVE  NumbersInv'
<1>1. UNCHANGED currencies
  BY DEF PostRate
<1>2. last'.op \in {"postRate", "patchRate"}
  BY DEF PostRate, Blank
<1>3. \/ last'.status # "ok" /\ UNCHANGED <<rates, given>>
      \/ \E p \in currencies \X currencies, text \in DOMAIN RateValue :
           /\ Storable(text) /\ Store(p, text)
           /\ last'.dto = ExchangeRateDto(p, rates'[p])
  <2>1. \/ last'.status # "ok" /\ UNCHANGED <<rates, given>>
        \/ \E p \in currencies \X currencies : \E text :
             /\ Storable(text) /\ Store(p, text)
             /\ last'.dto = ExchangeRateDto(p, rates'[p])
    BY DEF PostRate, Blank, ByCode, Refusal
  <2>2. \A text : Storable(text) => text \in DOMAIN RateValue
    BY DEF Storable
  <2> QED
    BY <2>1, <2>2
<1> QED
  BY <1>1, <1>2, <1>3, RateChangeInv

LEMMA PatchRateNumbers ==
    ASSUME NumbersInv, PatchRate
    PROVE  NumbersInv'
<1>1. UNCHANGED currencies
  BY DEF PatchRate
<1>2. last'.op \in {"postRate", "patchRate"}
  BY DEF PatchRate, Blank
<1>3. \/ last'.status # "ok" /\ UNCHANGED <<rates, given>>
      \/ \E p \in currencies \X currencies, text \in DOMAIN RateValue :
           /\ Storable(text) /\ Store(p, text)
           /\ last'.dto = ExchangeRateDto(p, rates'[p])
  <2>1. PICK asked \in PairLookups, sent \in Sent(PatchForms) :
          LET form == Parsed(sent.body)
              refusal == Refusal(form, Fits(form.fields, Rate, MaxRate))
              text == form.fields[Rate]
          IN \/ /\ last'.status \in {PairRefusal(asked), refusal} \ {"none"}
                /\ UNCHANGED <<rates, given>>
             \/ last'.status \in {"notFound", "dbError"} /\ UNCHANGED <<rates, given>>
             \/ \E p \in PairsOf(asked) :
                  /\ Storable(text) /\ Store(p, text)
                  /\ last'.dto = ExchangeRateDto(p, rates'[p])
    <3>1. PICK asked \in PairLookups, sent \in Sent(PatchForms) :
            LET form == Parsed(sent.body)
                refusal == Refusal(form, Fits(form.fields, Rate, MaxRate))
                text == form.fields[Rate]
                Reply(status, dto) == last' = [Blank EXCEPT !.op = "patchRate",
                  !.asked = asked, !.sent = sent.form, !.arrived = form.fields,
                  !.status = status, !.dto = dto]
            IN \/ /\ PairRefusal(asked) # "none"
                  /\ last' = [Blank EXCEPT !.op = "patchRate",
                       !.asked = asked, !.status = PairRefusal(asked)]
                  /\ UNCHANGED <<rates, given>>
               \/ /\ refusal # "none" /\ Reply(refusal, NoDto)
                  /\ UNCHANGED <<rates, given>>
               \/ Reply("notFound", NoDto) /\ UNCHANGED <<rates, given>>
               \/ Reply("dbError", NoDto) /\ UNCHANGED <<rates, given>>
               \/ \E p \in PairsOf(asked) :
                    /\ Storable(text) /\ Store(p, text)
                    /\ Reply("ok", ExchangeRateDto(p, rates'[p]))
      BY DEF PatchRate
    <3> QED
      BY <3>1 DEF Blank
  <2>2. PairsOf(asked) \subseteq currencies \X currencies
    BY DEF PairsOf, ByCode
  <2>3. /\ PairRefusal(asked) # "ok"
        /\ \A form, fits : Refusal(form, fits) # "ok"
    BY DEF PairRefusal, Refusal
  <2>4. \A text : Storable(text) => text \in DOMAIN RateValue
    BY DEF Storable
  <2>5. CASE last'.status \in {"notFound", "dbError"} /\ UNCHANGED <<rates, given>>
    BY <2>5
  <2>6. CASE \E p \in PairsOf(asked) :
               /\ Storable(Parsed(sent.body).fields[Rate])
               /\ Store(p, Parsed(sent.body).fields[Rate])
               /\ last'.dto = ExchangeRateDto(p, rates'[p])
    BY <2>2, <2>4, <2>6
  <2> QED
    BY <2>1, <2>3, <2>5, <2>6
<1> QED
  BY <1>1, <1>2, <1>3, RateChangeInv

\* What a lookup leaves and replies.
LEMMA LookupReplies ==
    \A op, asked, status, dto :
      Lookup(op, asked, status, dto) =>
        /\ UNCHANGED <<currencies, rates, given>>
        /\ last'.op = op /\ last'.asked = asked
        /\ last'.status = status /\ last'.dto = dto
BY DEF Lookup, Blank

LEMMA GetCurrencyNumbers ==
    ASSUME NumbersInv, GetCurrency
    PROVE  NumbersInv'
<1>1. last'.op = "getCurrency" /\ UNCHANGED <<currencies, rates, given>>
  BY LookupReplies DEF GetCurrency
<1> QED
  BY <1>1, TablesUnchanged, OtherRepliesAgree DEF NumbersInv

LEMMA GetRateNumbers ==
    ASSUME NumbersInv, GetRate
    PROVE  NumbersInv'
<1>1. /\ last'.op = "getRate"
      /\ UNCHANGED <<currencies, rates, given>>
      /\ \/ last'.status # "ok"
         \/ \E p \in DOMAIN rates : last'.dto = ExchangeRateDto(p, rates[p])
  BY LookupReplies DEF GetRate, PairRefusal
<1>2. UpperCodes' /\ RatesInv'
  BY <1>1, TablesUnchanged DEF NumbersInv
<1>3. CASE last'.status # "ok"
  BY <1>2, <1>3, OtherRepliesAgree DEF NumbersInv
<1>4. CASE \E p \in DOMAIN rates : last'.dto = ExchangeRateDto(p, rates[p])
  <2>1. PICK p \in DOMAIN rates' : last'.dto = ExchangeRateDto(p, rates'[p])
    BY <1>1, <1>4
  <2>2. ConversionsAgree'
    BY <1>1, <1>2, <2>1, RateReplyAgrees
  <2> QED
    BY <1>2, <2>2 DEF NumbersInv
<1> QED
  BY <1>1, <1>3, <1>4

LEMMA GetExchangeNumbers ==
    ASSUME NumbersInv, GetExchange
    PROVE  NumbersInv'
<1>1. UNCHANGED <<currencies, rates, given>>
  BY LookupReplies DEF GetExchange
<1>2. UpperCodes' /\ RatesInv'
  BY <1>1, TablesUnchanged DEF NumbersInv
<1>3. PICK query \in Exchanges :
        \/ last'.status # "ok"
        \/ \E base, target : \E rate \in RatesFor(base, target) :
             /\ query[3] \in DOMAIN AmountValue
             /\ last'.op = "getExchange" /\ last'.asked = query
             /\ last'.dto = ConvertedAmountDto(base, target, rate,
                              CalcConvAmount(rate, AmountValue[query[3]]))
  BY LookupReplies DEF GetExchange
<1>4. CASE last'.status # "ok"
  BY <1>2, <1>4, OtherRepliesAgree DEF NumbersInv
<1>5. CASE \E base, target : \E rate \in RatesFor(base, target) :
             /\ query[3] \in DOMAIN AmountValue
             /\ last'.op = "getExchange" /\ last'.asked = query
             /\ last'.dto = ConvertedAmountDto(base, target, rate,
                              CalcConvAmount(rate, AmountValue[query[3]]))
  <2>1. ConversionsAgree'
    BY <1>1, <1>5, ConversionReplyAgrees DEF NumbersInv
  <2> QED
    BY <1>2, <2>1 DEF NumbersInv
<1> QED
  BY <1>3, <1>4, <1>5

LEMMA StepNumbers ==
    ASSUME NumbersInv, [Next]_vars
    PROVE  NumbersInv'
<1>1. CASE PostCurrency
  BY <1>1, PostCurrencyNumbers
<1>2. CASE PostRate
  BY <1>2, PostRateNumbers
<1>3. CASE PatchRate
  BY <1>3, PatchRateNumbers
<1>4. CASE GetCurrency
  BY <1>4, GetCurrencyNumbers
<1>5. CASE GetRate
  BY <1>5, GetRateNumbers
<1>6. CASE GetExchange
  BY <1>6, GetExchangeNumbers
<1>7. CASE ReadReply
  <2>1. UNCHANGED <<currencies, rates, given>> /\ last'.status = "none"
    BY <1>7 DEF ReadReply, Blank
  <2> QED
    BY <2>1, TablesUnchanged, OtherRepliesAgree DEF NumbersInv
<1>8. CASE UNCHANGED vars
  <2>1. UpperCodes' /\ RatesInv'
    BY <1>8, TablesUnchanged DEF NumbersInv, vars
  <2>2. ConversionsAgree'
    BY <1>8 DEF NumbersInv, vars, ConversionsAgree, IsWorth
  <2> QED
    BY <2>1, <2>2 DEF NumbersInv
<1> QED
  BY <1>1, <1>2, <1>3, <1>4, <1>5, <1>6, <1>7, <1>8 DEF Next, Request

----------------------------------------------------------------------------
(* What is sent, and what is stored of it.                                   *)

\* Codes in the table are not empty and not too long for it.
CodesFit == \A c \in currencies : c \in Texts /\ Len(c) \in 1..MaxCode

StatusOK == last.status \in {"none", "ok", "badRequest", "error", "noRoute",
                             "notFound", "conflict", "dbError"}

\* The forms of the model are forms.
LEMMA FormsAreForms ==
    /\ CurrencyForms \in SUBSET Forms
    /\ RateForms \in SUBSET Forms
    /\ PatchForms \in SUBSET Forms
BY TextsAssumption DEF Forms, Texts

LEMMA LookupsAreTexts == Lookups \subseteq Texts /\ PairLookups \subseteq Texts
BY TextsAssumption DEF Texts

\* A body is a text, and that of a form if there is one.
LEMMA BodyOfForm ==
    ASSUME NEW forms \in SUBSET Forms, NEW sent \in Sent(forms)
    PROVE  /\ sent.body \in Texts
           /\ sent.form # <<>> => sent.form \in Forms /\ sent.body = Wire(sent.form)
<1>1. CASE \E form \in forms : sent = [form |-> form, body |-> Wire(form)]
  BY <1>1, WireType
<1>2. CASE \E body \in RawBodies : sent = [form |-> <<>>, body |-> body]
  BY <1>2, TextsAssumption DEF Texts
<1> QED
  BY <1>1, <1>2 DEF Sent

\* A text without the byte 255.
LEMMA CleanText ==
    ASSUME NEW str \in Texts, 255 \notin ToSet(str)
    PROVE  str \in CleanTexts
<1>1. /\ Len(str) \in Nat /\ DOMAIN str = 1..Len(str)
      /\ \A i \in 1..Len(str) : str[i] \in Bytes
      /\ str = [i \in 1..Len(str) |-> str[i]]
  BY LenProperties, ElementOfSeq DEF Texts
<1>2. \A i \in 1..Len(str) : str[i] \in Bytes \ {NoHex}
  BY <1>1 DEF ToSet, NoHex
<1> QED
  BY <1>1, <1>2 DEF CleanTexts

\* The reply to a form whose fields have arrived.
LEMMA FormFieldsArrive ==
    ASSUME NEW forms \in SUBSET Forms, NEW sent \in Sent(forms),
           last'.sent = sent.form, last'.arrived = Parsed(sent.body).fields
    PROVE  FieldsArrive'
<1> DEFINE form == sent.form
<1>1. SUFFICES ASSUME form # <<>>,
                      \A i \in DOMAIN form :
                        255 \notin ToSet(form[i][1]) \cup ToSet(form[i][2])
               PROVE  Parsed(sent.body).fields = FirstValues(form)
  BY DEF FieldsArrive
<1>2. form \in Forms /\ sent.body = Wire(form)
  BY <1>1, BodyOfForm
<1> HIDE DEF form
<1>3. form \in Seq(CleanTexts \X CleanTexts)
  <2>1. /\ Len(form) \in Nat /\ DOMAIN form = 1..Len(form)
        /\ form = [i \in 1..Len(form) |-> form[i]]
        /\ \A i \in 1..Len(form) : form[i] \in Texts \X Texts
    BY <1>2, LenProperties, ElementOfSeq DEF Forms
  <2>2. ASSUME NEW i \in 1..Len(form) PROVE form[i] \in CleanTexts \X CleanTexts
    <3>1. PICK name \in Texts, value \in Texts : form[i] = <<name, value>>
      BY <2>1
    <3>2. 255 \notin ToSet(name) /\ 255 \notin ToSet(value)
      BY <1>1, <2>1, <3>1
    <3>3. name \in CleanTexts /\ value \in CleanTexts
      BY <3>2, CleanText
    <3> QED
      BY <3>1, <3>3
  <2> QED
    BY <2>1, <2>2
<1>4. Parsed(Wire(form)) = [ok |-> TRUE, fields |-> FirstValues(form)]
  BY <1>1, <1>3, FormArrives
<1> QED
  BY <1>2, <1>4

\* The reply to a request without a form.
LEMMA NoFormArrives ==
    ASSUME last'.sent = <<>>
    PROVE  FieldsArrive'
BY DEF FieldsArrive

----------------------------------------------------------------------------
(* The inductive invariant of the texts.                                     *)

TextsInv == CodesFit /\ StatusOK /\ FieldsArrive /\ FoundByItsCode

\* A request that replies about no row and finds nothing.
LEMMA OtherRepliesFind ==
    ASSUME last'.op \notin {"getCurrency", "postRate", "patchRate", "getRate"}
    PROVE  FoundByItsCode'
BY DEF FoundByItsCode

\* A currency: the one action that adds a code.
LEMMA PostCurrencyTexts ==
    ASSUME TextsInv, PostCurrency
    PROVE  TextsInv'
<1>1. PICK sent \in Sent(CurrencyForms) :
        /\ last'.op = "postCurrency" /\ last'.sent = sent.form
        /\ last'.arrived = Parsed(sent.body).fields
        /\ StatusOK'
        /\ \/ UNCHANGED currencies
           \/ /\ CurrencyFits(Parsed(sent.body).fields)
              /\ currencies' = currencies \cup {CurrencyCode(Parsed(sent.body).fields)}
  <2>1. PICK sent \in Sent(CurrencyForms) :
          LET form == Parsed(sent.body)
              refusal == Refusal(form, CurrencyFits(form.fields))
              Reply(status) == \E dto : last' = [Blank EXCEPT !.op = "postCurrency",
                !.sent = sent.form, !.arrived = form.fields, !.status = status,
                !.dto = dto]
          IN \/ /\ Reply(refusal) \/ Reply("conflict") \/ Reply("dbError")
                /\ UNCHANGED currencies
             \/ /\ refusal = "none" /\ Reply("ok")
                /\ currencies' = currencies \cup {CurrencyCode(form.fields)}
    BY DEF PostCurrency
  <2> DEFINE form == Parsed(sent.body)
             fits == CurrencyFits(form.fields)
             refusal == Refusal(form, fits)
  <2>2. refusal = "none" => fits
    BY DEF Refusal
  <2>3. refusal \in {"none", "error", "badRequest"}
    BY DEF Refusal
  <2> QED
    BY <2>1, <2>2, <2>3 DEF Blank, StatusOK
<1>2. CodesFit'
  <2>1. CASE UNCHANGED currencies
    BY <2>1 DEF TextsInv, CodesFit
  <2>2. CASE /\ CurrencyFits(Parsed(sent.body).fields)
             /\ currencies' = currencies \cup {CurrencyCode(Parsed(sent.body).fields)}
    <3> DEFINE fields == Parsed(sent.body).fields
    <3>1. Code \in DOMAIN fields /\ fields[Code] # <<>> /\ Len(fields[Code]) <= MaxCode
      BY <2>2 DEF CurrencyFits, Fits, Has
    <3>2. fields[Code] \in Texts
      BY <3>1, FormsAreForms, BodyOfForm, ParsedType
    <3>3. CurrencyCode(fields) = ToUpper(fields[Code])
      BY DEF CurrencyCode
    <3> HIDE DEF fields
    <3>4. Len(fields[Code]) \in 1..MaxCode
      <4>1. Len(fields[Code]) \in Nat \ {0}
        BY <3>1, <3>2, EmptySeq DEF Texts
      <4>2. Len(fields[Code]) <= 3
        BY <3>1 DEF MaxCode
      <4>3. Len(fields[Code]) \in 1..3
        <5>1. \A n \in Nat \ {0} : n <= 3 => n \in 1..3
          OBVIOUS
        <5> QED
          BY <4>1, <4>2, <5>1, Zenon
      <4> QED
        BY <4>3 DEF MaxCode
    <3>5. CurrencyCode(fields) \in Texts /\ Len(CurrencyCode(fields)) \in 1..MaxCode
      BY <3>2, <3>3, <3>4, ToUpperProperties
    <3> QED
      BY <2>2, <3>5 DEF TextsInv, CodesFit, fields
  <2> QED
    BY <1>1, <2>1, <2>2
<1>3. FieldsArrive'
  BY <1>1, FormsAreForms, FormFieldsArrive
<1>4. FoundByItsCode'
  BY <1>1, OtherRepliesFind
<1> QED
  BY <1>1, <1>2, <1>3, <1>4 DEF TextsInv

----------------------------------------------------------------------------
(* Pairs of codes.                                                           *)

\* Two texts are the same but for case when their halves are.
LEMMA SameCodesJoined ==
    ASSUME NEW a \in Texts, NEW b \in Texts, NEW c \in Texts, NEW d \in Texts
    PROVE  /\ SameCode(a, c) /\ SameCode(b, d) => SameCode(a \o b, c \o d)
           /\ Len(a) = Len(c) /\ SameCode(a \o b, c \o d) =>
                SameCode(a, c) /\ SameCode(b, d)
<1>1. /\ ToUpper(a \o b) = ToUpper(a) \o ToUpper(b)
      /\ ToUpper(c \o d) = ToUpper(c) \o ToUpper(d)
  BY ToUpperConcat
<1>2. /\ ToUpper(a) \in Texts /\ ToUpper(b) \in Texts
      /\ ToUpper(c) \in Texts /\ ToUpper(d) \in Texts
      /\ Len(ToUpper(a)) = Len(a) /\ Len(ToUpper(c)) = Len(c)
  BY ToUpperProperties
<1>3. ASSUME Len(a) = Len(c), SameCode(a \o b, c \o d)
      PROVE  SameCode(a, c) /\ SameCode(b, d)
  <2>1. ToUpper(a) \o ToUpper(b) = ToUpper(c) \o ToUpper(d)
    BY <1>1, <1>3 DEF SameCode
  <2>2. ToUpper(a) = ToUpper(c) /\ ToUpper(b) = ToUpper(d)
    BY <1>2, <1>3, <2>1, ConcatSplits
  <2> QED
    BY <2>2 DEF SameCode
<1>4. ASSUME SameCode(a, c), SameCode(b, d) PROVE SameCode(a \o b, c \o d)
  BY <1>1, <1>4 DEF SameCode
<1> QED
  BY <1>3, <1>4

\* Case changes no size.
LEMMA SameSize ==
    ASSUME NEW a \in Texts, NEW b \in Texts, SameCode(a, b)
    PROVE  Len(a) = Len(b)
BY ToUpperProperties DEF SameCode

\* The rows that are found for two codes.
LEMMA RowsOfCodes ==
    ASSUME CodesFit, NEW a \in Texts, NEW b \in Texts,
           NEW p \in ByCode(ToUpper(a)) \X ByCode(ToUpper(b))
    PROVE  SameCode(p[1] \o p[2], a \o b)
<1>1. /\ p[1] \in Texts /\ p[2] \in Texts
      /\ SameCode(p[1], ToUpper(a)) /\ SameCode(p[2], ToUpper(b))
  BY DEF CodesFit, ByCode
<1>2. SameCode(p[1], a) /\ SameCode(p[2], b)
  BY <1>1, ToUpperTwice DEF SameCode
<1> QED
  BY <1>1, <1>2, SameCodesJoined

\* So the rows of a pair are the ones that were asked for.
LEMMA RowsOfPair ==
    ASSUME CodesFit, NEW asked \in Texts, IsCurrPair(asked), NEW p \in PairsOf(asked)
    PROVE  SameCode(p[1] \o p[2], asked)
<1>1. PICK a \in Texts, b \in Texts :
        /\ asked = a \o b
        /\ a = ParseCurrPair(asked)[1] /\ b = ParseCurrPair(asked)[2]
  BY PairOfCodes
<1>2. p \in ByCode(ToUpper(a)) \X ByCode(ToUpper(b))
  BY <1>1 DEF PairsOf
<1> QED
  BY <1>1, <1>2, RowsOfCodes

\* The other way round: a pair of rows with codes of three is found by them.
LEMMA PairOfRows ==
    ASSUME CodesFit, NEW asked \in Texts, NEW p \in currencies \X currencies,
           Len(p[1]) = 3, Len(p[2]) = 3, SameCode(p[1] \o p[2], asked)
    PROVE  IsCurrPair(asked) /\ p \in PairsOf(asked)
<1>1. p[1] \in Texts /\ p[2] \in Texts /\ p = <<p[1], p[2]>>
      /\ p[1] \in currencies /\ p[2] \in currencies
  BY DEF CodesFit
<1>2. p[1] \o p[2] \in Texts /\ Len(p[1] \o p[2]) = 6
  <2> DEFINE a == p[1]
             b == p[2]
  <2>1. a \in Seq(Bytes) /\ b \in Seq(Bytes) /\ Len(a) = 3 /\ Len(b) = 3
    BY <1>1 DEF Texts
  <2> HIDE DEF a, b
  <2>2. a \o b \in Seq(Bytes) /\ Len(a \o b) = Len(a) + Len(b)
    BY <2>1, ConcatProperties
  <2>3. a \o b \in Texts /\ Len(a \o b) = 6
    BY <2>1, <2>2 DEF Texts
  <2> QED
    BY <2>3 DEF a, b
<1>3. Len(asked) = 6
  BY <1>2, SameSize
<1>4. IsCurrPair(asked)
  BY <1>3 DEF IsCurrPair
<1>5. PICK a \in Texts, b \in Texts :
        /\ Len(a) = 3 /\ Len(b) = 3 /\ asked = a \o b
        /\ a = ParseCurrPair(asked)[1] /\ b = ParseCurrPair(asked)[2]
  BY <1>4, PairOfCodes
<1>6. SameCode(p[1], a) /\ SameCode(p[2], b)
  BY <1>1, <1>5, SameCodesJoined
<1>7. p[1] \in ByCode(ToUpper(a)) /\ p[2] \in ByCode(ToUpper(b))
  BY <1>1, <1>6, ToUpperTwice DEF ByCode, SameCode
<1> QED
  BY <1>1, <1>4, <1>5, <1>7 DEF PairsOf

----------------------------------------------------------------------------
(* What a request finds.                                                     *)

\* A new rate is between the rows that were meant.
LEMMA PostRateTexts ==
    ASSUME TextsInv, PostRate
    PROVE  TextsInv'
<1>1. PICK sent \in Sent(RateForms) :
        /\ last'.op = "postRate" /\ last'.sent = sent.form
        /\ last'.arrived = Parsed(sent.body).fields
        /\ UNCHANGED currencies
        /\ StatusOK'
        /\ \/ last'.status # "ok"
           \/ \E p \in ByCode(ToUpper(Parsed(sent.body).fields[BaseCode]))
                      \X ByCode(ToUpper(Parsed(sent.body).fields[TargetCode])) :
                /\ RateFits(Parsed(sent.body).fields)
                /\ last'.dto.found = p
  <2>1. PICK sent \in Sent(RateForms) :
          LET form == Parsed(sent.body)
              refusal == Refusal(form, RateFits(form.fields))
              Reply(status, dto) == last' = [Blank EXCEPT !.op = "postRate",
                !.sent = sent.form, !.arrived = form.fields, !.status = status,
                !.dto = dto]
          IN /\ UNCHANGED currencies
             /\ \/ \E dto : \E status \in {refusal, "notFound", "dbError", "conflict"} :
                     Reply(status, dto)
                \/ /\ refusal = "none"
                   /\ \E p \in ByCode(ToUpper(form.fields[BaseCode]))
                             \X ByCode(ToUpper(form.fields[TargetCode])) :
                        Reply("ok", ExchangeRateDto(p, rates'[p]))
    BY DEF PostRate
  <2> DEFINE form == Parsed(sent.body)
             fits == RateFits(form.fields)
             refusal == Refusal(form, fits)
  <2>2. refusal = "none" => fits
    BY DEF Refusal
  <2>3. refusal \in {"none", "error", "badRequest"}
    BY DEF Refusal
  <2>4. \A p, units : ExchangeRateDto(p, units).found = p
    BY DEF ExchangeRateDto, NoDto
  <2>5. CASE \E dto : \E status \in {refusal, "notFound", "dbError", "conflict"} :
               last' = [Blank EXCEPT !.op = "postRate", !.sent = sent.form,
                         !.arrived = form.fields, !.status = status, !.dto = dto]
    <3>1. /\ last'.op = "postRate" /\ last'.sent = sent.form
          /\ last'.arrived = form.fields
          /\ last'.status \in {refusal, "notFound", "dbError", "conflict"}
      <4> HIDE DEF form, refusal
      <4> QED
        BY <2>5 DEF Blank
    <3>2. StatusOK' /\ last'.status # "ok"
      BY <2>3, <3>1 DEF StatusOK
    <3> QED
      BY <2>1, <3>1, <3>2
  <2>6. CASE /\ refusal = "none"
             /\ \E p \in ByCode(ToUpper(form.fields[BaseCode]))
                       \X ByCode(ToUpper(form.fields[TargetCode])) :
                  last' = [Blank EXCEPT !.op = "postRate", !.sent = sent.form,
                            !.arrived = form.fields, !.status = "ok",
                            !.dto = ExchangeRateDto(p, rates'[p])]
    <3>1. PICK p \in ByCode(ToUpper(form.fields[BaseCode]))
                     \X ByCode(ToUpper(form.fields[TargetCode])) :
            /\ last'.op = "postRate" /\ last'.sent = sent.form
            /\ last'.arrived = form.fields /\ last'.status = "ok"
            /\ last'.dto = ExchangeRateDto(p, rates'[p])
      <4> HIDE DEF form, refusal
      <4> QED
        BY <2>6 DEF Blank
    <3>2. StatusOK' /\ last'.dto.found = p /\ fits
      BY <2>2, <2>4, <2>6, <3>1 DEF StatusOK
    <3> QED
      BY <2>1, <3>1, <3>2
  <2> QED
    BY <2>1, <2>5, <2>6
<1>2. CodesFit'
  BY <1>1 DEF TextsInv, CodesFit
<1>3. FieldsArrive'
  BY <1>1, FormsAreForms, FormFieldsArrive
<1>4. FoundByItsCode'
  <2>1. CASE last'.status # "ok"
    BY <1>1, <2>1 DEF FoundByItsCode
  <2>2. CASE \E p \in ByCode(ToUpper(Parsed(sent.body).fields[BaseCode]))
                    \X ByCode(ToUpper(Parsed(sent.body).fields[TargetCode])) :
               /\ RateFits(Parsed(sent.body).fields)
               /\ last'.dto.found = p
    <3> DEFINE fields == Parsed(sent.body).fields
    <3>1. {BaseCode, TargetCode} \subseteq DOMAIN fields
      BY <2>2 DEF RateFits, Fits, Has
    <3>2. fields[BaseCode] \in Texts /\ fields[TargetCode] \in Texts
      BY <3>1, FormsAreForms, BodyOfForm, ParsedType
    <3> HIDE DEF fields
    <3>3. PICK p \in ByCode(ToUpper(fields[BaseCode])) \X ByCode(ToUpper(fields[TargetCode])) :
            last'.dto.found = p
      BY <2>2 DEF fields
    <3>4. SameCode(p[1] \o p[2], fields[BaseCode] \o fields[TargetCode])
      BY <3>2, RowsOfCodes DEF TextsInv
    <3>5. last'.arrived = fields
      BY <1>1 DEF fields
    <3> QED
      BY <1>1, <3>3, <3>4, <3>5 DEF FoundByItsCode
  <2> QED
    BY <1>1, <2>1, <2>2
<1> QED
  BY <1>1, <1>2, <1>3, <1>4 DEF TextsInv

\* A change of a rate is, too.
LEMMA PatchRateTexts ==
    ASSUME TextsInv, PatchRate
    PROVE  TextsInv'
<1>1. PICK asked \in PairLookups, sent \in Sent(PatchForms) :
        /\ last'.op = "patchRate" /\ last'.asked = asked
        /\ \/ last'.sent = <<>>
           \/ last'.sent = sent.form /\ last'.arrived = Parsed(sent.body).fields
        /\ UNCHANGED currencies
        /\ StatusOK'
        /\ \/ last'.status # "ok"
           \/ \E p \in PairsOf(asked) : IsCurrPair(asked) /\ last'.dto.found = p
  <2>1. PICK asked \in PairLookups, sent \in Sent(PatchForms) :
          LET form == Parsed(sent.body)
              refusal == Refusal(form, Fits(form.fields, Rate, MaxRate))
              Reply(status, dto) == last' = [Blank EXCEPT !.op = "patchRate",
                !.asked = asked, !.sent = sent.form, !.arrived = form.fields,
                !.status = status, !.dto = dto]
          IN /\ UNCHANGED currencies
             /\ \/ last' = [Blank EXCEPT !.op = "patchRate", !.asked = asked,
                                          !.status = PairRefusal(asked)]
                \/ \E dto : \E status \in {refusal, "notFound", "dbError"} :
                     Reply(status, dto)
                \/ /\ PairRefusal(asked) = "none"
                   /\ \E p \in PairsOf(asked) : Reply("ok", ExchangeRateDto(p, rates'[p]))
    BY DEF PatchRate
  <2> DEFINE form == Parsed(sent.body)
             refusal == Refusal(form, Fits(form.fields, Rate, MaxRate))
  <2>2. /\ PairRefusal(asked) = "none" => IsCurrPair(asked)
        /\ PairRefusal(asked) \in {"none", "noRoute", "badRequest"}
    BY DEF PairRefusal
  <2>3. refusal \in {"none", "error", "badRequest"}
    BY DEF Refusal
  <2>4. \A p, units : ExchangeRateDto(p, units).found = p
    BY DEF ExchangeRateDto, NoDto
  <2>5. CASE last' = [Blank EXCEPT !.op = "patchRate", !.asked = asked,
                                   !.status = PairRefusal(asked)]
    <3>1. /\ last'.op = "patchRate" /\ last'.asked = asked
          /\ last'.sent = <<>> /\ last'.status = PairRefusal(asked)
      BY <2>5 DEF Blank
    <3>2. StatusOK' /\ last'.status # "ok"
      BY <2>2, <3>1 DEF StatusOK
    <3> QED
      BY <2>1, <3>1, <3>2
  <2>6. CASE \E dto : \E status \in {refusal, "notFound", "dbError"} :
               last' = [Blank EXCEPT !.op = "patchRate", !.asked = asked,
                         !.sent = sent.form, !.arrived = form.fields,
                         !.status = status, !.dto = dto]
    <3>1. /\ last'.op = "patchRate" /\ last'.asked = asked
          /\ last'.sent = sent.form /\ last'.arrived = form.fields
          /\ last'.status \in {refusal, "notFound", "dbError"}
      <4> HIDE DEF form, refusal
      <4> QED
        BY <2>6 DEF Blank
    <3>2. StatusOK' /\ last'.status # "ok"
      BY <2>3, <3>1 DEF StatusOK
    <3> QED
      BY <2>1, <3>1, <3>2
  <2>7. CASE /\ PairRefusal(asked) = "none"
             /\ \E p \in PairsOf(asked) :
                  last' = [Blank EXCEPT !.op = "patchRate", !.asked = asked,
                            !.sent = sent.form, !.arrived = form.fields,
                            !.status = "ok", !.dto = ExchangeRateDto(p, rates'[p])]
    <3>1. PICK p \in PairsOf(asked) :
            /\ last'.op = "patchRate" /\ last'.asked = asked
            /\ last'.sent = sent.form /\ last'.arrived = form.fields
            /\ last'.status = "ok" /\ last'.dto = ExchangeRateDto(p, rates'[p])
      <4> HIDE DEF form
      <4> QED
        BY <2>7 DEF Blank
    <3>2. StatusOK' /\ last'.dto.found = p /\ IsCurrPair(asked)
      BY <2>2, <2>4, <2>7, <3>1 DEF StatusOK
    <3> QED
      BY <2>1, <3>1, <3>2
  <2> QED
    BY <2>1, <2>5, <2>6, <2>7
<1>2. CodesFit'
  BY <1>1 DEF TextsInv, CodesFit
<1>3. FieldsArrive'
  BY <1>1, FormsAreForms, FormFieldsArrive, NoFormArrives
<1>4. FoundByItsCode'
  <2>1. asked \in Texts
    BY LookupsAreTexts
  <2>2. last'.status = "ok" => SameCode(last'.dto.found[1] \o last'.dto.found[2], asked)
    BY <1>1, <2>1, RowsOfPair DEF TextsInv
  <2> QED
    BY <1>1, <2>2 DEF FoundByItsCode
<1> QED
  BY <1>1, <1>2, <1>3, <1>4 DEF TextsInv

\* A lookup sends no form.
LEMMA LookupTexts ==
    ASSUME CodesFit, NEW op, NEW asked, NEW status, NEW dto,
           Lookup(op, asked, status, dto)
    PROVE  CodesFit' /\ FieldsArrive'
<1>1. UNCHANGED currencies /\ last'.sent = <<>>
  BY DEF Lookup, Blank
<1>2. CodesFit'
  BY <1>1 DEF CodesFit
<1> QED
  BY <1>1, <1>2, NoFormArrives

\* No code is empty.
LEMMA NoCodeIsEmpty ==
    ASSUME CodesFit
    PROVE  ByCode(<<>>) = {}
<1> SUFFICES ASSUME NEW c \in currencies, SameCode(c, <<>>) PROVE FALSE
  BY DEF ByCode
<1>1. c \in Texts /\ Len(c) # 0 /\ <<>> \in Texts
  BY EmptySeq DEF CodesFit, Texts
<1>2. Len(c) = 0
  BY <1>1, SameSize, EmptySeq
<1> QED
  BY <1>1, <1>2

\* What a lookup of a currency finds.
LEMMA GetCurrencyTexts ==
    ASSUME TextsInv, GetCurrency
    PROVE  TextsInv'
<1>1. PICK asked \in Lookups :
        \/ ~ IsSegment(asked) /\ Lookup("getCurrency", asked, "noRoute", NoDto)
        \/ asked = <<>> /\ Lookup("getCurrency", asked, "badRequest", NoDto)
        \/ ByCode(asked) = {} /\ Lookup("getCurrency", asked, "notFound", NoDto)
        \/ \E c \in ByCode(asked) : Lookup("getCurrency", asked, "ok", CurrencyDto(c))
  BY DEF GetCurrency
<1>2. CodesFit' /\ FieldsArrive'
  BY <1>1, LookupTexts DEF TextsInv
<1>3. StatusOK'
  BY <1>1, LookupReplies DEF StatusOK
<1>4. UNCHANGED currencies /\ last'.op = "getCurrency" /\ last'.asked = asked
  BY <1>1, LookupReplies
<1>5. asked \in Texts
  BY LookupsAreTexts
<1>6. IF last'.status = "ok" THEN SameCode(last'.dto.found, asked)
      ELSE Plain(asked) => ByCode(asked) = {}
  <2>1. CASE ~ IsSegment(asked) /\ last'.status = "noRoute"
    BY <1>5, <2>1, PlainIsSegment
  <2>2. CASE asked = <<>> /\ last'.status = "badRequest"
    BY <2>2, NoCodeIsEmpty DEF TextsInv
  <2>3. CASE ByCode(asked) = {} /\ last'.status = "notFound"
    BY <2>3
  <2>4. CASE \E c \in ByCode(asked) : last'.dto = CurrencyDto(c) /\ last'.status = "ok"
    BY <2>4 DEF ByCode, CurrencyDto, NoDto
  <2> QED
    BY <1>1, <2>1, <2>2, <2>3, <2>4, LookupReplies
<1>7. ByCode(asked)' = ByCode(asked)
  BY <1>4 DEF ByCode
<1>8. FoundByItsCode'
  BY <1>4, <1>6, <1>7 DEF FoundByItsCode, ByCode
<1> QED
  BY <1>2, <1>3, <1>8 DEF TextsInv

\* What a lookup of a rate finds.
LEMMA GetRateTexts ==
    ASSUME TextsInv, UpperCodes, RatesInv, GetRate
    PROVE  TextsInv'
<1>1. PICK asked \in PairLookups :
        \/ /\ PairRefusal(asked) # "none"
           /\ Lookup("getRate", asked, PairRefusal(asked), NoDto)
        \/ /\ PairRefusal(asked) = "none" /\ PairsOf(asked) = {}
           /\ Lookup("getRate", asked, "notFound", NoDto)
        \/ /\ PairRefusal(asked) = "none"
           /\ \E p \in PairsOf(asked) :
                \/ /\ p \in DOMAIN rates
                   /\ Lookup("getRate", asked, "ok", ExchangeRateDto(p, rates[p]))
                \/ /\ p \notin DOMAIN rates
                   /\ Lookup("getRate", asked, "notFound", NoDto)
  BY DEF GetRate
<1>2. CodesFit' /\ FieldsArrive'
  BY <1>1, LookupTexts DEF TextsInv
<1>3. PairRefusal(asked) \in {"none", "noRoute", "badRequest"}
  BY DEF PairRefusal
<1>4. StatusOK'
  BY <1>1, <1>3, LookupReplies DEF StatusOK
<1>5. /\ UNCHANGED <<currencies, rates, given>>
      /\ last'.op = "getRate" /\ last'.asked = asked
  BY <1>1, LookupReplies
<1>6. asked \in Texts
  BY LookupsAreTexts
<1>7. last'.status = "ok" => SameCode(last'.dto.found[1] \o last'.dto.found[2], asked)
  <2> SUFFICES ASSUME last'.status = "ok"
               PROVE  SameCode(last'.dto.found[1] \o last'.dto.found[2], asked)
    OBVIOUS
  <2>1. PICK p \in PairsOf(asked) :
          PairRefusal(asked) = "none" /\ last'.dto = ExchangeRateDto(p, rates[p])
    BY <1>1, <1>3, LookupReplies
  <2>2. IsCurrPair(asked) /\ last'.dto.found = p
    BY <2>1 DEF PairRefusal, ExchangeRateDto, NoDto
  <2> QED
    BY <1>6, <2>2, RowsOfPair DEF TextsInv
<1>8. ASSUME last'.status # "ok", Plain(asked), NEW p \in DOMAIN rates,
             Len(p[1]) = 3, Len(p[2]) = 3, SameCode(p[1] \o p[2], asked)
      PROVE  FALSE
  <2>1. p \in currencies \X currencies
    BY DEF RatesInv
  <2>2. IsSegment(asked)
    BY <1>6, <1>8, PlainIsSegment
  <2>3. IsCurrPair(asked) /\ p \in PairsOf(asked)
    BY <1>6, <1>8, <2>1, PairOfRows DEF TextsInv
  <2>4. PairRefusal(asked) = "none"
    BY <2>2, <2>3 DEF PairRefusal
  <2>5. PICK q \in PairsOf(asked) : q \notin DOMAIN rates
    BY <1>1, <1>8, <2>3, <2>4, LookupReplies
  <2>6. p = q
    <3>1. /\ p = <<p[1], p[2]>> /\ q = <<q[1], q[2]>>
          /\ {p[1], p[2], q[1], q[2]} \subseteq currencies
          /\ SameCode(p[1], q[1]) /\ SameCode(p[2], q[2])
      BY <2>3 DEF PairsOf, ByCode, SameCode
    <3>2. p[1] = q[1] /\ p[2] = q[2]
      BY <3>1 DEF UpperCodes, SameCode
    <3> QED
      BY <3>1, <3>2
  <2> QED
    BY <1>8, <2>5, <2>6
<1>9. FoundByItsCode'
  BY <1>5, <1>7, <1>8 DEF FoundByItsCode
<1> QED
  BY <1>2, <1>4, <1>9 DEF TextsInv

LEMMA GetExchangeTexts ==
    ASSUME TextsInv, GetExchange
    PROVE  TextsInv'
<1>1. PICK query \in Exchanges :
        \E dto, status : /\ Lookup("getExchange", query, status, dto)
                         /\ status \in {"badRequest", "notFound", "error", "ok"}
  BY DEF GetExchange
<1>2. CodesFit' /\ FieldsArrive'
  BY <1>1, LookupTexts DEF TextsInv
<1>3. StatusOK' /\ last'.op = "getExchange"
  BY <1>1, LookupReplies DEF StatusOK
<1> QED
  BY <1>2, <1>3, OtherRepliesFind DEF TextsInv

LEMMA StepTexts ==
    ASSUME TextsInv, UpperCodes, RatesInv, [Next]_vars
    PROVE  TextsInv'
<1>1. CASE PostCurrency
  BY <1>1, PostCurrencyTexts
<1>2. CASE PostRate
  BY <1>2, PostRateTexts
<1>3. CASE PatchRate
  BY <1>3, PatchRateTexts
<1>4. CASE GetCurrency
  BY <1>4, GetCurrencyTexts
<1>5. CASE GetRate
  BY <1>5, GetRateTexts
<1>6. CASE GetExchange
  BY <1>6, GetExchangeTexts
<1>7. CASE ReadReply
  <2>1. /\ UNCHANGED currencies /\ last'.sent = <<>>
        /\ last'.op = "none" /\ last'.status = "none"
    BY <1>7 DEF ReadReply, Blank
  <2> QED
    BY <2>1, NoFormArrives, OtherRepliesFind DEF TextsInv, CodesFit, StatusOK
<1>8. CASE UNCHANGED vars
  BY <1>8 DEF vars, TextsInv, CodesFit, StatusOK, FieldsArrive, FoundByItsCode, ByCode
<1> QED
  BY <1>1, <1>2, <1>3, <1>4, <1>5, <1>6, <1>7, <1>8 DEF Next, Request

LEMMA InitTexts == Init => TextsInv
BY DEF Init, Blank, TextsInv, CodesFit, StatusOK, FieldsArrive, FoundByItsCode

\* The type invariant is part of the two.
LEMMA TypeFollows ==
    ASSUME CodesFit, StatusOK, RatesInv
    PROVE  TypeOK
BY DEF CodesFit, StatusOK, RatesInv, TypeOK, Texts

----------------------------------------------------------------------------
(* The inductive invariant holds.                                            *)

IInv == NumbersInv /\ TextsInv

LEMMA InitInv == Init => IInv
BY InitNumbers, InitTexts DEF IInv

LEMMA StepInv ==
    ASSUME IInv, [Next]_vars
    PROVE  IInv'
<1>1. NumbersInv'
  BY StepNumbers DEF IInv
<1>2. TextsInv'
  BY StepTexts DEF IInv, NumbersInv
<1> QED
  BY <1>1, <1>2 DEF IInv

\* The inductive invariant holds in every reachable state: codes in the table are
\* in upper case and of one to three bytes, rates are between rows and what their
\* texts were rounded to, and the last reply is as it should be.
THEOREM Invariance == Spec => []IInv
<1>1. IInv /\ [Next]_vars => IInv'
  BY StepInv
<1> QED
  BY InitInv, <1>1, PTL DEF Spec

\* The tables hold only what their columns can take, whatever bodies are sent:
\* the checks of ParseRequest leave PostgreSQL no length to refuse.
THEOREM TypeCorrect == Spec => []TypeOK
<1>1. IInv => TypeOK
  BY TypeFollows DEF IInv, NumbersInv, TextsInv
<1> QED
  BY <1>1, Invariance, PTL

\* For every form without the byte 255: the handler gets the names and values
\* that the client filled in, through UrlEncode, the splits and UrlDecode of
\* url_coding.cpp and x_www_form_urlencoded.cpp.
THEOREM FormsComeThrough == Spec => []FieldsArrive
<1>1. IInv => FieldsArrive
  BY DEF IInv, TextsInv
<1> QED
  BY <1>1, Invariance, PTL

\* No two rows of currencies have codes that differ in case only, whatever codes
\* are sent (post_currencies.cpp stores them in upper case): otherwise the
\* cache, which compares them without case, could find only one.
THEOREM CodesDifferInMoreThanCase == Spec => []OneRowPerCode
<1>1. IInv => OneRowPerCode
  BY DEF IInv, NumbersInv, UpperCodes, OneRowPerCode, SameCode
<1> QED
  BY <1>1, Invariance, PTL

\* For all texts that are asked for: a lookup answers about the row that was
\* meant, in whichever case, and says that there is none only when there is
\* none; and a rate is created or changed for the two codes that were sent.
THEOREM RowsAreFoundByTheirCodes == Spec => []FoundByItsCode
<1>1. IInv => FoundByItsCode
  BY DEF IInv, TextsInv
<1> QED
  BY <1>1, Invariance, PTL

\* For every scale and precision, all rates and amounts: if the rates say what the
\* currencies are worth, a reply does so, rounded to the hundredth and but for the
\* last digit of a quotient, by whichever of the three ways of get_exchange.cpp a
\* conversion is made; and it is null only after a rate that is no number or rounds
\* to nothing, or for an amount that is none.
THEOREM ConversionsSayTheWorth == Spec => []ConversionsAgree
<1>1. IInv => ConversionsAgree
  BY DEF IInv, NumbersInv
<1> QED
  BY <1>1, Invariance, PTL

=============================================================================
